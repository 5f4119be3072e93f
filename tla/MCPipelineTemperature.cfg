CONSTANTS
  p1 = p1
  p2 = p2
  Paths = {p1, p2}
  d1 = d1
  d2 = d2
  Datasets <- MCDatasets
  Rows = {1, 2}
  HeldOut <- MCHeldOut
  NoPath = NoPath
  NoData = NoData
  Raw = Raw
  Untrained = Untrained
  One = One
  None = None
  MaxRuns = 3
SPECIFICATION Spec
INVARIANT TemperatureStored
