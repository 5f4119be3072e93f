CONSTANTS
  h1 = h1 h2 = h2
  Handlers = {h1, h2}
  Main = Main
  NoThread = NoThread
  MaxConc = 2
  MaxVersion = 2
  Encrypted = FALSE
SPECIFICATION FairSpec
INVARIANTS TypeOK PredictionWhole ReloadFresh MonotonicReads
PROPERTIES NoRollback RegisterRefinement HupApplied HupRepairs Answered
