CONSTANTS
  h1 = h1 h2 = h2
  k1 = k1
  Handlers = {h1, h2}
  Keys = {k1}
  RL_LIMIT = 3
  RL_WINDOW = 2
  MaxTime = 8
  MaxStale = 1
  MaxCount = 4
SYMMETRY Symmetry
SPECIFICATION Spec
INVARIANTS TypeOK SlidingBound OwnSlot
PROPERTIES RetryHonoured
