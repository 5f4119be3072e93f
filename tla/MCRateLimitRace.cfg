CONSTANTS
  h1 = h1 h2 = h2
  Handlers = {h1, h2}
  Rate = 1000
  Burst = 1
  MaxMs = 4
  MaxAdmitted = 5
SPECIFICATION Spec
INVARIANTS KeyRateBound
