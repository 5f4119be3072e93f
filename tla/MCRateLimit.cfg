CONSTANTS
  h1 = h1
  Handlers = {h1}
  Rate = 700
  Burst = 2
  MaxMs = 6
  MaxAdmitted = 5
SPECIFICATION Spec
INVARIANTS RateBound
PROPERTIES BucketRefinement
