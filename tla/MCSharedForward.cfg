CONSTANTS
  h1 = h1 h2 = h2 g1 = g1 g2 = g2
  Calls <- MCCalls
  Messages <- MCMessages
  Private = {h1, h2}
  Service = Service
  Nothing = Nothing
SPECIFICATION Spec
INVARIANTS OwnRows
