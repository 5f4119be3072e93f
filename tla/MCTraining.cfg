CONSTANTS
  Labels <- FiveRows
  ValNum = 2
  ValDen = 5
  Batch = 3
  Epochs = 4
  Patience = 2
  Losses <- MCLosses
  NaN = NaN
  Inf <- MCInf
SPECIFICATION Spec
INVARIANTS TypeOK EpochCovers NearBest StopReturnsBest PatienceHonoured
