CONSTANTS
  c1 = c1 c2 = c2
  Clients = {c1, c2}
  Main = Main
  Free = Free
  MaxConc = 1
  MaxFd = 2
  MaxEvents = 1
  Kinds = {"get", "silent"}
SPECIFICATION FairSpec
PROPERTIES EveryTokenAnswered
