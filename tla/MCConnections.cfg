CONSTANTS
  c1 = c1 c2 = c2 c3 = c3
  Clients = {c1, c2, c3}
  Main = Main
  Free = Free
  MaxConc = 2
  MaxFd = 3
  MaxEvents = 1
  Kinds = {"denied", "misfit", "badlength", "misfitstream", "silent"}
SPECIFICATION FairSpec
INVARIANTS TypeOK ConcurrencyLimit OneOwnAnswer AnswersCounted
PROPERTIES EveryoneAnswered
