CONSTANTS
  x1 = x1
  x2 = x2
  w1 = w1
  w2 = w2
  NoWorker = NoWorker
  Transactions <- MCTransactions
  Workers <- MCWorkers
  LastTime = 3
  LastEpoch = 2
  Rule <- MCRule
  Target <- MCTarget
  Ahead = 3
  ReleaseLimit = 1
  CloseLimit = 1
  MaxFailures = 2
  MaxRevision = 2
SPECIFICATION FairSpec
CHECK_DEADLOCK FALSE
INVARIANTS
  ClosedOwesNothing
  OneTaskPerRun
  NoRunOverlooked
PROPERTIES
  ClosedIsStill
  CloseSettles
