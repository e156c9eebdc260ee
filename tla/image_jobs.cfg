CONSTANTS
  w1 = w1
  w2 = w2
  NoWorker = NoWorker
  Workers <- MCTwo
  Overrun = TRUE
  MaxFaults = 2
  MaxTurns = 2
SPECIFICATION FairSpec
CHECK_DEADLOCK FALSE
INVARIANTS
  SentOnce
  RetryIsFree
  ChargedOnce
PROPERTIES
  ClosedStaysClosed
  SlotComesFree
