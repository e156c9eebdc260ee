CONSTANTS
  w1 = w1
  w2 = w2
  NoWorker = NoWorker
  Workers <- MCTwo
  LastPart = 2
  MaxAttempts = 2
  Overrun = TRUE
  MaxFaults = 1
  MaxActs = 2
SPECIFICATION FairSpec
CHECK_DEADLOCK FALSE
INVARIANTS
  PostedOnce
  PublishedIsLive
  Warned
  InOrder
  ClosedIsQuiet
PROPERTIES
  HolderSettles
  Rests
