CONSTANTS
  i1 = i1
  i2 = i2
  w1 = w1
  w2 = w2
  NoWorker = NoWorker
  NoIssue = NoIssue
  Issues <- MCOne
  Subscribers <- MCSubscribers
  Workers <- MCTwo
  BatchSize = 2
  Caps <- MCCaps
  MaxFaults = 1
  MaxActs = 1
SPECIFICATION FairSpec
CHECK_DEADLOCK FALSE
INVARIANTS
  MailedOnce
  NobodyForgotten
  CapKept
  ApprovedOnly
PROPERTIES
  Finishes
