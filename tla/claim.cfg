CONSTANTS
  c1 = c1
  w1 = w1
  w2 = w2
  NoWorker = NoWorker
  NoClaim = NoClaim
  Claims <- MCOneClaim
  Workers <- MCWorkers
  CorruptClaims <- MCNoneCorrupt
  ReviewAttempts = 3
  MaxFaults = 2
SPECIFICATION FairSpec
CHECK_DEADLOCK FALSE
INVARIANTS
  PurchasedIsLive
  RefundNeverLive
  LookupBeforeRepost
  OneBuyer
PROPERTIES
  ImplementsCharge
  Resolves
