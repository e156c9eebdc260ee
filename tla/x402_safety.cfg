CONSTANTS
  r1 = r1
  r2 = r2
  r3 = r3
  Requests <- MCTwo
  MaxSignAttempts = 2
  MaxDispatchDelay = 1
  RequestTimeout = 1
  Skew = 1
  ValidFor = 1
  MaxValidFor = 1
  MinRemaining = 1
  PurgeSlack = 1
  CountingDelay = 0
  MaxTime = 8
SPECIFICATION Spec
SYMMETRY MCSymmetry
CHECK_DEADLOCK FALSE
INVARIANTS
  RefusedIsUnsigned
  ResolvedIsDead
  OneHeader
  PurgedIsDead
  OneSigner
PROPERTIES
  ImplementsCharge
