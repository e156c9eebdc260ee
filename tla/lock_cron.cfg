CONSTANTS
  i1 = i1
  i2 = i2
  i3 = i3
  NoInvocation = NoInvocation
  Invocations <- MCThree
  LockTimeout = 4
  Buffer = 2
  MinSyncTimeout = 1
  StartDelay = 1
  MaxStep = 2
  Horizon = 6
  MaxFaults = 1
SPECIFICATION FairSpec
INVARIANTS
  OneAtWork
PROPERTIES
  LockMovesOn
