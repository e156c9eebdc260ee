CONSTANTS
  w1 = w1
  w2 = w2
  NoWorker = NoWorker
  Workers <- MCTwo
  Overrun = FALSE
  MaxFaults = 0
  MaxTurns = 2
SPECIFICATION Spec
SYMMETRY MCSymmetry
CHECK_DEADLOCK FALSE
INVARIANT OrphanedKeepsNothing
