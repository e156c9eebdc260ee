----------------------------- MODULE MCSyncLock -----------------------------
(* Model values and symmetry for checking SyncLock with TLC.               *)
EXTENDS SyncLock, TLC

CONSTANTS i1, i2, i3

MCSymmetry == Permutations({i1, i2, i3})
MCTwo == {i1, i2}
MCThree == {i1, i2, i3}
=============================================================================
