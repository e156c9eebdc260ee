-------------------------- MODULE MCTaskX402Payment --------------------------
(* Model values and symmetry for checking TaskX402Payment with TLC.        *)
EXTENDS TaskX402Payment, TLC

CONSTANTS r1, r2, r3

MCSymmetry == Permutations({r1, r2, r3})
MCTwo == {r1, r2}
MCThree == {r1, r2, r3}
=============================================================================
