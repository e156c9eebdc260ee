------------------------- MODULE MCTaskPaymentClaim -------------------------
(* Model values and symmetry for checking TaskPaymentClaim with TLC.       *)
EXTENDS TaskPaymentClaim, TLC

CONSTANTS c1, w1, w2

MCSymmetry == Permutations({w1, w2})
MCOneClaim == {c1}
MCWorkers == {w1, w2}
MCNoneCorrupt == {}
=============================================================================
