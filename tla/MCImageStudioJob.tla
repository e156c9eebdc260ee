-------------------------- MODULE MCImageStudioJob --------------------------
(* Model values and symmetry for checking ImageStudioJob with TLC.         *)
EXTENDS ImageStudioJob, TLC

CONSTANTS w1, w2

MCSymmetry == Permutations({w1, w2})
MCTwo == {w1, w2}
=============================================================================
