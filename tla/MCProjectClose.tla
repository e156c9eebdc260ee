--------------------------- MODULE MCProjectClose ---------------------------
(* A small schedule for checking ProjectClose with TLC: two rules, the     *)
(* second of which ends after two Runs.                                    *)
EXTENDS ProjectClose, TLC

CONSTANTS x1, x2, w1, w2

MCTransactions == {x1, x2}
MCWorkers == {w1, w2}
MCRule == <<{2}, {2, 3}>>
MCTarget == <<0, 2>>
=============================================================================
