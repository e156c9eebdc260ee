---------------------------- MODULE MCTaskCredits ----------------------------
(* A small wallet for checking TaskCredits with TLC: bucket 1 is there at  *)
(* the start, 2 is an invoice's, delivered twice, 3 is the refund of j1.   *)
EXTENDS TaskCredits, TLC

CONSTANTS e1, e2, j1, d1, d2, t1, t2, s1, s2

MCSymmetry == Permutations({s1, s2}) \cup Permutations({d1, d2})

MCWorth == <<1, 2, 0>>
MCRefs == (d1 :> {2}) @@ (d2 :> {2})
MCPrice == (e1 :> 2) @@ (e2 :> 1) @@ (j1 :> 1)
MCTaskOf == (e1 :> t1) @@ (e2 :> t2)
MCRefundOf == j1 :> 3
=============================================================================
