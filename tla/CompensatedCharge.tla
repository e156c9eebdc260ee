------------------------- MODULE CompensatedCharge --------------------------
(***************************************************************************)
(* What a workspace is promised when credits are taken for a purchase that *)
(* is made afterwards, outside the database: each item is charged at most  *)
(* once, then either settled or given back, and it is given back at most   *)
(* once, in the step that closes it.  Workers, leases, retries, lookups    *)
(* and operators do not appear.                                            *)
(*                                                                         *)
(* TaskPaymentClaim and TaskX402Payment implement this module.             *)
(***************************************************************************)
EXTENDS Integers

CONSTANTS
  Items,
  Goodwill   \* may a settled item still be given back?

VARIABLES
  outcome,   \* none, held, settled or returned, for each item
  credits    \* credits moved for each item so far

vars == <<outcome, credits>>

Init ==
  /\ outcome = [i \in Items |-> "none"]
  /\ credits = [i \in Items |-> 0]

Charge(i) ==
  /\ outcome[i] = "none"
  /\ outcome' = [outcome EXCEPT ![i] = "held"]
  /\ credits' = [credits EXCEPT ![i] = @ - 1]

Settle(i) ==
  /\ outcome[i] = "held"
  /\ outcome' = [outcome EXCEPT ![i] = "settled"]
  /\ UNCHANGED credits

GiveBack(i) ==
  /\ outcome[i] = "held" \/ (Goodwill /\ outcome[i] = "settled")
  /\ outcome' = [outcome EXCEPT ![i] = "returned"]
  /\ credits' = [credits EXCEPT ![i] = @ + 1]

Next == \E i \in Items : Charge(i) \/ Settle(i) \/ GiveBack(i)

Spec == Init /\ [][Next]_vars
=============================================================================
