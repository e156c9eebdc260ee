---------------------------- MODULE CreditBalance ----------------------------
(***************************************************************************)
(* What a wallet is promised: each grant is received once, however often   *)
(* it is announced; each charge is taken once, in full, and never beyond   *)
(* the credits; each charge that can be given back is given back at most   *)
(* once, in full.  Buckets, expiry, transactions and deliveries do not     *)
(* appear.                                                                 *)
(*                                                                         *)
(* TaskCredits implements this module.                                     *)
(***************************************************************************)
EXTENDS Integers, FiniteSetsExt

CONSTANTS
  Grants, Worth,        \* what may be received, and its cents
  Charges, Price,       \* what may be charged, and its cents
  Returnable            \* charges that may be given back

VARIABLES
  credits,              \* cents received and given back, less those charged
  received, charged, returned

vars == <<credits, received, charged, returned>>

Total(S) == SumFunctionOnSet(Worth, S)

Init ==
  /\ received \in SUBSET Grants /\ credits = Total(received)
  /\ charged = {} /\ returned = {}

\* One invoice may stand for several grants.
Receive(S) ==
  /\ S # {} /\ S \cap received = {}
  /\ received' = received \cup S
  /\ credits' = credits + Total(S)
  /\ UNCHANGED <<charged, returned>>

Charge(c) ==
  /\ c \notin charged
  /\ Price[c] <= credits
  /\ charged' = charged \cup {c}
  /\ credits' = credits - Price[c]
  /\ UNCHANGED <<received, returned>>

GiveBack(c) ==
  /\ c \in (charged \cap Returnable) \ returned
  /\ returned' = returned \cup {c}
  /\ credits' = credits + Price[c]
  /\ UNCHANGED <<received, charged>>

Next ==
  \/ \E S \in SUBSET Grants : Receive(S)
  \/ \E c \in Charges : Charge(c) \/ GiveBack(c)

Spec == Init /\ [][Next]_vars
=============================================================================
