---------------------------- MODULE PaymentNode ----------------------------
(***************************************************************************)
(* The Masumi payment node as apps/core sees it through                    *)
(* packages/masumi/src/clients/masumi-payment.client.ts: a remote service  *)
(* that holds at most one purchase per blockchain identifier.  A claim     *)
(* stands for its identifier, because the two are one to one               *)
(* (@@unique([network, blockchainIdentifier])).                            *)
(*                                                                         *)
(* The node itself is external.  What the client makes of its answers      *)
(* (Post, Lookup) is translated from the client.                           *)
(***************************************************************************)
CONSTANT Claims

VARIABLES
  purchase,   \* the purchase the node holds for each identifier
  inflight,   \* identifiers with a POST whose caller has stopped waiting
  accepting   \* identifiers whose terms the node would still accept

nodeVars == <<purchase, inflight, accepting>>

NodeTypeOK ==
  /\ purchase \in [Claims -> {"none", "ours", "foreign"}]
  /\ inflight \subseteq Claims
  /\ accepting \subseteq Claims

\* "foreign": a purchase with other terms already sits under the identifier.
NodeInit ==
  /\ purchase \in [Claims -> {"none", "foreign"}]
  /\ inflight = {}
  /\ accepting \in SUBSET Claims

Creates(c) == purchase[c] = "none" /\ c \in accepting

\* A POST whose caller gave up still reaches the node, or is lost.
SettleInflight(c) ==
  /\ c \in inflight
  /\ inflight' = inflight \ {c}
  /\ \/ Creates(c) /\ purchase' = [purchase EXCEPT ![c] = "ours"]
     \/ UNCHANGED purchase
  /\ UNCHANGED accepting

\* Terms go stale (payByTime passes, the price drifts): refusal is for good.
StopAccepting(c) ==
  /\ c \in accepting
  /\ accepting' = accepting \ {c}
  /\ UNCHANGED <<purchase, inflight>>

(***************************************************************************)
(* What POST /purchase does and comes back as.  A timeout, a 5xx or one of *)
(* RETRYABLE_INFRASTRUCTURE_STATUSES is "ambiguous": the purchase may be   *)
(* created yet.  Any other 4xx is "permanent"; a 409 is a "conflict" with  *)
(* a purchase that exists.                                                 *)
(***************************************************************************)
Post(c, answer) ==
  \/ /\ answer = "created"
     /\ Creates(c)
     /\ purchase' = [purchase EXCEPT ![c] = "ours"]
     /\ UNCHANGED <<inflight, accepting>>
  \/ /\ answer = "ambiguous"
     /\ inflight' = inflight \cup {c}
     /\ UNCHANGED <<purchase, accepting>>
  \/ /\ answer = "permanent"
     /\ c \notin accepting
     /\ UNCHANGED nodeVars
  \/ /\ answer = "conflict"
     /\ purchase[c] # "none"
     /\ UNCHANGED nodeVars

\* What resolve-blockchain-identifier comes back as: a purchase that matches
\* the durable payload or does not, a 404, or no usable answer.
Lookup(c, answer) ==
  \/ answer = "ok"        /\ purchase[c] = "ours"
  \/ answer = "mismatch"  /\ purchase[c] = "foreign"
  \/ answer = "not_found" /\ purchase[c] = "none"
  \/ answer = "ambiguous"
=============================================================================
