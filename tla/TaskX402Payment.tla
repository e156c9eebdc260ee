--------------------------- MODULE TaskX402Payment ---------------------------
(***************************************************************************)
(* One x402 payment of a task, under one idempotency key                   *)
(* (src/apps/core/src/services/task-x402-payment.*.ts).                    *)
(*                                                                         *)
(* A request charges the task's credits and creates a PENDING row, or      *)
(* replays the row it finds; then it asks the payment node to sign an      *)
(* authorization, which settles real money until its validBefore.  The     *)
(* outcome may be lost, so the row carries a sign lease (processingAt) and *)
(* a fence (signRiskExpiresAt) behind which an unseen authorization may    *)
(* still be alive.  Operators refund VERIFIED rows and resolve PENDING     *)
(* ones; a sweep drops stored headers that have expired.                   *)
(*                                                                         *)
(* Time is Core's clock.  The node signs with a clock at most Skew ahead   *)
(* and never after the request's own timeout, as the code assumes.         *)
(***************************************************************************)
EXTENDS Integers

CONSTANTS
  Requests,          \* slots for concurrent pay requests under the key
  MaxSignAttempts,   \* TASK_X402_MAX_SIGN_ATTEMPTS
  MaxDispatchDelay,  \* TASK_X402_MAX_SIGN_DISPATCH_DELAY_MS
  RequestTimeout,    \* TASK_X402_SIGN_REQUEST_TIMEOUT_MS
  Skew,              \* X402_CLOCK_SKEW_TOLERANCE_MS
  ValidFor,          \* maxTimeoutSeconds of the demand
  MaxValidFor,       \* X402_MAX_TIMEOUT_SECONDS
  MinRemaining,      \* X402_MIN_REMAINING_VALIDITY_MS
  PurgeSlack,        \* what X402_UNDATED_HEADER_TTL_MS adds to the validity
  CountingDelay,     \* how much longer the attempt's own write may take
  MaxTime            \* bound: the clock stops here

ASSUME DurationAssumption ==
  /\ {MaxDispatchDelay, Skew, ValidFor, MaxValidFor, MinRemaining,
      PurgeSlack, CountingDelay, MaxTime} \subseteq Nat
  /\ RequestTimeout \in Nat \ {0}
  /\ ValidFor <= MaxValidFor
ASSUME AttemptsAssumption == MaxSignAttempts \in Nat \ {0}

VARIABLES
  now,
  \* the task_x402_payment row, with the credits moved for it
  status, net, refundKind, signAttemptCount,
  processingAt, signRiskExpiresAt,
  header, validBefore, updatedAt,   \* header: which signature is stored
  purging,                          \* the sweep has read the row as expired
  \* the requests
  stage,
  fresh,                            \* requests that made the charge
  signStartedAt, dispatchedAt,
  signature, until,                 \* what the node signed for the request
  \* history
  signatures, liveUntil,            \* how many were signed; when all are dead
  counted,                          \* who spent an attempt
  issued                            \* signatures handed out, with the status

money == <<status, net, refundKind>>
fences == <<signAttemptCount, processingAt, signRiskExpiresAt>>
credential == <<header, validBefore, updatedAt, purging>>
timing == <<fresh, signStartedAt, dispatchedAt>>
node == <<signature, until, signatures, liveUntil>>
history == <<counted, issued>>
vars == <<now, money, fences, credential, stage, timing, node, history>>

Statuses == {"absent", "PENDING", "VERIFIED", "FAILED", "REFUNDED"}
RefundKinds == {"none", "NODE_REFUSAL", "OPERATOR_GOODWILL",
                "OPERATOR_RESOLVE"}
Stages == {"idle", "charging", "reissuing", "dispatching", "counting",
           "calling", "atNode", "orphan", "verifying", "storing",
           "rereading", "refused"}

\* The terms of the fences.
SignLeaseTimeoutOnly == RequestTimeout
SignLease == RequestTimeout + MaxDispatchDelay
SignRisk(t) == t + MaxDispatchDelay + RequestTimeout + ValidFor + Skew
MaxSignRisk == MaxDispatchDelay + RequestTimeout + MaxValidFor + Skew
UndatedHeaderTTLNoSkew == MaxValidFor
UndatedHeaderTTL == MaxValidFor + Skew + PurgeSlack

RowTypeOK ==
  /\ status \in Statuses
  /\ net \in {-1, 0}
  /\ refundKind \in RefundKinds
  /\ signAttemptCount \in Nat
  /\ processingAt \in Nat /\ signRiskExpiresAt \in Nat
  /\ header \in Nat /\ validBefore \in Nat /\ updatedAt \in Nat
  /\ purging \in BOOLEAN

RequestTypeOK ==
  /\ stage \in [Requests -> Stages]
  /\ fresh \subseteq Requests
  /\ signStartedAt \in [Requests -> Nat]
  /\ dispatchedAt \in [Requests -> Nat]
  /\ signature \in [Requests -> Nat]
  /\ until \in [Requests -> Nat]

HistoryTypeOK ==
  /\ signatures \in Nat /\ liveUntil \in Nat
  /\ counted \subseteq Requests
  /\ issued \subseteq Nat \X Statuses

TypeOK == now \in Nat /\ RowTypeOK /\ RequestTypeOK /\ HistoryTypeOK

Init ==
  /\ now = 0
  /\ status = "absent" /\ net = 0 /\ refundKind = "none"
  /\ signAttemptCount = 0 /\ processingAt = 0 /\ signRiskExpiresAt = 0
  /\ header = 0 /\ validBefore = 0 /\ updatedAt = 0 /\ purging = FALSE
  /\ stage = [r \in Requests |-> "idle"]
  /\ fresh = {}
  /\ signStartedAt = [r \in Requests |-> 0]
  /\ dispatchedAt = [r \in Requests |-> 0]
  /\ signature = [r \in Requests |-> 0]
  /\ until = [r \in Requests |-> 0]
  /\ signatures = 0 /\ liveUntil = 0
  /\ counted = {} /\ issued = {}

Goto(r, s) == stage' = [stage EXCEPT ![r] = s]

\* The request is over and forgotten.
Return(r) ==
  /\ Goto(r, "idle")
  /\ fresh' = fresh \ {r}
  /\ signStartedAt' = [signStartedAt EXCEPT ![r] = 0]
  /\ dispatchedAt' = [dispatchedAt EXCEPT ![r] = 0]
  /\ signature' = [signature EXCEPT ![r] = 0]
  /\ until' = [until EXCEPT ![r] = 0]
  /\ UNCHANGED <<signatures, liveUntil>>

-----------------------------------------------------------------------------
(* The charge phase *)

\* The preflight read, outside the serializable transaction.  FAILED and
\* REFUNDED rows never change again and are answered with 409 at once.
Begin(r) ==
  /\ stage[r] = "idle"
  /\ \/ status \in {"absent", "PENDING"} /\ Goto(r, "charging")
     \/ status = "VERIFIED" /\ Goto(r, "reissuing")
  /\ UNCHANGED <<now, money, fences, credential, timing, node, history>>

\* Debit, task event and PENDING row in one transaction; the attempt is not
\* counted yet, but its lease and fence are set.
Charge(r) ==
  /\ stage[r] = "charging" /\ status = "absent"
  /\ status' = "PENDING" /\ net' = net - 1
  /\ processingAt' = now /\ signRiskExpiresAt' = SignRisk(now)
  /\ updatedAt' = now
  /\ fresh' = fresh \cup {r}
  /\ signStartedAt' = [signStartedAt EXCEPT ![r] = now]
  /\ Goto(r, "dispatching")
  /\ UNCHANGED <<now, refundKind, signAttemptCount, header, validBefore,
                 purging, dispatchedAt, node, history>>

SignLeaseHeld == now - processingAt < SignLease
AttemptsLeft == signAttemptCount < MaxSignAttempts

\* A same-key request finds the row PENDING: it counts its attempt, takes the
\* lease and stamps new fences, before the node is asked again.
Replay(r) ==
  /\ stage[r] = "charging" /\ status = "PENDING"
  /\ AttemptsLeft /\ ~SignLeaseHeld
  /\ signAttemptCount' = signAttemptCount + 1
  /\ counted' = counted \cup {r}
  /\ processingAt' = now /\ signRiskExpiresAt' = SignRisk(now)
  /\ updatedAt' = now
  /\ signStartedAt' = [signStartedAt EXCEPT ![r] = now]
  /\ Goto(r, "dispatching")
  /\ UNCHANGED <<now, money, header, validBefore, purging, fresh,
                 dispatchedAt, node, issued>>

\* A row found VERIFIED is answered with the stored header, under the row's
\* lock: the row is read again, since an operator may have refunded it.
StillVerifiedAsRead == TRUE
StillVerified == status = "VERIFIED"

Reissue(r) ==
  /\ \/ stage[r] = "reissuing"
     \/ stage[r] = "charging" /\ status = "VERIFIED"
  /\ StillVerified
  /\ header # 0 /\ validBefore > now + MinRemaining
  /\ issued' = issued \cup {<<header, status>>}
  /\ Return(r)
  /\ UNCHANGED <<now, money, fences, credential, counted>>

-----------------------------------------------------------------------------
(* Asking the node *)

\* A dispatch that is late for its own fences is withheld.  A replay goes
\* straight to the node; the request that charged first counts its attempt.
InTime(r) == now - signStartedAt[r] <= MaxDispatchDelay

Dispatch(r) ==
  /\ stage[r] = "dispatching" /\ InTime(r)
  /\ \/ /\ r \in fresh /\ Goto(r, "counting")
        /\ UNCHANGED dispatchedAt
     \/ /\ r \notin fresh /\ Goto(r, "atNode")
        /\ dispatchedAt' = [dispatchedAt EXCEPT ![r] = now]
  /\ UNCHANGED <<now, money, fences, credential, fresh, signStartedAt, node,
                 counted, issued>>

\* The first attempt is counted by an awaited write after the delay check.
Count(r) ==
  /\ stage[r] = "counting"
  /\ signAttemptCount' = signAttemptCount + 1
  /\ counted' = counted \cup {r}
  /\ updatedAt' = now
  /\ Goto(r, "calling")
  /\ UNCHANGED <<now, money, processingAt, signRiskExpiresAt, header,
                 validBefore, purging, timing, node, issued>>

\* CountingDelay bounds how far that write may push the call beyond the
\* budget; the code itself does not check.
Call(r) ==
  /\ stage[r] = "calling"
  /\ now - signStartedAt[r] <= MaxDispatchDelay + CountingDelay
  /\ dispatchedAt' = [dispatchedAt EXCEPT ![r] = now]
  /\ Goto(r, "atNode")
  /\ UNCHANGED <<now, money, fences, credential, fresh, signStartedAt, node,
                 counted, issued>>

\* The node may sign while the request lasts, whether or not Core still waits.
Window(r) ==
  stage[r] \in {"atNode", "orphan"} /\ now < dispatchedAt[r] + RequestTimeout

Later(a, b) == IF a < b THEN b ELSE a

NodeSigns(r) ==
  /\ Window(r) /\ signature[r] = 0
  /\ signatures' = signatures + 1
  /\ signature' = [signature EXCEPT ![r] = signatures + 1]
  /\ \E lead \in 0 .. Skew :
       /\ until' = [until EXCEPT ![r] = now + ValidFor + lead]
       /\ liveUntil' = Later(liveUntil, now + ValidFor + lead)
  /\ UNCHANGED <<now, money, fences, credential, stage, timing, history>>

\* A readable 200 arrives.
Signed(r) ==
  /\ stage[r] = "atNode" /\ Window(r) /\ signature[r] # 0
  /\ Goto(r, "verifying")
  /\ UNCHANGED <<now, money, fences, credential, timing, node, history>>

\* The node's own error envelope arrives: this call was not signed.  Only the
\* request that charged may go on to refund; a replay leaves the charge held.
Refused(r) ==
  /\ stage[r] = "atNode" /\ Window(r) /\ signature[r] = 0
  /\ \/ r \in fresh /\ Goto(r, "refused") /\ UNCHANGED <<timing, node>>
     \/ r \notin fresh /\ Return(r)
  /\ UNCHANGED <<now, money, fences, credential, history>>

\* The answer is lost: timeout, transport error, malformed 200 or a crash of
\* the instance.  The request ends, the node may yet sign.
Lost(r) ==
  /\ stage[r] = "atNode"
  /\ Goto(r, "orphan")
  /\ UNCHANGED <<now, money, fences, credential, timing, node, history>>

Orphaned(r) ==
  /\ stage[r] = "orphan" /\ ~Window(r)
  /\ Return(r)
  /\ UNCHANGED <<now, money, fences, credential, history>>

\* Any other request may end where it stands: an error answer, a withheld
\* dispatch, a failed write or a crash.  The row stays as it is.
GiveUp(r) ==
  /\ stage[r] \notin {"idle", "atNode", "orphan"}
  /\ Return(r)
  /\ UNCHANGED <<now, money, fences, credential, history>>

-----------------------------------------------------------------------------
(* The outcome *)

\* The header must pay the charged demand and live long enough to be used.
Verify(r) ==
  /\ stage[r] = "verifying"
  /\ until[r] - now >= MinRemaining /\ until[r] <= now + ValidFor + Skew
  /\ Goto(r, "storing")
  /\ UNCHANGED <<now, money, fences, credential, timing, node, history>>

\* PENDING -> VERIFIED with the header, or another request got there first.
Storable == status = "PENDING"

Store(r) ==
  /\ stage[r] = "storing"
  /\ \/ /\ Storable
        /\ status' = "VERIFIED"
        /\ header' = signature[r] /\ validBefore' = until[r]
        /\ signRiskExpiresAt' = until[r] /\ updatedAt' = now
        /\ issued' = issued \cup {<<signature[r], "VERIFIED">>}
        /\ Return(r)
     \/ /\ ~Storable
        /\ Goto(r, "rereading")
        /\ UNCHANGED <<status, signRiskExpiresAt, header, validBefore,
                       updatedAt, timing, node, issued>>
  /\ UNCHANGED <<now, net, refundKind, signAttemptCount, processingAt,
                 purging, counted>>

\* The loser of that race answers with what the row holds.
Reread(r) ==
  /\ stage[r] = "rereading"
  /\ \/ status = "VERIFIED" /\ header # 0
        /\ issued' = issued \cup {<<header, status>>}
     \/ ~(status = "VERIFIED" /\ header # 0) /\ UNCHANGED issued
  /\ Return(r)
  /\ UNCHANGED <<now, money, fences, credential, counted>>

\* attachCompensatingRefund, in the transaction that closes the row.
Close(s, kind) ==
  /\ status' = s /\ refundKind' = kind /\ net' = net + 1
  /\ updatedAt' = now
  /\ UNCHANGED <<fences, header, validBefore, purging>>

\* refundRefusedTaskX402Payment: only the row's sole attempt is safe to refund.
SoleAttemptAny == TRUE
SoleAttempt == signAttemptCount = 1

RefundRefused(r) ==
  /\ stage[r] = "refused"
  /\ status = "PENDING" /\ refundKind = "none" /\ SoleAttempt
  /\ Close("FAILED", "NODE_REFUSAL")
  /\ Return(r)
  /\ UNCHANGED <<now, history>>

\* refundVerifiedTaskX402Payment: an operator's goodwill.
RefundableAgain == status \in {"VERIFIED", "REFUNDED"}
Refundable == status = "VERIFIED" /\ refundKind = "none"

RefundVerified ==
  /\ Refundable
  /\ Close("REFUNDED", "OPERATOR_GOODWILL")
  /\ UNCHANGED <<now, stage, timing, node, history>>

\* resolvePendingTaskX402Payment: once nothing signed can be alive.
RiskIsOverAfterLease == processingAt <= now - SignLease
RiskIsOver ==
  processingAt <= now - MaxSignRisk /\ signRiskExpiresAt <= now

ResolvePending ==
  /\ status = "PENDING" /\ refundKind = "none" /\ RiskIsOver
  /\ Close("REFUNDED", "OPERATOR_RESOLVE")
  /\ UNCHANGED <<now, stage, timing, node, history>>

\* purgeExpiredTaskX402PaymentHeaders reads a batch, then clears it by id.
Purgeable ==
  /\ header # 0
  /\ validBefore <= now \/ updatedAt <= now - UndatedHeaderTTL

PurgeRead ==
  /\ ~purging /\ Purgeable /\ purging' = TRUE
  /\ UNCHANGED <<now, money, fences, header, validBefore, updatedAt, stage,
                 timing, node, history>>

PurgeWrite ==
  /\ purging /\ purging' = FALSE
  /\ header' = 0
  /\ updatedAt' = (IF header # 0 THEN now ELSE updatedAt)
  /\ UNCHANGED <<now, money, fences, validBefore, stage, timing, node,
                 history>>

Tick ==
  /\ now < MaxTime /\ now' = now + 1
  /\ UNCHANGED <<money, fences, credential, stage, timing, node, history>>

Request(r) ==
  \/ Begin(r) \/ Charge(r) \/ Replay(r) \/ Reissue(r)
  \/ Dispatch(r) \/ Count(r) \/ Call(r) \/ NodeSigns(r)
  \/ Signed(r) \/ Refused(r) \/ Lost(r) \/ Orphaned(r) \/ GiveUp(r)
  \/ Verify(r) \/ Store(r) \/ Reread(r) \/ RefundRefused(r)

Next ==
  \/ \E r \in Requests : Request(r)
  \/ RefundVerified \/ ResolvePending
  \/ PurgeRead \/ PurgeWrite \/ Tick

Spec == Init /\ [][Next]_vars

-----------------------------------------------------------------------------
(* Properties *)

\* Every way the row can be closed gives the debit back exactly once, and an
\* open row keeps it: refusal, goodwill and resolve exclude each other, and
\* the refund goes with the closing of the row.
NetCharge ==
  /\ net = (IF status \in {"PENDING", "VERIFIED"} THEN -1 ELSE 0)
  /\ refundKind = "none" <=> status \notin {"FAILED", "REFUNDED"}

\* A row closed by a refusal never had an authorization signed for it: the
\* refused first attempt was the only one, even if replays overtook it.
RefusedIsUnsigned == status = "FAILED" => signatures = 0

\* When an operator has resolved a PENDING row, every authorization signed for
\* it is dead, the ones nobody ever saw included, and none is signed later.
ResolvedIsDead == refundKind = "OPERATOR_RESOLVE" => liveUntil <= now

\* Whoever asks, at most one authorization of the key is ever handed out, and
\* only by a row that is VERIFIED at that moment, never by a refunded one.
OneHeader ==
  /\ \A a, b \in issued : a = b
  /\ \A a \in issued : a[2] = "VERIFIED"

\* The sweep never drops the stored copy of a header that can still settle.
PurgedIsDead ==
  status \in {"VERIFIED", "REFUNDED"} /\ header = 0 => validBefore <= now

\* The lease outlasts the call it covers: the node is never asked to sign for
\* two requests at once.
OneSigner == \A r, s \in Requests : Window(r) /\ Window(s) => r = s

\* The states of the row as the workspace's account sees them.
Outcome(s) ==
  CASE s = "absent" -> "none"
    [] s = "PENDING" -> "held"
    [] s = "VERIFIED" -> "settled"
    [] s \in {"FAILED", "REFUNDED"} -> "returned"

Charges == INSTANCE CompensatedCharge
  WITH Items <- {"payment"}, Goodwill <- TRUE,
       outcome <- [i \in {"payment"} |-> Outcome(status)],
       credits <- [i \in {"payment"} |-> net]

\* However requests, operators and the sweep interleave, the row is one plain
\* charge: debited once, settled at most once, given back at most once, and a
\* row that was given back stays so.
ImplementsCharge == Charges!Spec
=============================================================================
