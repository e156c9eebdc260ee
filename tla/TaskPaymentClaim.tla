-------------------------- MODULE TaskPaymentClaim --------------------------
(***************************************************************************)
(* The durable task-payment outbox of apps/core                            *)
(* (src/apps/core/src/services/task-payment-claim.service.ts).             *)
(*                                                                         *)
(* A claim row is written in the transaction that debits the workspace's   *)
(* credits.  Workers (the inline run after commit, the cron, an operator's *)
(* request) then lease the row, talk to the payment node and finally       *)
(* attach the purchase or give the credits back.  Every write of a worker  *)
(* is fenced on the random processingToken its lease wrote; a worker may   *)
(* crash or lose its database at any point and its lease may run out while *)
(* it is still at work.                                                    *)
(*                                                                         *)
(* A worker slot stands for the token of its current lease: a slot has one *)
(* attempt at a time, so a stored token equal to the slot is that          *)
(* attempt's, or that of an attempt of the slot which is gone.             *)
(***************************************************************************)
EXTENDS Integers, PaymentNode

CONSTANTS
  Workers,         \* slots for concurrent attempts and operator requests
  NoWorker,        \* processingToken = null
  NoClaim,
  CorruptClaims,   \* claims whose stored purchasePayload cannot be parsed
  ReviewAttempts,  \* TASK_PAYMENT_CLAIM_REVIEW_ATTEMPTS
  MaxFaults        \* bound: crashes, failed writes and late lease holders

ASSUME WorkerAssumption == NoWorker \notin Workers
ASSUME ClaimAssumption == NoClaim \notin Claims
ASSUME ReviewAssumption == ReviewAttempts \in Nat /\ ReviewAttempts >= 2
ASSUME FaultAssumption == MaxFaults \in Nat

VARIABLES
  \* the task_payment_claim table
  status, net,                \* net: credits moved for the claim so far
  token, expired,             \* processingToken; claims whose lease ran out
  attemptCount, due, review,  \* claims with nextAttemptAt <= now; under review
  \* the attempts and operator requests
  stage, job,
  absent,                     \* workers whose own lookup found no purchase
  \* the task_payment_claim_action table and history
  audit,                      \* claims with an operator's decision on record
  posted,                     \* claims for which some attempt sent a POST
  waived,                     \* claims an operator refunded without a lookup
  hurried,                    \* claims an operator retried, or looked up, while
                              \* a POST of theirs was still in flight
  lateCalls,                  \* may remote calls outlive lease and backoff?
  faults                      \* crashes, failed writes, late holders so far

money == <<status, net>>
lease == <<token, expired>>
schedule == <<attemptCount, due, review>>
work == <<stage, job, absent>>
history == <<audit, posted, waived, hurried>>
bounds == <<lateCalls, faults>>
vars == <<money, lease, schedule, work, history, bounds, nodeVars>>

Actions == {"retry", "refund", "resolve"}
Kinds == {"process"} \cup Actions
Buying == {"lookup", "post", "conflict", "reconcile"}
Remote == Buying \cup {"resolving"}
Writing == {"purchase", "refund", "reschedule"}
Stages == {"idle", "audit", "thrown"} \cup Remote \cup Writing

\* attemptCount is compared with 1 and with the review threshold only, so
\* counting stops there without changing any comparison.
Attempts == 0 .. ReviewAttempts
NextAttempt(n) == IF n < ReviewAttempts THEN n + 1 ELSE n

\* What a worker read when it leased the row.
Jobs == [kind : Kinds, claim : Claims \cup {NoClaim}, attempt : Attempts,
         reviewed : BOOLEAN]
NoJob == [kind |-> "process", claim |-> NoClaim, attempt |-> 0,
          reviewed |-> FALSE]

RowTypeOK ==
  /\ status \in [Claims -> {"absent", "PENDING", "PURCHASED", "REFUNDED"}]
  /\ net \in [Claims -> Int]
  /\ token \in [Claims -> Workers \cup {NoWorker}]
  /\ expired \subseteq Claims
  /\ attemptCount \in [Claims -> Attempts]
  /\ due \subseteq Claims
  /\ review \subseteq Claims

WorkTypeOK ==
  /\ stage \in [Workers -> Stages]
  /\ job \in [Workers -> Jobs]
  /\ \A w \in Workers : stage[w] # "idle" => job[w].claim \in Claims
  /\ absent \subseteq Workers

HistoryTypeOK ==
  /\ audit \subseteq Claims
  /\ posted \subseteq Claims
  /\ waived \subseteq Claims /\ hurried \subseteq Claims
  /\ lateCalls \in BOOLEAN /\ faults \in 0 .. MaxFaults

TypeOK == NodeTypeOK /\ RowTypeOK /\ WorkTypeOK /\ HistoryTypeOK

Init ==
  /\ NodeInit
  /\ status = [c \in Claims |-> "absent"]
  /\ net = [c \in Claims |-> 0]
  /\ token = [c \in Claims |-> NoWorker]
  /\ attemptCount = [c \in Claims |-> 0]
  /\ due = Claims
  /\ expired = {} /\ review = {}
  /\ stage = [w \in Workers |-> "idle"]
  /\ job = [w \in Workers |-> NoJob]
  /\ absent = {}
  /\ audit = {} /\ posted = {} /\ waived = {} /\ hurried = {}
  /\ lateCalls \in BOOLEAN /\ faults = 0

-----------------------------------------------------------------------------
(* The row: charge, lease, schedule.                                       *)

\* The event transaction debits one unit and writes the claim together; the
\* unique index makes a second claim for the identifier roll both back.
CreateClaim(c) ==
  /\ status[c] = "absent"
  /\ status' = [status EXCEPT ![c] = "PENDING"]
  /\ net' = [net EXCEPT ![c] = @ - 1]
  /\ UNCHANGED <<lease, schedule, work, history, bounds, nodeVars>>

LeaseFreeAnyTime(c) == TRUE
LeaseFree(c) == token[c] = NoWorker \/ c \in expired

OwnsUnlessPurchased(w) ==
  LET c == job[w].claim
  IN  status[c] # "PURCHASED" /\ token[c] \in {w, NoWorker}
Owns(w) == status[job[w].claim] = "PENDING" /\ token[job[w].claim] = w

ClearLease(c) ==
  /\ token' = [token EXCEPT ![c] = NoWorker]
  /\ expired' = expired \ {c}

\* What is in flight when the row is due again is a matter of timing: without
\* lateCalls a POST is settled before the backoff or the lease ends.  An
\* operator waits for neither.
Settled(c) == lateCalls \/ c \notin inflight

\* acquireTaskPaymentClaim, with the row it reads back.
Acquire(w, c, kind, first) ==
  /\ stage[w] = "idle"
  /\ status[c] = "PENDING"
  /\ LeaseFree(c)
  /\ token' = [token EXCEPT ![c] = w]
  /\ expired' = expired \ {c}
  /\ attemptCount' = [attemptCount EXCEPT ![c] = NextAttempt(@)]
  /\ stage' = [stage EXCEPT ![w] = first]
  /\ job' = [job EXCEPT ![w] =
               [kind |-> kind, claim |-> c, reviewed |-> c \in review,
                attempt |-> NextAttempt(attemptCount[c])]]
  /\ UNCHANGED <<money, due, review, absent, history, bounds, nodeVars>>

\* A payload that cannot be parsed goes to an operator, a first attempt posts
\* at once, a later one looks up first.
FirstStage(c) ==
  IF c \in CorruptClaims THEN "reschedule"
  ELSE IF attemptCount[c] > 0 THEN "lookup" ELSE "post"

\* processTaskPaymentClaim: inline after the commit, or from the cron.
Process(w, c) ==
  /\ c \in due
  /\ c \notin review
  /\ Acquire(w, c, "process", FirstStage(c))

BecomeDue(c) ==
  /\ status[c] = "PENDING"
  /\ c \notin due
  /\ Settled(c)
  /\ due' = due \cup {c}
  /\ UNCHANGED <<money, lease, attemptCount, review, work, history, bounds,
                 nodeVars>>

\* The attempt or request that took the lease is still at work.
HolderAtWork(c) == \E w \in Workers : token[c] = w /\ job[w].claim = c

\* Two minutes pass.  A holder still at work is late, which is a fault; without
\* lateCalls its three remote calls of 20 seconds at most are over by then,
\* but not its database writes.
ExpireLease(c) ==
  /\ token[c] # NoWorker
  /\ c \notin expired
  /\ Settled(c)
  /\ expired' = expired \cup {c}
  /\ \/ ~HolderAtWork(c) /\ UNCHANGED faults
     \/ /\ HolderAtWork(c)
        /\ lateCalls \/ stage[token[c]] \notin Remote
        /\ faults < MaxFaults
        /\ faults' = faults + 1
  /\ UNCHANGED <<money, token, schedule, work, history, lateCalls, nodeVars>>

-----------------------------------------------------------------------------
(* Remote calls of an attempt, each with the stages its answers lead to.   *)

Goto(w, next) == stage' = [stage EXCEPT ![w] = next] /\ UNCHANGED job

AfterLookup ==
  {<<"ok", "purchase">>, <<"mismatch", "refund">>,
   <<"ambiguous", "reschedule">>, <<"not_found", "post">>}

LookupFirst(w) ==
  /\ stage[w] = "lookup"
  /\ \E answer \in {"ok", "mismatch", "ambiguous", "not_found"} :
       /\ Lookup(job[w].claim, answer)
       /\ \E next \in Stages :
             <<answer, next>> \in AfterLookup /\ Goto(w, next)
       /\ absent' = IF answer = "not_found" THEN absent \cup {w} ELSE absent
  /\ UNCHANGED <<money, lease, schedule, history, bounds, nodeVars>>

AfterPostConflictIsSuccess ==
  {<<"created", "purchase">>, <<"permanent", "refund">>,
   <<"conflict", "purchase">>, <<"ambiguous", "reconcile">>}
AfterPost ==
  {<<"created", "purchase">>, <<"permanent", "refund">>,
   <<"conflict", "conflict">>, <<"ambiguous", "reconcile">>}

CreatePurchase(w) ==
  /\ stage[w] = "post"
  /\ \E answer \in {"created", "permanent", "conflict", "ambiguous"} :
       /\ Post(job[w].claim, answer)
       /\ \E next \in Stages : <<answer, next>> \in AfterPost /\ Goto(w, next)
  /\ posted' = posted \cup {job[w].claim}
  /\ UNCHANGED <<money, lease, schedule, absent, audit, waived, hurried,
                 bounds>>

\* A lookup after the POST: the client's own when the POST was a 409, or the
\* reconciliation of an ambiguous POST.
LookupAfter(w, from, verdicts) ==
  /\ stage[w] = from
  /\ \E answer \in {"ok", "mismatch", "ambiguous", "not_found"} :
       /\ Lookup(job[w].claim, answer)
       /\ \E next \in Stages : <<answer, next>> \in verdicts /\ Goto(w, next)
  /\ UNCHANGED <<money, lease, schedule, absent, audit, posted, waived, bounds,
                 nodeVars>>

\* Anything but a match or an unusable answer makes the 409 permanent.
AfterConflict ==
  {<<"ok", "purchase">>, <<"mismatch", "refund">>,
   <<"not_found", "refund">>, <<"ambiguous", "reconcile">>}
ResolveConflict(w) ==
  LookupAfter(w, "conflict", AfterConflict) /\ UNCHANGED hurried

AfterReconcileAbsentIsFinal ==
  {<<"ok", "purchase">>, <<"mismatch", "refund">>,
   <<"not_found", "refund">>, <<"ambiguous", "reschedule">>}
AfterReconcile ==
  {<<"ok", "purchase">>, <<"mismatch", "refund">>,
   <<"not_found", "reschedule">>, <<"ambiguous", "reschedule">>}
Reconcile(w) ==
  LookupAfter(w, "reconcile", AfterReconcile) /\ UNCHANGED hurried

\* The operator acts on the claim without waiting for the abandoned POST.
NoteHurry(c) == hurried' = IF c \in inflight THEN hurried \cup {c} ELSE hurried

\* Resolve only: an operator's lookup never leads to a POST.
AfterOperatorLookup ==
  {<<"ok", "purchase">>, <<"mismatch", "refund">>,
   <<"not_found", "refund">>, <<"ambiguous", "reschedule">>}
OperatorLookup(w) ==
  LookupAfter(w, "resolving", AfterOperatorLookup) /\ NoteHurry(job[w].claim)

-----------------------------------------------------------------------------
(* Database writes that end an attempt; each is one transaction.           *)

Finish(w) ==
  /\ stage' = [stage EXCEPT ![w] = "idle"]
  /\ job' = [job EXCEPT ![w] = NoJob]
  /\ absent' = absent \ {w}

Throw(w) == Goto(w, "thrown") /\ UNCHANGED absent

MarkPurchased(w) ==
  /\ stage[w] = "purchase"
  /\ \/ /\ Owns(w)
        /\ status' = [status EXCEPT ![job[w].claim] = "PURCHASED"]
        /\ ClearLease(job[w].claim)
        /\ Finish(w)
     \/ ~Owns(w) /\ Throw(w) /\ UNCHANGED <<status, lease>>
  /\ UNCHANGED <<net, schedule, history, bounds, nodeVars>>

\* Status and refund transaction commit together; a claim that is already
\* refunded is left alone, and any other claim not owned is an error.
Refund(w) ==
  /\ stage[w] = "refund"
  /\ \/ /\ Owns(w)
        /\ status' = [status EXCEPT ![job[w].claim] = "REFUNDED"]
        /\ net' = [net EXCEPT ![job[w].claim] = @ + 1]
        /\ ClearLease(job[w].claim)
        /\ waived' = IF job[w].kind = "refund"
                       THEN waived \cup {job[w].claim} ELSE waived
        /\ Finish(w)
     \/ /\ ~Owns(w)
        /\ IF status[job[w].claim] = "REFUNDED" THEN Finish(w) ELSE Throw(w)
        /\ UNCHANGED <<money, lease, waived>>
  /\ UNCHANGED <<schedule, audit, posted, hurried, bounds, nodeVars>>

\* A corrupt payload and an operator's inconclusive lookup force a review.
NeedsReviewOnlyIfForced(w) ==
  job[w].kind = "resolve" \/ job[w].claim \in CorruptClaims
NeedsReview(w) ==
  \/ job[w].kind = "resolve"
  \/ job[w].claim \in CorruptClaims
  \/ job[w].reviewed
  \/ job[w].attempt >= ReviewAttempts

ScheduleRetry(w) ==
  /\ stage[w] = "reschedule"
  /\ \/ /\ Owns(w)
        /\ due' = due \ {job[w].claim}
        /\ review' = IF NeedsReview(w)
                       THEN review \cup {job[w].claim} ELSE review
        /\ ClearLease(job[w].claim)
        /\ Finish(w)
     \/ ~Owns(w) /\ Throw(w) /\ UNCHANGED <<due, review, lease>>
  /\ UNCHANGED <<money, attemptCount, history, bounds, nodeVars>>

-----------------------------------------------------------------------------
(* Failures.                                                               *)

\* The database rejects a worker's closing write, which then has no effect.
WriteFails(w) ==
  /\ stage[w] \in Writing
  /\ faults < MaxFaults
  /\ faults' = faults + 1
  /\ Throw(w)
  /\ UNCHANGED <<money, lease, schedule, history, lateCalls, nodeVars>>

\* escalateUnprocessableTaskPaymentClaim, under the token still owned.
Fence(w) == Owns(w)

Escalate(w) ==
  /\ stage[w] = "thrown"
  /\ job[w].kind = "process"
  /\ \/ /\ Fence(w)
        /\ due' = due \ {job[w].claim}
        /\ review' = review \cup {job[w].claim}
        /\ ClearLease(job[w].claim)
     \/ ~Fence(w) /\ UNCHANGED <<due, review, lease>>
  /\ Finish(w)
  /\ UNCHANGED <<money, attemptCount, history, bounds, nodeVars>>

\* An operator's request that throws just answers 500.
OperatorError(w) ==
  /\ stage[w] = "thrown"
  /\ job[w].kind \in Actions
  /\ Finish(w)
  /\ UNCHANGED <<money, lease, schedule, history, bounds, nodeVars>>

\* The process dies, the escalation write fails too (it is best effort), or
\* an operator's audit write fails: the request is gone, the lease stays.
Crash(w) ==
  /\ stage[w] # "idle"
  /\ faults < MaxFaults
  /\ faults' = faults + 1
  /\ Finish(w)
  /\ UNCHANGED <<money, lease, schedule, history, lateCalls, nodeVars>>

-----------------------------------------------------------------------------
(* Operator levers, open to claims under review only.                      *)

RetriedAttemptCountZero == 0
RetriedAttemptCount == 1

\* retryReviewedTaskPaymentClaim: back to the cron, then the audit row.
RetryReviewed(w, c) ==
  /\ stage[w] = "idle"
  /\ status[c] = "PENDING"
  /\ c \in review
  /\ LeaseFree(c)
  /\ attemptCount' = [attemptCount EXCEPT ![c] = RetriedAttemptCount]
  /\ due' = due \cup {c}
  /\ review' = review \ {c}
  /\ ClearLease(c)
  /\ NoteHurry(c)
  /\ stage' = [stage EXCEPT ![w] = "audit"]
  /\ job' = [job EXCEPT ![w] = [kind |-> "retry", claim |-> c, attempt |-> 0,
                                reviewed |-> FALSE]]
  /\ UNCHANGED <<money, absent, audit, posted, waived, bounds, nodeVars>>

OperatorStage(kind) == "audit"

\* refundReviewedTaskPaymentClaim and resolveReviewedTaskPaymentClaim lease
\* the row whatever its schedule, and record the decision first.
OperatorLease(w, c, kind) ==
  /\ c \in review
  /\ Acquire(w, c, kind, OperatorStage(kind))

RecordAction(w) ==
  /\ stage[w] = "audit"
  /\ audit' = audit \cup {job[w].claim}
  /\ \/ job[w].kind = "retry" /\ Finish(w)
     \/ job[w].kind = "refund" /\ Goto(w, "refund") /\ UNCHANGED absent
     \/ /\ job[w].kind = "resolve"
        /\ Goto(w, IF job[w].claim \in CorruptClaims
                     THEN "reschedule" ELSE "resolving")
        /\ UNCHANGED absent
  /\ UNCHANGED <<money, lease, schedule, posted, waived, hurried, bounds,
                 nodeVars>>

-----------------------------------------------------------------------------
Node(c) ==
  /\ SettleInflight(c) \/ StopAccepting(c)
  /\ UNCHANGED <<money, lease, schedule, work, history, bounds>>

Step(w) ==
  \/ LookupFirst(w) \/ CreatePurchase(w) \/ ResolveConflict(w) \/ Reconcile(w)
  \/ MarkPurchased(w) \/ Refund(w) \/ ScheduleRetry(w)
  \/ Escalate(w) \/ OperatorError(w) \/ RecordAction(w) \/ OperatorLookup(w)

Next ==
  \/ \E c \in Claims : CreateClaim(c) \/ BecomeDue(c) \/ ExpireLease(c)
                         \/ Node(c)
  \/ \E w \in Workers : Step(w) \/ WriteFails(w) \/ Crash(w)
  \/ \E w \in Workers, c \in Claims :
       \/ Process(w, c)
       \/ RetryReviewed(w, c)
       \/ \E kind \in {"refund", "resolve"} : OperatorLease(w, c, kind)

Spec == Init /\ [][Next]_vars

(***************************************************************************)
(* The cron runs every minute and takes the oldest due claims first, so a  *)
(* claim that is due again and again is taken (SF); a running attempt, the *)
(* clock and the node go on (WF).  Operators need not act, and faults are  *)
(* finitely many.                                                          *)
(***************************************************************************)
FairSpec ==
  /\ Spec
  /\ \A c \in Claims :
       /\ SF_vars(\E w \in Workers : Process(w, c))
       /\ WF_vars(BecomeDue(c))
       /\ WF_vars(ExpireLease(c))
       /\ WF_vars(Node(c) /\ c \in inflight /\ c \notin inflight')
  /\ \A w \in Workers : WF_vars(Step(w))

-----------------------------------------------------------------------------
(* Properties.                                                             *)

\* A claim costs its workspace exactly one debit while it may still be or has
\* been purchased, and nothing once it is refunded: however attempts, lease
\* takeovers and operators interleave, no refund is paid twice or lost.
NetCharge ==
  \A c \in Claims :
    net[c] = IF status[c] \in {"PENDING", "PURCHASED"} THEN -1 ELSE 0

\* A claim recorded as PURCHASED has its own purchase at the node, never one
\* of other terms that happens to sit under the same identifier.
PurchasedIsLive ==
  \A c \in Claims : status[c] = "PURCHASED" => purchase[c] = "ours"

\* The node has a purchase for the claim, or a POST that may yet create one.
Live(c) == purchase[c] = "ours" \/ (c \in inflight /\ Creates(c))

\* Credits given back never pay for a purchase (L405-407: a crash after the
\* POST cannot refund a live purchase), through any crash, takeover and retry,
\* unless an operator waived the lookup, or looked up or retried the claim
\* while a POST of it was in flight: the levers wait for no backoff, and what
\* L603-607 call authoritative absence may then be overtaken by that POST.
\* This and the next two take remote calls to end within the lease.
RefundNeverLive ==
  ~lateCalls => \A c \in Claims :
    status[c] = "REFUNDED" /\ c \notin waived \cup hurried => ~Live(c)

\* No attempt sends a POST for a claim that was posted before unless its own
\* lookup has just found nothing: also across crashes, takeovers and an
\* operator's reset of attemptCount.
LookupBeforeRepost ==
  ~lateCalls => \A w \in Workers :
    stage[w] = "post" /\ job[w].claim \in posted => w \in absent

\* At most one attempt per claim is buying, between its lease and its
\* verdict.
OneBuyer ==
  ~lateCalls => \A v, w \in Workers :
    stage[v] \in Buying /\ stage[w] \in Buying /\ job[v].claim = job[w].claim
      => v = w

\* A purchased or refunded claim never changes again.
SettledIsFinal ==
  [][\A c \in Claims :
       status[c] \in {"PURCHASED", "REFUNDED"} =>
         status'[c] = status[c] /\ net'[c] = net[c]]_vars

\* Every charged claim is purchased, refunded or handed to an operator.
Resolves ==
  \A c \in Claims :
    status[c] = "PENDING" ~> (status[c] # "PENDING" \/ c \in review)

\* The states of the row as the workspace's account sees them.
Outcome(s) ==
  CASE s = "absent" -> "none"
    [] s = "PENDING" -> "held"
    [] s = "PURCHASED" -> "settled"
    [] s = "REFUNDED" -> "returned"

Charges == INSTANCE CompensatedCharge
  WITH Items <- Claims, Goodwill <- FALSE,
       outcome <- [c \in Claims |-> Outcome(status[c])], credits <- net

\* Under every interleaving of attempts, takeovers, operators and faults the
\* outbox is the plain charge: debited once, settled or given back once, the
\* credits moving in the same step as the row.
ImplementsCharge == Charges!Spec

-----------------------------------------------------------------------------
(***************************************************************************)
(* The inductive invariant behind NetCharge, PurchasedIsLive and, when     *)
(* remote calls are over before the lease and the backoff (~lateCalls),    *)
(* RefundNeverLive, LookupBeforeRepost and OneBuyer.                       *)
(***************************************************************************)

\* A worker about to attach a purchase has seen it.
SeenLive ==
  \A w \in Workers :
    stage[w] = "purchase" => purchase[job[w].claim] = "ours"

Books == NetCharge /\ PurchasedIsLive /\ SeenLive

\* A buyer holds the lease, and it has not run out.
BuyerHolds ==
  \A w \in Workers :
    stage[w] \in Buying =>
      Owns(w) /\ job[w].claim \notin expired /\ attemptCount[job[w].claim] > 0

\* No purchase of ours exists, and none can come into being any more.
Dead(c) ==
  \/ purchase[c] = "foreign"
  \/ purchase[c] = "none" /\ (c \notin inflight \/ c \notin accepting)

\* Until an attempt counts, the node has not heard of the claim.
UnheardOf ==
  \A c \in Claims :
    attemptCount[c] = 0 =>
      purchase[c] # "ours" /\ c \notin inflight \cup posted

\* A claim that was never charged was never leased.
UnchargedUnleased ==
  \A c \in Claims :
    status[c] = "absent" => token[c] = NoWorker /\ attemptCount[c] = 0

\* A POST still in flight keeps its claim from being taken up, unless an
\* operator's retry has put the claim forward.
InflightHeld ==
  \A c \in Claims \ hurried :
    status[c] = "PENDING" /\ c \in inflight =>
      c \notin due \/ (token[c] # NoWorker /\ c \notin expired)

\* A worker about to POST has looked, or nobody has posted before.
HasLooked ==
  \A w \in Workers :
    stage[w] = "post" => w \in absent \/ job[w].claim \notin posted

\* What a worker that holds its claim knows of the node, if nobody hurried.
HolderKnows ==
  \A w \in Workers :
    LET c == job[w].claim
    IN  c \notin hurried =>
          /\ stage[w] \in {"lookup", "post"} => c \notin inflight
          /\ stage[w] = "post" => purchase[c] # "ours"
          /\ stage[w] = "conflict" => purchase[c] = "foreign"
          /\ stage[w] = "refund" /\ job[w].kind # "refund" /\ Owns(w) => Dead(c)

RefundedDead ==
  \A c \in Claims :
    status[c] = "REFUNDED" /\ c \notin waived \cup hurried => Dead(c)

PromptInv ==
  /\ BuyerHolds /\ UnheardOf /\ UnchargedUnleased
  /\ InflightHeld /\ HasLooked /\ HolderKnows /\ RefundedDead
=============================================================================
