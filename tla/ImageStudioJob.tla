--------------------------- MODULE ImageStudioJob ---------------------------
(***************************************************************************)
(* One job of the image studio, from the request to the delivered image    *)
(* (src/apps/core/src/services/image-studio-jobs.service.ts).              *)
(*                                                                         *)
(* The row is written first; one conditional update then gives a single    *)
(* caller the right to send it to the provider, whose answer may be lost.  *)
(* Afterwards polls, the cron and the provider's callback read verdicts    *)
(* and settle the job: under a lease they check the requester's access,    *)
(* store the image, and charge for it in the transaction that records it.  *)
(*                                                                         *)
(* A slot of Workers is any of these handlers, and the owner token of its  *)
(* settlement lease.  Times are nondeterministic: a lease may run out, a   *)
(* reservation grow old or an outage last too long whenever the state      *)
(* allows.  Versions, prompts, references and limits are not modelled.     *)
(***************************************************************************)
EXTENDS Integers

CONSTANTS
  Workers,     \* slots for concurrent handlers
  NoWorker,    \* settleLeaseOwner = null
  Overrun,     \* may a settlement outlive its lease?
  MaxFaults,   \* bound: crashes, failed transactions and overruns
  MaxTurns     \* bound: how often the requester's access changes

ASSUME WorkerAssumption == NoWorker \notin Workers
ASSUME BoundAssumption ==
  MaxFaults \in Nat /\ MaxTurns \in Nat /\ Overrun \in BOOLEAN

VARIABLES
  \* the project_image_job row and its asset
  status, submitAttempts,
  age,               \* of a reservation: new, stale or abandoned
  stalled,           \* submitLeaseAt is older than SUBMIT_LEASE_MS
  known,             \* falRequestId is set
  cancelRequested,
  owner, expired,    \* settleLeaseOwner; its lease has run out
  asset, net,        \* the image is stored; credits moved for it
  \* the handlers
  stage,
  cancelSeen,        \* readers of a row whose cancellation was requested
  \* the provider, the requester's access, and history
  request,           \* the provider's request, if there is one
  inflight,          \* a submission whose caller has stopped waiting
  permitted,
  sent,              \* submissions sent to the provider
  faults, turns

lease == <<owner, expired>>
submission == <<submitAttempts, stalled, known>>
delivery == <<asset, net>>
provider == <<request, inflight, sent>>
world == <<permitted, turns>>
vars == <<status, submission, age, cancelRequested, lease, delivery, stage,
          cancelSeen, provider, world, faults>>

Live == {"QUEUED", "RUNNING", "SUBMISSION_UNCERTAIN"}
Closed == {"SUCCEEDED", "FAILED", "CANCELED", "ORPHANED"}
Statuses == {"absent", "PENDING", "SUBMITTING"} \cup Live \cup Closed
Answers == {"queued", "rejected", "uncertain"}
Holding == {"authorizing", "denied", "deferred", "storing", "inserting"}
Stages == {"idle", "reserved", "preparing", "abandoning", "checking",
           "denying", "asking", "in_queue", "in_progress", "not_found",
           "failing", "fetching", "noting", "settling", "orphaning",
           "cancelling", "finalising"} \cup Answers \cup Holding
Requests == {"none", "queued", "running", "done", "failed", "gone"}

RowTypeOK ==
  /\ status \in Statuses
  /\ submitAttempts \in 0 .. 1
  /\ age \in {"new", "stale", "abandoned"}
  /\ stalled \in BOOLEAN /\ known \in BOOLEAN /\ cancelRequested \in BOOLEAN
  /\ owner \in Workers \cup {NoWorker} /\ expired \in BOOLEAN
  /\ asset \in BOOLEAN /\ net \in Int

TypeOK ==
  /\ RowTypeOK
  /\ stage \in [Workers -> Stages] /\ cancelSeen \subseteq Workers
  /\ request \in Requests /\ inflight \in BOOLEAN /\ permitted \in BOOLEAN
  /\ sent \in Nat /\ faults \in 0 .. MaxFaults /\ turns \in 0 .. MaxTurns

Init ==
  /\ status = "absent" /\ submitAttempts = 0 /\ age = "new"
  /\ stalled = FALSE /\ known = FALSE /\ cancelRequested = FALSE
  /\ owner = NoWorker /\ expired = FALSE
  /\ asset = FALSE /\ net = 0
  /\ stage = [w \in Workers |-> "idle"] /\ cancelSeen = {}
  /\ request = "none" /\ inflight = FALSE /\ permitted = TRUE
  /\ sent = 0 /\ faults = 0 /\ turns = 0

Goto(w, s) ==
  /\ stage' = [stage EXCEPT ![w] = s]
  /\ cancelSeen' = IF s = "idle" THEN cancelSeen \ {w} ELSE cancelSeen

\* One conditional update: where the row qualifies its status becomes s, and
\* the handler is done in any case.
UpdateMany(w, qualifies, s) ==
  /\ \/ qualifies /\ status' = s
     \/ ~qualifies /\ UNCHANGED status
  /\ Goto(w, "idle")
  /\ UNCHANGED <<submission, age, cancelRequested, lease, delivery, provider,
                 world, faults>>

-----------------------------------------------------------------------------
(* Submission *)

\* reserveJob: a new key creates the row; an old one is answered from it.
Reserve(w) ==
  /\ stage[w] = "idle" /\ status = "absent" /\ permitted
  /\ status' = "PENDING"
  /\ Goto(w, "reserved")
  /\ UNCHANGED <<submission, age, cancelRequested, lease, delivery, provider,
                 world, faults>>

\* claimForSubmission, for the caller that created the row and for recovery.
UnsentByStatusOnly == status \in {"PENDING", "SUBMITTING"}
Unsent == status = "PENDING" /\ submitAttempts = 0

ClaimForSubmission(w) ==
  /\ stage[w] = "reserved"
  /\ \/ /\ Unsent
        /\ status' = "SUBMITTING" /\ stalled' = FALSE
        /\ submitAttempts' = submitAttempts + 1
        /\ Goto(w, "preparing")
     \/ /\ ~Unsent
        /\ Goto(w, "idle")
        /\ UNCHANGED <<status, stalled, submitAttempts>>
  /\ UNCHANGED <<known, age, cancelRequested, lease, delivery, provider, world,
                 faults>>

\* sendClaimedJob: the references or the model do not allow a request.  The
\* writes of the sender are not conditional.
Unsendable(w) ==
  /\ stage[w] = "preparing"
  /\ status' = "FAILED"
  /\ Goto(w, "idle")
  /\ UNCHANGED <<submission, age, cancelRequested, lease, delivery, provider,
                 world, faults>>

\* submitToQueue: only an answer that names the request, or refuses it, says
\* what became of the submission.
Submit(w) ==
  /\ stage[w] = "preparing"
  /\ sent' = sent + 1
  /\ \/ request' = "queued" /\ Goto(w, "queued") /\ UNCHANGED inflight
     \/ Goto(w, "rejected") /\ UNCHANGED <<request, inflight>>
     \/ inflight' = TRUE /\ Goto(w, "uncertain") /\ UNCHANGED request
  /\ UNCHANGED <<status, submission, age, cancelRequested, lease, delivery,
                 world, faults>>

StatusForUncertainAsFailed(answer) ==
  IF answer = "queued" THEN "QUEUED" ELSE "FAILED"
StatusFor(answer) ==
  CASE answer = "queued" -> "QUEUED"
    [] answer = "rejected" -> "FAILED"
    [] answer = "uncertain" -> "SUBMISSION_UNCERTAIN"

RecordAnswer(w) ==
  /\ stage[w] \in Answers
  /\ status' = StatusFor(stage[w])
  /\ known' = (known \/ stage[w] = "queued")
  /\ Goto(w, "idle")
  /\ UNCHANGED <<submitAttempts, stalled, age, cancelRequested, lease,
                 delivery, provider, world, faults>>

\* sweepStalledSubmissions: the sender never came back, or is very slow.
SweptTo == "SUBMISSION_UNCERTAIN"

SweepStalled ==
  /\ status = "SUBMITTING" /\ stalled
  /\ status' = SweptTo
  /\ UNCHANGED <<submission, age, cancelRequested, lease, delivery, stage,
                 cancelSeen, provider, world, faults>>

-----------------------------------------------------------------------------
(* recoverUnclaimedReservations *)

RecoverableUntilAbandoned == Unsent /\ age = "stale"
Recoverable == Unsent /\ age # "new"

FindReservation(w) ==
  /\ stage[w] = "idle" /\ Recoverable
  /\ Goto(w, IF age = "abandoned" THEN "abandoning" ELSE "checking")
  /\ UNCHANGED <<status, submission, age, cancelRequested, lease, delivery,
                 provider, world, faults>>

Abandon(w) == stage[w] = "abandoning" /\ UpdateMany(w, Unsent, "FAILED")

\* Sending needs the requester's access; a check that fails leaves the row.
CheckRecovery(w) ==
  /\ stage[w] = "checking"
  /\ \/ permitted /\ Goto(w, "reserved")
     \/ ~permitted /\ Goto(w, "denying")
     \/ Goto(w, "idle")
  /\ UNCHANGED <<status, submission, age, cancelRequested, lease, delivery,
                 provider, world, faults>>

DenyReservation(w) ==
  stage[w] = "denying" /\ UpdateMany(w, Unsent, "ORPHANED")

-----------------------------------------------------------------------------
(* Reading the provider *)

\* reconcileJob, from a poll, a page load or the cron.
Reconcile(w) ==
  /\ stage[w] = "idle" /\ known /\ status \in Live
  /\ stage' = [stage EXCEPT ![w] = "asking"]
  /\ cancelSeen' = IF cancelRequested THEN cancelSeen \cup {w} ELSE cancelSeen
  /\ UNCHANGED <<status, submission, age, cancelRequested, lease, delivery,
                 provider, world, faults>>

\* fetchQueueStatus: "unreachable" says nothing of the request; a refusal and
\* "not found" are taken to be true, as the code takes them.
AfterStatus ==
  {<<"queued", "in_queue">>, <<"running", "in_progress">>,
   <<"done", "fetching">>, <<"failed", "fetching">>, <<"failed", "failing">>,
   <<"gone", "not_found">>}

AskStatus(w) ==
  /\ stage[w] = "asking"
  /\ \E next \in Stages :
       /\ <<request, next>> \in AfterStatus \/ next = "noting"
       /\ Goto(w, next)
  /\ UNCHANGED <<status, submission, age, cancelRequested, lease, delivery,
                 provider, world, faults>>

\* fetchQueueResult: a verdict, the media, "pending" or no answer.
AfterResult ==
  {<<"done", "settling">>, <<"failed", "failing">>, <<"done", "idle">>,
   <<"failed", "idle">>}

FetchResult(w) ==
  /\ stage[w] = "fetching"
  /\ \E next \in Stages :
       /\ <<request, next>> \in AfterResult \/ next = "noting"
       /\ Goto(w, next)
  /\ UNCHANGED <<status, submission, age, cancelRequested, lease, delivery,
                 provider, world, faults>>

\* The provider's callback, which it may repeat; a callback for a request id
\* that is not stored yet is ignored.
Callback(w) ==
  /\ stage[w] = "idle" /\ known
  /\ \/ request = "done" /\ Goto(w, "settling")
     \/ request = "failed" /\ Goto(w, "failing")
  /\ UNCHANGED <<status, submission, age, cancelRequested, lease, delivery,
                 provider, world, faults>>

\* What was read is written later, where the status still allows it.
Reopenable == status = "SUBMISSION_UNCERTAIN"
MarkQueued(w) == stage[w] = "in_queue" /\ UpdateMany(w, Reopenable, "QUEUED")

RunnableWhatever == TRUE
Runnable == status \in {"QUEUED", "SUBMISSION_UNCERTAIN"}
MarkRunning(w) ==
  stage[w] = "in_progress" /\ UpdateMany(w, Runnable, "RUNNING")

\* The request is gone: cancelled, or lost by the provider.
MarkGone(w) ==
  /\ stage[w] = "not_found"
  /\ UpdateMany(w, status \in Live,
                IF w \in cancelSeen THEN "CANCELED" ELSE "FAILED")

FailImageJob(w) ==
  stage[w] = "failing" /\ UpdateMany(w, status \in Live, "FAILED")

\* noteUnreachable: the outage has lasted six hours, or not yet.
NoteUnreachable(w) ==
  /\ stage[w] = "noting"
  /\ \E long \in BOOLEAN :
       UpdateMany(w, long /\ status \in Live, "SUBMISSION_UNCERTAIN")

\* requestCancel: the provider accepts while the request is not finished; it
\* may finish all the same.
RequestCancel(w) ==
  /\ stage[w] = "idle" /\ known /\ request \in {"queued", "running"}
  /\ permitted /\ ~cancelRequested
  /\ Goto(w, "cancelling")
  /\ UNCHANGED <<status, submission, age, cancelRequested, lease, delivery,
                 provider, world, faults>>

MarkCancelRequested(w) ==
  /\ stage[w] = "cancelling"
  /\ \/ status \in {"QUEUED", "RUNNING"} /\ cancelRequested' = TRUE
     \/ status \notin {"QUEUED", "RUNNING"} /\ UNCHANGED cancelRequested
  /\ Goto(w, "idle")
  /\ UNCHANGED <<status, submission, age, lease, delivery, provider, world,
                 faults>>

\* finaliseCancellations; on any other answer it goes on as Reconcile does.
FindCancelled(w) ==
  /\ stage[w] = "idle" /\ known /\ cancelRequested /\ status \in Live
  /\ request = "gone"
  /\ Goto(w, "finalising")
  /\ UNCHANGED <<status, submission, age, cancelRequested, lease, delivery,
                 provider, world, faults>>

Finalise(w) ==
  /\ stage[w] = "finalising"
  /\ UpdateMany(w, status \in {"QUEUED", "RUNNING"}, "CANCELED")

-----------------------------------------------------------------------------
(* Settlement *)

\* settleWithMedia: one settler at a time, by a lease that can run out.
LeaseFree == owner = NoWorker \/ expired

ClaimForSettlement(w) ==
  /\ stage[w] = "settling"
  /\ \/ /\ status \in Live /\ ~asset /\ LeaseFree
        /\ owner' = w /\ expired' = FALSE
        /\ Goto(w, "authorizing")
     \/ /\ ~(status \in Live /\ ~asset /\ LeaseFree)
        /\ Goto(w, "idle") /\ UNCHANGED lease
  /\ UNCHANGED <<status, submission, age, cancelRequested, delivery, provider,
                 world, faults>>

\* The requester must still have access; the check may also fail to answer.
Authorize(w) ==
  /\ stage[w] = "authorizing"
  /\ \/ permitted /\ Goto(w, "storing")
     \/ ~permitted /\ Goto(w, "denied")
     \/ Goto(w, "deferred")
  /\ UNCHANGED <<status, submission, age, cancelRequested, lease, delivery,
                 provider, world, faults>>

\* The download and the write to the private store, or one of them fails.
Store(w) ==
  /\ stage[w] = "storing"
  /\ Goto(w, "inserting") \/ Goto(w, "deferred")
  /\ UNCHANGED <<status, submission, age, cancelRequested, lease, delivery,
                 provider, world, faults>>

\* releaseSettlementLease, fenced by owner.
MayRelease(w) == owner = w

ReleaseLease(w) ==
  \/ MayRelease(w) /\ owner' = NoWorker /\ expired' = FALSE
  \/ ~MayRelease(w) /\ UNCHANGED lease

Release(w) ==
  /\ \/ stage[w] = "denied" /\ Goto(w, "orphaning")
     \/ stage[w] = "deferred" /\ Goto(w, "noting")
  /\ ReleaseLease(w)
  /\ UNCHANGED <<status, submission, age, cancelRequested, delivery, provider,
                 world, faults>>

\* The refusal is recorded by row id alone.
Orphan(w) == stage[w] = "orphaning" /\ UpdateMany(w, TRUE, "ORPHANED")

\* insertAsset: image, charge and status in one serializable transaction.  A
\* balance that does not cover the quote gives the image away.
InsertableAgain == TRUE
Insertable == ~asset

InsertAsset(w) ==
  /\ stage[w] = "inserting"
  /\ \/ /\ Insertable
        /\ asset' = TRUE /\ net' \in {net - 1, net}
        /\ status' = "SUCCEEDED"
        /\ owner' = NoWorker /\ expired' = FALSE
     \/ ~Insertable /\ UNCHANGED <<status, lease, delivery>>
  /\ Goto(w, "idle")
  /\ UNCHANGED <<submission, age, cancelRequested, provider, world, faults>>

\* The transaction fails for another reason: the error goes to the caller.
InsertFails(w) ==
  /\ stage[w] = "inserting"
  /\ faults < MaxFaults /\ faults' = faults + 1
  /\ ReleaseLease(w)
  /\ Goto(w, "idle")
  /\ UNCHANGED <<status, submission, age, cancelRequested, delivery, provider,
                 world>>

-----------------------------------------------------------------------------
(* The provider, access, time and failures *)

\* A submission nobody waits for becomes a request or is lost.
Land ==
  /\ inflight /\ inflight' = FALSE
  /\ request' \in {"queued", request}
  /\ UNCHANGED <<status, submission, age, cancelRequested, lease, delivery,
                 stage, cancelSeen, sent, world, faults>>

Progress ==
  /\ \/ request = "queued" /\ request' = "running"
     \/ request = "running" /\ request' \in {"done", "failed"}
     \/ request \in {"queued", "running"} /\ request' = "gone"
  /\ UNCHANGED <<status, submission, age, cancelRequested, lease, delivery,
                 stage, cancelSeen, inflight, sent, world, faults>>

\* The requester leaves the organization, or comes back.
ChangeAccess ==
  /\ turns < MaxTurns /\ turns' = turns + 1
  /\ permitted' = ~permitted
  /\ UNCHANGED <<status, submission, age, cancelRequested, lease, delivery,
                 stage, cancelSeen, provider, faults>>

GrowOld ==
  /\ status = "PENDING"
  /\ \/ age = "new" /\ age' = "stale"
     \/ age = "stale" /\ age' = "abandoned"
  /\ UNCHANGED <<status, submission, cancelRequested, lease, delivery, stage,
                 cancelSeen, provider, world, faults>>

Stall ==
  /\ status = "SUBMITTING" /\ ~stalled /\ stalled' = TRUE
  /\ UNCHANGED <<status, submitAttempts, known, age, cancelRequested, lease,
                 delivery, stage, cancelSeen, provider, world, faults>>

ExpireLease ==
  /\ owner # NoWorker /\ ~expired /\ expired' = TRUE
  /\ \/ stage[owner] \notin Holding /\ UNCHANGED faults
     \/ /\ stage[owner] \in Holding /\ Overrun
        /\ faults < MaxFaults /\ faults' = faults + 1
  /\ UNCHANGED <<status, submission, age, cancelRequested, owner, delivery,
                 stage, cancelSeen, provider, world>>

\* The function is killed, or a write of it fails.
Crash(w) ==
  /\ stage[w] # "idle"
  /\ faults < MaxFaults /\ faults' = faults + 1
  /\ Goto(w, "idle")
  /\ UNCHANGED <<status, submission, age, cancelRequested, lease, delivery,
                 provider, world>>

-----------------------------------------------------------------------------
Step(w) ==
  \/ ClaimForSubmission(w) \/ Unsendable(w) \/ Submit(w) \/ RecordAnswer(w)
  \/ Abandon(w) \/ CheckRecovery(w) \/ DenyReservation(w)
  \/ AskStatus(w) \/ FetchResult(w) \/ MarkQueued(w) \/ MarkRunning(w)
  \/ MarkGone(w) \/ FailImageJob(w) \/ NoteUnreachable(w)
  \/ MarkCancelRequested(w) \/ Finalise(w)
  \/ ClaimForSettlement(w) \/ Authorize(w) \/ Store(w) \/ Release(w)
  \/ Orphan(w) \/ InsertAsset(w)

Begin(w) ==
  \/ Reserve(w) \/ FindReservation(w) \/ Reconcile(w) \/ Callback(w)
  \/ RequestCancel(w) \/ FindCancelled(w)

Elsewhere ==
  \/ SweepStalled \/ Land \/ Progress \/ ChangeAccess \/ GrowOld \/ Stall
  \/ ExpireLease

Next ==
  \/ \E w \in Workers : Begin(w) \/ Step(w) \/ InsertFails(w) \/ Crash(w)
  \/ Elsewhere

Spec == Init /\ [][Next]_vars

(***************************************************************************)
(* The cron sweeps every five minutes; a handler goes on or dies, and time *)
(* passes.  The provider need not answer and people need not act.          *)
(***************************************************************************)
FairSpec ==
  /\ Spec
  /\ WF_vars(SweepStalled) /\ WF_vars(\E w \in Workers : FindReservation(w))
  /\ \A w \in Workers : WF_vars(Step(w))
  /\ WF_vars(GrowOld) /\ WF_vars(Stall)

-----------------------------------------------------------------------------
(* Properties *)

\* A paid request is never sent twice for one row (the first of the file's two
\* promises), however creation, recovery, sweeps and crashes interleave.
SentOnce == sent <= 1

\* A job that is reported as failed or cancelled has no request left that the
\* provider could still carry out and bill, known or unknown to the row: the
\* plain "try again" that such a job is offered cannot buy a second image.
RetryIsFree ==
  status \in {"FAILED", "CANCELED"} =>
    request \in {"none", "failed", "gone"} /\ ~inflight

\* Credits are taken once at most, and only for an image that was stored,
\* whatever settlers race past an expired lease.
ChargedOnce == net \in {-1, 0} /\ (net = -1 => asset)

\* A refused requester keeps nothing and pays nothing, as the comment
\* after the refusal has it.
OrphanedKeepsNothing == status = "ORPHANED" => ~asset /\ net = 0

\* A settlement lease that has not run out is given up by its own holder, or
\* ended by the image being recorded.
HolderKeepsLease ==
  [][\A w \in Workers :
       owner = w /\ ~expired /\ owner' # w =>
         \/ stage[w] \in Holding /\ stage'[w] # stage[w]
         \/ asset' # asset]_vars

\* A closed job is not taken up again by an answer read before it was closed,
\* and a delivered image is never reported as failed, cancelled or unfinished.
ClosedStaysClosed ==
  [][/\ status \in Closed => status' \in Closed
     /\ asset => status' \in {"SUCCEEDED", "ORPHANED"}
    ]_vars

\* A reservation is sent, refused or given up, and a submission whose sender
\* died is resolved: neither holds its slot of the project's budget for ever.
SlotComesFree ==
  status \in {"PENDING", "SUBMITTING"} ~>
    status \notin {"PENDING", "SUBMITTING"}
=============================================================================
