------------------------- MODULE SocialPostPublisher -------------------------
(***************************************************************************)
(* One social post, from schedule to platform                              *)
(* (src/apps/core/src/services/social-post-publisher.service.ts and the    *)
(* status changes of social-posts.service.ts).                             *)
(*                                                                         *)
(* Scheduler workers, and people who publish at once, take a five-minute   *)
(* lease on the row, record an attempt, call the platform, record what     *)
(* came of it and settle the row; each is a write of its own, and a worker *)
(* may die between any two.  A worker that finds an expired lease must     *)
(* work out what the platform has.  A post of more than one part is a      *)
(* thread on X: its parts are posted one by one, and each call is          *)
(* announced in the row by an in-flight marker.                            *)
(*                                                                         *)
(* A slot of Workers is the token of its current lease.  Times are         *)
(* nondeterministic: a lease may expire, a post be due, late or out of its *)
(* retry window whenever its state allows.  Quotes are not modelled.       *)
(***************************************************************************)
EXTENDS Integers

CONSTANTS
  Workers,      \* slots for concurrent publishing runs
  NoWorker,     \* leaseToken = null
  LastPart,     \* bound: parts of a post
  MaxAttempts,  \* MAX_ATTEMPTS
  Overrun,      \* may the run of a thread outlive its lease?
  MaxFaults,    \* bound: crashes, failed writes and overruns
  MaxActs       \* bound: what people do to the post

ASSUME WorkerAssumption == NoWorker \notin Workers
ASSUME PartAssumption == LastPart \in Nat \ {0}
ASSUME AttemptAssumption == MaxAttempts \in Nat \ {0}
ASSUME BoundAssumption ==
  MaxFaults \in Nat /\ MaxActs \in Nat /\ Overrun \in BOOLEAN

VARIABLES
  \* the social_post row, its thread parts and its project
  status, attemptCount, due, unsure,  \* unsure: lastError says unconfirmed
  token, expired,
  length,                \* parts of the post; 1 if it has no threadParts
  marker, ids,           \* publishingThreadPartPosition; parts with an id
  latest, mine,          \* outcome of the latest publish attempt; its run
  open,                  \* the project is neither closing nor closed
  \* the runs
  stage, part,           \* part: the one being posted
  current,               \* runs that have seen the row's present revision
  recovering, tried, begun,  \* from the row as claimed
  verdict, counting, doubting,  \* what the run is about to settle
  \* the platform, and history
  live,                  \* how often each part is on the platform
  faults, acts

row == <<status, attemptCount, due, unsure>>
lease == <<token, expired>>
thread == <<marker, ids>>
run == <<stage, part>>
attempts == <<latest, mine>>
seen == <<recovering, tried, begun>>
closing == <<verdict, counting, doubting>>
bounds == <<faults, acts>>
vars == <<row, lease, length, thread, attempts, open, run, current, seen,
          closing, live, bounds>>

Parts == 1 .. LastPart
OwnParts == 1 .. length
Single == length = 1
Statuses == {"DRAFT", "SCHEDULED", "PUBLISHING", "PUBLISHED", "FAILED",
             "MISSED", "CANCELED"}
Verdicts == {"SCHEDULED", "PUBLISHED", "FAILED", "MISSED"}
Outcomes == {"none", "open", "succeeded", "failed_transient",
             "failed_permanent", "unconfirmed", "missed", "ineligible"}
Answers == {"created", "transient", "permanent", "unknown"}
Stages == {"idle", "found", "recovering", "eligible", "manual", "attempt",
           "part", "calling", "progress", "settling"} \cup Answers

RowTypeOK ==
  /\ status \in Statuses
  /\ attemptCount \in 0 .. MaxAttempts
  /\ due \in BOOLEAN /\ unsure \in BOOLEAN /\ open \in BOOLEAN
  /\ token \in Workers \cup {NoWorker} /\ expired \in BOOLEAN
  /\ length \in Parts
  /\ marker \in {0} \cup OwnParts /\ ids \subseteq OwnParts
  /\ latest \in Outcomes

RunTypeOK ==
  /\ stage \in [Workers -> Stages]
  /\ part \in [Workers -> {0} \cup OwnParts]
  /\ tried \in [Workers -> 0 .. MaxAttempts]
  /\ verdict \in [Workers -> Verdicts]
  /\ {mine, current, recovering, begun, counting, doubting}
       \subseteq SUBSET Workers

HistoryTypeOK ==
  /\ live \in [Parts -> Nat]
  /\ faults \in 0 .. MaxFaults /\ acts \in 0 .. MaxActs

TypeOK == RowTypeOK /\ RunTypeOK /\ HistoryTypeOK

Init ==
  /\ status \in {"DRAFT", "SCHEDULED"}
  /\ attemptCount = 0 /\ due = FALSE /\ unsure = FALSE
  /\ token = NoWorker /\ expired = FALSE
  /\ length \in Parts /\ marker = 0 /\ ids = {} /\ open = TRUE
  /\ latest = "none" /\ mine = {}
  /\ stage = [w \in Workers |-> "idle"]
  /\ part = [w \in Workers |-> 0]
  /\ tried = [w \in Workers |-> 0]
  /\ verdict = [w \in Workers |-> "FAILED"]
  /\ current = {} /\ recovering = {} /\ begun = {}
  /\ counting = {} /\ doubting = {}
  /\ live = [p \in Parts |-> 0]
  /\ faults = 0 /\ acts = 0

Goto(w, s) == stage' = [stage EXCEPT ![w] = s] /\ UNCHANGED part

\* A run is over: its local state is forgotten.
Return(w) ==
  /\ stage' = [stage EXCEPT ![w] = "idle"]
  /\ part' = [part EXCEPT ![w] = 0]
  /\ tried' = [tried EXCEPT ![w] = 0]
  /\ verdict' = [verdict EXCEPT ![w] = "FAILED"]
  /\ recovering' = recovering \ {w} /\ begun' = begun \ {w}
  /\ counting' = counting \ {w} /\ doubting' = doubting \ {w}

\* An attempt of run w is recorded, or an outcome without a call.  Only the
\* latest attempt is ever read.
Begin(w) == latest' = "open" /\ mine' = {w}
Note(outcome) == latest' = outcome /\ mine' = {}

\* Record an outcome on the run's own attempt, be it the latest or not.
Record(w, outcome) ==
  /\ latest' = IF w \in mine THEN outcome ELSE latest
  /\ UNCHANGED mine

\* The run goes on to settle the row as s; it counts as an attempt, or leaves
\* the post in doubt, if so stated.
Decide(w, s, counts, doubts) ==
  /\ Goto(w, "settling")
  /\ verdict' = [verdict EXCEPT ![w] = s]
  /\ counting' = IF counts THEN counting \cup {w} ELSE counting \ {w}
  /\ doubting' = IF doubts THEN doubting \cup {w} ELSE doubting \ {w}

-----------------------------------------------------------------------------
(* Claiming *)

StrandedIfOpen == status = "PUBLISHING" /\ expired /\ open
Stranded == status = "PUBLISHING" /\ expired

\* claimDuePost reads the earliest due post, or one whose lease ran out ...
Find(w) ==
  /\ stage[w] = "idle"
  /\ \/ status = "SCHEDULED" /\ open /\ due /\ UNCHANGED recovering
     \/ /\ Stranded
        /\ recovering' = recovering \cup {w}
  /\ current' = current \cup {w}
  /\ tried' = [tried EXCEPT ![w] = attemptCount]
  /\ begun' = IF 1 \in ids THEN begun \cup {w} ELSE begun
  /\ Goto(w, "found")
  /\ UNCHANGED <<row, lease, length, thread, attempts, open, closing, live,
                 bounds>>

\* ... and takes it, unless the row has got another revision since.
SameRow(w) == w \in current

Claim(w) ==
  /\ stage[w] = "found"
  /\ \/ /\ SameRow(w) /\ (w \in recovering \/ open)
        /\ status' = "PUBLISHING"
        /\ token' = w /\ expired' = FALSE
        /\ current' = {}
        /\ Goto(w, IF w \in recovering THEN "recovering" ELSE "eligible")
        /\ UNCHANGED <<seen, closing>>
     \/ /\ ~(SameRow(w) /\ (w \in recovering \/ open))
        /\ Return(w) /\ current' = current \ {w}
        /\ UNCHANGED <<status, lease>>
  /\ UNCHANGED <<attemptCount, due, unsure, length, thread, attempts, open,
                 live, bounds>>

\* The latest attempt tells what became of the run whose lease expired.  One
\* that was never finished leaves a single post unconfirmed; a thread goes on,
\* since its parts are recorded.
ThreadGoesOn(o) == ~Single /\ o \in {"none", "open", "succeeded"}

VerdictRetryingUnfinished(o, count) ==
  CASE o = "succeeded" -> "PUBLISHED"
    [] o = "missed" -> "MISSED"
    [] o \in {"open", "failed_transient"} /\ count + 1 < MaxAttempts ->
         "SCHEDULED"
    [] OTHER -> "FAILED"
VerdictOf(o, count) ==
  CASE o = "succeeded" -> "PUBLISHED"
    [] o = "missed" -> "MISSED"
    [] o = "failed_transient" /\ count + 1 < MaxAttempts -> "SCHEDULED"
    [] OTHER -> "FAILED"

Exhausted(o, count) == o = "failed_transient" /\ count + 1 >= MaxAttempts
CountsOnRecovery(o, count) ==
  /\ o \in {"succeeded", "failed_transient", "failed_permanent",
            "unconfirmed"}
  /\ ~Exhausted(o, count)
DoubtsIfToldSo(o, count) == o = "unconfirmed"
DoubtsOnRecovery(o, count) ==
  o \in {"none", "open", "unconfirmed"} \/ Exhausted(o, count)

Recover(w) ==
  /\ stage[w] = "recovering"
  /\ \/ ThreadGoesOn(latest) /\ Goto(w, "eligible") /\ UNCHANGED closing
     \/ /\ ~ThreadGoesOn(latest)
        /\ Decide(w, VerdictOf(latest, tried[w]),
                  CountsOnRecovery(latest, tried[w]),
                  DoubtsOnRecovery(latest, tried[w]))
  /\ UNCHANGED <<row, lease, length, thread, attempts, open, current, seen,
                 live, bounds>>

-----------------------------------------------------------------------------
(* Checks before an attempt *)

Eligible(w) == stage[w] \in {"eligible", "manual"}

\* The project is closed, the connection inactive, the coworker's access
\* revoked or the provider disabled: recorded, then settled as failed.
Ineligible(w) ==
  /\ Eligible(w)
  /\ Note("ineligible")
  /\ Decide(w, "FAILED", FALSE, FALSE)
  /\ UNCHANGED <<row, lease, length, thread, open, current, seen, live,
                 bounds>>

\* A retry that comes after its window is over.
WindowOver(w) ==
  /\ Eligible(w) /\ tried[w] > 0
  /\ Decide(w, "FAILED", FALSE, FALSE)
  /\ UNCHANGED <<row, lease, length, thread, attempts, open, current, seen,
                 live, bounds>>

\* An hour late, and nothing published: the post is missed.  A person who
\* publishes at once makes the planned time now.
Missed(w) ==
  /\ stage[w] = "eligible" /\ tried[w] = 0 /\ w \notin begun
  /\ Note("missed")
  /\ Decide(w, "MISSED", FALSE, FALSE)
  /\ UNCHANGED <<row, lease, length, thread, open, current, seen, live,
                 bounds>>

\* The attempt is on record before the platform is called.  A project that
\* closes between check and record is seen by the second check.
StartAttempt(w) ==
  /\ Eligible(w) /\ open
  /\ Begin(w)
  /\ Goto(w, "attempt")
  /\ UNCHANGED <<row, lease, length, thread, open, current, seen, closing,
                 live, bounds>>

\* Second checks: access revoked or project closed since.
Revoked(w) ==
  /\ stage[w] = "attempt"
  /\ Record(w, "ineligible")
  /\ Decide(w, "FAILED", FALSE, FALSE)
  /\ UNCHANGED <<row, lease, length, thread, open, current, seen, live,
                 bounds>>

\* Media, text limit or deadline stop the attempt before any call.
Unfit(w) ==
  /\ stage[w] = "attempt"
  /\ \E answer \in {"transient", "permanent"} : Goto(w, answer)
  /\ UNCHANGED <<row, lease, length, thread, attempts, open, current, seen,
                 closing, live, bounds>>

-----------------------------------------------------------------------------
(* Calling the platform *)

\* Thread progress is written under the lease, while it lasts.
Fenced(w) == token = w /\ ~expired

BeginCall(w, p) ==
  /\ stage' = [stage EXCEPT ![w] = "calling"]
  /\ part' = [part EXCEPT ![w] = p]

Publish(w) ==
  /\ stage[w] = "attempt" /\ open
  /\ \/ Single /\ BeginCall(w, 1)
     \/ ~Single /\ Goto(w, "part")
  /\ UNCHANGED <<row, lease, length, thread, attempts, open, current, seen,
                 closing, live, bounds>>

Left == OwnParts \ ids
NextPartDescending == CHOOSE p \in Left : \A q \in Left : p >= q
NextPart == CHOOSE p \in Left : \A q \in Left : p <= q

\* publishThread, once around its loop: announce the next part and call.
Announced(p) == p

AllButLastPublished == OwnParts \ {length} \subseteq ids
AllPublished == ids = OwnParts

NextCall(w) ==
  /\ stage[w] = "part" /\ Fenced(w)
  /\ ~AllPublished /\ marker = 0
  /\ marker' = Announced(NextPart)
  /\ BeginCall(w, NextPart)
  /\ UNCHANGED <<row, lease, length, ids, attempts, open, current, seen,
                 closing, live, bounds>>

\* The loop ends: all parts published, an earlier call unconfirmed, a part
\* that cannot be posted, the run aborted, or the lease lost.
EndLoop(w) ==
  /\ stage[w] = "part"
  /\ \/ /\ Fenced(w)
        /\ \/ AllPublished /\ Goto(w, "created")
           \/ ~AllPublished /\ marker # 0 /\ Goto(w, "unknown")
           \/ ~AllPublished /\ marker = 0 /\ Goto(w, "permanent")
           \/ Goto(w, "transient")
        /\ UNCHANGED <<seen, closing>>
     \/ ~Fenced(w) /\ Return(w)
  /\ UNCHANGED <<row, lease, length, thread, attempts, open, current, live,
                 bounds>>

Landed(w) == live' = [live EXCEPT ![part[w]] = @ + 1]

\* The platform confirms the post.
Created(w) ==
  /\ stage[w] = "calling"
  /\ Landed(w)
  /\ Goto(w, IF Single THEN "created" ELSE "progress")
  /\ UNCHANGED <<row, lease, length, thread, attempts, open, current, seen,
                 closing, bounds>>

\* It refuses, or no answer comes; only a refusal takes the marker back.
KeepsMarker(answer) == answer = "unknown"

NotConfirmed(w, answer) ==
  /\ stage[w] = "calling"
  /\ \/ answer = "unknown" /\ Landed(w)
     \/ UNCHANGED live
  /\ \/ /\ Single \/ Fenced(w)
        /\ marker' = (IF Single \/ KeepsMarker(answer) THEN marker ELSE 0)
        /\ Goto(w, answer)
        /\ UNCHANGED <<seen, closing>>
     \/ /\ ~Single /\ ~Fenced(w)
        /\ Return(w)
        /\ UNCHANGED marker
  /\ UNCHANGED <<row, lease, length, ids, attempts, open, current, bounds>>

\* A published part's id is stored.
Progress(w) ==
  /\ stage[w] = "progress"
  /\ \/ /\ Fenced(w)
        /\ ids' = ids \cup {part[w]} /\ marker' = 0
        /\ Goto(w, "part")
        /\ UNCHANGED <<seen, closing>>
     \/ ~Fenced(w) /\ Return(w) /\ UNCHANGED thread
  /\ UNCHANGED <<length, row, lease, attempts, open, current, live, bounds>>

\* Storing progress fails.  After a success the part is unconfirmed; after a
\* refusal or a lost answer the error passes for a transient one.
ProgressFails(w) ==
  /\ ~Single /\ faults < MaxFaults /\ faults' = faults + 1
  /\ \/ stage[w] = "progress" /\ Goto(w, "unknown") /\ UNCHANGED live
     \/ /\ stage[w] = "calling" /\ Goto(w, "transient")
        /\ (Landed(w) \/ UNCHANGED live)
  /\ UNCHANGED <<row, lease, length, thread, attempts, open, current, seen,
                 closing, acts>>

-----------------------------------------------------------------------------
(* Recording and settling *)

RecordSuccess(w) ==
  /\ stage[w] = "created"
  /\ Record(w, "succeeded")
  /\ Decide(w, "PUBLISHED", TRUE, FALSE)
  /\ UNCHANGED <<row, lease, length, thread, open, current, seen, live,
                 bounds>>

\* A transient failure is retried while attempts and the window last.
RetriesLeft(w) == tried[w] + 1 < MaxAttempts

RecordFailure(w) ==
  /\ stage[w] \in {"transient", "permanent", "unknown"}
  /\ \/ /\ stage[w] = "transient" /\ RetriesLeft(w)
        /\ Record(w, "failed_transient")
        /\ Decide(w, "SCHEDULED", TRUE, FALSE)
     \/ /\ stage[w] # "unknown"
        /\ Record(w, "failed_permanent")
        /\ Decide(w, "FAILED", TRUE, FALSE)
     \/ /\ stage[w] = "unknown"
        /\ Record(w, "unconfirmed")
        /\ Decide(w, "FAILED", TRUE, TRUE)
  /\ UNCHANGED <<row, lease, length, thread, open, current, seen, live,
                 bounds>>

\* settleRetry: in a project that is closing no post is put back to wait.
SettlesAsDecided(w) == verdict[w]
SettlesAs(w) ==
  IF verdict[w] = "SCHEDULED" /\ ~open THEN "FAILED" ELSE verdict[w]

\* Every write that ends a run is fenced on its lease token.
OwnsAlways(w) == status = "PUBLISHING"
Owns(w) == token = w

Settle(w) ==
  /\ stage[w] = "settling"
  /\ \/ /\ Owns(w)
        /\ status' = SettlesAs(w)
        /\ attemptCount' =
             (IF w \in counting THEN tried[w] + 1 ELSE attemptCount)
        /\ unsure' = (w \in doubting) /\ due' = FALSE
        /\ token' = NoWorker /\ expired' = FALSE
        /\ ids' = (IF verdict[w] = "PUBLISHED" THEN ids \cup {1} ELSE ids)
        /\ current' = {}
     \/ ~Owns(w) /\ UNCHANGED <<row, lease, ids, current>>
  /\ Return(w)
  /\ UNCHANGED <<length, marker, attempts, open, live, bounds>>

AtWork(w) == stage[w] \notin {"idle", "found"}

\* The run dies or a write of it fails: the lease stays as it is.
Crash(w) ==
  /\ AtWork(w) /\ faults < MaxFaults /\ faults' = faults + 1
  /\ \/ stage[w] = "calling" /\ Landed(w)
     \/ UNCHANGED live
  /\ Return(w)
  /\ UNCHANGED <<row, lease, length, thread, attempts, open, current, acts>>

-----------------------------------------------------------------------------
(* Time *)

\* A run is killed before its lease is over, or else overruns it; the run of
\* a single post is always killed in time.
ExpireLease ==
  /\ token # NoWorker /\ ~expired /\ expired' = TRUE
  /\ \/ ~AtWork(token) /\ UNCHANGED faults
     \/ /\ AtWork(token) /\ Overrun /\ ~Single
        /\ faults < MaxFaults /\ faults' = faults + 1
  /\ UNCHANGED <<row, token, length, thread, attempts, open, run, current,
                 seen, closing, live, acts>>

BecomeDue ==
  /\ status = "SCHEDULED" /\ ~due /\ due' = TRUE
  /\ UNCHANGED <<status, attemptCount, unsure, lease, length, thread, attempts,
                 open, run, current, seen, closing, live, bounds>>

-----------------------------------------------------------------------------
(* People.  One who is told that the post is unconfirmed looks on the       *)
(* platform, and leaves it alone if it is there.                            *)

Restable == {"DRAFT", "SCHEDULED", "FAILED", "MISSED"}
Advised == unsure /\ Single => live[1] = 0
Act == acts < MaxActs /\ acts' = acts + 1

\* The retry state starts afresh.
Afresh == attemptCount' = 0 /\ unsure' = FALSE /\ current' = {}

NothingUnconfirmed == marker = 0

PublishNow(w) ==
  /\ Act /\ Advised /\ open /\ status \in Restable /\ NothingUnconfirmed
  /\ stage[w] = "idle"
  /\ status' = "PUBLISHING" /\ token' = w /\ expired' = FALSE /\ due' = FALSE
  /\ Afresh
  /\ begun' = (IF 1 \in ids THEN begun \cup {w} ELSE begun)
  /\ tried' = [tried EXCEPT ![w] = 0]
  /\ Goto(w, "manual")
  /\ UNCHANGED <<length, thread, attempts, open, recovering, closing, live,
                 faults>>

Schedule ==
  /\ Act /\ Advised /\ open /\ status \in Restable /\ NothingUnconfirmed
  /\ status' = "SCHEDULED" /\ due' = FALSE
  /\ Afresh
  /\ UNCHANGED <<lease, length, thread, attempts, open, run, seen, closing,
                 live, faults>>

\* An edit keeps the status and may move the planned time, or takes a post of
\* a disabled provider back to draft; a thread that has begun stays as it is.
Edit ==
  /\ Act /\ Advised /\ status \in Restable
  /\ Single \/ (ids = {} /\ marker = 0)
  /\ \/ status' = status /\ (status = "SCHEDULED" => open)
     \/ status \in {"FAILED", "MISSED"} /\ status' = "DRAFT"
  /\ IF status = "DRAFT"
       THEN current' = {} /\ UNCHANGED <<attemptCount, unsure>>
       ELSE Afresh
  /\ due' \in {due, FALSE}
  /\ UNCHANGED <<lease, length, thread, attempts, open, run, seen, closing,
                 live, faults>>

Cancel ==
  /\ Act /\ status \in Restable /\ status' = "CANCELED" /\ current' = {}
  /\ UNCHANGED <<attemptCount, due, unsure, lease, length, thread, attempts,
                 open, run, seen, closing, live, faults>>

\* resumeSocialPostThread: someone confirms that the marked part was never
\* posted, nor will be.
Resume ==
  /\ Act /\ open /\ ~Single /\ status = "FAILED" /\ marker # 0
  /\ (token = NoWorker \/ expired)
  /\ live[marker] = 0
  /\ \A w \in Workers : stage[w] = "calling" => part[w] # marker
  /\ marker' = 0 /\ current' = {}
  /\ UNCHANGED <<row, lease, length, ids, attempts, open, run, seen, closing,
                 live, faults>>

\* Closing the project cancels what is scheduled; runs go on.
CloseProject ==
  /\ open /\ open' = FALSE
  /\ IF status = "SCHEDULED"
       THEN status' = "CANCELED" /\ current' = {}
       ELSE UNCHANGED <<status, current>>
  /\ UNCHANGED <<attemptCount, due, unsure, lease, length, thread, attempts,
                 run, seen, closing, live, bounds>>

-----------------------------------------------------------------------------
Work(w) ==
  \/ Claim(w) \/ Recover(w) \/ Ineligible(w) \/ WindowOver(w) \/ Missed(w)
  \/ StartAttempt(w) \/ Revoked(w) \/ Unfit(w) \/ Publish(w)
  \/ NextCall(w) \/ EndLoop(w) \/ Created(w)
  \/ \E answer \in Answers \ {"created"} : NotConfirmed(w, answer)
  \/ Progress(w) \/ RecordSuccess(w) \/ RecordFailure(w) \/ Settle(w)

Next ==
  \/ \E w \in Workers : Find(w) \/ Work(w) \/ ProgressFails(w) \/ Crash(w)
                          \/ PublishNow(w)
  \/ ExpireLease \/ BecomeDue
  \/ Schedule \/ Edit \/ Cancel \/ Resume \/ CloseProject

Spec == Init /\ [][Next]_vars

\* The cron comes round every minute, a run goes on or its lease runs out, and
\* a scheduled post falls due; people need not act.
FairSpec ==
  /\ Spec
  /\ WF_vars(\E w \in Workers : Find(w))
  /\ \A w \in Workers : WF_vars(Work(w))
  /\ WF_vars(ExpireLease) /\ WF_vars(BecomeDue)

-----------------------------------------------------------------------------
(* Properties *)

\* No part is on the platform twice: whatever crashed, expired or was retried,
\* as long as people who are warned look before they publish again.
PostedOnce == \A p \in Parts : live[p] <= 1

\* A post on record as published is on the platform, with all its parts.
PublishedIsLive == status = "PUBLISHED" => \A p \in OwnParts : live[p] > 0

\* A part that may be on the platform without its id on record is known to be
\* unconfirmed: by the thread's marker, or by the row's error once it rests.
Warned ==
  \A p \in Parts :
    live[p] > 0 /\ p \notin ids =>
      IF Single
        THEN status \in {"PUBLISHING", "CANCELED"} \/ unsure
        ELSE marker = p

\* The parts of a thread appear in order, each after the previous one's id is
\* on record to reply to.
InOrder ==
  \A p \in Parts : live[p] > 0 => \A q \in 1 .. p - 1 : q \in ids

\* Once a project is closing none of its posts waits to be published, whatever
\* run was about to retry one when it closed.
ClosedIsQuiet == ~open => status # "SCHEDULED"

\* A post leaves PUBLISHING only by the run that holds its lease.
HolderSettles ==
  [][status = "PUBLISHING" /\ status' # "PUBLISHING" =>
       \E w \in Workers : token = w /\ stage[w] = "settling"
                            /\ stage'[w] = "idle"]_vars

\* A post that waits or is being published comes to rest.
Rests == status \in {"SCHEDULED", "PUBLISHING"}
           ~> status \notin {"SCHEDULED", "PUBLISHING"}
=============================================================================
