--------------------------- MODULE NewsletterSend ---------------------------
(***************************************************************************)
(* The sending of a newsletter's issues (newsletter-send.service.ts): the  *)
(* claim of a due issue, the list of its recipients, the batches with      *)
(* their reservations under a lease, the call of the mail provider and the *)
(* closing of the issue; the people who approve, schedule, cancel and edit *)
(* issues (newsletter-issues.service.ts); the subscribers who come and go; *)
(* and the daily cap of a new sending domain, which all issues share.      *)
(*                                                                         *)
(* A send, the row of one issue and one subscriber, is reserved before the *)
(* provider is called: attemptedAt is set.  A reservation whose outcome is *)
(* unknown is failed, never repeated.                                      *)
(***************************************************************************)
EXTENDS Integers, FiniteSets, Sequences

CONSTANTS
  Issues, Subscribers,   \* subscribers by their ids, which are ordered
  Workers, NoWorker, NoIssue,
  BatchSize,         \* RESEND_BATCH_MAX_SIZE
  Caps,              \* WARMUP_DAILY_CAPS, day by day; later days have none
  MaxFaults,         \* bound: crashes, failed writes, outlived leases
  MaxActs            \* bound: edits, subscriptions, pauses of the warm-up

ASSUME SendAssumption ==
  /\ NoWorker \notin Workers /\ NoIssue \notin Issues
  /\ IsFiniteSet(Issues)
  /\ IsFiniteSet(Subscribers) /\ Subscribers \subseteq Nat \ {0}
  /\ BatchSize \in Nat \ {0} /\ Caps \in Seq(Nat)
  /\ MaxFaults \in Nat /\ MaxActs \in Nat

Pairs == Issues \X Subscribers

\* The first day without a cap, which stands for all later ones.
LastDay == Len(Caps) + 1

VARIABLES
  status,     \* of each issue
  edition,    \* its content, counted by edits
  approved,   \* the edition a person approved, 0 for none
  due,        \* whether scheduledAt has come
  token,      \* leaseToken
  until,      \* leaseExpiresAt: none, soon (minutes), tomorrow, over
  send,       \* status of the send of each issue to each subscriber
  on,         \* the day of its attemptedAt, 0 for null
  active,     \* the subscribers whose status is ACTIVE
  day,        \* UTC day of the domain's warm-up
  usedOn,     \* warmupSentOnDayUtc
  used,       \* warmupSentCount
  paused,     \* warmupPausedAt is set
  stage,      \* what each worker does next
  job,        \* the issue it works on
  saw,        \* the row it read, and whether its revision has moved since
  content,    \* the edition it read
  cursor,     \* the last subscriber it listed
  todo,       \* the queue it has left
  batch,      \* recipients of its batch
  taken,      \* those it has reserved
  retry,      \* retryAt: a day, or 0 for minutes after now
  left,       \* whether sends are left, and whether any is SENT
  mails,      \* history: how often each send went out
  mailed,     \* history: the editions that went out
  loyal,      \* history: subscribers active ever since an issue's first claim
  faults, acts

issue == <<status, edition, approved, due>>
lease == <<token, until>>
sends == <<send, on>>
domain == <<usedOn, used, paused>>
run == <<job, saw, content, cursor, todo, batch, taken, retry, left>>
history == <<mails, mailed>>
bounds == <<faults, acts>>
vars == <<issue, lease, sends, active, day, domain, stage, run, history, loyal,
          bounds>>

-----------------------------------------------------------------------------
\* The fence of a run's writes.
Holds(w) == status[job[w]] = "SENDING" /\ token[job[w]] = w

\* renewLease, too, wants the lease not to have run out.
HoldsLive(w) == Holds(w) /\ until[job[w]] # "over"

\* Mutant: only an issue that somebody holds is left over.
RecoverableIfHeld(i) ==
  status[i] = "SENDING" /\ until[i] = "over" /\ token[i] # NoWorker

Recoverable(i) == status[i] = "SENDING" /\ until[i] = "over"

Goes(w, s) == stage' = [stage EXCEPT ![w] = s]

Renews(w) == until' = [until EXCEPT ![job[w]] = "soon"]

\* The revision of an issue moves: what was read of it is out of date.
Moves(i) ==
  [w \in Workers |-> IF stage[w] = "read" /\ job[w] = i
                       THEN [saw[w] EXCEPT !.moved = TRUE] ELSE saw[w]]

Unread == [status |-> "SCHEDULED", token |-> NoWorker, moved |-> FALSE]

\* A run is over: the worker forgets what it knew.
Rest(w) ==
  /\ Goes(w, "idle")
  /\ job' = [job EXCEPT ![w] = NoIssue]
  /\ saw' = [saw EXCEPT ![w] = Unread]
  /\ content' = [content EXCEPT ![w] = 0]
  /\ cursor' = [cursor EXCEPT ![w] = 0]
  /\ todo' = [todo EXCEPT ![w] = {}]
  /\ batch' = [batch EXCEPT ![w] = {}]
  /\ taken' = [taken EXCEPT ![w] = {}]
  /\ retry' = [retry EXCEPT ![w] = 0]
  /\ left' = [left EXCEPT ![w] = <<FALSE, FALSE>>]

\* Sends of an issue that are queued and reserved, or queued and not.
Reserved(i) == {s \in Subscribers : send[<<i, s>>] = "QUEUED"
                                    /\ on[<<i, s>>] # 0}

Waiting(i) == {s \in Subscribers : send[<<i, s>>] = "QUEUED"
                                   /\ on[<<i, s>>] = 0}

Marked(i, S, verdict) ==
  [p \in Pairs |-> IF p[1] = i /\ p[2] \in S THEN verdict ELSE send[p]]

Fault == faults < MaxFaults /\ faults' = faults + 1 /\ UNCHANGED acts
Act == acts < MaxActs /\ acts' = acts + 1 /\ UNCHANGED faults

-----------------------------------------------------------------------------
(* A run: the claim of an issue.                                           *)

\* sendDueNewsletterIssues lists the due issues and takes them one by one.
Find(w, i) ==
  /\ stage[w] = "idle"
  /\ (status[i] = "SCHEDULED" /\ due[i]) \/ Recoverable(i)
  /\ job' = [job EXCEPT ![w] = i]
  /\ Goes(w, "listed")
  /\ UNCHANGED <<issue, lease, sends, active, day, domain, saw, content,
                 cursor, todo, batch, taken, retry, left, history, loyal,
                 bounds>>

\* The issue is read again, and refused unless it is scheduled or left over.
ReadIssue(w) ==
  /\ stage[w] = "listed"
  /\ IF status[job[w]] = "SCHEDULED" \/ Recoverable(job[w])
     THEN /\ saw' = [saw EXCEPT ![w] = [status |-> status[job[w]],
                                        token |-> token[job[w]],
                                        moved |-> FALSE]]
          /\ content' = [content EXCEPT ![w] = edition[job[w]]]
          /\ Goes(w, "read")
          /\ UNCHANGED <<job, cursor, todo, batch, taken, retry, left>>
     ELSE Rest(w)
  /\ UNCHANGED <<issue, lease, sends, active, day, domain, history, loyal,
                 bounds>>

\* Mutant: the row is matched without its revision.
UnchangedStatus(w) == saw[w].status = status[job[w]]

\* The row is still the one that was read.
Unchanged(w) ==
  /\ ~saw[w].moved /\ saw[w].status = status[job[w]]
  /\ status[job[w]] = "SENDING" =>
       saw[w].token = token[job[w]] /\ until[job[w]] = "over"

Claim(w) ==
  /\ stage[w] = "read"
  /\ IF Unchanged(w)
     THEN /\ status' = [status EXCEPT ![job[w]] = "SENDING"]
          /\ token' = [token EXCEPT ![job[w]] = w]
          /\ Renews(w)
          /\ loyal' = [loyal EXCEPT ![job[w]] =
                         IF status[job[w]] = "SCHEDULED" THEN active ELSE @]
          /\ saw' = [Moves(job[w]) EXCEPT ![w] = Unread]
          /\ Goes(w, "claimed")
          /\ UNCHANGED <<job, content, cursor, todo, batch, taken, retry,
                         left>>
     ELSE Rest(w) /\ UNCHANGED <<status, token, until, loyal>>
  /\ UNCHANGED <<edition, approved, due, sends, active, day, domain, history,
                 bounds>>

\* Mutant: sends of an earlier run whose outcome is unknown wait again.
FailInterruptedByRetry(w) ==
  /\ stage[w] = "claimed"
  /\ on' = [p \in Pairs |->
              IF Holds(w) /\ p[1] = job[w] /\ p[2] \in Reserved(job[w])
                THEN 0 ELSE on[p]]
  /\ Goes(w, "listing")
  /\ UNCHANGED <<issue, lease, send, active, day, domain, run, history, loyal,
                 bounds>>

\* Sends of an earlier run whose outcome is unknown are failed.
FailInterrupted(w) ==
  /\ stage[w] = "claimed"
  /\ send' = IF Holds(w) THEN Marked(job[w], Reserved(job[w]), "FAILED")
             ELSE send
  /\ Goes(w, "listing")
  /\ UNCHANGED <<issue, lease, on, active, day, domain, run, history, loyal,
                 bounds>>

-----------------------------------------------------------------------------
(* A run: the list of recipients, page by page.                            *)

RenewForPage(w) ==
  /\ stage[w] = "listing"
  /\ IF HoldsLive(w) THEN Renews(w) /\ Goes(w, "paging")
     ELSE UNCHANGED until /\ Goes(w, "ending")
  /\ UNCHANGED <<issue, token, sends, active, day, domain, run, history, loyal,
                 bounds>>

\* The next active subscribers, by id.
Page(w) ==
  LET rest == {s \in active : s > cursor[w]}
  IN  {s \in rest : Cardinality({r \in rest : r < s}) < BatchSize}

\* Whoever has no send yet gets one.  This write is not fenced.
ListPage(w) ==
  /\ stage[w] = "paging"
  /\ send' = Marked(job[w],
                    {s \in Page(w) : send[<<job[w], s>>] = "none"}, "QUEUED")
  /\ IF Cardinality(Page(w)) < BatchSize
     THEN cursor' = [cursor EXCEPT ![w] = 0] /\ Goes(w, "queueing")
     ELSE /\ \E last \in Page(w) :
               /\ \A s \in Page(w) : s <= last
               /\ cursor' = [cursor EXCEPT ![w] = last]
          /\ Goes(w, "listing")
  /\ UNCHANGED <<issue, lease, on, active, day, domain, job, saw, content,
                 todo, batch, taken, retry, left, history, loyal, bounds>>

ReadQueue(w) ==
  /\ stage[w] = "queueing"
  /\ todo' = [todo EXCEPT ![w] = IF Holds(w) THEN Waiting(job[w]) ELSE {}]
  /\ Goes(w, "sending")
  /\ UNCHANGED <<issue, lease, sends, active, day, domain, job, saw, content,
                 cursor, batch, taken, retry, left, history, loyal, bounds>>

-----------------------------------------------------------------------------
(* A run: one batch.                                                       *)

NoMore(w) ==
  /\ stage[w] = "sending" /\ todo[w] = {}
  /\ Goes(w, "ending")
  /\ UNCHANGED <<issue, lease, sends, active, day, domain, run, history, loyal,
                 bounds>>

\* The lease is renewed, and the mails of the batch are rendered.
RenderBatch(w) ==
  /\ stage[w] = "sending" /\ todo[w] # {}
  /\ IF HoldsLive(w)
     THEN /\ Renews(w)
          /\ \E S \in SUBSET todo[w] :
               /\ Cardinality(S) <= BatchSize
               /\ Cardinality(S) = BatchSize \/ S = todo[w]
               /\ batch' = [batch EXCEPT ![w] = S]
               /\ todo' = [todo EXCEPT ![w] = @ \ S]
          /\ Goes(w, "rendered")
     ELSE UNCHANGED <<until, batch, todo>> /\ Goes(w, "ending")
  /\ UNCHANGED <<issue, token, sends, active, day, domain, job, saw, content,
                 cursor, taken, retry, left, history, loyal, bounds>>

\* Consent is checked again just before the mails go out.
Recheck(w) ==
  /\ stage[w] = "rendered"
  /\ send' = IF Holds(w)
             THEN Marked(job[w], (batch[w] \ active) \cap Waiting(job[w]),
                         "FAILED")
             ELSE send
  /\ batch' = [batch EXCEPT ![w] = @ \cap active]
  /\ Goes(w, IF batch[w] \cap active = {} THEN "sending" ELSE "checked")
  /\ UNCHANGED <<issue, lease, on, active, day, domain, job, saw, content,
                 cursor, todo, taken, retry, left, history, loyal, bounds>>

\* What the domain has sent today.
UsedToday == IF usedOn = day THEN used ELSE 0

\* Mutant: the whole batch goes while there is any capacity.
GrantedWhole(n) ==
  IF day > Len(Caps) \/ Caps[day] > UsedToday THEN n ELSE 0

\* How many of n mails the domain may send today.
Granted(n) ==
  IF day > Len(Caps) \/ n <= Caps[day] - UsedToday THEN n
  ELSE IF Caps[day] > UsedToday THEN Caps[day] - UsedToday ELSE 0

\* The rest of the batch waits for the time t.
Breaks(w, t) ==
  /\ retry' = [retry EXCEPT ![w] = t]
  /\ batch' = [batch EXCEPT ![w] = {}]
  /\ taken' = [taken EXCEPT ![w] = {}]
  /\ Goes(w, "ending")

\* One serializable transaction renews the lease, counts the mails against
\* the day's cap and stamps the sends.
Reserve(w) ==
  /\ stage[w] = "checked" /\ HoldsLive(w) /\ ~paused
  /\ Granted(Cardinality(batch[w])) > 0
  /\ batch[w] \subseteq Waiting(job[w])
  /\ Renews(w)
  /\ \E S \in SUBSET batch[w] :
       /\ Cardinality(S) = Granted(Cardinality(batch[w]))
       /\ on' = [p \in Pairs |->
                   IF p[1] = job[w] /\ p[2] \in S THEN day ELSE on[p]]
       /\ taken' = [taken EXCEPT ![w] = S]
  /\ usedOn' = day
  /\ used' = UsedToday + Granted(Cardinality(batch[w]))
  /\ Goes(w, "reserved")
  /\ UNCHANGED <<issue, token, send, active, day, paused, job, saw, content,
                 cursor, todo, batch, retry, left, history, loyal, bounds>>

\* The domain is paused, or has no capacity left today.
NoCapacity(w) ==
  /\ stage[w] = "checked" /\ HoldsLive(w)
  /\ paused \/ Granted(Cardinality(batch[w])) = 0
  /\ Renews(w)
  /\ Breaks(w, IF paused THEN 0 ELSE day + 1)
  /\ UNCHANGED <<issue, token, sends, active, day, domain, job, saw, content,
                 cursor, todo, left, history, loyal, bounds>>

\* The lease is lost, or the sends are not what they were: nothing is done.
Conflicts(w) ==
  /\ stage[w] = "checked"
  /\ ~HoldsLive(w) \/ ~(paused \/ batch[w] \subseteq Waiting(job[w]))
  /\ Breaks(w, 0)
  /\ UNCHANGED <<issue, lease, sends, active, day, domain, job, saw, content,
                 cursor, todo, left, history, loyal, bounds>>

\* The provider takes the batch or refuses it, and its answer may be lost.
Dispatch(w) ==
  /\ stage[w] = "reserved"
  /\ \E out, told \in BOOLEAN :
       /\ told => out
       /\ mails' = [p \in Pairs |->
                      mails[p] + IF out /\ p[1] = job[w] /\ p[2] \in taken[w]
                                 THEN 1 ELSE 0]
       /\ mailed' = IF out THEN mailed \cup {<<job[w], content[w]>>}
                    ELSE mailed
       /\ Goes(w, IF told THEN "accepted" ELSE "failed")
  /\ UNCHANGED <<issue, lease, sends, active, day, domain, run, loyal, bounds>>

\* Was the reservation cut short by the day's cap, the rest waits until
\* tomorrow, as of now; else the next batch follows.
GoesOn(w) ==
  IF taken[w] # batch[w] THEN Breaks(w, day + 1)
  ELSE /\ batch' = [batch EXCEPT ![w] = {}]
       /\ taken' = [taken EXCEPT ![w] = {}]
       /\ UNCHANGED retry
       /\ Goes(w, "sending")

RecordSent(w) ==
  /\ stage[w] = "accepted"
  /\ send' = IF Holds(w)
             THEN Marked(job[w], taken[w] \cap Reserved(job[w]), "SENT")
             ELSE send
  /\ GoesOn(w)
  /\ UNCHANGED <<issue, lease, on, active, day, domain, job, saw, content,
                 cursor, todo, left, history, loyal, bounds>>

RecordFailed(w) ==
  /\ stage[w] = "failed"
  /\ send' = IF Holds(w) THEN Marked(job[w], taken[w], "FAILED") ELSE send
  /\ GoesOn(w)
  /\ UNCHANGED <<issue, lease, on, active, day, domain, job, saw, content,
                 cursor, todo, left, history, loyal, bounds>>

-----------------------------------------------------------------------------
(* A run: its end.                                                         *)

\* The lease is renewed once more, reservations that are still open are
\* failed, and what is left is counted.
Sweep(w) ==
  /\ stage[w] = "ending"
  /\ IF HoldsLive(w)
     THEN /\ Renews(w)
          /\ send' = Marked(job[w], Reserved(job[w]), "FAILED")
          /\ left' = [left EXCEPT ![w] =
               <<Waiting(job[w]) # {},
                 \E s \in Subscribers : send[<<job[w], s>>] = "SENT">>]
          /\ Goes(w, "settling")
          /\ UNCHANGED <<job, saw, content, cursor, todo, batch, taken, retry>>
     ELSE Rest(w) /\ UNCHANGED <<until, send>>
  /\ UNCHANGED <<issue, token, on, active, day, domain, history, loyal,
                 bounds>>

\* Mutant: an issue is done once a mail of it went out.
OutcomeIfAnySent(w) ==
  IF left[w][2] THEN "SENT" ELSE IF left[w][1] THEN "SENDING" ELSE "FAILED"

Outcome(w) ==
  IF left[w][1] THEN "SENDING" ELSE IF left[w][2] THEN "SENT" ELSE "FAILED"

Settle(w) ==
  /\ stage[w] = "settling"
  /\ IF HoldsLive(w)
     THEN /\ status' = [status EXCEPT ![job[w]] = Outcome(w)]
          /\ token' = [token EXCEPT ![job[w]] = NoWorker]
          /\ until' = [until EXCEPT ![job[w]] =
                         IF Outcome(w) # "SENDING" THEN "none"
                         ELSE IF retry[w] = 0 THEN "soon"
                         ELSE IF retry[w] <= day THEN "over" ELSE "tomorrow"]
     ELSE UNCHANGED <<status, token, until>>
  /\ Rest(w)
  /\ UNCHANGED <<edition, approved, due, sends, active, day, domain, history,
                 loyal, bounds>>

-----------------------------------------------------------------------------
(* Faults and time.                                                        *)

\* A statement throws: the run closes the issue as it stands.
Throws(w) ==
  /\ Fault
  /\ stage[w] \in {"claimed", "listing", "paging", "queueing", "sending",
                   "rendered", "checked", "accepted", "failed"}
  /\ Breaks(w, 0)
  /\ UNCHANGED <<issue, lease, sends, active, day, domain, job, saw, content,
                 cursor, todo, left, history, loyal>>

\* The process dies, or leaves at its deadline; an error at the end of a run
\* leaves the issue just so.
Crash(w) ==
  /\ Fault
  /\ stage[w] # "idle"
  /\ Rest(w)
  /\ UNCHANGED <<issue, lease, sends, active, day, domain, history, loyal>>

\* A run that goes on renews its lease; one that outlives it is a fault.
ExpireLease(i) ==
  /\ until[i] = "soon"
  /\ IF \E w \in Workers : token[i] = w /\ job[w] = i THEN Fault
     ELSE UNCHANGED bounds
  /\ until' = [until EXCEPT ![i] = "over"]
  /\ UNCHANGED <<issue, token, sends, active, day, domain, stage, run, history,
                 loyal>>

NewDay ==
  /\ day' = IF day < LastDay THEN day + 1 ELSE day
  /\ until' = [i \in Issues |-> IF until[i] = "tomorrow" THEN "over"
                                ELSE until[i]]
  /\ UNCHANGED <<issue, token, sends, active, domain, stage, run, history,
                 loyal, bounds>>

BecomeDue(i) ==
  /\ status[i] = "SCHEDULED" /\ ~due[i]
  /\ due' = [due EXCEPT ![i] = TRUE]
  /\ UNCHANGED <<status, edition, approved, lease, sends, active, day, domain,
                 stage, run, history, loyal, bounds>>

-----------------------------------------------------------------------------
(* People: the issue's content, approval and schedule.                     *)

\* A transition of the issue by its revision.
Transition(i, s) ==
  /\ status' = [status EXCEPT ![i] = s]
  /\ saw' = Moves(i)
  /\ UNCHANGED <<lease, sends, active, day, domain, content, cursor, todo,
                 batch, taken, retry, left, history, loyal>>

Patch(i) ==
  /\ Act
  /\ status[i] \in {"DRAFT", "NEEDS_APPROVAL"}
  /\ edition' = [edition EXCEPT ![i] = @ + 1]
  /\ approved' = [approved EXCEPT ![i] = 0]
  /\ Transition(i, "DRAFT")
  /\ UNCHANGED <<due, stage, job>>

Submit(i) ==
  /\ status[i] = "DRAFT"
  /\ approved' = [approved EXCEPT ![i] = 0]
  /\ Transition(i, "NEEDS_APPROVAL")
  /\ UNCHANGED <<edition, due, stage, job, bounds>>

Approve(i) ==
  /\ status[i] = "NEEDS_APPROVAL" /\ approved[i] = 0
  /\ approved' = [approved EXCEPT ![i] = edition[i]]
  /\ Transition(i, "NEEDS_APPROVAL")
  /\ UNCHANGED <<edition, due, stage, job, bounds>>

Schedulable(i) ==
  /\ status[i] = "NEEDS_APPROVAL" /\ approved[i] # 0
  /\ ~paused /\ active # {}

Schedule(i) ==
  /\ Schedulable(i)
  /\ due' = [due EXCEPT ![i] = FALSE]
  /\ Transition(i, "SCHEDULED")
  /\ UNCHANGED <<edition, approved, stage, job, bounds>>

\* The issue is scheduled for now, and a run begins at once.
SendNow(w, i) ==
  /\ stage[w] = "idle" /\ Schedulable(i)
  /\ due' = [due EXCEPT ![i] = TRUE]
  /\ Transition(i, "SCHEDULED")
  /\ job' = [job EXCEPT ![w] = i]
  /\ Goes(w, "listed")
  /\ UNCHANGED <<edition, approved, bounds>>

Cancel(i) ==
  /\ status[i] = "SCHEDULED"
  /\ approved' = [approved EXCEPT ![i] = 0]
  /\ due' = [due EXCEPT ![i] = FALSE]
  /\ Transition(i, "DRAFT")
  /\ UNCHANGED <<edition, stage, job, bounds>>

-----------------------------------------------------------------------------
(* Subscribers, and the health of the domain.                              *)

\* Unsubscribed, removed for a bounce or a complaint.
Leave(s) ==
  /\ Act
  /\ s \in active
  /\ active' = active \ {s}
  /\ loyal' = [i \in Issues |-> loyal[i] \ {s}]
  /\ UNCHANGED <<issue, lease, sends, day, domain, stage, run, history>>

Join(s) ==
  /\ Act
  /\ s \notin active
  /\ active' = active \cup {s}
  /\ UNCHANGED <<issue, lease, sends, day, domain, stage, run, history, loyal>>

\* pauseNewsletterSendingDomainIfUnhealthy, after a batch or a webhook.
Pause ==
  /\ Act
  /\ ~paused /\ \E p \in Pairs : on[p] # 0
  /\ paused' = TRUE
  /\ UNCHANGED <<issue, lease, sends, active, day, usedOn, used, stage, run,
                 history, loyal>>

ResumeWarmup ==
  /\ paused
  /\ paused' = FALSE
  /\ UNCHANGED <<issue, lease, sends, active, day, usedOn, used, stage, run,
                 history, loyal, bounds>>

-----------------------------------------------------------------------------
Init ==
  /\ status = [i \in Issues |-> "DRAFT"]
  /\ edition = [i \in Issues |-> 1]
  /\ approved = [i \in Issues |-> 0]
  /\ due = [i \in Issues |-> FALSE]
  /\ token = [i \in Issues |-> NoWorker]
  /\ until = [i \in Issues |-> "none"]
  /\ send = [p \in Pairs |-> "none"]
  /\ on = [p \in Pairs |-> 0]
  /\ active \in SUBSET Subscribers
  /\ day = 1 /\ usedOn = 0 /\ used = 0 /\ paused = FALSE
  /\ stage = [w \in Workers |-> "idle"]
  /\ job = [w \in Workers |-> NoIssue]
  /\ saw = [w \in Workers |-> Unread]
  /\ content = [w \in Workers |-> 0]
  /\ cursor = [w \in Workers |-> 0]
  /\ todo = [w \in Workers |-> {}]
  /\ batch = [w \in Workers |-> {}]
  /\ taken = [w \in Workers |-> {}]
  /\ retry = [w \in Workers |-> 0]
  /\ left = [w \in Workers |-> <<FALSE, FALSE>>]
  /\ mails = [p \in Pairs |-> 0] /\ mailed = {}
  /\ loyal = [i \in Issues |-> {}]
  /\ faults = 0 /\ acts = 0

Work(w) ==
  \/ ReadIssue(w) \/ Claim(w) \/ FailInterrupted(w)
  \/ RenewForPage(w) \/ ListPage(w) \/ ReadQueue(w)
  \/ NoMore(w) \/ RenderBatch(w) \/ Recheck(w)
  \/ Reserve(w) \/ NoCapacity(w) \/ Conflicts(w)
  \/ Dispatch(w) \/ RecordSent(w) \/ RecordFailed(w)
  \/ Sweep(w) \/ Settle(w)

Next ==
  \/ \E w \in Workers :
       \/ Work(w) \/ Throws(w) \/ Crash(w)
       \/ \E i \in Issues : Find(w, i) \/ SendNow(w, i)
  \/ \E i \in Issues :
       \/ ExpireLease(i) \/ BecomeDue(i)
       \/ Patch(i) \/ Submit(i) \/ Approve(i) \/ Schedule(i) \/ Cancel(i)
  \/ \E s \in Subscribers : Leave(s) \/ Join(s)
  \/ NewDay \/ Pause \/ ResumeWarmup

Spec == Init /\ [][Next]_vars

\* The cron comes round and takes every due issue, a run goes on or its lease
\* runs out, and days pass; people need not act.
FairSpec ==
  /\ Spec
  /\ \A i \in Issues : /\ WF_vars(\E w \in Workers : Find(w, i))
                       /\ WF_vars(ExpireLease(i)) /\ WF_vars(BecomeDue(i))
  /\ \A w \in Workers : WF_vars(Work(w))
  /\ WF_vars(NewDay)

-----------------------------------------------------------------------------
(* Properties *)

Days == 0 .. LastDay + 1

IssueTypeOK ==
  /\ status \in [Issues -> {"DRAFT", "NEEDS_APPROVAL", "SCHEDULED", "SENDING",
                            "SENT", "FAILED"}]
  /\ edition \in [Issues -> Nat] /\ approved \in [Issues -> Nat]
  /\ due \in [Issues -> BOOLEAN]
  /\ token \in [Issues -> Workers \cup {NoWorker}]
  /\ until \in [Issues -> {"none", "soon", "tomorrow", "over"}]

SendTypeOK ==
  /\ send \in [Pairs -> {"none", "QUEUED", "SENT", "FAILED"}]
  /\ on \in [Pairs -> Days]
  /\ active \subseteq Subscribers
  /\ day \in 1 .. LastDay /\ usedOn \in Days
  /\ used \in Nat /\ paused \in BOOLEAN

RunTypeOK ==
  /\ stage \in [Workers -> {"idle", "listed", "read", "claimed", "listing",
                            "paging", "queueing", "sending", "rendered",
                            "checked", "reserved", "accepted", "failed",
                            "ending", "settling"}]
  /\ job \in [Workers -> Issues \cup {NoIssue}]
  /\ \A w \in Workers : stage[w] # "idle" => job[w] \in Issues
  /\ content \in [Workers -> Nat]
  /\ cursor \in [Workers -> Subscribers \cup {0}]
  /\ todo \in [Workers -> SUBSET Subscribers]
  /\ batch \in [Workers -> SUBSET Subscribers]
  /\ taken \in [Workers -> SUBSET Subscribers]
  /\ retry \in [Workers -> Days]

NoteTypeOK ==
  /\ saw \in [Workers -> [status : {"SCHEDULED", "SENDING"},
                          token : Workers \cup {NoWorker}, moved : BOOLEAN]]
  /\ left \in [Workers -> BOOLEAN \X BOOLEAN]

HistoryTypeOK ==
  /\ mails \in [Pairs -> Nat]
  /\ mailed \subseteq Issues \X Nat
  /\ loyal \in [Issues -> SUBSET Subscribers]
  /\ faults \in Nat /\ acts \in Nat

TypeOK ==
  IssueTypeOK /\ SendTypeOK /\ RunTypeOK /\ NoteTypeOK /\ HistoryTypeOK

\* A subscriber gets an issue once, whoever died, stalled or took over, and a
\* send on record as SENT went out.
MailedOnce ==
  \A p \in Pairs : mails[p] <= 1 /\ (send[p] = "SENT" => mails[p] = 1)

\* An issue that went out leaves no one out: whoever has been subscribed since
\* it was first claimed has a send that was tried.
NobodyForgotten ==
  \A i \in Issues : status[i] = "SENT" =>
    \A s \in loyal[i] : send[<<i, s>>] \in {"SENT", "FAILED"}

\* However many issues and runs share the domain, no day of its warm-up sees
\* more attempts than its cap.
CapKept ==
  \A d \in 1 .. Len(Caps) :
    Cardinality({p \in Pairs : on[p] = d}) <= Caps[d]

\* What goes out is what a person approved, the same to all subscribers.
ApprovedOnly == \A m \in mailed : approved[m[1]] = m[2]

\* An issue that is scheduled or being sent comes to its end, unless people
\* leave the domain paused or take the issue back.
Finishes ==
  \A i \in Issues :
    status[i] \in {"SCHEDULED", "SENDING"}
      ~> (status[i] \notin {"SCHEDULED", "SENDING"} \/ paused)

\* No run begins to send an issue before its time.
NeverEarly ==
  [][\A i \in Issues :
       status[i] = "SCHEDULED" /\ status'[i] = "SENDING" => due[i]]_vars
=============================================================================
