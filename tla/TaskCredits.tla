----------------------------- MODULE TaskCredits -----------------------------
(***************************************************************************)
(* The credits of one wallet (packages/database credit-bucket.repository), *)
(* the charges that consume them (task events and x402 payments:           *)
(* helpers/task-event-charge.ts; jobs: helpers/job.ts), the grants that    *)
(* add to them (stripe-invoice-credit.service.ts,                          *)
(* free-credit-admin.service.ts, the signup bonus), the refund of a failed *)
(* job (job-refund.ts), and the tasks that are paused and revived for them *)
(* (task-topup.service.ts).                                                *)
(*                                                                         *)
(* Nothing locks a bucket: what it still holds is its amount less its      *)
(* consumptions, computed by the query that reads it.  Charges run in      *)
(* Serializable transactions: here a charge reads everything when it       *)
(* opens, and of two charges that were open together the one that commits  *)
(* last is refused if each read what the other wrote.  Grants and refunds  *)
(* run at the default level, Read Committed: each statement reads what is  *)
(* committed, and the serializable charges are not guarded against them.   *)
(*                                                                         *)
(* Buckets are numbered in the order they are consumed (expiresAt, amount, *)
(* createdAt, id), and named by their reference, which is unique.          *)
(***************************************************************************)
EXTENDS Integers, FiniteSetsExt

CONSTANTS
  LastBucket,           \* buckets are 1 .. LastBucket
  Opening,              \* buckets there at the start
  Expiring,             \* buckets with an expiresAt
  Worth,                \* cents of each bucket that is granted
  Deliveries, Refs,     \* grants being made, and the buckets each is for
  Tasks,
  Events, Jobs,         \* charges: by a task's event, or for a job
  Price,                \* cents of each charge
  TaskOf,               \* the task of each event
  RefundOf,             \* the bucket that gives a job's price back
  Syncs,                \* job syncs running at once
  NoCharge, NoJob

Buckets == 1 .. LastBucket
Charges == Events \cup Jobs
Granted == UNION {Refs[d] : d \in Deliveries}

ASSUME BucketAssumption ==
  /\ LastBucket \in Nat
  /\ Opening \subseteq Buckets /\ Expiring \subseteq Buckets
  /\ Worth \in [Buckets -> Nat]
ASSUME DeliveryAssumption == Refs \in [Deliveries -> SUBSET Buckets]
ASSUME ChargeAssumption ==
  /\ Price \in [Charges -> Nat \ {0}]
  /\ TaskOf \in [Events -> Tasks]
  /\ RefundOf \in [Jobs -> Buckets]
  /\ Events \cap Jobs = {}
  /\ NoCharge \notin Charges /\ NoJob \notin Jobs
\* References of different types never meet.
ASSUME ReferenceAssumption ==
  /\ \A j, k \in Jobs : RefundOf[j] = RefundOf[k] => j = k
  /\ \A j \in Jobs : RefundOf[j] \notin Opening \cup Granted \cup Expiring
  /\ Opening \cap Granted = {}

VARIABLES
  phase, amount, used,  \* of each bucket; used is the sum of consumptions
  status, pausedBy,     \* of each task; history: the charge that paused it
  stage,                \* of each charge
  plan,                 \* the consumptions it prepared
  asks,                 \* the status it will write, or Keep
  seen,                 \* the buckets that had become active when it read;
                        \* history once it has paused a task
  overtaken,            \* open charges that can no longer be serialised
  step,                 \* of each delivery
  missing,              \* its buckets that did not exist when it looked
  todo, lifted,         \* tasks it found paused, and those it has revived
  crossed,              \* history: charges that were open when it landed,
                        \* or paused a task after it had looked
  refunded,             \* jobs with a refundedTransaction
  sighted               \* the job each sync read as not refunded

buckets == <<phase, amount, used>>
tasks == <<status, pausedBy>>
open == <<stage, plan, asks, seen>>
grants == <<step, missing, todo, lifted, crossed>>
refunds == <<refunded, sighted>>
vars == <<buckets, tasks, open, overtaken, grants, refunds>>

\* RUNNING stands for every status that may be paused, CANCELED for the closed
\* ones.
Keep == "keep"
Pausable == {"RUNNING", "CREDITS_TOPPED_UP"}
Requested == {"RUNNING", "CANCELED"}
Statuses == Pausable \cup Requested \cup {"OUT_OF_CREDITS"}

TypeOK ==
  /\ phase \in [Buckets -> {"none", "pending", "active", "expired"}]
  /\ amount \in [Buckets -> Nat] /\ used \in [Buckets -> Nat]
  /\ status \in [Tasks -> Statuses]
  /\ pausedBy \in [Tasks -> Charges \cup {NoCharge}]
  /\ stage \in [Charges -> {"idle", "open", "paid", "refused"}]
  /\ plan \in [Charges -> [Buckets -> Nat]]
  /\ asks \in [Charges -> Requested \cup {"OUT_OF_CREDITS", Keep}]
  /\ seen \in [Charges -> SUBSET Buckets]
  /\ overtaken \subseteq Charges
  /\ step \in [Deliveries -> {"idle", "checked", "minted", "looked", "done"}]
  /\ missing \in [Deliveries -> SUBSET Buckets]
  /\ todo \in [Deliveries -> SUBSET Tasks]
  /\ lifted \in [Deliveries -> SUBSET Tasks]
  /\ crossed \in [Deliveries -> SUBSET Events]
  /\ refunded \subseteq Jobs
  /\ sighted \in [Syncs -> Jobs \cup {NoJob}]

NoDraw == [b \in Buckets |-> 0]

Init ==
  /\ phase \in [Buckets -> {"none", "pending", "active"}]
  /\ \A b \in Buckets : phase[b] = "none" <=> b \notin Opening
  /\ amount = [b \in Buckets |-> IF b \in Opening THEN Worth[b] ELSE 0]
  /\ used = NoDraw
  /\ status = [t \in Tasks |-> "RUNNING"]
  /\ pausedBy = [t \in Tasks |-> NoCharge]
  /\ stage = [c \in Charges |-> "idle"]
  /\ plan = [c \in Charges |-> NoDraw]
  /\ asks = [c \in Charges |-> Keep]
  /\ seen = [c \in Charges |-> {}]
  /\ overtaken = {}
  /\ step = [d \in Deliveries |-> "idle"]
  /\ missing = [d \in Deliveries |-> {}]
  /\ todo = [d \in Deliveries |-> {}]
  /\ lifted = [d \in Deliveries |-> {}]
  /\ crossed = [d \in Deliveries |-> {}]
  /\ refunded = {}
  /\ sighted = [s \in Syncs |-> NoJob]

-----------------------------------------------------------------------------
(* The buckets.                                                            *)

\* activatesAt and expiresAt pass.
Activate(b) ==
  /\ phase[b] = "pending"
  /\ phase' = [phase EXCEPT ![b] = "active"]
  /\ UNCHANGED <<amount, used, tasks, open, overtaken, grants, refunds>>

Expire(b) ==
  /\ phase[b] = "active" /\ b \in Expiring
  /\ phase' = [phase EXCEPT ![b] = "expired"]
  /\ UNCHANGED <<amount, used, tasks, open, overtaken, grants, refunds>>

Available(b) == IF phase[b] = "active" THEN amount[b] - used[b] ELSE 0

\* What the loop takes from a bucket, of what is left to cover.
TakeWhole(b, left) == IF Available(b) >= left THEN left ELSE 0
Take(b, left) == IF Available(b) < left THEN Available(b) ELSE left

\* The loop of prepareConsumption: what remains to be covered before the
\* first bucket, and after each.
Remaining(c) ==
  {rem \in [0 .. LastBucket -> 0 .. Price[c]] :
     /\ rem[0] = Price[c]
     /\ \A b \in Buckets : rem[b] = rem[b - 1] - Take(b, rem[b - 1])}

Draws(rem) == [b \in Buckets |-> rem[b - 1] - rem[b]]

Covers(rem) == rem[LastBucket] = 0

-----------------------------------------------------------------------------
(* Charges.                                                                *)

SameTask(c, o) ==
  /\ c \in Events /\ o \in Events
  /\ TaskOf[c] = TaskOf[o]

WritesTask(c) == c \in Events /\ asks[c] # Keep

Read(c, draw, want) ==
  /\ stage' = [stage EXCEPT ![c] = "open"]
  /\ plan' = [plan EXCEPT ![c] = draw]
  /\ asks' = [asks EXCEPT ![c] = want]
  /\ seen' = [seen EXCEPT ![c] =
                {b \in Buckets : phase[b] \in {"active", "expired"}}]
  /\ UNCHANGED <<buckets, tasks, overtaken, grants, refunds>>

\* The balance covers the price.  An event may ask for a new status too.
Prepare(c, rem, want) ==
  /\ Covers(rem)
  /\ c \in Events => want = Keep \/ want # status[TaskOf[c]]
  /\ c \notin Events => want = Keep
  /\ Read(c, Draws(rem), want)

\* It does not: the task is to be paused instead.  For a task that is paused
\* or closed, and for a job, nothing is written.
FallShort(c, rem) ==
  /\ ~Covers(rem)
  /\ c \in Events /\ status[TaskOf[c]] \in Pausable
  /\ Read(c, NoDraw, "OUT_OF_CREDITS")

Open(c) ==
  /\ stage[c] = "idle"
  /\ \E rem \in Remaining(c) :
       \/ FallShort(c, rem)
       \/ \E want \in Requested \cup {Keep} : Prepare(c, rem, want)

\* Open charges that are overtaken when c commits: each read what the other
\* writes, or both write one row.
OvertakesOwnTask(c, o) == SameTask(c, o)
Overtakes(c, o) == SameTask(c, o) \/ (plan[c] # NoDraw /\ plan[o] # NoDraw)

Overtake(c) ==
  overtaken' = overtaken \cup
    {o \in Charges \ {c} : stage[o] = "open" /\ Overtakes(c, o)}

\* A task's row is locked from a delivery's update to its commit.
Unlocked(t) == \A d \in Deliveries : t \notin lifted[d]

MayCommit(c) ==
  /\ stage[c] = "open" /\ c \notin overtaken
  /\ WritesTask(c) => Unlocked(TaskOf[c])

\* What the transaction held in memory.
Forget(c) ==
  /\ plan' = [plan EXCEPT ![c] = NoDraw]
  /\ asks' = [asks EXCEPT ![c] = Keep]

Pay(c) ==
  /\ MayCommit(c) /\ asks[c] # "OUT_OF_CREDITS"
  /\ used' = [b \in Buckets |-> used[b] + plan[c][b]]
  /\ stage' = [stage EXCEPT ![c] = "paid"]
  /\ status' = [t \in Tasks |->
       IF WritesTask(c) /\ t = TaskOf[c] THEN asks[c] ELSE status[t]]
  /\ Overtake(c)
  /\ Forget(c) /\ seen' = [seen EXCEPT ![c] = {}]
  /\ UNCHANGED <<phase, amount, pausedBy, grants, refunds>>

Pause(c) ==
  /\ MayCommit(c) /\ asks[c] = "OUT_OF_CREDITS"
  /\ stage' = [stage EXCEPT ![c] = "refused"]
  /\ status' = [status EXCEPT ![TaskOf[c]] = "OUT_OF_CREDITS"]
  /\ pausedBy' = [pausedBy EXCEPT ![TaskOf[c]] = c]
  /\ crossed' = [d \in Deliveries |->
                   IF step[d] = "looked" THEN crossed[d] \cup {c}
                                         ELSE crossed[d]]
  /\ Overtake(c)
  /\ Forget(c)
  /\ UNCHANGED <<buckets, seen, step, missing, todo, lifted, refunds>>

\* A serialization failure, a guard that finds no row, or a crash; the
\* request may come again.
Abort(c) ==
  /\ stage[c] = "open"
  /\ stage' = [stage EXCEPT ![c] = "idle"]
  /\ Forget(c) /\ seen' = [seen EXCEPT ![c] = {}]
  /\ overtaken' = overtaken \ {c}
  /\ crossed' = [d \in Deliveries |-> crossed[d] \ {c}]
  /\ UNCHANGED <<buckets, tasks, step, missing, todo, lifted, refunds>>

\* Open charges that were to write one of the rows S another has written.
Superseded(S) ==
  {o \in Charges : stage[o] = "open" /\ WritesTask(o) /\ TaskOf[o] \in S}

\* A person or an agent moves a task, with no charge.
SetStatus(t, s) ==
  /\ s # status[t] /\ Unlocked(t)
  /\ status' = [status EXCEPT ![t] = s]
  /\ overtaken' = overtaken \cup Superseded({t})
  /\ UNCHANGED <<buckets, pausedBy, open, grants, refunds>>

-----------------------------------------------------------------------------
(* Grants: an invoice event, which Stripe may deliver more than once, a    *)
(* free grant, or the signup bonus.                                        *)

To(d, s) == step' = [step EXCEPT ![d] = s]

\* The references are looked up ...
Check(d) ==
  /\ step[d] = "idle"
  /\ To(d, "checked")
  /\ missing' = [missing EXCEPT ![d] = {b \in Refs[d] : phase[b] = "none"}]
  /\ UNCHANGED <<buckets, tasks, open, overtaken, todo, lifted, crossed,
                 refunds>>

\* ... and the buckets that do not exist are inserted: the unique index makes
\* it wait for another transaction that inserts the same, and refuses what
\* has been committed.
UniqueUnchecked(b) == TRUE
Unique(b) ==
  /\ phase[b] = "none"
  /\ \A d \in Deliveries : step[d] \in {"minted", "looked"} =>
       b \notin missing[d]

Mint(d) ==
  /\ step[d] = "checked" /\ missing[d] # {}
  /\ \A b \in missing[d] : Unique(b)
  /\ To(d, "minted")
  /\ UNCHANGED <<buckets, tasks, open, overtaken, missing, todo, lifted,
                 crossed, refunds>>

\* Everything was granted before.
Known(d) ==
  /\ step[d] = "checked" /\ missing[d] = {}
  /\ To(d, "done")
  /\ UNCHANGED <<buckets, tasks, open, overtaken, missing, todo, lifted,
                 crossed, refunds>>

\* markOutOfCreditsTasksAsToppedUp: find the paused tasks ...
PausedFirst ==
  LET out == {t \in Tasks : status[t] = "OUT_OF_CREDITS"}
  IN  IF out = {} THEN {} ELSE {CHOOSE t \in out : TRUE}
Paused == {t \in Tasks : status[t] = "OUT_OF_CREDITS"}

Look(d) ==
  /\ step[d] = "minted"
  /\ To(d, "looked")
  /\ todo' = [todo EXCEPT ![d] = Paused]
  /\ UNCHANGED <<buckets, tasks, open, overtaken, missing, lifted, crossed,
                 refunds>>

\* ... and update each that still is.
StillOut(t) == status[t] = "OUT_OF_CREDITS"

Lift(d, t) ==
  /\ step[d] = "looked" /\ t \in todo[d] /\ Unlocked(t)
  /\ todo' = [todo EXCEPT ![d] = @ \ {t}]
  /\ IF StillOut(t)
     THEN lifted' = [lifted EXCEPT ![d] = @ \cup {t}]
     ELSE UNCHANGED lifted
  /\ UNCHANGED <<buckets, tasks, open, overtaken, step, missing, crossed,
                 refunds>>

Land(d) ==
  /\ step[d] = "looked" /\ todo[d] = {}
  /\ To(d, "done")
  /\ phase' = [b \in Buckets |->
                 IF b \in missing[d] THEN "active" ELSE phase[b]]
  /\ amount' = [b \in Buckets |->
                  IF b \in missing[d] THEN amount[b] + Worth[b] ELSE amount[b]]
  /\ status' = [t \in Tasks |->
       IF t \in lifted[d] THEN "CREDITS_TOPPED_UP" ELSE status[t]]
  /\ overtaken' = overtaken \cup Superseded(lifted[d])
  /\ lifted' = [lifted EXCEPT ![d] = {}]
  /\ crossed' = [crossed EXCEPT ![d] =
                   @ \cup {c \in Events : stage[c] = "open"}]
  /\ UNCHANGED <<used, pausedBy, open, missing, todo, refunds>>

\* A duplicate key, a deadlock or a crash undoes all of it; Stripe delivers
\* the event again.
Undo(d) ==
  /\ step[d] \in {"checked", "minted", "looked"}
  /\ To(d, "idle")
  /\ missing' = [missing EXCEPT ![d] = {}]
  /\ todo' = [todo EXCEPT ![d] = {}]
  /\ lifted' = [lifted EXCEPT ![d] = {}]
  /\ crossed' = [crossed EXCEPT ![d] = {}]
  /\ UNCHANGED <<buckets, tasks, open, overtaken, refunds>>

-----------------------------------------------------------------------------
(* Refunds of failed jobs, by syncs that may overlap.  They revive no      *)
(* task.                                                                   *)

Sight(s, j) ==
  /\ sighted[s] = NoJob
  /\ stage[j] = "paid" /\ j \notin refunded
  /\ sighted' = [sighted EXCEPT ![s] = j]
  /\ UNCHANGED <<buckets, tasks, open, overtaken, grants, refunded>>

Refund(s) ==
  LET j == sighted[s] IN
  /\ j # NoJob /\ Unique(RefundOf[j])
  /\ phase' = [phase EXCEPT ![RefundOf[j]] = "active"]
  /\ amount' = [amount EXCEPT ![RefundOf[j]] = @ + Price[j]]
  /\ refunded' = refunded \cup {j}
  /\ sighted' = [sighted EXCEPT ![s] = NoJob]
  /\ UNCHANGED <<used, tasks, open, overtaken, grants>>

\* A duplicate key, or the sync stops before its commit.
Drop(s) ==
  /\ sighted[s] # NoJob
  /\ sighted' = [sighted EXCEPT ![s] = NoJob]
  /\ UNCHANGED <<buckets, tasks, open, overtaken, grants, refunded>>

-----------------------------------------------------------------------------
Next ==
  \/ \E b \in Buckets : Activate(b) \/ Expire(b)
  \/ \E c \in Charges :
       \/ Open(c) \/ Pay(c) \/ Pause(c) \/ Abort(c)
  \/ \E t \in Tasks, s \in Requested : SetStatus(t, s)
  \/ \E d \in Deliveries :
       \/ Check(d) \/ Mint(d) \/ Known(d) \/ Look(d) \/ Land(d) \/ Undo(d)
       \/ \E t \in Tasks : Lift(d, t)
  \/ \E s \in Syncs : Refund(s) \/ Drop(s) \/ \E j \in Jobs : Sight(s, j)

Spec == Init /\ [][Next]_vars

-----------------------------------------------------------------------------
(* Properties.                                                             *)

\* No bucket is consumed beyond its amount, although no charge locks one and
\* each subtracts what it read.
NeverOverdrawn == \A b \in Buckets : used[b] <= amount[b]

\* The wallet implements CreditBalance, whose credits are what the buckets
\* still hold, expired or not.
Held == [b \in Buckets |-> amount[b] - used[b]]
Balance == INSTANCE CreditBalance WITH
  Grants <- Opening \cup Granted,
  Returnable <- Jobs,
  credits <- SumFunctionOnSet(Held, Buckets),
  received <- {b \in Opening \cup Granted : phase[b] # "none"},
  charged <- {c \in Charges : stage[c] = "paid"},
  returned <- refunded
ImplementsBalance == Balance!Spec

\* Credits that expire first are spent first: when a charge draws on a
\* bucket, nothing is left in an earlier one that it could have drawn on.
SoonestFirst ==
  [][\A c \in Charges : stage[c] = "open" /\ stage'[c] = "paid" =>
       \A b \in Buckets, e \in seen[c] :
         plan[c][b] > 0 /\ e < b /\ phase[e] = "active"
           => used'[e] = amount'[e]
    ]_vars

\* A task is revived only while it is out of credits, whatever happens to it
\* between the search and the update, and only with credits that arrive in
\* the same transaction.
OnlyPausedIsRevived ==
  [][\A t \in Tasks :
       status'[t] = "CREDITS_TOPPED_UP" /\ status[t] # "CREDITS_TOPPED_UP" =>
         /\ status[t] = "OUT_OF_CREDITS"
         /\ \E b \in Buckets : phase[b] = "none" /\ phase'[b] = "active"
    ]_vars

\* A task that waits for credits was paused by a charge that had read every
\* bucket granted so far.
Forgotten(t, d) ==
  /\ status[t] = "OUT_OF_CREDITS" /\ step[d] = "done"
  /\ ~(missing[d] \subseteq seen[pausedBy[t]])
NoneForgotten == \A t \in Tasks, d \in Deliveries : ~Forgotten(t, d)

\* A grant forgets a task only if it crossed the charge that paused it: the
\* charge read before the grant landed, and committed after the grant had
\* searched for paused tasks.
OnlyCrossedIsForgotten ==
  \A t \in Tasks, d \in Deliveries :
    Forgotten(t, d) => pausedBy[t] \in crossed[d]
=============================================================================
