---------------------------- MODULE TaskSchedule ----------------------------
(***************************************************************************)
(* One Task Schedule: its rule, the ledger of its Runs, the release that   *)
(* turns due Runs into Tasks, and the people who pause, resume, end, edit  *)
(* it or change a Run (task-schedule.service.ts,                           *)
(* task-schedule-runs.service.ts).                                         *)
(*                                                                         *)
(* Every operation is one transaction at Read Committed.  It reads the     *)
(* schedule when it opens, and writes when it commits, if the updates that *)
(* claim the rows still match; what an operation reads under rows it has   *)
(* already claimed is read at the commit here.  A release, a rule edit and *)
(* a change of state are two steps, so any two of them may cross; the      *)
(* operations that claim all they have read (a change of one Run, Run now) *)
(* are one step.                                                           *)
(*                                                                         *)
(* Operations on a schedule of a project lock its workspace and project    *)
(* first; the foreign keys of a Task or a Run conflict with that lock, so  *)
(* a release cannot write in between.  A schedule without a project takes  *)
(* no lock.                                                                *)
(***************************************************************************)
EXTENDS Integers, FiniteSets

CONSTANTS
  LastTime,      \* the times of the model are 1 .. LastTime; 0 is null
  LastEpoch,     \* rules a schedule may have in turn
  Rule,          \* the times of each rule
  Target,        \* the N of an end-after-N rule; 0 if it has none
  Ahead,         \* the horizon Runs are planned for
  ReleaseLimit,  \* MAX_RELEASES_PER_TRANSACTION
  Transactions,  \* operations that may be open at once
  MaxRevision    \* bound on the changes people make

Times == 1 .. LastTime
Epochs == 1 .. LastEpoch
\* A Run is identified by the rule's epoch and the rule's time for it.
Keys == Epochs \X Times

ASSUME ScheduleAssumption ==
  /\ LastTime \in Nat \ {0} /\ LastEpoch \in Nat \ {0}
  /\ Rule \in [Epochs -> SUBSET Times]
  /\ Target \in [Epochs -> Nat]
  /\ Ahead \in Nat /\ ReleaseLimit \in Nat /\ MaxRevision \in Nat

VARIABLES
  now,
  inProject,     \* whether the schedule belongs to a project; never changes
  cutoff,        \* the project's closingAt; 0 while it is open
  state, epoch, releasedCount, nextRunAt, revision,
  runState,      \* of each Run, NONE where the ledger has no row
  runAt,         \* effectiveScheduledAt
  tasks,         \* Tasks created for each Run
  doing,         \* the operation of each transaction
  saw,           \* what it read of the schedule when it opened
  listed         \* the Runs it read: ordinary ones, exceptions

clock == <<now, inProject>>
schedule == <<state, epoch, releasedCount, nextRunAt, revision>>
ledger == <<runState, runAt, tasks>>
open == <<doing, saw, listed>>
scheduleVars == <<clock, cutoff, schedule, ledger, open>>

States == {"ACTIVE", "PAUSED", "ENDED"}
RunStates == {"NONE", "PLANNED", "SKIPPED", "RELEASED", "CANCELED"}
Operations == {"none", "release", "pause", "resume", "end", "edit"}
Snapshot == [at : Times, state : States, epoch : Epochs, count : Nat,
             revision : Nat]

Read(a, s, e, c, r) ==
  [at |-> a, state |-> s, epoch |-> e, count |-> c, revision |-> r]
Nothing == Read(1, "ACTIVE", 1, 0, 0)

-----------------------------------------------------------------------------
(* The ledger.                                                             *)

In(rs, s) == {k \in Keys : rs[k] = s}
Marked(rs, K, s) == [k \in Keys |-> IF k \in K THEN s ELSE rs[k]]

\* Whether a Run was skipped or moved by somebody.
Exception(rs, k) ==
  \/ rs[k] = "SKIPPED"
  \/ rs[k] = "PLANNED" /\ runAt[k] # k[2]

\* Mutant: looks only among the Runs of the present rule.
EarliestOfRule(rs) ==
  LET due == {runAt[k] : k \in {j \in In(rs, "PLANNED") : j[1] = epoch}}
  IN  IF due = {} THEN 0 ELSE CHOOSE t \in due : \A u \in due : t <= u

\* The earliest planned Run, null if there is none.
Earliest(rs) ==
  LET due == {runAt[k] : k \in In(rs, "PLANNED")}
  IN  IF due = {} THEN 0 ELSE CHOOSE t \in due : \A u \in due : t <= u

\* The first n of K, oldest first; Runs of one time come in either order.
Oldest(K, n) ==
  {S \in SUBSET K : /\ Cardinality(S) = n
                    /\ \A k \in S, j \in K \ S : runAt[k] <= runAt[j]}

\* The Runs that are planned for rule e at time `from`, when `count` Runs
\* were released: up to the horizon, or the next one if there is none, and
\* not more than the end rule leaves room for.
Plan(rs, from, e, count) ==
  LET taken == {t \in Times : t > from /\ rs[<<e, t>>] # "NONE"}
      free == {t \in Rule[e] : t > from} \ taken
      near == {t \in free : t < from + Ahead}
      first == {t \in free : \A u \in free : t <= u}
      times == IF near = {} /\ \A t \in taken : rs[<<e, t>>] # "PLANNED"
               THEN first ELSE near
      room == Target[e] - count - Cardinality(In(rs, "PLANNED"))
      fits(t) == Cardinality({u \in times : u < t}) < room
  IN  {<<e, t>> : t \in {t \in times : Target[e] = 0 \/ fits(t)}}

\* The Runs that stopping takes off the plan at time `at`.
Stoppable(rs, at, keepOwed) ==
  {k \in Keys : \/ rs[k] = "PLANNED" /\ (keepOwed => runAt[k] > at)
                \/ rs[k] = "SKIPPED" /\ runAt[k] > at}
Split(rs, K) ==
  <<{k \in K : ~Exception(rs, k)}, {k \in K : Exception(rs, k)}>>

\* Ordinary Runs are deleted, exceptions kept or canceled, by their ids.
Stop(rs, lists, cancel) ==
  LET gone == Marked(rs, lists[1], "NONE")
      there == {k \in lists[2] : rs[k] # "NONE"}
  IN  IF cancel THEN Marked(gone, there, "CANCELED") ELSE gone

\* A row that is deleted loses its time.
Times0(rs) == [k \in Keys |-> IF rs[k] = "NONE" THEN k[2] ELSE runAt[k]]

-----------------------------------------------------------------------------
(* Transactions.                                                           *)

Begin(x, op, snapshot, lists) ==
  /\ doing[x] = "none"
  /\ doing' = [doing EXCEPT ![x] = op]
  /\ saw' = [saw EXCEPT ![x] = snapshot]
  /\ listed' = [listed EXCEPT ![x] = lists]

Finish(x) ==
  /\ doing' = [doing EXCEPT ![x] = "none"]
  /\ saw' = [saw EXCEPT ![x] = Nothing]
  /\ listed' = [listed EXCEPT ![x] = <<{}, {}>>]

\* A claim that no longer matches, an error, or a crash: nothing is written.
Rollback(x) ==
  /\ doing[x] # "none"
  /\ Finish(x)
  /\ UNCHANGED <<clock, cutoff, schedule, ledger>>

\* Operations of people are refused in a closing project.
Allowed == (inProject => cutoff = 0) /\ revision < MaxRevision

-----------------------------------------------------------------------------
(* The release of due Runs (the task-schedules cron).                      *)

\* Reads the schedule and the Runs to release; the deadline may cut the
\* batch short.
OpenRelease(x) ==
  /\ state = "ACTIVE" /\ nextRunAt \in 1 .. now
  /\ cutoff = 0
  /\ \E n \in 0 .. ReleaseLimit :
       \E S \in Oldest({k \in In(runState, "PLANNED") : runAt[k] <= now}, n) :
         Begin(x, "release",
               Read(now, "ACTIVE", 1, releasedCount, revision), <<S, {}>>)
  /\ UNCHANGED <<clock, cutoff, schedule, ledger>>

\* Mutant: the Runs are not claimed.
ClaimsSchedule(x) ==
  revision = saw[x].revision

\* Mutant: the schedule is claimed without its revision.
ClaimsByCount(x) ==
  /\ listed[x][1] \subseteq In(runState, "PLANNED")
  /\ releasedCount = saw[x].count

\* Each Run is claimed by its state, the schedule by revision and count.
Claims(x) ==
  /\ listed[x][1] \subseteq In(runState, "PLANNED")
  /\ revision = saw[x].revision
  /\ releasedCount = saw[x].count

CommitRelease(x) ==
  LET batch == listed[x][1]
      count == saw[x].count + Cardinality(batch)
      released == Marked(runState, batch, "RELEASED")
      new == Plan(released, saw[x].at, epoch, count)
      after == Marked(released, new, "PLANNED")
  IN  /\ doing[x] = "release"
      /\ Claims(x)
      /\ runState' = after
      /\ tasks' = [k \in Keys |-> tasks[k] + IF k \in batch THEN 1 ELSE 0]
      /\ releasedCount' = count
      /\ nextRunAt' = Earliest(after)
      /\ state' = IF Earliest(after) = 0 THEN "ENDED" ELSE "ACTIVE"
      /\ Finish(x)
      /\ UNCHANGED <<clock, cutoff, epoch, revision, runAt>>

-----------------------------------------------------------------------------
(* Pause, resume, end.                                                     *)

\* The schedule is read before the lock.  Without a lock, the Runs to stop
\* may change too before they are stopped.
OpenStop(x, op) ==
  /\ op \in {"pause", "end"}
  /\ state # "ENDED" /\ (op = "pause" => state = "ACTIVE")
  /\ Allowed
  /\ Begin(x, op, Read(1, state, 1, 0, 0),
           IF inProject THEN <<{}, {}>>
           ELSE Split(runState, Stoppable(runState, now, FALSE)))
  /\ UNCHANGED <<clock, cutoff, schedule, ledger>>

\* A released Run has its Task: the database refuses any other state.
CommitStop(x) ==
  LET lists == IF inProject
               THEN Split(runState, Stoppable(runState, now, FALSE))
               ELSE listed[x]
      ends == doing[x] = "end"
      after == Stop(runState, lists, ends)
  IN  /\ doing[x] \in {"pause", "end"}
      /\ Allowed
      /\ state = saw[x].state
      /\ ends => \A k \in lists[2] : runState[k] # "RELEASED"
      /\ runState' = after
      /\ runAt' = Times0(after)
      /\ state' = IF ends THEN "ENDED" ELSE "PAUSED"
      /\ nextRunAt' = 0
      /\ revision' = revision + 1
      /\ Finish(x)
      /\ UNCHANGED <<clock, cutoff, epoch, releasedCount, tasks>>

OpenResume(x) ==
  /\ state = "PAUSED"
  /\ Allowed
  /\ Begin(x, "resume", Read(1, "PAUSED", epoch, releasedCount, 0),
           <<{}, {}>>)
  /\ UNCHANGED <<clock, cutoff, schedule, ledger>>

\* Missed moves are canceled, and the rule that was read is planned; if
\* nothing is left to run, the schedule ends.
CommitResume(x) ==
  LET missed == {k \in In(runState, "PLANNED") : runAt[k] <= now}
      rest == Marked(runState, missed, "CANCELED")
      new == Plan(rest, now, saw[x].epoch, saw[x].count)
      after == Marked(rest, new, "PLANNED")
      ends == Earliest(after) = 0
  IN  /\ doing[x] = "resume"
      /\ Allowed
      /\ state = "PAUSED"
      /\ runState' =
           IF ends THEN Stop(after, Split(after, Stoppable(after, now, FALSE)),
                             TRUE)
           ELSE after
      /\ state' = IF ends THEN "ENDED" ELSE "ACTIVE"
      /\ nextRunAt' = Earliest(after)
      /\ revision' = revision + 1
      /\ Finish(x)
      /\ UNCHANGED <<clock, cutoff, epoch, releasedCount, runAt, tasks>>

-----------------------------------------------------------------------------
(* A new rule.                                                             *)

OpenEdit(x) ==
  /\ state # "ENDED"
  /\ Allowed
  /\ epoch < LastEpoch
  /\ \E t \in Rule[epoch + 1] : t > now
  /\ Begin(x, "edit", Read(1, "ACTIVE", 1, releasedCount, revision),
           <<{}, {}>>)
  /\ UNCHANGED <<clock, cutoff, schedule, ledger>>

\* The old rule's later Runs go; those already owed stay.
CommitEdit(x) ==
  LET lists == Split(runState, Stoppable(runState, now, TRUE))
      rest == Stop(runState, lists, TRUE)
      e == epoch + 1
      new == IF state = "ACTIVE" THEN Plan(rest, now, e, releasedCount)
             ELSE {}
      after == Marked(rest, new, "PLANNED")
  IN  /\ doing[x] = "edit"
      /\ Allowed
      /\ revision = saw[x].revision
      /\ Target[e] = 0 \/ Target[e] > saw[x].count
      /\ epoch' = e
      /\ runState' = after
      /\ runAt' = Times0(after)
      /\ nextRunAt' = IF state = "ACTIVE" THEN Earliest(after) ELSE nextRunAt
      /\ revision' = revision + 1
      /\ Finish(x)
      /\ UNCHANGED <<clock, cutoff, state, releasedCount, tasks>>

-----------------------------------------------------------------------------
(* One Run is skipped, moved or restored; Run now.                         *)

\* What an end-after-N rule has too many of, planned last, but never k.
Excess(rs, k) ==
  LET planned == In(rs, "PLANNED")
      n == releasedCount + Cardinality(planned) - Target[epoch]
  IN  IF Target[epoch] = 0 \/ n <= 0 THEN {{}}
      ELSE {S \in SUBSET (planned \ {k}) :
              /\ Cardinality(S) = n \/ S = planned \ {k}
              /\ Cardinality(S) <= n
              /\ \A i \in S, j \in planned \ (S \cup {k}) : i[2] >= j[2]}

\* k becomes s at time t.  The schedule still wakes at t if no Run is left.
ChangeRun(k, s, t) ==
  /\ state = "ACTIVE"
  /\ Allowed
  /\ runAt[k] > now
  /\ t > now /\ t < now + Ahead
  /\ \E S \in Excess(Marked(runState, {k}, s), k) :
       LET rest == Marked(Marked(runState, {k}, s), S, "NONE")
           after == Marked(rest, Plan(rest, now, epoch, releasedCount),
                           "PLANNED")
           at == [j \in Keys |-> IF j = k THEN t ELSE Times0(rest)[j]]
           due == {at[j] : j \in In(after, "PLANNED")}
       IN  /\ runState' = after
           /\ runAt' = at
           /\ nextRunAt' = IF due = {} THEN t
                           ELSE CHOOSE u \in due : \A v \in due : u <= v
  /\ revision' = revision + 1
  /\ UNCHANGED <<clock, cutoff, state, epoch, releasedCount, tasks, open>>

Skip(k) == runState[k] = "PLANNED" /\ ChangeRun(k, "SKIPPED", runAt[k])
Move(k) ==
  runState[k] = "PLANNED" /\ \E t \in Times : ChangeRun(k, "PLANNED", t)
Restore(k) == Exception(runState, k) /\ ChangeRun(k, "PLANNED", k[2])

\* One extra Run, released at once.  Its row, at a time that is no rule's,
\* and its Task are left out; what others see of it is the revision.
RunNow ==
  /\ state # "ENDED"
  /\ Allowed
  /\ revision' = revision + 1
  /\ UNCHANGED <<clock, cutoff, state, epoch, releasedCount, nextRunAt, ledger,
                 open>>

\* The clock may pass the time of a Run while a release is open, but not
\* of another: a transaction takes seconds, a rule's times are minutes apart.
Tick ==
  /\ now < LastTime
  /\ \A x \in Transactions : doing[x] = "release" => saw[x].at = now
  /\ now' = now + 1
  /\ UNCHANGED <<inProject, cutoff, schedule, ledger, open>>

-----------------------------------------------------------------------------
\* A schedule that was just created.
ScheduleInit ==
  /\ now = 1
  /\ inProject \in BOOLEAN
  /\ cutoff = 0
  /\ state = "ACTIVE" /\ epoch = 1
  /\ releasedCount = 0 /\ revision = 0
  /\ LET none == [k \in Keys |-> "NONE"]
     IN  runState = Marked(none, Plan(none, 1, 1, 0), "PLANNED")
  /\ runAt = [k \in Keys |-> k[2]]
  /\ nextRunAt = Earliest(runState)
  /\ tasks = [k \in Keys |-> 0]
  /\ doing = [x \in Transactions |-> "none"]
  /\ saw = [x \in Transactions |-> Nothing]
  /\ listed = [x \in Transactions |-> <<{}, {}>>]

ScheduleNext ==
  \/ \E x \in Transactions :
       \/ Rollback(x)
       \/ OpenRelease(x) \/ CommitRelease(x)
       \/ \E op \in {"pause", "end"} : OpenStop(x, op)
       \/ CommitStop(x)
       \/ OpenResume(x) \/ CommitResume(x)
       \/ OpenEdit(x) \/ CommitEdit(x)
  \/ \E k \in Keys : Skip(k) \/ Move(k) \/ Restore(k)
  \/ RunNow
  \/ Tick

ScheduleTypeOK ==
  /\ now \in Times /\ inProject \in BOOLEAN /\ cutoff \in 0 .. LastTime
  /\ state \in States /\ epoch \in Epochs
  /\ releasedCount \in Nat /\ revision \in Nat
  /\ nextRunAt \in 0 .. LastTime
  /\ runState \in [Keys -> RunStates]
  /\ runAt \in [Keys -> Times]
  /\ tasks \in [Keys -> Nat]
  /\ doing \in [Transactions -> Operations]
  /\ saw \in [Transactions -> Snapshot]
  /\ listed \in [Transactions -> (SUBSET Keys) \X (SUBSET Keys)]
=============================================================================
