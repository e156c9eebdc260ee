---------------------------- MODULE ProjectClose ----------------------------
(***************************************************************************)
(* The closing of a project with one Task Schedule: the request            *)
(* (project-close-lifecycle.service.ts), the workers that carry it out     *)
(* batch by batch under a lease (project-close-sync.service.ts), and the   *)
(* people who retry a failed close or cancel the Runs it owes.             *)
(*                                                                         *)
(* Runs that were due before the request are still released, by the close  *)
(* itself; the schedule then ends.  A batch is a transaction that holds    *)
(* the project's lock and the lease throughout, so it is one step.         *)
(***************************************************************************)
EXTENDS TaskSchedule

CONSTANTS
  Workers, NoWorker,
  CloseLimit,           \* PROJECT_CLOSE_RUN_BATCH_SIZE
  MaxFailures           \* PROJECT_CLOSE_MAX_FAILURES

\* A first failure is not final: were it, a run still revoking when the close
\* fails could write after the operation is over.
ASSUME CloseAssumption ==
  /\ NoWorker \notin Workers /\ CloseLimit \in Nat \ {0}
  /\ MaxFailures \in Nat \ {0, 1}

VARIABLES
  opState,    \* of the close operation, NONE before the request
  attempts,
  lease,      \* the worker whose token is on the operation
  fresh,      \* whether the lease has not expired
  due,        \* whether nextAttemptAt has come
  named,      \* whether failureSummary names the schedule
  pending,    \* whether an account of the project is still to be revoked
  at,         \* what each worker is doing
  owed,       \* the Runs owed when the close was requested
  waived      \* the Runs canceled by cancel-owed

operation == <<opState, attempts, lease, fresh, due, named>>
closeVars == <<operation, pending, at, owed, waived>>
vars == <<scheduleVars, closeVars>>

\* No transaction stays open for the seconds that a lease or a delay takes:
\* the database client gives it five.
Quiet == \A x \in Transactions : doing[x] = "none"

\* The Runs the close has to release before the schedule ends.
StillOwed(rs) ==
  {k \in In(rs, "PLANNED") : state = "ACTIVE" /\ runAt[k] < cutoff}

-----------------------------------------------------------------------------
(* The request and the recoveries.                                         *)

RequestClose ==
  /\ inProject /\ cutoff = 0
  /\ cutoff' = now
  /\ opState' = "CLOSING" /\ due' = TRUE
  /\ pending' \in BOOLEAN
  /\ owed' = {k \in In(runState, "PLANNED") :
                state = "ACTIVE" /\ runAt[k] < now}
  /\ UNCHANGED <<clock, schedule, ledger, open, attempts, lease, fresh, named,
                 at, waived>>

Recover(canceled) ==
  /\ opState = "CLOSE_FAILED"
  /\ opState' = "CLOSING" /\ attempts' = 0 /\ due' = TRUE /\ named' = FALSE
  /\ lease' = NoWorker /\ fresh' = FALSE
  /\ runState' = Marked(runState, canceled, "CANCELED")
  /\ waived' = waived \cup canceled
  /\ UNCHANGED <<clock, cutoff, schedule, runAt, tasks, open, pending, at,
                 owed>>

RetryClose == Recover({})

\* Only where a schedule was named as what failed.
CancelOwed ==
  /\ named
  /\ Recover({k \in In(runState, "PLANNED") : runAt[k] < cutoff})

-----------------------------------------------------------------------------
(* A worker of the project-closes cron.                                    *)

\* Mutant: a lease is free only when it was given back.
FreeIfGivenBack == lease = NoWorker

Free == lease = NoWorker \/ ~fresh

Claim(w) ==
  /\ at[w] = "idle"
  /\ opState = "CLOSING" /\ due
  /\ Free
  /\ lease' = w /\ fresh' = TRUE
  /\ at' = [at EXCEPT ![w] = "holding"]
  /\ UNCHANGED <<scheduleVars, opState, attempts, due, named, pending, owed,
                 waived>>

Owns(w) == opState = "CLOSING" /\ lease = w

Stops(w) == at' = [at EXCEPT ![w] = "idle"]

\* The lease is renewed when a connection is found, before the call.
FindRevocation(w) ==
  /\ at[w] = "holding" /\ Owns(w)
  /\ pending
  /\ fresh' = TRUE
  /\ at' = [at EXCEPT ![w] = "revoking"]
  /\ UNCHANGED <<scheduleVars, opState, attempts, lease, due, named, pending,
                 owed, waived>>

\* The provider has revoked the account; the worker may own nothing by now.
Revoked(w) ==
  /\ at[w] = "revoking"
  /\ pending' = FALSE
  /\ at' = [at EXCEPT ![w] = "holding"]
  /\ UNCHANGED <<scheduleVars, operation, owed, waived>>

\* Mutant: the schedule ends with its first batch.
EndsAtOnce(rest) == TRUE

\* The schedule ends when nothing is owed any more.
Ends(rest) == rest = {}

\* closeTaskScheduleForProject, and the renewal of lease and attempts.
CloseSchedule(w) ==
  /\ at[w] = "holding" /\ Owns(w)
  /\ ~pending /\ state # "ENDED"
  /\ \E n \in 0 .. CloseLimit :
       \E S \in Oldest(StillOwed(runState), n) :
         LET released == Marked(runState, S, "RELEASED")
             rest == StillOwed(released)
             lists == Split(released, Stoppable(released, now, FALSE))
             after == IF Ends(rest) THEN Stop(released, lists, TRUE)
                      ELSE released
         IN  /\ n = CloseLimit \/ S = StillOwed(runState)
             /\ runState' = after
             /\ runAt' = Times0(after)
             /\ tasks' = [k \in Keys |-> tasks[k] + IF k \in S THEN 1 ELSE 0]
             /\ releasedCount' = releasedCount + n
             /\ state' = IF Ends(rest) THEN "ENDED" ELSE state
             /\ nextRunAt' = IF Ends(rest) THEN 0 ELSE Earliest(released)
             /\ revision' = revision + IF Ends(rest) THEN 1 ELSE 0
  /\ attempts' = 0 /\ named' = FALSE /\ fresh' = TRUE
  /\ UNCHANGED <<clock, cutoff, epoch, open, opState, lease, due, pending, at,
                 owed, waived>>

\* No schedule is left: the operation is closed with the ledger.
Finalize(w) ==
  /\ at[w] = "holding" /\ Owns(w)
  /\ ~pending /\ state = "ENDED"
  /\ runState' =
       Marked(runState, {k \in Keys : /\ runState[k] \in {"PLANNED", "SKIPPED"}
                                      /\ runAt[k] >= cutoff}, "CANCELED")
  /\ opState' = "CLOSED" /\ lease' = NoWorker /\ fresh' = FALSE
  /\ due' = FALSE /\ named' = FALSE
  /\ Stops(w)
  /\ UNCHANGED <<clock, cutoff, schedule, runAt, tasks, open, attempts,
                 pending, owed, waived>>

\* Out of time or batches, or the lease is lost: given back if still held.
Yield(w) ==
  /\ at[w] = "holding"
  /\ IF Owns(w) THEN lease' = NoWorker /\ fresh' = FALSE /\ due' = TRUE
     ELSE UNCHANGED <<lease, fresh, due>>
  /\ Stops(w)
  /\ UNCHANGED <<scheduleVars, opState, attempts, named, pending, owed,
                 waived>>

Final(n) == n >= MaxFailures

\* recordProjectCloseFailure.  The batch of the schedule failed (its own
\* transaction is gone), or a revocation did, or a call after a commit.
Fail(w, ofSchedule) ==
  /\ at[w] # "idle"
  /\ ofSchedule => /\ at[w] = "holding" /\ Owns(w)
                   /\ ~pending /\ state # "ENDED"
  /\ IF Owns(w)
     THEN /\ attempts' = attempts + 1
          /\ opState' = IF Final(attempts + 1) THEN "CLOSE_FAILED"
                        ELSE "CLOSING"
          /\ lease' = NoWorker /\ fresh' = FALSE /\ due' = FALSE
          /\ named' = ofSchedule
     ELSE UNCHANGED operation
  /\ Stops(w)
  /\ UNCHANGED <<scheduleVars, pending, owed, waived>>

Crash(w) ==
  /\ at[w] # "idle"
  /\ Stops(w)
  /\ UNCHANGED <<scheduleVars, operation, pending, owed, waived>>

ExpireLease ==
  /\ Quiet
  /\ lease # NoWorker /\ fresh
  /\ fresh' = FALSE
  /\ UNCHANGED <<scheduleVars, opState, attempts, lease, due, named, pending,
                 at, owed, waived>>

\* The delay after a failure has passed, which no transaction outlives.
BecomeDue ==
  /\ Quiet
  /\ opState = "CLOSING" /\ ~due
  /\ due' = TRUE
  /\ UNCHANGED <<scheduleVars, opState, attempts, lease, fresh, named, pending,
                 at, owed, waived>>

-----------------------------------------------------------------------------
Init ==
  /\ ScheduleInit
  /\ opState = "NONE" /\ attempts = 0
  /\ lease = NoWorker /\ fresh = FALSE /\ due = FALSE /\ named = FALSE
  /\ pending = FALSE
  /\ at = [w \in Workers |-> "idle"]
  /\ owed = {} /\ waived = {}

\* A worker that holds the lease gets something done, or fails at it.
Work(w) ==
  \/ Revoked(w) \/ CloseSchedule(w) \/ Finalize(w)
  \/ \E b \in BOOLEAN : Fail(w, b)

Next ==
  \/ ScheduleNext /\ UNCHANGED closeVars
  \/ RequestClose \/ RetryClose \/ CancelOwed
  \/ \E w \in Workers :
       \/ Claim(w) \/ FindRevocation(w) \/ Work(w)
       \/ Yield(w) \/ Crash(w)
  \/ ExpireLease \/ BecomeDue

Spec == Init /\ [][Next]_vars

\* Transactions end, time passes, the cron comes back, some worker goes on,
\* and one that takes the close again and again gets to do something.
Fairness ==
  /\ WF_vars(\E x \in Transactions : Rollback(x) /\ UNCHANGED closeVars)
  /\ WF_vars(ExpireLease \/ BecomeDue)
  /\ WF_vars(\E w \in Workers : Claim(w))
  /\ WF_vars(\E w \in Workers :
               FindRevocation(w) \/ Work(w) \/ Yield(w) \/ Crash(w))
  /\ SF_vars(\E w \in Workers : FindRevocation(w))
  /\ SF_vars(\E w \in Workers : Owns(w) /\ Work(w))

FairSpec == Spec /\ Fairness

-----------------------------------------------------------------------------
TypeOK ==
  /\ ScheduleTypeOK
  /\ opState \in {"NONE", "CLOSING", "CLOSE_FAILED", "CLOSED"}
  /\ attempts \in Nat
  /\ lease \in Workers \cup {NoWorker}
  /\ fresh \in BOOLEAN /\ due \in BOOLEAN /\ named \in BOOLEAN
  /\ pending \in BOOLEAN
  /\ at \in [Workers -> {"idle", "holding", "revoking"}]
  /\ owed \subseteq Keys /\ waived \subseteq Keys

\* A closed project owes nothing: its schedule has ended, no Run is planned,
\* and each Run that was due when the close was requested has its Task,
\* unless somebody canceled it for the close.
ClosedOwesNothing ==
  opState = "CLOSED" =>
    /\ state = "ENDED"
    /\ In(runState, "PLANNED") = {}
    /\ \A k \in owed \ waived : tasks[k] = 1

\* A Run the ledger calls released has made its Task.  Where the project's
\* lock guards the ledger, no Run makes two, however many releases, changes
\* and closes cross, and the ledger never forgets one that made its Task.
OneTaskPerRun ==
  \A k \in Keys :
    /\ runState[k] = "RELEASED" => tasks[k] > 0
    /\ inProject => /\ tasks[k] <= 1
                    /\ tasks[k] = 1 => runState[k] = "RELEASED"

\* No planned Run is overlooked: an active schedule is due to be looked at
\* when its earliest Run is.
NoRunOverlooked ==
  state = "ACTIVE" =>
    \A k \in In(runState, "PLANNED") : nextRunAt \in 1 .. runAt[k]

\* Nothing moves in a closed project, whatever was still open when it closed.
ClosedIsStill ==
  [][opState = "CLOSED" => UNCHANGED <<opState, state, runState, tasks>>]_vars

\* A close that was requested or retried ends, or fails where people see it.
CloseSettles == opState = "CLOSING" ~> opState \in {"CLOSED", "CLOSE_FAILED"}
=============================================================================
