------------------------------ MODULE SyncLock ------------------------------
(***************************************************************************)
(* The cron lock of apps/core (services/sync-lock.service.ts) and the      *)
(* request handler that runs a sync operation under it                     *)
(* (routes/sync/handler.ts), for one lock key.                             *)
(*                                                                         *)
(* The lock is a row that names its owner by a fresh token and the time it *)
(* was taken; it can be stolen once it is older than LOCK_TIMEOUT.  An     *)
(* operation never rechecks the row: it only asks shouldContinue between   *)
(* its steps, against a deadline LOCK_TIMEOUT_BUFFER short of the timeout. *)
(*                                                                         *)
(* Time is kept as ages: of the row's lockedAt, and of what each           *)
(* invocation read as lockAcquiredAt.  An invocation stands for its token. *)
(* Tokens are random, so a slot is reused only once the row has lost the   *)
(* slot's last token.                                                      *)
(***************************************************************************)
EXTENDS Integers

CONSTANTS
  Invocations,    \* slots for concurrent cron requests
  NoInvocation,   \* lockedBy = null
  LockTimeout,    \* LOCK_TIMEOUT
  Buffer,         \* LOCK_TIMEOUT_BUFFER
  MinSyncTimeout, \* MIN_SYNC_TIMEOUT_MS
  StartDelay,     \* longest time from lockAcquiredAt to the operation's start
  MaxStep,        \* time the buffer leaves a step; a step may take longer
  Horizon,        \* bound: ages stop growing here
  MaxFaults       \* bound: crashes and failed releases

ASSUME InvocationAssumption == NoInvocation \notin Invocations
ASSUME DurationAssumption ==
  /\ {LockTimeout, Buffer, MinSyncTimeout, StartDelay, MaxStep} \subseteq Nat
  /\ Horizon \in Nat /\ Horizon > LockTimeout + StartDelay
  /\ MaxFaults \in Nat

VARIABLES
  lockedBy, lockAge,    \* the lock row: owner token, age of lockedAt
  stage,                \* of each invocation
  age,                  \* of what it read as lockAcquiredAt
  deadline, stepFrom,   \* deadlineMs, and the start of its step, as ages
  faults

row == <<lockedBy, lockAge>>
vars == <<row, stage, age, deadline, stepFrom, faults>>

Ages == 0 .. Horizon
Stages == {"idle", "acquiring", "acquired", "checking", "stepping",
           "releasing"}
Running == {"acquired", "checking", "stepping"}

SyncTimeoutUnbuffered == LockTimeout
SyncTimeout ==
  IF LockTimeout - Buffer > MinSyncTimeout
  THEN LockTimeout - Buffer ELSE MinSyncTimeout

TypeOK ==
  /\ lockedBy \in Invocations \cup {NoInvocation}
  /\ lockAge \in Ages
  /\ stage \in [Invocations -> Stages]
  /\ age \in [Invocations -> Ages]
  /\ deadline \in [Invocations -> Nat]
  /\ stepFrom \in [Invocations -> Ages]
  /\ faults \in 0 .. MaxFaults

Init ==
  /\ lockedBy = NoInvocation /\ lockAge = 0
  /\ stage = [i \in Invocations |-> "idle"]
  /\ age = [i \in Invocations |-> 0]
  /\ deadline = [i \in Invocations |-> 0]
  /\ stepFrom = [i \in Invocations |-> 0]
  /\ faults = 0

Goto(i, s) == stage' = [stage EXCEPT ![i] = s]

\* The invocation ends, and with it all it remembered.
Return(i) ==
  /\ Goto(i, "idle")
  /\ age' = [age EXCEPT ![i] = 0]
  /\ deadline' = [deadline EXCEPT ![i] = 0]
  /\ stepFrom' = [stepFrom EXCEPT ![i] = 0]

-----------------------------------------------------------------------------
\* acquireLock: the row exists (upsert) and the clock is read ...
Request(i) ==
  /\ stage[i] = "idle" /\ lockedBy # i
  /\ Goto(i, "acquiring")
  /\ UNCHANGED <<row, age, deadline, stepFrom, faults>>

\* ... then the row is claimed by one conditional update, which compares the
\* stored lockedAt with the clock as it was read.
FreeForOnlyIfUnlocked(i) == lockedBy = NoInvocation
FreeFor(i) ==
  \/ lockedBy = NoInvocation
  \/ lockAge - age[i] > LockTimeout

Acquire(i) ==
  /\ stage[i] = "acquiring" /\ FreeFor(i)
  /\ lockedBy' = i /\ lockAge' = age[i]
  /\ Goto(i, "acquired")
  /\ UNCHANGED <<age, deadline, stepFrom, faults>>

\* No row matched: the request answers 409.
Locked(i) ==
  /\ stage[i] = "acquiring" /\ ~FreeFor(i)
  /\ Return(i)
  /\ UNCHANGED <<row, faults>>

\* runBackgroundSync computes its deadline from the clock at that moment.
Start(i) ==
  /\ stage[i] = "acquired"
  /\ deadline' = [deadline EXCEPT ![i] = age[i] + SyncTimeout]
  /\ Goto(i, "checking")
  /\ UNCHANGED <<row, age, stepFrom, faults>>

\* shouldContinue, then one step of the operation's own loop.
ShouldContinue(i) == age[i] < deadline[i]

BeginStep(i) ==
  /\ stage[i] = "checking" /\ ShouldContinue(i)
  /\ stepFrom' = [stepFrom EXCEPT ![i] = age[i]]
  /\ Goto(i, "stepping")
  /\ UNCHANGED <<row, age, deadline, faults>>

\* A step returns to the loop, or throws into the finally block.
EndStep(i) ==
  /\ stage[i] = "stepping"
  /\ Goto(i, "checking") \/ Goto(i, "releasing")
  /\ UNCHANGED <<row, age, deadline, stepFrom, faults>>

\* The operation is out of work or out of time.
Finish(i) ==
  /\ stage[i] = "checking"
  /\ Goto(i, "releasing")
  /\ UNCHANGED <<row, age, deadline, stepFrom, faults>>

\* releaseLock clears the row only where it still names this token.
Owns(i) == lockedBy = i

Release(i) ==
  /\ stage[i] = "releasing"
  /\ \/ Owns(i) /\ lockedBy' = NoInvocation /\ lockAge' = 0
     \/ ~Owns(i) /\ UNCHANGED row
  /\ Return(i)
  /\ UNCHANGED faults

\* The instance dies, or the release itself fails: the row stays as it is.
Crash(i) ==
  /\ stage[i] # "idle" /\ faults < MaxFaults
  /\ faults' = faults + 1
  /\ Return(i)
  /\ UNCHANGED row

\* Time passes, unless the delay of a start is used up; steps take any time.
MayWait(i) == stage[i] \in {"acquiring", "acquired"} => age[i] < StartDelay

Older(a) == IF a < Horizon THEN a + 1 ELSE a

Tick ==
  /\ \A i \in Invocations : MayWait(i)
  /\ age' = [i \in Invocations |->
               IF stage[i] = "idle" THEN age[i] ELSE Older(age[i])]
  /\ lockAge' = Older(lockAge)
  /\ UNCHANGED <<lockedBy, stage, deadline, stepFrom, faults>>

Invoke(i) ==
  \/ Request(i) \/ Acquire(i) \/ Locked(i) \/ Start(i)
  \/ BeginStep(i) \/ EndStep(i) \/ Finish(i) \/ Release(i)

Next == Tick \/ \E i \in Invocations : Invoke(i) \/ Crash(i)

Spec == Init /\ [][Next]_vars

\* The cron keeps firing and requests and steps end; the clock moves on.
FairSpec ==
  /\ Spec
  /\ WF_vars(Tick)
  /\ \A i \in Invocations :
       /\ WF_vars(Request(i)) /\ WF_vars(Acquire(i) \/ Locked(i))
       /\ WF_vars(Start(i)) /\ WF_vars(EndStep(i))
       /\ WF_vars(Finish(i)) /\ WF_vars(Release(i))

-----------------------------------------------------------------------------
(* Properties *)

\* What the buffer must pay for: the start of the operation and the step in
\* flight when the deadline passes.
StepFits == StartDelay + SyncTimeout + MaxStep <= LockTimeout + 1

\* Two operations under one lock key are at work at the same time only while
\* one of them is in a step that outran the buffer: the deadline leaves every
\* other step time to end before its lock can be stolen, whoever crashed.
OutranBuffer(i) == age[i] > stepFrom[i] + MaxStep
OneAtWork ==
  \A i, j \in Invocations :
    stage[i] = "stepping" /\ stage[j] = "stepping" =>
      i = j \/ OutranBuffer(i) \/ OutranBuffer(j)

\* Whatever overruns, an invocation within LOCK_TIMEOUT of its own stamp
\* still owns the row: neither a late holder's release nor a rival's claim
\* has taken it away.
WithinLeaseOwns ==
  \A i \in Invocations :
    stage[i] \in Running /\ age[i] <= LockTimeout => lockedBy = i

\* The row passes from one owner to another, or is cleared under its owner,
\* only after it is older than LOCK_TIMEOUT; earlier only its owner gives it
\* up.
OnlyExpiredIsStolen ==
  [][ \A i \in Invocations :
        lockedBy = i /\ lockedBy' # i =>
          \/ lockAge > LockTimeout
          \/ stage[i] = "releasing" /\ lockedBy' = NoInvocation ]_vars

\* A crashed holder does not block its sync for good.
LockMovesOn == \A i \in Invocations : lockedBy = i ~> lockedBy # i
=============================================================================
