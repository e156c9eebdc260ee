--------------------------- MODULE SyncLock_proofs ---------------------------
(***************************************************************************)
(* Theorems about the cron lock, for every number of invocations and every *)
(* choice of the timeouts, proved from one inductive invariant.            *)
(***************************************************************************)
EXTENDS SyncLock, TLAPS

\* A holder within its lease owns the row, and the row is as old as its stamp.
LeaseInv ==
  \A i \in Invocations :
    stage[i] \in Running \cup {"releasing"} /\ age[i] <= LockTimeout =>
      lockedBy = i /\ lockAge = age[i]

\* How old a stamp can be at each point of a run.
StartInv ==
  \A i \in Invocations :
    /\ stage[i] = "idle" => age[i] = 0
    /\ stage[i] \in {"acquiring", "acquired"} => age[i] <= StartDelay
    /\ stage[i] \in {"checking", "stepping"} =>
         deadline[i] <= StartDelay + SyncTimeout

\* A step begins before the deadline.
StepInv ==
  \A i \in Invocations : stage[i] = "stepping" => stepFrom[i] < deadline[i]

Inv == TypeOK /\ LeaseInv /\ StartInv /\ StepInv

LEMMA Timeout == SyncTimeout \in Nat
  BY DurationAssumption DEF SyncTimeout

LEMMA InitInv == Init => Inv
  BY InvocationAssumption, DurationAssumption
     DEF Init, Inv, TypeOK, Ages, Stages, LeaseInv, StartInv, StepInv, Running

\* The types and the three parts of the invariant, kept by every step.
LEMMA NextType == ASSUME Inv, [Next]_vars PROVE TypeOK'
<1> USE DEF Inv, TypeOK, Ages, Stages
<1>1. ASSUME NEW i \in Invocations, Invoke(i) PROVE TypeOK'
  <2> USE DEF Goto, Return, row
  <2>1. CASE Request(i)
    BY <2>1 DEF Request
  <2>2. CASE Acquire(i)
    BY <2>2 DEF Acquire
  <2>3. CASE Locked(i)
    BY <2>3, DurationAssumption DEF Locked
  <2>4. CASE Start(i)
    BY <2>4, Timeout DEF Start
  <2>5. CASE BeginStep(i)
    BY <2>5 DEF BeginStep
  <2>6. CASE EndStep(i)
    BY <2>6 DEF EndStep
  <2>7. CASE Finish(i)
    BY <2>7 DEF Finish
  <2>8. CASE Release(i)
    BY <2>8, DurationAssumption DEF Release
  <2> QED
    BY <1>1, <2>1, <2>2, <2>3, <2>4, <2>5, <2>6, <2>7, <2>8 DEF Invoke
<1>2. ASSUME NEW i \in Invocations, Crash(i) PROVE TypeOK'
  BY <1>2, DurationAssumption DEF Crash, Goto, Return, row
<1>3. CASE Tick
  BY <1>3, DurationAssumption DEF Tick, Older
<1>4. CASE UNCHANGED vars
  BY <1>4 DEF vars, row
<1> QED
  BY <1>1, <1>2, <1>3, <1>4 DEF Next

LEMMA NextLease == ASSUME Inv, [Next]_vars PROVE LeaseInv'
<1> USE InvocationAssumption, DurationAssumption
    DEF Inv, TypeOK, Ages, Stages, LeaseInv, Running
<1>1. ASSUME NEW i \in Invocations, Invoke(i) PROVE LeaseInv'
  <2> USE DEF Goto, Return, row
  <2>1. CASE Request(i)
    BY <2>1 DEF Request
  <2>2. CASE Acquire(i)
    BY <2>2 DEF Acquire, FreeFor
  <2>3. CASE Locked(i)
    BY <2>3 DEF Locked
  <2>4. CASE Start(i)
    BY <2>4 DEF Start
  <2>5. CASE BeginStep(i)
    BY <2>5 DEF BeginStep
  <2>6. CASE EndStep(i)
    BY <2>6 DEF EndStep
  <2>7. CASE Finish(i)
    BY <2>7 DEF Finish
  <2>8. CASE Release(i)
    BY <2>8 DEF Release, Owns
  <2> QED
    BY <1>1, <2>1, <2>2, <2>3, <2>4, <2>5, <2>6, <2>7, <2>8 DEF Invoke
<1>2. ASSUME NEW i \in Invocations, Crash(i) PROVE LeaseInv'
  BY <1>2 DEF Crash, Goto, Return, row
<1>3. CASE Tick
  BY <1>3 DEF Tick, Older
<1>4. CASE UNCHANGED vars
  BY <1>4 DEF vars, row
<1> QED
  BY <1>1, <1>2, <1>3, <1>4 DEF Next

LEMMA NextTiming == ASSUME Inv, [Next]_vars PROVE StartInv' /\ StepInv'
<1> USE Timeout, DurationAssumption
    DEF Inv, TypeOK, Ages, Stages, StartInv, StepInv
<1>1. ASSUME NEW i \in Invocations, Invoke(i) PROVE StartInv' /\ StepInv'
  <2> USE DEF Goto, Return, row
  <2>1. CASE Request(i)
    BY <2>1 DEF Request
  <2>2. CASE Acquire(i)
    BY <2>2 DEF Acquire
  <2>3. CASE Locked(i)
    BY <2>3 DEF Locked
  <2>4. CASE Start(i)
    BY <2>4 DEF Start
  <2>5. CASE BeginStep(i)
    BY <2>5 DEF BeginStep, ShouldContinue
  <2>6. CASE EndStep(i)
    BY <2>6 DEF EndStep
  <2>7. CASE Finish(i)
    BY <2>7 DEF Finish
  <2>8. CASE Release(i)
    BY <2>8 DEF Release
  <2> QED
    BY <1>1, <2>1, <2>2, <2>3, <2>4, <2>5, <2>6, <2>7, <2>8 DEF Invoke
<1>2. ASSUME NEW i \in Invocations, Crash(i) PROVE StartInv' /\ StepInv'
  BY <1>2 DEF Crash, Goto, Return, row
<1>3. CASE Tick
  BY <1>3 DEF Tick, Older, MayWait
<1>4. CASE UNCHANGED vars
  BY <1>4 DEF vars, row
<1> QED
  BY <1>1, <1>2, <1>3, <1>4 DEF Next

LEMMA InvHolds == Spec => []Inv
<1>1. Inv /\ [Next]_vars => Inv'
  BY NextType, NextLease, NextTiming DEF Inv
<1> QED
  BY InitInv, <1>1, PTL DEF Spec

-----------------------------------------------------------------------------
\* Every variable keeps its type.
THEOREM TypeCorrect == Spec => []TypeOK
  BY InvHolds, PTL DEF Inv

\* An invocation within LOCK_TIMEOUT of its stamp owns the row, however long
\* the others' steps take and whoever crashes.
THEOREM WithinLeaseOwnsHolds == Spec => []WithinLeaseOwns
<1>1. Inv => WithinLeaseOwns
  BY DEF Inv, LeaseInv, WithinLeaseOwns
<1> QED
  BY InvHolds, <1>1, PTL

\* If the buffer covers the start and one step, two operations under the same
\* key work at the same time only while one of them is outrunning the buffer.
THEOREM OneAtWorkHolds ==
  ASSUME StepFits
  PROVE  Spec => []OneAtWork
<1>1. ASSUME Inv PROVE OneAtWork
  <2>1. ASSUME NEW i \in Invocations, stage[i] = "stepping", ~OutranBuffer(i)
        PROVE  lockedBy = i
    <3>1. age[i] <= LockTimeout
      BY <1>1, <2>1, Timeout, DurationAssumption
         DEF StepFits, OutranBuffer, Inv, TypeOK, Ages, StartInv, StepInv
    <3> QED
      BY <1>1, <2>1, <3>1 DEF Inv, LeaseInv, Running
  <2> QED
    BY <2>1 DEF OneAtWork
<1> QED
  BY InvHolds, <1>1, PTL

\* Before it is older than LOCK_TIMEOUT the row is given up by its owner only.
THEOREM OnlyExpiredIsStolenHolds == Spec => OnlyExpiredIsStolen
<1> DEFINE Honoured ==
      \A i \in Invocations :
        lockedBy = i /\ lockedBy' # i =>
          \/ lockAge > LockTimeout
          \/ stage[i] = "releasing" /\ lockedBy' = NoInvocation
<1>1. ASSUME Inv, [Next]_vars PROVE [Honoured]_vars
  <2>1. SUFFICES ASSUME NEW i \in Invocations, lockedBy = i, lockedBy' # i
                 PROVE  \/ lockAge > LockTimeout
                        \/ stage[i] = "releasing" /\ lockedBy' = NoInvocation
    OBVIOUS
  <2>2. PICK j \in Invocations : Acquire(j) \/ Release(j)
    BY <1>1, <2>1 DEF Next, Invoke, Request, Locked, Start, BeginStep, EndStep,
       Finish, Crash, Tick, vars, row
  <2>3. CASE Acquire(j)
    BY <1>1, <2>1, <2>3, InvocationAssumption, DurationAssumption
       DEF Acquire, FreeFor, Inv, TypeOK, Ages
  <2>4. CASE Release(j)
    BY <2>1, <2>4 DEF Release, Owns, row
  <2> QED
    BY <2>2, <2>3, <2>4
<1> QED
  BY InvHolds, <1>1, PTL DEF Spec, OnlyExpiredIsStolen
=============================================================================
