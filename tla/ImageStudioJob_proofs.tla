------------------------ MODULE ImageStudioJob_proofs ------------------------
(***************************************************************************)
(* Proofs about ImageStudioJob, for any number of handlers, faults and     *)
(* changes of access: what is sent, what is charged, and what a closed row *)
(* says about the provider's request.                                      *)
(***************************************************************************)
EXTENDS ImageStudioJob, TLAPS

Sending == {"preparing"} \cup Answers

\* The stages of handlers that started from a stored request id.
Reading == {"asking", "in_queue", "in_progress", "not_found", "failing",
            "fetching", "noting", "settling", "orphaning", "cancelling",
            "finalising"} \cup Holding

\* One handler at most is between its claim and the record of the answer, and
\* until then the row knows no request and is not closed.
SenderInv ==
  /\ \A v, w \in Workers :
       stage[v] \in Sending /\ stage[w] \in Sending => v = w
  /\ \A w \in Workers : stage[w] \in Sending =>
       /\ submitAttempts = 1 /\ ~known
       /\ status \in {"SUBMITTING", "SUBMISSION_UNCERTAIN"}

\* What the attempts, the stage and the row say about the provider's request.
RequestInv ==
  /\ sent <= submitAttempts
  /\ sent = 0 => request = "none" /\ ~inflight
  /\ known => request # "none" /\ ~inflight /\ status \in Live \cup Closed
  /\ \A w \in Workers :
       /\ stage[w] = "preparing" => sent = 0
       /\ stage[w] = "queued" => request # "none" /\ ~inflight
       /\ stage[w] = "rejected" => request = "none" /\ ~inflight

\* Readers know the request, and their verdicts stay true.
ReaderInv ==
  /\ asset => known /\ status \in {"SUCCEEDED", "ORPHANED"}
  /\ \A w \in Workers :
       /\ stage[w] \in Reading => known
       /\ stage[w] = "failing" => request = "failed"
       /\ stage[w] \in {"not_found", "finalising"} => request = "gone"

Inv == SenderInv /\ RequestInv /\ ReaderInv /\ RetryIsFree /\ ChargedOnce

USE WorkerAssumption, BoundAssumption

LEMMA StatusForIs ==
  /\ StatusFor("queued") = "QUEUED"
  /\ StatusFor("rejected") = "FAILED"
  /\ StatusFor("uncertain") = "SUBMISSION_UNCERTAIN"
BY DEF StatusFor

\* Types, action by action; the Boolean columns get steps of their own.
LEMMA NextType ==
  ASSUME TypeOK, [Next]_vars
  PROVE  TypeOK'
<1> USE DEF TypeOK, RowTypeOK, Statuses, Live, Closed, Answers, Holding,
  Stages, Requests, Goto, lease, submission, delivery, provider, world
<1>1. ASSUME NEW w \in Workers, Step(w) PROVE TypeOK'
  <2>1. CASE ClaimForSubmission(w)
    <3>1. stage' \in [Workers -> Stages] /\ cancelSeen' \subseteq Workers
      BY <2>1 DEF ClaimForSubmission, Unsent
    <3>2. status' \in Statuses /\ submitAttempts' \in 0 .. 1
      BY <2>1 DEF ClaimForSubmission, Unsent
    <3>3. stalled' \in BOOLEAN
      BY <2>1 DEF ClaimForSubmission, Unsent
    <3> QED
      BY <2>1, <3>1, <3>2, <3>3 DEF ClaimForSubmission
  <2>2. CASE Unsendable(w)
    BY <2>2 DEF Unsendable
  <2>3. CASE Submit(w)
    <3>1. stage' \in [Workers -> Stages] /\ cancelSeen' \subseteq Workers
      BY <2>3 DEF Submit
    <3>2. request' \in Requests /\ sent' \in Nat
      BY <2>3 DEF Submit
    <3>3. inflight' \in BOOLEAN
      BY <2>3 DEF Submit
    <3> QED
      BY <2>3, <3>1, <3>2, <3>3 DEF Submit
  <2>4. CASE RecordAnswer(w)
    BY <2>4, StatusForIs DEF RecordAnswer
  <2>5. CASE Abandon(w)
    BY <2>5 DEF Abandon, UpdateMany, Unsent
  <2>6. CASE CheckRecovery(w)
    BY <2>6 DEF CheckRecovery
  <2>7. CASE DenyReservation(w)
    BY <2>7 DEF DenyReservation, UpdateMany, Unsent
  <2>8. CASE AskStatus(w)
    BY <2>8 DEF AskStatus, AfterStatus
  <2>9. CASE FetchResult(w)
    BY <2>9 DEF FetchResult, AfterResult
  <2>10. CASE MarkQueued(w)
    BY <2>10 DEF MarkQueued, UpdateMany, Reopenable
  <2>11. CASE MarkRunning(w)
    BY <2>11 DEF MarkRunning, UpdateMany, Runnable
  <2>12. CASE MarkGone(w)
    BY <2>12 DEF MarkGone, UpdateMany
  <2>13. CASE FailImageJob(w)
    BY <2>13 DEF FailImageJob, UpdateMany
  <2>14. CASE NoteUnreachable(w)
    BY <2>14 DEF NoteUnreachable, UpdateMany
  <2>15. CASE MarkCancelRequested(w)
    <3>1. stage' \in [Workers -> Stages] /\ cancelSeen' \subseteq Workers
      BY <2>15 DEF MarkCancelRequested
    <3>2. cancelRequested' \in BOOLEAN
      BY <2>15 DEF MarkCancelRequested
    <3> QED
      BY <2>15, <3>1, <3>2 DEF MarkCancelRequested
  <2>16. CASE Finalise(w)
    BY <2>16 DEF Finalise, UpdateMany
  <2>17. CASE ClaimForSettlement(w)
    <3>1. stage' \in [Workers -> Stages] /\ cancelSeen' \subseteq Workers
      BY <2>17 DEF ClaimForSettlement
    <3>2. owner' \in Workers \cup {NoWorker}
      BY <2>17 DEF ClaimForSettlement
    <3>3. expired' \in BOOLEAN
      BY <2>17 DEF ClaimForSettlement
    <3> QED
      BY <2>17, <3>1, <3>2, <3>3 DEF ClaimForSettlement
  <2>18. CASE Authorize(w)
    BY <2>18 DEF Authorize
  <2>19. CASE Store(w)
    BY <2>19 DEF Store
  <2>20. CASE Release(w)
    <3>1. stage' \in [Workers -> Stages] /\ cancelSeen' \subseteq Workers
      BY <2>20 DEF Release, ReleaseLease
    <3>2. owner' \in Workers \cup {NoWorker}
      BY <2>20 DEF Release, ReleaseLease
    <3>3. expired' \in BOOLEAN
      BY <2>20 DEF Release, ReleaseLease
    <3> QED
      BY <2>20, <3>1, <3>2, <3>3 DEF Release
  <2>21. CASE Orphan(w)
    BY <2>21 DEF Orphan, UpdateMany
  <2>22. CASE InsertAsset(w)
    <3>1. stage' \in [Workers -> Stages] /\ cancelSeen' \subseteq Workers
      BY <2>22 DEF InsertAsset
    <3>2. /\ status' \in Statuses /\ net' \in Int
          /\ owner' \in Workers \cup {NoWorker}
      BY <2>22 DEF InsertAsset
    <3>3. expired' \in BOOLEAN /\ asset' \in BOOLEAN
      BY <2>22 DEF InsertAsset
    <3> QED
      BY <2>22, <3>1, <3>2, <3>3 DEF InsertAsset
  <2> QED
    BY <1>1, <2>1, <2>2, <2>3, <2>4, <2>5, <2>6, <2>7, <2>8, <2>9, <2>10,
       <2>11, <2>12, <2>13, <2>14, <2>15, <2>16, <2>17, <2>18, <2>19,
       <2>20, <2>21, <2>22
       DEF Step
<1>2. ASSUME NEW w \in Workers, Begin(w) PROVE TypeOK'
  <2>1. CASE Reserve(w)
    BY <2>1 DEF Reserve
  <2>2. CASE FindReservation(w)
    BY <2>2 DEF FindReservation, Recoverable, Unsent
  <2>3. CASE Reconcile(w)
    BY <2>3 DEF Reconcile
  <2>4. CASE Callback(w)
    BY <2>4 DEF Callback
  <2>5. CASE RequestCancel(w)
    BY <2>5 DEF RequestCancel
  <2>6. CASE FindCancelled(w)
    BY <2>6 DEF FindCancelled
  <2> QED
    BY <1>2, <2>1, <2>2, <2>3, <2>4, <2>5, <2>6 DEF Begin
<1>3. ASSUME NEW w \in Workers, InsertFails(w) PROVE TypeOK'
  <2>1. stage' \in [Workers -> Stages] /\ cancelSeen' \subseteq Workers
    BY <1>3 DEF InsertFails, ReleaseLease
  <2>2. owner' \in Workers \cup {NoWorker}
    BY <1>3 DEF InsertFails, ReleaseLease
  <2>3. expired' \in BOOLEAN
    BY <1>3 DEF InsertFails, ReleaseLease
  <2> QED
    BY <1>3, <2>1, <2>2, <2>3 DEF InsertFails
<1>4. ASSUME NEW w \in Workers, Crash(w) PROVE TypeOK'
  BY <1>4 DEF Crash
<1>5. CASE SweepStalled
  BY <1>5 DEF SweepStalled, SweptTo
<1>6. CASE Land
  <2>1. /\ UNCHANGED <<status, submission, age, cancelRequested, lease,
                      delivery, stage, cancelSeen, sent, world, faults>>
        /\ request' \in Requests
    BY <1>6 DEF Land
  <2>2. inflight' \in BOOLEAN
    BY <1>6 DEF Land
  <2> QED
    BY <2>1, <2>2
<1>7. CASE Progress
  BY <1>7 DEF Progress
<1>8. CASE ChangeAccess
  BY <1>8 DEF ChangeAccess
<1>9. CASE GrowOld
  BY <1>9 DEF GrowOld
<1>10. CASE Stall
  BY <1>10 DEF Stall
<1>11. CASE ExpireLease
  BY <1>11 DEF ExpireLease
<1>12. CASE UNCHANGED vars
  BY <1>12 DEF vars
<1> QED
  BY <1>1, <1>2, <1>3, <1>4, <1>5, <1>6, <1>7, <1>8, <1>9, <1>10, <1>11, <1>12
     DEF Next, Elsewhere

\* The invariant, action by action.
LEMMA NextInv ==
  ASSUME TypeOK, Inv, [Next]_vars
  PROVE  Inv'
<1> USE DEF TypeOK, RowTypeOK, Statuses, Live, Closed, Answers, Holding,
  Stages, Requests, Goto, lease, submission, delivery, provider, world,
  Sending, Reading, SenderInv, RequestInv, ReaderInv, RetryIsFree, ChargedOnce,
  Inv
<1>1. ASSUME NEW w \in Workers, Step(w) PROVE Inv'
  <2>1. CASE ClaimForSubmission(w)
    BY <2>1 DEF ClaimForSubmission, Unsent
  <2>2. CASE Unsendable(w)
    BY <2>2 DEF Unsendable
  <2>3. CASE Submit(w)
    BY <2>3 DEF Submit
  <2>4. CASE RecordAnswer(w)
    BY <2>4, StatusForIs DEF RecordAnswer
  <2>5. CASE Abandon(w)
    BY <2>5 DEF Abandon, UpdateMany, Unsent
  <2>6. CASE CheckRecovery(w)
    BY <2>6 DEF CheckRecovery
  <2>7. CASE DenyReservation(w)
    BY <2>7 DEF DenyReservation, UpdateMany, Unsent
  <2>8. CASE AskStatus(w)
    BY <2>8 DEF AskStatus, AfterStatus
  <2>9. CASE FetchResult(w)
    BY <2>9 DEF FetchResult, AfterResult
  <2>10. CASE MarkQueued(w)
    BY <2>10 DEF MarkQueued, UpdateMany, Reopenable
  <2>11. CASE MarkRunning(w)
    BY <2>11 DEF MarkRunning, UpdateMany, Runnable
  <2>12. CASE MarkGone(w)
    BY <2>12 DEF MarkGone, UpdateMany
  <2>13. CASE FailImageJob(w)
    BY <2>13 DEF FailImageJob, UpdateMany
  <2>14. CASE NoteUnreachable(w)
    BY <2>14 DEF NoteUnreachable, UpdateMany
  <2>15. CASE MarkCancelRequested(w)
    BY <2>15 DEF MarkCancelRequested
  <2>16. CASE Finalise(w)
    BY <2>16 DEF Finalise, UpdateMany
  <2>17. CASE ClaimForSettlement(w)
    BY <2>17 DEF ClaimForSettlement, LeaseFree
  <2>18. CASE Authorize(w)
    BY <2>18 DEF Authorize
  <2>19. CASE Store(w)
    BY <2>19 DEF Store
  <2>20. CASE Release(w)
    BY <2>20 DEF Release, ReleaseLease, MayRelease
  <2>21. CASE Orphan(w)
    BY <2>21 DEF Orphan, UpdateMany
  <2>22. CASE InsertAsset(w)
    BY <2>22 DEF InsertAsset, Insertable
  <2> QED
    BY <1>1, <2>1, <2>2, <2>3, <2>4, <2>5, <2>6, <2>7, <2>8, <2>9, <2>10,
       <2>11, <2>12, <2>13, <2>14, <2>15, <2>16, <2>17, <2>18, <2>19,
       <2>20, <2>21, <2>22
       DEF Step
<1>2. ASSUME NEW w \in Workers, Begin(w) PROVE Inv'
  <2>1. CASE Reserve(w)
    BY <2>1 DEF Reserve
  <2>2. CASE FindReservation(w)
    BY <2>2 DEF FindReservation, Recoverable, Unsent
  <2>3. CASE Reconcile(w)
    BY <2>3 DEF Reconcile
  <2>4. CASE Callback(w)
    BY <2>4 DEF Callback
  <2>5. CASE RequestCancel(w)
    BY <2>5 DEF RequestCancel
  <2>6. CASE FindCancelled(w)
    BY <2>6 DEF FindCancelled
  <2> QED
    BY <1>2, <2>1, <2>2, <2>3, <2>4, <2>5, <2>6 DEF Begin
<1>3. ASSUME NEW w \in Workers, InsertFails(w) PROVE Inv'
  BY <1>3 DEF InsertFails, ReleaseLease, MayRelease
<1>4. ASSUME NEW w \in Workers, Crash(w) PROVE Inv'
  BY <1>4 DEF Crash
<1>5. CASE SweepStalled
  BY <1>5 DEF SweepStalled, SweptTo
<1>6. CASE Land
  BY <1>6 DEF Land
<1>7. CASE Progress
  BY <1>7 DEF Progress
<1>8. CASE ChangeAccess
  BY <1>8 DEF ChangeAccess
<1>9. CASE GrowOld
  BY <1>9 DEF GrowOld
<1>10. CASE Stall
  BY <1>10 DEF Stall
<1>11. CASE ExpireLease
  BY <1>11 DEF ExpireLease
<1>12. CASE UNCHANGED vars
  BY <1>12 DEF vars
<1> QED
  BY <1>1, <1>2, <1>3, <1>4, <1>5, <1>6, <1>7, <1>8, <1>9, <1>10, <1>11, <1>12
     DEF Next, Elsewhere

-----------------------------------------------------------------------------
LEMMA InitInv == Init => TypeOK /\ Inv
<1> SUFFICES ASSUME Init PROVE TypeOK /\ Inv
  OBVIOUS
<1>1. TypeOK
  <2>1. RowTypeOK
    <3>1. /\ status \in Statuses /\ submitAttempts \in 0 .. 1
          /\ age \in {"new", "stale", "abandoned"}
          /\ owner \in Workers \cup {NoWorker} /\ net \in Int
      BY DEF Init, Statuses
    <3>2. /\ stalled \in BOOLEAN /\ known \in BOOLEAN
          /\ cancelRequested \in BOOLEAN
          /\ expired \in BOOLEAN /\ asset \in BOOLEAN
      BY DEF Init
    <3> QED
      BY <3>1, <3>2 DEF RowTypeOK
  <2>2. /\ stage \in [Workers -> Stages] /\ cancelSeen \subseteq Workers
        /\ request \in Requests /\ sent \in Nat
        /\ faults \in 0 .. MaxFaults /\ turns \in 0 .. MaxTurns
    BY DEF Init, Stages, Requests
  <2>3. inflight \in BOOLEAN /\ permitted \in BOOLEAN
    BY DEF Init
  <2> QED
    BY <2>1, <2>2, <2>3 DEF TypeOK
<1>2. Inv
  BY DEF Init, Inv, SenderInv, RequestInv, ReaderInv, RetryIsFree,
         ChargedOnce, Sending, Reading, Answers, Holding
<1> QED
  BY <1>1, <1>2

LEMMA InvHolds == Spec => [](TypeOK /\ Inv)
<1>1. TypeOK /\ Inv /\ [Next]_vars => (TypeOK /\ Inv)'
  BY NextType, NextInv
<1> QED
  BY InitInv, <1>1, PTL DEF Spec

\* Every variable keeps its type, and no row's attempts exceed one.
THEOREM TypeCorrect == Spec => []TypeOK
  BY InvHolds, PTL

\* A job's paid request is sent at most once, by whichever of the caller, the
\* recovery and their successors gets the conditional update.
THEOREM SentOnceHolds == Spec => []SentOnce
<1>1. TypeOK /\ Inv => SentOnce
  BY DEF TypeOK, RowTypeOK, Inv, RequestInv, SentOnce
<1> QED
  BY InvHolds, <1>1, PTL

\* A job that is called failed or cancelled has no request that may be billed.
THEOREM RetryIsFreeHolds == Spec => []RetryIsFree
<1>1. Inv => RetryIsFree
  BY DEF Inv
<1> QED
  BY InvHolds, <1>1, PTL

\* An image is charged for once at most, and only if it is stored.
THEOREM ChargedOnceHolds == Spec => []ChargedOnce
<1>1. Inv => ChargedOnce
  BY DEF Inv
<1> QED
  BY InvHolds, <1>1, PTL

\* Nobody but its holder ends a settlement lease that has not run out, except
\* by recording the image.
THEOREM HolderKeepsLeaseHolds == Spec => HolderKeepsLease
<1> DEFINE A(w) == owner = w /\ ~expired /\ owner' # w =>
              \/ stage[w] \in Holding /\ stage'[w] # stage[w]
              \/ asset' # asset
<1>1. ASSUME TypeOK, [Next]_vars, NEW w \in Workers PROVE A(w)
  <2> SUFFICES ASSUME owner = w, ~expired, owner' # w
               PROVE  \/ stage[w] \in Holding /\ stage'[w] # stage[w]
                      \/ asset' # asset
    OBVIOUS
  <2>1. PICK v \in Workers : ClaimForSettlement(v) \/ Release(v)
                              \/ InsertAsset(v) \/ InsertFails(v)
    BY <1>1
       DEF Next, Step, Begin, Elsewhere, vars, lease, UpdateMany, Goto,
           Unsendable, Submit, RecordAnswer, Abandon, CheckRecovery,
           DenyReservation, AskStatus, FetchResult, MarkQueued, MarkRunning,
           MarkGone, FailImageJob, NoteUnreachable, MarkCancelRequested,
           Finalise, Authorize, Store, Orphan, Reserve, FindReservation,
           Reconcile, Callback, RequestCancel, FindCancelled, Crash,
           ClaimForSubmission, SweepStalled, Land, Progress, ChangeAccess,
           GrowOld, Stall, ExpireLease
  <2>2. CASE ClaimForSettlement(v)
    BY <2>2 DEF ClaimForSettlement, LeaseFree, lease
  <2>3. CASE Release(v)
    BY <1>1, <2>3
       DEF Release, ReleaseLease, MayRelease, Goto, lease, TypeOK, Holding
  <2>4. CASE InsertAsset(v)
    BY <2>4 DEF InsertAsset, Insertable, lease
  <2>5. CASE InsertFails(v)
    BY <1>1, <2>5
       DEF InsertFails, ReleaseLease, MayRelease, Goto, lease, TypeOK, Holding
  <2> QED
    BY <2>1, <2>2, <2>3, <2>4, <2>5
<1>2. TypeOK /\ [Next]_vars => [\A w \in Workers : A(w)]_vars
  BY <1>1
<1> QED
  BY TypeCorrect, <1>2, PTL DEF Spec, HolderKeepsLease

\* No late answer reopens a closed job or hides a delivered image.
THEOREM ClosedStaysClosedHolds == Spec => ClosedStaysClosed
<1> DEFINE Kept == /\ status \in Closed => status' \in Closed
                   /\ asset => status' \in {"SUCCEEDED", "ORPHANED"}
<1>1. ASSUME TypeOK, Inv, [Next]_vars PROVE Kept
  <2> USE <1>1 DEF Inv, SenderInv, RequestInv, ReaderInv, Sending, Answers,
                   Live, Closed
  <2>1. CASE UNCHANGED status
    BY <2>1
  <2>2. ASSUME NEW w \in Workers, Reserve(w) \/ ClaimForSubmission(w)
        PROVE  Kept
    BY <2>2 DEF Reserve, ClaimForSubmission, Unsent
  <2>3. ASSUME NEW w \in Workers, Unsendable(w) \/ RecordAnswer(w)
        PROVE  Kept
    BY <2>3 DEF Unsendable, RecordAnswer
  <2>4. ASSUME NEW w \in Workers, Abandon(w) \/ DenyReservation(w)
        PROVE  Kept
    BY <2>4 DEF Abandon, DenyReservation, UpdateMany, Unsent
  <2>5. ASSUME NEW w \in Workers, MarkQueued(w) \/ MarkRunning(w)
        PROVE  Kept
    BY <2>5 DEF MarkQueued, MarkRunning, UpdateMany, Reopenable, Runnable
  <2>6. ASSUME NEW w \in Workers,
               MarkGone(w) \/ FailImageJob(w) \/ NoteUnreachable(w)
               \/ Finalise(w)
        PROVE  Kept
    BY <2>6 DEF MarkGone, FailImageJob, NoteUnreachable, Finalise, UpdateMany
  <2>7. ASSUME NEW w \in Workers, Orphan(w) \/ InsertAsset(w) PROVE Kept
    BY <2>7 DEF Orphan, InsertAsset, UpdateMany
  <2>8. CASE SweepStalled
    BY <2>8 DEF SweepStalled
  <2>9. ASSUME NEW w \in Workers,
               Submit(w) \/ CheckRecovery(w) \/ AskStatus(w) \/ FetchResult(w)
               \/ MarkCancelRequested(w) \/ ClaimForSettlement(w)
               \/ Authorize(w) \/ Store(w) \/ Release(w) \/ FindReservation(w)
               \/ Reconcile(w) \/ Callback(w) \/ RequestCancel(w)
               \/ FindCancelled(w) \/ InsertFails(w) \/ Crash(w)
        PROVE  Kept
    BY <2>1, <2>9
       DEF Submit, CheckRecovery, AskStatus, FetchResult, MarkCancelRequested,
           ClaimForSettlement, Authorize, Store, Release, FindReservation,
           Reconcile, Callback, RequestCancel, FindCancelled, InsertFails,
           Crash
  <2>10. CASE Land \/ Progress \/ ChangeAccess \/ GrowOld \/ Stall
              \/ ExpireLease \/ UNCHANGED vars
    BY <2>1, <2>10
       DEF Land, Progress, ChangeAccess, GrowOld, Stall, ExpireLease, vars
  <2> QED
    BY <2>2, <2>3, <2>4, <2>5, <2>6, <2>7, <2>8, <2>9, <2>10
       DEF Next, Step, Begin, Elsewhere
<1>2. TypeOK /\ Inv /\ [Next]_vars => [Kept]_vars
  BY <1>1
<1> QED
  BY InvHolds, <1>2, PTL DEF Spec, ClosedStaysClosed
-----------------------------------------------------------------------------
(* What the finding on refused requesters takes.                           *)

\* While no settlement outlives its lease, whoever is settling holds it, and
\* nobody else stores the image.
SettlerInv ==
  \A w \in Workers : stage[w] \in Holding => owner = w /\ ~expired /\ ~asset

\* Access that may change once is not regained.
AccessInv == ~permitted => turns > 0

\* Then, once somebody has been refused, nobody stores the image any more.
Refusing == {"denied", "orphaning"}
RefusedInv ==
  /\ \A w \in Workers : stage[w] = "denying" => ~permitted
  /\ (\E w \in Workers : stage[w] \in Refusing) \/ status = "ORPHANED" =>
       /\ ~permitted /\ ~asset /\ net = 0
       /\ \A w \in Workers : stage[w] \notin {"storing", "inserting"}

LEMMA SettlerInductive ==
  ASSUME TypeOK, SettlerInv, [Next]_vars, ~Overrun
  PROVE  SettlerInv'
<1> USE DEF TypeOK, RowTypeOK, Holding, Answers, Goto, lease, delivery,
  SettlerInv
<1>1. ASSUME NEW w \in Workers, Step(w) PROVE SettlerInv'
  <2>1. CASE ClaimForSettlement(w)
    BY <2>1 DEF ClaimForSettlement, LeaseFree
  <2>2. CASE Release(w)
    BY <2>2 DEF Release, ReleaseLease, MayRelease
  <2>3. CASE InsertAsset(w)
    BY <2>3 DEF InsertAsset, Insertable
  <2>4. CASE Authorize(w) \/ Store(w)
    BY <2>4 DEF Authorize, Store
  <2>5. CASE AskStatus(w) \/ FetchResult(w)
    BY <2>5 DEF AskStatus, FetchResult, AfterStatus, AfterResult
  <2>6. CASE ClaimForSubmission(w) \/ Unsendable(w) \/ Submit(w)
             \/ RecordAnswer(w) \/ CheckRecovery(w) \/ MarkCancelRequested(w)
    BY <2>6 DEF ClaimForSubmission, Unsendable, Submit, RecordAnswer,
      CheckRecovery, MarkCancelRequested
  <2>7. CASE Abandon(w) \/ DenyReservation(w) \/ MarkQueued(w)
             \/ MarkRunning(w) \/ MarkGone(w) \/ FailImageJob(w)
             \/ NoteUnreachable(w) \/ Finalise(w) \/ Orphan(w)
    BY <2>7 DEF Abandon, DenyReservation, MarkQueued, MarkRunning, MarkGone,
      FailImageJob, NoteUnreachable, Finalise, Orphan, UpdateMany
  <2> QED
    BY <1>1, <2>1, <2>2, <2>3, <2>4, <2>5, <2>6, <2>7 DEF Step
<1>2. ASSUME NEW w \in Workers, Begin(w) PROVE SettlerInv'
  BY <1>2 DEF Begin, Reserve, FindReservation, Reconcile, Callback,
    RequestCancel, FindCancelled
<1>3. ASSUME NEW w \in Workers, InsertFails(w) \/ Crash(w)
      PROVE  SettlerInv'
  BY <1>3 DEF InsertFails, Crash, ReleaseLease, MayRelease
<1>4. CASE Elsewhere
  BY <1>4 DEF Elsewhere, SweepStalled, Land, Progress, ChangeAccess, GrowOld,
    Stall, ExpireLease
<1>5. CASE UNCHANGED vars
  BY <1>5 DEF vars
<1> QED
  BY <1>1, <1>2, <1>3, <1>4, <1>5 DEF Next

LEMMA AccessInductive ==
  ASSUME TypeOK, AccessInv, [Next]_vars, MaxTurns <= 1
  PROVE  AccessInv' /\ (~permitted => ~permitted')
<1>1. CASE ChangeAccess
  <2>1. turns \in Nat /\ turns < 1 /\ turns' = turns + 1
    BY <1>1 DEF ChangeAccess, TypeOK
  <2>2. turns' > 0 /\ ~(turns > 0)
    BY <2>1
  <2> QED BY <2>2, Zenon DEF AccessInv
<1>2. CASE UNCHANGED world
  BY <1>2 DEF world, AccessInv
<1>3. ChangeAccess \/ UNCHANGED world
  BY DEF Next, Step, Begin, Elsewhere, vars, world, UpdateMany, Goto,
     Unsendable, Submit, RecordAnswer, Abandon, CheckRecovery,
     DenyReservation, AskStatus, FetchResult, MarkQueued, MarkRunning,
     MarkGone, FailImageJob, NoteUnreachable, MarkCancelRequested,
     Finalise, Authorize, Store, Orphan, Reserve, FindReservation,
     Reconcile, Callback, RequestCancel, FindCancelled, Crash, Release,
     InsertAsset, InsertFails, ClaimForSettlement, ClaimForSubmission,
     SweepStalled, Land, Progress, GrowOld, Stall, ExpireLease
<1> QED
  BY <1>1, <1>2, <1>3

LEMMA RefusedInductive ==
  ASSUME TypeOK, Inv, SettlerInv, RefusedInv, [Next]_vars,
         ~permitted => ~permitted'
  PROVE  RefusedInv'
<1> USE DEF TypeOK, RowTypeOK, Statuses, Live, Closed, Answers, Holding,
  Goto, lease, submission, delivery, world, Refusing, RefusedInv
\* A row that has not been sent has nobody who settles it.
<1>0. ASSUME Unsent
      PROVE  /\ ~asset /\ net = 0
             /\ \A w \in Workers : stage[w] \notin {"storing", "inserting"}
  BY <1>0 DEF Unsent, Inv, RequestInv, ReaderInv, ChargedOnce, Reading
<1>1. ASSUME NEW w \in Workers, Step(w) PROVE RefusedInv'
  <2>1. CASE DenyReservation(w)
    BY <1>0, <2>1 DEF DenyReservation, UpdateMany
  <2>2. CASE Authorize(w)
    BY <2>2 DEF Authorize, SettlerInv, Inv, ReaderInv, ChargedOnce, Reading
  <2>3. CASE Store(w)
    BY <2>3 DEF Store
  <2>4. CASE Release(w)
    BY <2>4 DEF Release
  <2>5. CASE Orphan(w)
    BY <2>5 DEF Orphan, UpdateMany
  <2>6. CASE InsertAsset(w)
    BY <2>6 DEF InsertAsset, Insertable
  <2>7. CASE ClaimForSettlement(w)
    BY <2>7 DEF ClaimForSettlement
  <2>8. CASE AskStatus(w) \/ FetchResult(w)
    BY <2>8 DEF AskStatus, FetchResult, AfterStatus, AfterResult
  <2>9. CASE CheckRecovery(w)
    BY <2>9 DEF CheckRecovery
  <2>10. CASE ClaimForSubmission(w) \/ Unsendable(w) \/ Submit(w)
              \/ MarkCancelRequested(w)
    BY <2>10 DEF ClaimForSubmission, Unsendable, Submit, MarkCancelRequested
  <2>11. CASE RecordAnswer(w)
    BY <2>11, StatusForIs DEF RecordAnswer
  <2>12. CASE Abandon(w) \/ MarkQueued(w) \/ MarkRunning(w) \/ MarkGone(w)
              \/ FailImageJob(w) \/ NoteUnreachable(w) \/ Finalise(w)
    BY <2>12 DEF Abandon, MarkQueued, MarkRunning, MarkGone, FailImageJob,
      NoteUnreachable, Finalise, UpdateMany
  <2> QED
    BY <1>1, <2>1, <2>2, <2>3, <2>4, <2>5, <2>6, <2>7, <2>8, <2>9, <2>10,
       <2>11, <2>12 DEF Step
<1>2. ASSUME NEW w \in Workers, Begin(w) PROVE RefusedInv'
  BY <1>2 DEF Begin, Reserve, FindReservation, Reconcile, Callback,
    RequestCancel, FindCancelled
<1>3. ASSUME NEW w \in Workers, InsertFails(w) \/ Crash(w)
      PROVE  RefusedInv'
  BY <1>3 DEF InsertFails, Crash
<1>4. CASE ChangeAccess
  BY <1>4 DEF ChangeAccess
<1>5. CASE Elsewhere /\ UNCHANGED world
  BY <1>5 DEF Elsewhere, SweepStalled, Land, Progress, ChangeAccess, GrowOld,
    Stall, ExpireLease, SweptTo
<1>6. CASE UNCHANGED vars
  BY <1>6 DEF vars
<1>7. Elsewhere => ChangeAccess \/ UNCHANGED world
  BY DEF Elsewhere, SweepStalled, Land, Progress, GrowOld, Stall, ExpireLease
<1> QED
  BY <1>1, <1>2, <1>3, <1>4, <1>5, <1>6, <1>7 DEF Next

\* A refused requester keeps nothing, as the code's comment has it, unless the
\* requester is let back in, or a settlement outlives its lease: finding
\* image_orphan needs one of the two, whatever crashes.
THEOREM OrphanedKeepsNothingHolds ==
  ASSUME ~Overrun, MaxTurns <= 1
  PROVE  Spec => []OrphanedKeepsNothing
<1>1. Init => SettlerInv /\ AccessInv /\ RefusedInv
  BY DEF Init, SettlerInv, AccessInv, RefusedInv, Refusing, Holding
<1>2. TypeOK /\ Inv /\ SettlerInv /\ AccessInv /\ RefusedInv /\ [Next]_vars =>
        (SettlerInv /\ AccessInv /\ RefusedInv)'
  BY SettlerInductive, AccessInductive, RefusedInductive
<1>3. RefusedInv => OrphanedKeepsNothing
  BY DEF RefusedInv, OrphanedKeepsNothing
<1> QED
  BY <1>1, <1>2, <1>3, InvHolds, PTL DEF Spec
=============================================================================
