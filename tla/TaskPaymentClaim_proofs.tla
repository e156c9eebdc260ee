----------------------- MODULE TaskPaymentClaim_proofs -----------------------
(***************************************************************************)
(* Proofs about TaskPaymentClaim, for any sets of claims and workers, any  *)
(* review threshold and any number of faults.                              *)
(***************************************************************************)
EXTENDS TaskPaymentClaim, TLAPS

USE WorkerAssumption, ClaimAssumption, ReviewAssumption, FaultAssumption

\* Counting an attempt stays within the threshold.
LEMMA NextAttemptType == \A n \in Attempts : NextAttempt(n) \in Attempts
  BY DEF Attempts, NextAttempt

\* A worker that goes on to another stage, or is done, is still a worker.
LEMMA GotoType ==
  ASSUME WorkTypeOK, NEW w \in Workers, stage[w] # "idle",
         NEW next \in Stages, Goto(w, next), UNCHANGED absent
  PROVE  WorkTypeOK'
BY DEF WorkTypeOK, Goto

LEMMA FinishType ==
  ASSUME WorkTypeOK, NEW w \in Workers, Finish(w)
  PROVE  WorkTypeOK'
BY DEF WorkTypeOK, Finish, NoJob, Jobs, Kinds, Attempts, Stages

LEMMA ThrowType ==
  ASSUME WorkTypeOK, NEW w \in Workers, stage[w] # "idle", Throw(w)
  PROVE  WorkTypeOK'
BY GotoType DEF Throw, Stages

\* Giving up a lease leaves the lease columns well typed.
LEMMA ClearLeaseType ==
  ASSUME RowTypeOK, NEW c \in Claims, ClearLease(c)
  PROVE  /\ token' \in [Claims -> Workers \cup {NoWorker}]
         /\ expired' \subseteq Claims
BY DEF RowTypeOK, ClearLease

\* Every operation of the outbox keeps the type of its row and its worker.
THEOREM TypeCorrect == Spec => []TypeOK
<1>1. Init => TypeOK
  BY DEF Init, TypeOK, NodeTypeOK, RowTypeOK, WorkTypeOK, HistoryTypeOK,
         NodeInit, Attempts, NoJob, Jobs, Stages,
         Kinds
<1>2. TypeOK /\ [Next]_vars => TypeOK'
  <2> SUFFICES ASSUME TypeOK, [Next]_vars PROVE TypeOK'
    OBVIOUS
  <2> USE DEF TypeOK, NodeTypeOK, RowTypeOK, HistoryTypeOK, money, lease,
              schedule, work, history, bounds, nodeVars
  <2>1. ASSUME NEW c \in Claims, CreateClaim(c) PROVE TypeOK'
    BY <2>1 DEF CreateClaim, WorkTypeOK
  <2>2. ASSUME NEW c \in Claims, BecomeDue(c) PROVE TypeOK'
    BY <2>2 DEF BecomeDue, WorkTypeOK
  <2>3. ASSUME NEW c \in Claims, ExpireLease(c) PROVE TypeOK'
    BY <2>3 DEF ExpireLease, WorkTypeOK
  <2>4. ASSUME NEW w \in Workers, LookupFirst(w) PROVE TypeOK'
    BY <2>4 DEF LookupFirst, Goto, Stages, Remote, Buying, WorkTypeOK
  <2>5. ASSUME NEW w \in Workers, CreatePurchase(w) PROVE TypeOK'
    BY <2>5 DEF CreatePurchase, Post, Goto, WorkTypeOK
  <2>6. ASSUME NEW w \in Workers, NEW from \in Remote, NEW verdicts,
               LookupAfter(w, from, verdicts),
               UNCHANGED hurried \/ NoteHurry(job[w].claim)
        PROVE  TypeOK'
    <3>1. WorkTypeOK' /\ job[w].claim \in Claims
      BY <2>6 DEF LookupAfter, Goto, Remote, Buying, WorkTypeOK
    <3> QED
      BY <2>6, <3>1 DEF LookupAfter, NoteHurry
  <2>7. ASSUME NEW w \in Workers, stage[w] # "idle"
        PROVE  job[w].claim \in Claims
    BY <2>7 DEF WorkTypeOK, Jobs
  <2>8. ASSUME NEW w \in Workers, MarkPurchased(w) PROVE TypeOK'
    <3>1. stage[w] # "idle"
      BY <2>8 DEF MarkPurchased
    <3>2. WorkTypeOK'
      BY <2>8, <3>1, FinishType, ThrowType DEF MarkPurchased
    <3> QED
      BY <2>7, <2>8, <3>1, <3>2, ClearLeaseType DEF MarkPurchased
  <2>9. ASSUME NEW w \in Workers, Refund(w) PROVE TypeOK'
    <3>1. stage[w] # "idle"
      BY <2>9 DEF Refund
    <3>2. WorkTypeOK'
      BY <2>9, <3>1, FinishType, ThrowType DEF Refund
    <3> QED
      BY <2>7, <2>9, <3>1, <3>2, ClearLeaseType DEF Refund
  <2>10. ASSUME NEW w \in Workers, ScheduleRetry(w) PROVE TypeOK'
    <3>1. stage[w] # "idle"
      BY <2>10 DEF ScheduleRetry
    <3>2. WorkTypeOK'
      BY <2>10, <3>1, FinishType, ThrowType DEF ScheduleRetry
    <3> QED
      BY <2>7, <2>10, <3>1, <3>2, ClearLeaseType DEF ScheduleRetry
  <2>11. ASSUME NEW w \in Workers, Escalate(w) PROVE TypeOK'
    BY <2>7, <2>11, FinishType, ClearLeaseType DEF Escalate
  <2>12. ASSUME NEW w \in Workers, OperatorError(w) PROVE TypeOK'
    BY <2>12, FinishType DEF OperatorError
  <2>13. ASSUME NEW w \in Workers, RecordAction(w) PROVE TypeOK'
    <3>1. stage[w] # "idle"
      BY <2>13 DEF RecordAction
    <3>2. WorkTypeOK'
      BY <2>13, <3>1, FinishType, GotoType
         DEF RecordAction, Stages, Remote, Writing
    <3> QED
      BY <2>7, <2>13, <3>1, <3>2 DEF RecordAction
  <2>15. ASSUME NEW w \in Workers, WriteFails(w) PROVE TypeOK'
    BY <2>15, ThrowType DEF WriteFails, Writing
  <2>16. ASSUME NEW w \in Workers, Crash(w) PROVE TypeOK'
    BY <2>16, FinishType DEF Crash
  <2>17. ASSUME NEW w \in Workers, NEW c \in Claims, NEW kind \in Kinds,
                NEW first \in Stages, Acquire(w, c, kind, first)
         PROVE  TypeOK'
    BY <2>17, NextAttemptType DEF Acquire, Jobs, WorkTypeOK
  <2>18. ASSUME NEW w \in Workers, NEW c \in Claims, RetryReviewed(w, c)
         PROVE  TypeOK'
    BY <2>18 DEF RetryReviewed, ClearLease, NoteHurry, WorkTypeOK, Jobs,
      Stages, Kinds, Actions, Attempts, RetriedAttemptCount
  <2>20. ASSUME NEW c \in Claims, Node(c) PROVE TypeOK'
    BY <2>20 DEF Node, SettleInflight, StopAccepting, WorkTypeOK
  <2>21. CASE UNCHANGED vars
    BY <2>21 DEF vars, WorkTypeOK
  <2>22. ASSUME NEW w \in Workers, NEW c \in Claims, Process(w, c)
         PROVE  TypeOK'
    BY <2>22, <2>17 DEF Process, FirstStage, Stages, Remote, Buying, Writing,
                        Kinds
  <2>23. ASSUME NEW w \in Workers, NEW c \in Claims,
                NEW kind \in {"refund", "resolve"}, OperatorLease(w, c, kind)
         PROVE  TypeOK'
    BY <2>23, <2>17 DEF OperatorLease, OperatorStage, Stages, Kinds, Actions
  <2> QED
    BY <2>1, <2>2, <2>3, <2>4, <2>5, <2>6, <2>8, <2>9, <2>10, <2>11,
       <2>12, <2>13, <2>15, <2>16, <2>18, <2>20, <2>21, <2>22, <2>23
       DEF Next, Step, ResolveConflict, Reconcile, OperatorLookup, Remote,
           Buying
<1> QED
  BY <1>1, <1>2, PTL DEF Spec

-----------------------------------------------------------------------------
\* The books of a claim and its purchase, for prompt and for late calls.
LEMMA BooksInit == Init => Books
BY DEF Init, NodeInit, Books, NetCharge, PurchasedIsLive, SeenLive, NoJob

LEMMA BooksStep == TypeOK /\ Books /\ [Next]_vars => Books'
<1> SUFFICES ASSUME TypeOK, Books, [Next]_vars PROVE Books'
  OBVIOUS
<1> USE DEF TypeOK, NodeTypeOK, RowTypeOK, WorkTypeOK, Books, NetCharge,
            PurchasedIsLive, SeenLive, money, lease, schedule, work, history,
            bounds, nodeVars
<1>1. ASSUME NEW c \in Claims, CreateClaim(c) PROVE Books'
  BY <1>1 DEF CreateClaim
<1>2. ASSUME NEW c \in Claims, BecomeDue(c) \/ ExpireLease(c) PROVE Books'
  BY <1>2 DEF BecomeDue, ExpireLease
<1>3. ASSUME NEW w \in Workers, LookupFirst(w) PROVE Books'
  BY <1>3 DEF LookupFirst, Lookup, AfterLookup, Goto
<1>4. ASSUME NEW w \in Workers, CreatePurchase(w) PROVE Books'
  BY <1>4 DEF CreatePurchase, Post, AfterPost, Creates, Goto
<1>5. ASSUME NEW w \in Workers, NEW from \in Remote,
             NEW verdicts \in {AfterConflict, AfterReconcile,
                                AfterOperatorLookup},
             LookupAfter(w, from, verdicts)
      PROVE  Books'
  BY <1>5 DEF LookupAfter, Lookup, AfterConflict, AfterReconcile,
              AfterOperatorLookup, Goto
<1>6. ASSUME NEW w \in Workers, MarkPurchased(w) PROVE Books'
  BY <1>6 DEF MarkPurchased, Owns, Finish, Throw, Goto
<1>7. ASSUME NEW w \in Workers, Refund(w) PROVE Books'
  <2>1. CASE Owns(w)
    BY <1>7, <2>1 DEF Refund, Owns, Finish
  <2>2. CASE ~Owns(w)
    BY <1>7, <2>2 DEF Refund, Finish, Throw, Goto
  <2> QED
    BY <2>1, <2>2
<1>8. ASSUME NEW w \in Workers, ScheduleRetry(w) PROVE Books'
  BY <1>8 DEF ScheduleRetry, Finish, Throw, Goto
<1>9. ASSUME NEW w \in Workers,
             Escalate(w) \/ OperatorError(w) \/ Crash(w) \/ WriteFails(w)
      PROVE  Books'
  BY <1>9 DEF Escalate, OperatorError, Crash, WriteFails, Finish, Throw, Goto
<1>10. ASSUME NEW w \in Workers, RecordAction(w) PROVE Books'
  BY <1>10 DEF RecordAction, Finish, Goto
<1>11. ASSUME NEW w \in Workers, NEW c \in Claims, NEW kind,
              NEW first \in {"lookup", "post", "reschedule", "audit"},
              Acquire(w, c, kind, first)
       PROVE  Books'
  BY <1>11 DEF Acquire
<1>12. ASSUME NEW w \in Workers, NEW c \in Claims, RetryReviewed(w, c)
       PROVE  Books'
  BY <1>12 DEF RetryReviewed
<1>13. ASSUME NEW c \in Claims, Node(c) PROVE Books'
  BY <1>13 DEF Node, SettleInflight, StopAccepting, Creates
<1>14. CASE UNCHANGED vars
  BY <1>14 DEF vars
<1>15. ASSUME NEW w \in Workers, NEW c \in Claims,
              \/ Process(w, c)
              \/ \E kind \in {"refund", "resolve"} : OperatorLease(w, c, kind)
       PROVE  Books'
  BY <1>15, <1>11 DEF Process, FirstStage, OperatorLease, OperatorStage
<1>16. ASSUME NEW w \in Workers, Step(w) PROVE Books'
  BY <1>16, <1>3, <1>4, <1>5, <1>6, <1>7, <1>8, <1>9, <1>10
     DEF Step, ResolveConflict, Reconcile, OperatorLookup, Remote, Buying
<1> QED
  BY <1>1, <1>2, <1>9, <1>12, <1>13, <1>14, <1>15, <1>16 DEF Next

LEMMA BooksAlways == Spec => []Books
BY BooksInit, BooksStep, TypeCorrect, PTL DEF Spec

\* Every claim nets exactly its one debit, or nothing once refunded.
THEOREM NetChargeHolds == Spec => []NetCharge
BY BooksAlways, PTL DEF Books

\* A purchase on the books is the claim's own purchase at the node.
THEOREM PurchasedIsLiveHolds == Spec => []PurchasedIsLive
BY BooksAlways, PTL DEF Books

\* No step of any worker, operator, clock or node moves a settled claim.
THEOREM SettledIsFinalHolds == Spec => SettledIsFinal
<1> DEFINE Final == \A c \in Claims :
      status[c] \in {"PURCHASED", "REFUNDED"} =>
        status'[c] = status[c] /\ net'[c] = net[c]
<1>1. TypeOK /\ [Next]_vars => [Final]_vars
  <2> SUFFICES ASSUME TypeOK, Next PROVE Final
    OBVIOUS
  <2> USE DEF TypeOK, RowTypeOK, WorkTypeOK, money
  <2>1. ASSUME NEW c \in Claims, CreateClaim(c) PROVE Final
    BY <2>1 DEF CreateClaim
  <2>2. ASSUME NEW w \in Workers, MarkPurchased(w) \/ Refund(w) PROVE Final
    BY <2>2 DEF MarkPurchased, Refund, Owns
  <2>3. ASSUME UNCHANGED money PROVE Final
    BY <2>3
  <2>4. CASE \E c \in Claims : BecomeDue(c) \/ ExpireLease(c) \/ Node(c)
    BY <2>3, <2>4 DEF BecomeDue, ExpireLease, Node
  <2>5. ASSUME NEW w \in Workers, Step(w) PROVE Final
    BY <2>2, <2>3, <2>5
       DEF Step, LookupFirst, CreatePurchase, ResolveConflict, Reconcile,
           OperatorLookup, LookupAfter, ScheduleRetry, Escalate,
           OperatorError, RecordAction
  <2>6. CASE \E w \in Workers : WriteFails(w) \/ Crash(w)
    BY <2>3, <2>6 DEF WriteFails, Crash
  <2>7. CASE \E w \in Workers, c \in Claims :
               \/ Process(w, c)
               \/ RetryReviewed(w, c)
               \/ \E kind \in {"refund", "resolve"} : OperatorLease(w, c, kind)
    BY <2>3, <2>7 DEF Process, RetryReviewed, OperatorLease, Acquire
  <2> QED
    BY <2>1, <2>4, <2>5, <2>6, <2>7 DEF Next
<1> QED
  BY <1>1, TypeCorrect, PTL DEF Spec, SettledIsFinal

-----------------------------------------------------------------------------
\* The outbox implements the plain charge: a step of the row is a step of the
\* charge, and every other step leaves both unchanged.

LEMMA OutcomeIs ==
  /\ Outcome("absent") = "none" /\ Outcome("PENDING") = "held"
  /\ Outcome("PURCHASED") = "settled" /\ Outcome("REFUNDED") = "returned"
BY DEF Outcome

LEMMA MovesOutcome ==
  ASSUME RowTypeOK, NEW c \in Claims, NEW s,
         status' = [status EXCEPT ![c] = s]
  PROVE  [d \in Claims |-> Outcome(status[d])]' =
           [[d \in Claims |-> Outcome(status[d])] EXCEPT ![c] = Outcome(s)]
BY DEF RowTypeOK

LEMMA ChargeStep == TypeOK /\ [Next]_vars => [Charges!Next]_(Charges!vars)
<1> SUFFICES ASSUME TypeOK, [Next]_vars
             PROVE  Charges!Next \/ UNCHANGED Charges!vars
  OBVIOUS
<1> USE DEF TypeOK, money
<1>1. ASSUME NEW c \in Claims, CreateClaim(c) PROVE Charges!Charge(c)
  BY <1>1, MovesOutcome, OutcomeIs DEF CreateClaim, Charges!Charge
<1>2. ASSUME UNCHANGED money PROVE UNCHANGED Charges!vars
  BY <1>2 DEF Charges!vars
<1>3. ASSUME NEW w \in Workers, MarkPurchased(w)
      PROVE  Charges!Next \/ UNCHANGED Charges!vars
  <2> DEFINE c == job[w].claim
  <2>1. CASE Owns(w)
    <3>1. c \in Claims /\ status[c] = "PENDING"
      BY <1>3, <2>1 DEF MarkPurchased, Owns, WorkTypeOK
    <3>2. Charges!Settle(c)
      BY <1>3, <2>1, <3>1, MovesOutcome, OutcomeIs
         DEF MarkPurchased, Charges!Settle
    <3> QED
      BY <3>1, <3>2 DEF Charges!Next
  <2>2. CASE ~Owns(w)
    BY <1>2, <1>3, <2>2 DEF MarkPurchased
  <2> QED
    BY <2>1, <2>2
<1>4. ASSUME NEW w \in Workers, Refund(w)
      PROVE  Charges!Next \/ UNCHANGED Charges!vars
  <2> DEFINE c == job[w].claim
  <2>1. CASE Owns(w)
    <3>1. c \in Claims /\ status[c] = "PENDING"
      BY <1>4, <2>1 DEF Refund, Owns, WorkTypeOK
    <3>2. Charges!GiveBack(c)
      BY <1>4, <2>1, <3>1, MovesOutcome, OutcomeIs
         DEF Refund, Charges!GiveBack
    <3> QED
      BY <3>1, <3>2 DEF Charges!Next
  <2>2. CASE ~Owns(w)
    BY <1>2, <1>4, <2>2 DEF Refund
  <2> QED
    BY <2>1, <2>2
<1>5. CASE \E c \in Claims : BecomeDue(c) \/ ExpireLease(c) \/ Node(c)
  BY <1>2, <1>5 DEF BecomeDue, ExpireLease, Node
<1>6. ASSUME NEW w \in Workers, Step(w)
      PROVE  Charges!Next \/ UNCHANGED Charges!vars
  BY <1>2, <1>3, <1>4, <1>6
     DEF Step, LookupFirst, CreatePurchase, ResolveConflict, Reconcile,
         OperatorLookup, LookupAfter, ScheduleRetry, Escalate,
         OperatorError, RecordAction
<1>7. CASE \E w \in Workers : WriteFails(w) \/ Crash(w)
  BY <1>2, <1>7 DEF WriteFails, Crash
<1>8. CASE \E w \in Workers, c \in Claims :
             \/ Process(w, c)
             \/ RetryReviewed(w, c)
             \/ \E kind \in {"refund", "resolve"} : OperatorLease(w, c, kind)
  BY <1>2, <1>8 DEF Process, RetryReviewed, OperatorLease, Acquire
<1>9. CASE UNCHANGED vars
  BY <1>2, <1>9 DEF vars
<1> QED
  BY <1>1, <1>5, <1>6, <1>7, <1>8, <1>9 DEF Next, Charges!Next

\* Workers, leases, retries and operators together are the plain charge.
THEOREM ImplementsChargeHolds == Spec => ImplementsCharge
<1>1. Init => Charges!Init
  BY OutcomeIs DEF Init, Charges!Init
<1> QED
  BY <1>1, ChargeStep, TypeCorrect, PTL
     DEF Spec, ImplementsCharge, Charges!Spec

-----------------------------------------------------------------------------
(***************************************************************************)
(* When no remote call outlives the lease or the backoff it belongs to.    *)
(***************************************************************************)

LEMMA PromptInit == Init => PromptInv
BY DEF Init, NodeInit, NoJob, PromptInv, BuyerHolds, Buying, UnheardOf,
       UnchargedUnleased, InflightHeld, HasLooked, HolderKnows, RefundedDead

LEMMA PromptStep ==
  ASSUME ~lateCalls
  PROVE  TypeOK /\ PromptInv /\ [Next]_vars => PromptInv'
<1> SUFFICES ASSUME TypeOK, PromptInv, [Next]_vars PROVE PromptInv'
  OBVIOUS
<1> USE DEF TypeOK, NodeTypeOK, RowTypeOK, WorkTypeOK, PromptInv, money, lease,
            schedule, work, history, bounds, nodeVars
<1> USE DEF BuyerHolds, UnheardOf, UnchargedUnleased, InflightHeld,
  HasLooked, HolderKnows, RefundedDead, Buying, Owns, Dead
<1>1. ASSUME NEW c \in Claims, CreateClaim(c) PROVE PromptInv'
  BY <1>1 DEF CreateClaim
<1>2. ASSUME NEW c \in Claims, BecomeDue(c) PROVE PromptInv'
  BY <1>2 DEF BecomeDue, Settled
<1>3. ASSUME NEW c \in Claims, ExpireLease(c) PROVE PromptInv'
  BY <1>3 DEF ExpireLease, Settled, HolderAtWork, Remote
<1>4. ASSUME NEW w \in Workers, LookupFirst(w) PROVE PromptInv'
  BY <1>4 DEF LookupFirst, Lookup, AfterLookup, Goto
<1>5. ASSUME NEW w \in Workers, CreatePurchase(w) PROVE PromptInv'
  BY <1>5 DEF CreatePurchase, Post, AfterPost, Creates, Goto
<1>6. ASSUME NEW w \in Workers, ResolveConflict(w) PROVE PromptInv'
  BY <1>6 DEF ResolveConflict, LookupAfter, Lookup, AfterConflict, Goto
<1>7. ASSUME NEW w \in Workers, Reconcile(w) PROVE PromptInv'
  BY <1>7 DEF Reconcile, LookupAfter, Lookup, AfterReconcile, Goto
<1>8. ASSUME NEW w \in Workers, OperatorLookup(w) PROVE PromptInv'
  BY <1>8 DEF OperatorLookup, LookupAfter, Lookup, AfterOperatorLookup, Goto,
              NoteHurry
<1>9. ASSUME NEW w \in Workers, MarkPurchased(w) PROVE PromptInv'
  BY <1>9 DEF MarkPurchased, ClearLease, Finish, NoJob, Throw, Goto
<1>10. ASSUME NEW w \in Workers, Refund(w) PROVE PromptInv'
  BY <1>10 DEF Refund, ClearLease, Finish, NoJob, Throw, Goto
<1>11. ASSUME NEW w \in Workers, ScheduleRetry(w) PROVE PromptInv'
  BY <1>11 DEF ScheduleRetry, ClearLease, Finish, NoJob, Throw, Goto
<1>12. ASSUME NEW w \in Workers, Escalate(w) PROVE PromptInv'
  BY <1>12 DEF Escalate, Fence, ClearLease, Finish, NoJob
<1>13. ASSUME NEW w \in Workers, OperatorError(w) \/ Crash(w) PROVE PromptInv'
  BY <1>13 DEF OperatorError, Crash, Finish, NoJob
<1>14. ASSUME NEW w \in Workers, WriteFails(w) PROVE PromptInv'
  BY <1>14 DEF WriteFails, Throw, Goto
<1>15. ASSUME NEW w \in Workers, RecordAction(w) PROVE PromptInv'
  BY <1>15 DEF RecordAction, Finish, NoJob, Goto
\* A fresh lease: the old holder, if any, is no buyer and owns no more.
<1>16. ASSUME NEW w \in Workers, NEW c \in Claims, NEW kind \in Kinds,
              NEW first \in {"lookup", "post", "reschedule", "audit"},
              Acquire(w, c, kind, first),
              first \in {"lookup", "post"} => c \notin inflight \ hurried,
              first = "post" => attemptCount[c] = 0
       PROVE  PromptInv'
  <2>1. /\ token' = [token EXCEPT ![c] = w]
        /\ stage' = [stage EXCEPT ![w] = first]
        /\ job'[w].claim = c
        /\ \A v \in Workers \ {w} : job'[v] = job[v] /\ stage'[v] = stage[v]
        /\ status[c] = "PENDING" /\ stage[w] = "idle"
        /\ attemptCount'[c] > 0
        /\ \A d \in Claims \ {c} : attemptCount'[d] = attemptCount[d]
    BY <1>16 DEF Acquire, NextAttempt, Attempts
  <2>2. BuyerHolds'
    BY <1>16, <2>1 DEF Acquire, LeaseFree
  <2>3. UnheardOf' /\ UnchargedUnleased' /\ RefundedDead'
    BY <1>16, <2>1 DEF Acquire
  <2>4. InflightHeld' /\ HasLooked'
    BY <1>16, <2>1 DEF Acquire
  <2>5. HolderKnows'
    BY <1>16, <2>1 DEF Acquire
  <2> QED
    BY <2>2, <2>3, <2>4, <2>5
<1>17. ASSUME NEW w \in Workers, NEW c \in Claims,
              \/ Process(w, c)
              \/ \E kind \in {"refund", "resolve"} : OperatorLease(w, c, kind)
       PROVE  PromptInv'
  <2>1. CASE Process(w, c)
    <3>1. /\ Acquire(w, c, "process", FirstStage(c))
          /\ c \notin inflight \ hurried
      BY <2>1 DEF Process, Acquire, LeaseFree
    <3>2. /\ FirstStage(c) \in {"lookup", "post", "reschedule", "audit"}
          /\ FirstStage(c) = "post" => attemptCount[c] = 0
      BY DEF FirstStage, Attempts
    <3> QED
      BY <1>16, <3>1, <3>2 DEF Kinds
  <2>2. CASE \E kind \in {"refund", "resolve"} : OperatorLease(w, c, kind)
    BY <1>16, <2>2 DEF OperatorLease, OperatorStage, Kinds, Actions
  <2> QED
    BY <1>17, <2>1, <2>2
<1>18. ASSUME NEW w \in Workers, NEW c \in Claims, RetryReviewed(w, c)
       PROVE  PromptInv'
  BY <1>18 DEF RetryReviewed, LeaseFree, NoteHurry, ClearLease,
               RetriedAttemptCount
<1>19. ASSUME NEW c \in Claims, Node(c) PROVE PromptInv'
  BY <1>19 DEF Node, SettleInflight, StopAccepting, Creates
<1>20. CASE UNCHANGED vars
  BY <1>20 DEF vars
<1> HIDE DEF PromptInv, TypeOK
<1> QED
  BY <1>1, <1>2, <1>3, <1>4, <1>5, <1>6, <1>7, <1>8, <1>9, <1>10, <1>11, <1>12,
     <1>13, <1>14, <1>15, <1>17, <1>18, <1>19, <1>20 DEF Next, Step

\* Nothing changes what is possible once a behaviour has begun.
LEMMA LatenessFixed == [Next]_vars => lateCalls' = lateCalls
<1> SUFFICES ASSUME [Next]_vars PROVE lateCalls' = lateCalls
  OBVIOUS
<1> USE DEF bounds
<1>1. CASE \E c \in Claims : CreateClaim(c) \/ BecomeDue(c) \/ Node(c)
  BY <1>1 DEF CreateClaim, BecomeDue, Node
<1>2. CASE \E c \in Claims : ExpireLease(c)
  BY <1>2 DEF ExpireLease
<1>3. CASE \E w \in Workers : Step(w)
  BY <1>3 DEF Step, LookupFirst, CreatePurchase, ResolveConflict, Reconcile,
     OperatorLookup, LookupAfter, MarkPurchased, Refund, ScheduleRetry,
     Escalate, OperatorError, RecordAction
<1>4. CASE \E w \in Workers : WriteFails(w) \/ Crash(w)
  BY <1>4 DEF WriteFails, Crash
<1>5. CASE \E w \in Workers, c \in Claims :
             \/ Process(w, c)
             \/ RetryReviewed(w, c)
             \/ \E kind \in {"refund", "resolve"} : OperatorLease(w, c, kind)
  BY <1>5 DEF Process, RetryReviewed, OperatorLease, Acquire
<1>6. CASE UNCHANGED vars
  BY <1>6 DEF vars
<1> QED
  BY <1>1, <1>2, <1>3, <1>4, <1>5, <1>6 DEF Next

LEMMA PromptAlways == Spec => [](~lateCalls => PromptInv)
<1>1. TypeOK /\ (~lateCalls => PromptInv) /\ [Next]_vars
        => (~lateCalls => PromptInv)'
  BY PromptStep, LatenessFixed
<1> QED
  BY PromptInit, <1>1, TypeCorrect, PTL DEF Spec

\* While remote calls are prompt, credits are never given back for a purchase
\* that exists or may still come into being: by no attempt of Core's own, and by
\* an operator only if he waived the lookup or did not await the abandoned POST.
THEOREM RefundNeverLiveHolds == Spec => []RefundNeverLive
<1>1. (~lateCalls => PromptInv) => RefundNeverLive
  BY DEF PromptInv, RefundedDead, RefundNeverLive, Dead, Live, Creates
<1> QED
  BY <1>1, PromptAlways, PTL

\* While remote calls are prompt, no second POST goes out unchecked.
THEOREM LookupBeforeRepostHolds == Spec => []LookupBeforeRepost
<1>1. (~lateCalls => PromptInv) => LookupBeforeRepost
  BY DEF PromptInv, HasLooked, LookupBeforeRepost
<1> QED
  BY <1>1, PromptAlways, PTL

\* While remote calls are prompt, buyers of a claim exclude one another.
THEOREM OneBuyerHolds == Spec => []OneBuyer
<1>1. (~lateCalls => PromptInv) => OneBuyer
  BY DEF PromptInv, BuyerHolds, OneBuyer, Owns
<1> QED
  BY <1>1, PromptAlways, PTL

-----------------------------------------------------------------------------
\* How retries end: the claim that an attempt lets go of with its attempts used
\* up is handed to an operator.

\* Who still owns the claim has counted the claim's last attempt.
LastAttempt ==
  \A w \in Workers :
    stage[w] # "idle" /\ Owns(w) => job[w].attempt = attemptCount[job[w].claim]

\* A pending claim with its attempts used up is under review or leased.
UsedUpIsReviewed ==
  \A c \in Claims :
    status[c] = "PENDING" /\ attemptCount[c] >= ReviewAttempts
      => c \in review \/ token[c] # NoWorker

ReviewInv == LastAttempt /\ UsedUpIsReviewed /\ UnchargedUnleased

LEMMA ReviewInit == Init => ReviewInv
BY DEF Init, ReviewInv, LastAttempt, UsedUpIsReviewed, UnchargedUnleased

\* A worker that leaves its claim alone, and the row with it.
LEMMA RowLeft ==
  ASSUME TypeOK, ReviewInv, UNCHANGED <<status, token, attemptCount>>,
         review \subseteq review',
         \A w \in Workers : stage'[w] # "idle" =>
           /\ stage[w] # "idle"
           /\ job'[w] = job[w]
  PROVE  ReviewInv'
BY DEF ReviewInv, LastAttempt, UsedUpIsReviewed, UnchargedUnleased, Owns,
       TypeOK, RowTypeOK, WorkTypeOK

LEMMA ReviewStep == TypeOK /\ ReviewInv /\ [Next]_vars => ReviewInv'
<1> SUFFICES ASSUME TypeOK, ReviewInv, [Next]_vars PROVE ReviewInv'
  OBVIOUS
<1>0. ASSUME NEW w \in Workers, stage[w] # "idle" PROVE job[w].claim \in Claims
  BY <1>0 DEF TypeOK, WorkTypeOK
<1> USE DEF TypeOK, RowTypeOK, WorkTypeOK, money, lease, schedule, work,
            history, bounds
<1> USE DEF ReviewInv, LastAttempt, UsedUpIsReviewed, UnchargedUnleased, Owns
<1>1. ASSUME NEW c \in Claims, CreateClaim(c) PROVE ReviewInv'
  <2>1. attemptCount[c] = 0 /\ ~(0 >= ReviewAttempts)
    BY <1>1 DEF CreateClaim
  <2>2. /\ UNCHANGED <<token, attemptCount, review, stage, job>>
        /\ status' = [status EXCEPT ![c] = "PENDING"]
        /\ token[c] = NoWorker
    BY <1>1 DEF CreateClaim
  <2>3. LastAttempt'
    BY <1>0, <2>2
  <2> QED
    BY <2>1, <2>2, <2>3
<1>2. ASSUME NEW c \in Claims, BecomeDue(c) \/ ExpireLease(c) \/ Node(c)
      PROVE  ReviewInv'
  BY <1>2, RowLeft DEF BecomeDue, ExpireLease, Node
<1>3. ASSUME NEW w \in Workers, stage[w] # "idle",
             \E next : Goto(w, next), UNCHANGED <<money, lease, schedule>>
      PROVE  ReviewInv'
  BY <1>3, RowLeft DEF Goto
<1>4. ASSUME NEW w \in Workers, stage[w] # "idle", Finish(w),
             UNCHANGED <<money, lease, schedule>>
      PROVE  ReviewInv'
  BY <1>4, RowLeft DEF Finish
<1>5. ASSUME NEW w \in Workers, MarkPurchased(w) PROVE ReviewInv'
  <2>1. CASE Owns(w)
    BY <1>5, <2>1 DEF MarkPurchased, ClearLease, Finish
  <2>2. CASE ~Owns(w)
    BY <1>3, <1>5, <2>2 DEF MarkPurchased, Throw
  <2> QED
    BY <2>1, <2>2
<1>6. ASSUME NEW w \in Workers, Refund(w) PROVE ReviewInv'
  <2>1. CASE Owns(w)
    BY <1>6, <2>1 DEF Refund, ClearLease, Finish
  <2>2. CASE ~Owns(w)
    BY <1>3, <1>4, <1>6, <2>2 DEF Refund, Throw
  <2> QED
    BY <2>1, <2>2
<1>7. ASSUME NEW w \in Workers, ScheduleRetry(w) PROVE ReviewInv'
  <2>1. CASE Owns(w)
    <3>1. attemptCount[job[w].claim] >= ReviewAttempts => NeedsReview(w)
      BY <1>7, <2>1 DEF ScheduleRetry, NeedsReview
    <3>2. /\ UNCHANGED <<status, attemptCount>>
          /\ token' = [token EXCEPT ![job[w].claim] = NoWorker]
          /\ review \subseteq review'
          /\ NeedsReview(w) => job[w].claim \in review'
      BY <1>7, <2>1 DEF ScheduleRetry, ClearLease
    <3>3. \A v \in Workers : stage'[v] # "idle" =>
            stage[v] # "idle" /\ job'[v] = job[v]
      BY <1>7, <2>1 DEF ScheduleRetry, Finish
    <3>4. LastAttempt'
      BY <1>0, <3>2, <3>3
    <3> QED
      BY <1>0, <1>7, <3>1, <3>2, <3>4 DEF ScheduleRetry
  <2>2. CASE ~Owns(w)
    BY <1>3, <1>7, <2>2 DEF ScheduleRetry, Throw
  <2> QED
    BY <2>1, <2>2
<1>8. ASSUME NEW w \in Workers, Escalate(w) PROVE ReviewInv'
  <2>1. CASE Fence(w)
    BY <1>8, <2>1 DEF Escalate, Fence, ClearLease, Finish
  <2>2. CASE ~Fence(w)
    BY <1>4, <1>8, <2>2 DEF Escalate
  <2> QED
    BY <2>1, <2>2
<1>9. ASSUME NEW w \in Workers, OperatorError(w) \/ Crash(w)
      PROVE  ReviewInv'
  BY <1>4, <1>9 DEF OperatorError, Crash
<1>10. ASSUME NEW w \in Workers,
              \/ LookupFirst(w) \/ CreatePurchase(w) \/ WriteFails(w)
              \/ ResolveConflict(w) \/ Reconcile(w) \/ OperatorLookup(w)
       PROVE  ReviewInv'
  BY <1>3, <1>10
     DEF LookupFirst, CreatePurchase, WriteFails, Writing, ResolveConflict,
         Reconcile, OperatorLookup, LookupAfter, Throw
<1>11. ASSUME NEW w \in Workers, RecordAction(w) PROVE ReviewInv'
  BY <1>3, <1>4, <1>11 DEF RecordAction
<1>12. ASSUME NEW w \in Workers, NEW c \in Claims, NEW kind, NEW first,
              Acquire(w, c, kind, first)
       PROVE  ReviewInv'
  <2>1. /\ attemptCount' = [attemptCount EXCEPT
                             ![c] = NextAttempt(attemptCount[c])]
        /\ token' = [token EXCEPT ![c] = w]
        /\ UNCHANGED <<status, review>>
        /\ status[c] = "PENDING"
    BY <1>12 DEF Acquire
  <2>2. UsedUpIsReviewed' /\ UnchargedUnleased'
    BY <2>1
  <2>3. ASSUME NEW v \in Workers, stage'[v] # "idle", Owns(v)'
        PROVE  job'[v].attempt = attemptCount'[job'[v].claim]
    <3>1. CASE v = w
      BY <1>12, <2>1, <3>1 DEF Acquire
    <3>2. CASE v # w
      <4>1. stage[v] # "idle" /\ job'[v] = job[v]
        BY <1>12, <2>3, <3>2 DEF Acquire
      <4> QED
        BY <2>1, <2>3, <3>2, <4>1
    <3> QED
      BY <3>1, <3>2
  <2> QED
    BY <2>2, <2>3
<1>13. ASSUME NEW w \in Workers, NEW c \in Claims, RetryReviewed(w, c)
       PROVE  ReviewInv'
  <2>1. /\ attemptCount' = [attemptCount EXCEPT ![c] = 1]
        /\ token' = [token EXCEPT ![c] = NoWorker]
        /\ UNCHANGED status
        /\ review' = review \ {c}
        /\ status[c] = "PENDING"
    BY <1>13 DEF RetryReviewed, ClearLease, RetriedAttemptCount
  <2>2. UsedUpIsReviewed' /\ UnchargedUnleased'
    BY <2>1
  <2>3. ASSUME NEW v \in Workers, stage'[v] # "idle", Owns(v)'
        PROVE  job'[v].attempt = attemptCount'[job'[v].claim]
    <3>1. v # w
      BY <1>13, <2>1, <2>3 DEF RetryReviewed
    <3>2. stage[v] # "idle" /\ job'[v] = job[v]
      BY <1>13, <2>3, <3>1 DEF RetryReviewed
    <3> QED
      BY <2>1, <2>3, <3>1, <3>2
  <2> QED
    BY <2>2, <2>3
<1>14. CASE UNCHANGED vars
  BY <1>14, RowLeft DEF vars
<1>15. ASSUME NEW w \in Workers, Step(w) PROVE ReviewInv'
  BY <1>5, <1>6, <1>7, <1>8, <1>9, <1>10, <1>11, <1>15 DEF Step
<1> QED
  BY <1>1, <1>2, <1>9, <1>10, <1>12, <1>13, <1>14, <1>15
     DEF Next, Process, OperatorLease

\* However attempts crash, run late, are taken over or retried by operators, a
\* pending claim whose attempts are used up is leased or waits for an operator:
\* no attempt hands it back to the cron, which takes it again only from a lease
\* that ran out.  It is the safety half of Resolves.
THEOREM UsedUpIsReviewedHolds == Spec => []UsedUpIsReviewed
<1>1. ReviewInv => UsedUpIsReviewed
  BY DEF ReviewInv
<1> QED
  BY <1>1, ReviewInit, ReviewStep, TypeCorrect, PTL DEF Spec
=============================================================================
