----------------------- MODULE TaskX402Payment_proofs -----------------------
(***************************************************************************)
(* Theorems about the x402 payment, for every number of concurrent         *)
(* requests and every choice of the timeouts.  One inductive invariant, in *)
(* six named parts, carries all of them.                                   *)
(***************************************************************************)
EXTENDS TaskX402Payment, TLAPS

\* A request that has counted its attempt and whose call can still be signed,
\* or was refused.
Attempting(r) ==
  \/ stage[r] \in {"calling", "atNode", "orphan", "refused"}
  \/ stage[r] = "dispatching" /\ r \notin fresh

\* A request that holds, or has held, the sign lease.
Leased(r) == stage[r] \in {"dispatching", "counting", "calling", "atNode",
                           "orphan"}

\* Stamps lie in the past, in the order in which they are taken.
ClockInv ==
  /\ processingAt <= now /\ updatedAt <= now
  /\ \A r \in Requests :
       /\ signStartedAt[r] <= processingAt
       /\ stage[r] \in {"atNode", "orphan"} =>
            /\ signStartedAt[r] <= dispatchedAt[r] /\ dispatchedAt[r] <= now
            /\ dispatchedAt[r] <=
                 signStartedAt[r] + MaxDispatchDelay + CountingDelay

\* No authorization outlives the fence of the latest attempt, but for a stall
\* in the first attempt's own write; resolving waits for that fence.
FenceInv ==
  /\ liveUntil <= processingAt + MaxSignRisk + CountingDelay
  /\ refundKind = "OPERATOR_RESOLVE" => processingAt + MaxSignRisk <= now

\* The row of a request that charged counts every attempt on it: while it
\* counts one, no other request can have been signed for.
AttemptInv ==
  /\ \A r, s \in fresh : r = s
  /\ status = "absent" => \A r \in Requests : stage[r] \in {"idle", "charging"}
  /\ \A r \in Requests :
       /\ stage[r] \in {"idle", "charging", "reissuing"} => r \notin fresh
       /\ stage[r] \in {"counting", "calling", "refused"} => r \in fresh
       /\ stage[r] = "refused" => signature[r] = 0
  /\ signAttemptCount = 0 =>
       signatures = 0 /\ \A r \in Requests : ~Attempting(r)
  /\ signAttemptCount = 1 =>
       \A r \in fresh :
         Attempting(r) =>
           /\ \A s \in Requests : s # r => ~Attempting(s)
           /\ signatures = 0 \/ signature[r] # 0
  /\ status = "FAILED" =>
       fresh = {} /\ signatures = 0 /\ \A r \in Requests : ~Attempting(r)

\* The stored header is the only one handed out, and expires in time.
HeaderInv ==
  /\ status \in {"absent", "PENDING", "FAILED"} =>
       header = 0 /\ validBefore = 0 /\ issued = {} /\ ~purging
  /\ \A a \in issued : a[2] = "VERIFIED" /\ (header # 0 => a[1] = header)
  /\ \A a, b \in issued : a = b
  /\ validBefore <= updatedAt + ValidFor + Skew
  /\ purging \/ header = 0 => validBefore <= now
  /\ \A r \in Requests :
       /\ stage[r] \in {"verifying", "storing"} => signature[r] # 0
       /\ stage[r] = "storing" => until[r] <= now + ValidFor + Skew

\* Sign leases never overlap: a later attempt starts when the earlier is over.
TurnInv ==
  \A r, s \in Requests :
    Leased(r) /\ Leased(s) /\ r # s =>
      \/ signStartedAt[r] + SignLease <= signStartedAt[s]
      \/ signStartedAt[s] + SignLease <= signStartedAt[r]

Inv ==
  /\ TypeOK /\ NetCharge /\ ClockInv /\ FenceInv
  /\ AttemptInv /\ HeaderInv /\ TurnInv

-----------------------------------------------------------------------------
LEMMA InitInv == Init => Inv
<1> SUFFICES ASSUME Init PROVE Inv
  OBVIOUS
<1> USE DurationAssumption DEF Init
<1>1. TypeOK
  BY DEF TypeOK, RowTypeOK, RequestTypeOK, HistoryTypeOK, Statuses,
     RefundKinds, Stages
<1>2. NetCharge /\ ClockInv
  BY DEF NetCharge, ClockInv
<1>3. FenceInv
  BY DEF FenceInv, MaxSignRisk
<1>4. AttemptInv
  BY DEF AttemptInv, Attempting
<1>5. HeaderInv /\ TurnInv
  BY DEF HeaderInv, TurnInv, Leased
<1> QED
  BY <1>1, <1>2, <1>3, <1>4, <1>5 DEF Inv

\* Types, and the debit that goes with an open row.
LEMMA NextType ==
  ASSUME TypeOK, NetCharge, [Next]_vars
  PROVE  (TypeOK /\ NetCharge)'
<1> USE DurationAssumption
    DEF TypeOK, RowTypeOK, RequestTypeOK, HistoryTypeOK, Stages,
        Statuses, RefundKinds, NetCharge,
        money, fences, credential, timing, node, history
<1>1. ASSUME NEW r \in Requests, Request(r) PROVE (TypeOK /\ NetCharge)'
  <2> USE DEF Goto, Return
  <2>1. CASE Begin(r)
    BY <2>1 DEF Begin
  <2>2. CASE Charge(r)
    BY <2>2 DEF Charge, SignRisk
  <2>3. CASE Replay(r)
    BY <2>3 DEF Replay, AttemptsLeft, SignLeaseHeld, SignRisk
  <2>4. CASE Reissue(r)
    BY <2>4 DEF Reissue, StillVerified
  <2>5. CASE Dispatch(r)
    BY <2>5 DEF Dispatch, InTime
  <2>6. CASE Count(r)
    BY <2>6 DEF Count
  <2>7. CASE Call(r)
    BY <2>7 DEF Call
  <2>8. CASE NodeSigns(r)
    BY <2>8 DEF NodeSigns, Window, Later
  <2>9. CASE Signed(r)
    BY <2>9 DEF Signed, Window
  <2>10. CASE Refused(r)
    BY <2>10 DEF Refused, Window
  <2>11. CASE Lost(r)
    BY <2>11 DEF Lost
  <2>12. CASE Orphaned(r)
    BY <2>12 DEF Orphaned, Window
  <2>13. CASE GiveUp(r)
    BY <2>13 DEF GiveUp
  <2>14. CASE Verify(r)
    BY <2>14 DEF Verify
  <2>15. CASE Store(r)
    BY <2>15 DEF Store, Storable
  <2>16. CASE Reread(r)
    BY <2>16 DEF Reread
  <2>17. CASE RefundRefused(r)
    BY <2>17 DEF RefundRefused, Close, SoleAttempt
  <2> QED
    BY <1>1, <2>1, <2>2, <2>3, <2>4, <2>5, <2>6, <2>7, <2>8, <2>9, <2>10,
       <2>11, <2>12, <2>13, <2>14, <2>15, <2>16, <2>17 DEF Request
<1>2. CASE RefundVerified
  BY <1>2 DEF RefundVerified, Refundable, Close
<1>3. CASE ResolvePending
  BY <1>3 DEF ResolvePending, RiskIsOver, Close
<1>4. CASE PurgeRead
  BY <1>4 DEF PurgeRead, Purgeable
<1>5. CASE PurgeWrite
  BY <1>5 DEF PurgeWrite
<1>6. CASE Tick
  BY <1>6 DEF Tick
<1>7. CASE UNCHANGED vars
  BY <1>7 DEF vars
<1> QED
  BY <1>1, <1>2, <1>3, <1>4, <1>5, <1>6, <1>7 DEF Next

\* Time stamps.
LEMMA NextClock ==
  ASSUME TypeOK, ClockInv, [Next]_vars
  PROVE  ClockInv'
<1> USE DurationAssumption
    DEF TypeOK, RowTypeOK, RequestTypeOK, HistoryTypeOK, Stages,
        Statuses, RefundKinds, ClockInv,
        money, fences, credential, timing, node, history
<1>1. ASSUME NEW r \in Requests, Request(r) PROVE ClockInv'
  <2> USE DEF Goto, Return
  <2>1. CASE Begin(r)
    BY <2>1 DEF Begin
  <2>2. CASE Charge(r)
    BY <2>2 DEF Charge
  <2>3. CASE Replay(r)
    BY <2>3 DEF Replay, AttemptsLeft, SignLeaseHeld
  <2>4. CASE Reissue(r)
    BY <2>4 DEF Reissue, StillVerified
  <2>5. CASE Dispatch(r)
    BY <2>5 DEF Dispatch, InTime
  <2>6. CASE Count(r)
    BY <2>6 DEF Count
  <2>7. CASE Call(r)
    BY <2>7 DEF Call
  <2>8. CASE NodeSigns(r)
    BY <2>8 DEF NodeSigns, Window, Later
  <2>9. CASE Signed(r)
    BY <2>9 DEF Signed, Window
  <2>10. CASE Refused(r)
    BY <2>10 DEF Refused, Window
  <2>11. CASE Lost(r)
    BY <2>11 DEF Lost
  <2>12. CASE Orphaned(r)
    BY <2>12 DEF Orphaned, Window
  <2>13. CASE GiveUp(r)
    BY <2>13 DEF GiveUp
  <2>14. CASE Verify(r)
    BY <2>14 DEF Verify
  <2>15. CASE Store(r)
    BY <2>15 DEF Store, Storable
  <2>16. CASE Reread(r)
    BY <2>16 DEF Reread
  <2>17. CASE RefundRefused(r)
    BY <2>17 DEF RefundRefused, Close, SoleAttempt
  <2> QED
    BY <1>1, <2>1, <2>2, <2>3, <2>4, <2>5, <2>6, <2>7, <2>8, <2>9, <2>10,
       <2>11, <2>12, <2>13, <2>14, <2>15, <2>16, <2>17 DEF Request
<1>2. CASE RefundVerified
  BY <1>2 DEF RefundVerified, Refundable, Close
<1>3. CASE ResolvePending
  BY <1>3 DEF ResolvePending, RiskIsOver, Close
<1>4. CASE PurgeRead
  BY <1>4 DEF PurgeRead, Purgeable
<1>5. CASE PurgeWrite
  BY <1>5 DEF PurgeWrite
<1>6. CASE Tick
  BY <1>6 DEF Tick
<1>7. CASE UNCHANGED vars
  BY <1>7 DEF vars
<1> QED
  BY <1>1, <1>2, <1>3, <1>4, <1>5, <1>6, <1>7 DEF Next

\* The fence: only the node's signature, a new stamp and a resolve touch it.
LEMMA NextFence ==
  ASSUME TypeOK, NetCharge, ClockInv, FenceInv, [Next]_vars
  PROVE  FenceInv'
<1> USE DurationAssumption
    DEF TypeOK, RowTypeOK, RequestTypeOK, HistoryTypeOK, Stages,
        Statuses, RefundKinds, NetCharge, ClockInv, FenceInv,
        MaxSignRisk, money, fences, credential, timing, node, history
<1>1. ASSUME NEW r \in Requests, Request(r) PROVE FenceInv'
  <2> USE DEF Goto, Return
  <2>1. CASE Begin(r)
    BY <2>1 DEF Begin
  <2>2. CASE Charge(r)
    BY <2>2 DEF Charge
  <2>3. CASE Replay(r)
    BY <2>3 DEF Replay, AttemptsLeft, SignLeaseHeld
  <2>4. CASE Reissue(r)
    BY <2>4 DEF Reissue, StillVerified
  <2>5. CASE Dispatch(r)
    BY <2>5 DEF Dispatch, InTime
  <2>6. CASE Count(r)
    BY <2>6 DEF Count
  <2>7. CASE Call(r)
    BY <2>7 DEF Call
  <2>8. CASE NodeSigns(r)
    BY <2>8 DEF NodeSigns, Window, Later
  <2>9. CASE Signed(r)
    BY <2>9 DEF Signed, Window
  <2>10. CASE Refused(r)
    BY <2>10 DEF Refused, Window
  <2>11. CASE Lost(r)
    BY <2>11 DEF Lost
  <2>12. CASE Orphaned(r)
    BY <2>12 DEF Orphaned, Window
  <2>13. CASE GiveUp(r)
    BY <2>13 DEF GiveUp
  <2>14. CASE Verify(r)
    BY <2>14 DEF Verify
  <2>15. CASE Store(r)
    BY <2>15 DEF Store, Storable
  <2>16. CASE Reread(r)
    BY <2>16 DEF Reread
  <2>17. CASE RefundRefused(r)
    BY <2>17 DEF RefundRefused, Close, SoleAttempt
  <2> QED
    BY <1>1, <2>1, <2>2, <2>3, <2>4, <2>5, <2>6, <2>7, <2>8, <2>9, <2>10,
       <2>11, <2>12, <2>13, <2>14, <2>15, <2>16, <2>17 DEF Request
<1>2. CASE RefundVerified
  BY <1>2 DEF RefundVerified, Refundable, Close
<1>3. CASE ResolvePending
  BY <1>3 DEF ResolvePending, RiskIsOver, Close
<1>4. CASE PurgeRead
  BY <1>4 DEF PurgeRead, Purgeable
<1>5. CASE PurgeWrite
  BY <1>5 DEF PurgeWrite
<1>6. CASE Tick
  BY <1>6 DEF Tick
<1>7. CASE UNCHANGED vars
  BY <1>7 DEF vars
<1> QED
  BY <1>1, <1>2, <1>3, <1>4, <1>5, <1>6, <1>7 DEF Next

\* Who has attempted what.
LEMMA NextAttempt ==
  ASSUME TypeOK, AttemptInv, [Next]_vars
  PROVE  AttemptInv'
<1> USE DEF TypeOK, RowTypeOK, RequestTypeOK, HistoryTypeOK, Stages,
        Statuses, RefundKinds, AttemptInv, Attempting,
        money, fences, credential, timing, node, history
<1>1. ASSUME NEW r \in Requests, Request(r) PROVE AttemptInv'
  <2> USE DEF Goto, Return
  <2>1. CASE Begin(r)
    BY <2>1 DEF Begin
  <2>2. CASE Charge(r)
    BY <2>2 DEF Charge
  <2>3. CASE Replay(r)
    BY <2>3 DEF Replay, AttemptsLeft, SignLeaseHeld
  <2>4. CASE Reissue(r)
    BY <2>4 DEF Reissue, StillVerified
  <2>5. CASE Dispatch(r)
    BY <2>5 DEF Dispatch, InTime
  <2>6. CASE Count(r)
    BY <2>6 DEF Count
  <2>7. CASE Call(r)
    BY <2>7 DEF Call
  <2>8. CASE NodeSigns(r)
    BY <2>8 DEF NodeSigns, Window, Later
  <2>9. CASE Signed(r)
    BY <2>9 DEF Signed, Window
  <2>10. CASE Refused(r)
    BY <2>10 DEF Refused, Window
  <2>11. CASE Lost(r)
    BY <2>11 DEF Lost
  <2>12. CASE Orphaned(r)
    BY <2>12 DEF Orphaned, Window
  <2>13. CASE GiveUp(r)
    BY <2>13 DEF GiveUp
  <2>14. CASE Verify(r)
    BY <2>14 DEF Verify
  <2>15. CASE Store(r)
    BY <2>15 DEF Store, Storable
  <2>16. CASE Reread(r)
    BY <2>16 DEF Reread
  <2>17. CASE RefundRefused(r)
    BY <2>17 DEF RefundRefused, Close, SoleAttempt
  <2> QED
    BY <1>1, <2>1, <2>2, <2>3, <2>4, <2>5, <2>6, <2>7, <2>8, <2>9, <2>10,
       <2>11, <2>12, <2>13, <2>14, <2>15, <2>16, <2>17 DEF Request
<1>2. CASE RefundVerified
  BY <1>2 DEF RefundVerified, Refundable, Close
<1>3. CASE ResolvePending
  BY <1>3 DEF ResolvePending, RiskIsOver, Close
<1>4. CASE PurgeRead
  BY <1>4 DEF PurgeRead, Purgeable
<1>5. CASE PurgeWrite
  BY <1>5 DEF PurgeWrite
<1>6. CASE Tick
  BY <1>6 DEF Tick
<1>7. CASE UNCHANGED vars
  BY <1>7 DEF vars
<1> QED
  BY <1>1, <1>2, <1>3, <1>4, <1>5, <1>6, <1>7 DEF Next

\* What is stored and handed out.
LEMMA NextHeader ==
  ASSUME TypeOK, ClockInv, HeaderInv, [Next]_vars
  PROVE  HeaderInv'
<1> USE DurationAssumption
    DEF TypeOK, RowTypeOK, RequestTypeOK, HistoryTypeOK, Stages,
        Statuses, RefundKinds, ClockInv, HeaderInv,
        money, fences, credential, timing, node, history
<1>1. ASSUME NEW r \in Requests, Request(r) PROVE HeaderInv'
  <2> USE DEF Goto, Return
  <2>1. CASE Begin(r)
    BY <2>1 DEF Begin
  <2>2. CASE Charge(r)
    BY <2>2 DEF Charge
  <2>3. CASE Replay(r)
    BY <2>3 DEF Replay, AttemptsLeft, SignLeaseHeld
  <2>4. CASE Reissue(r)
    BY <2>4 DEF Reissue, StillVerified
  <2>5. CASE Dispatch(r)
    BY <2>5 DEF Dispatch, InTime
  <2>6. CASE Count(r)
    BY <2>6 DEF Count
  <2>7. CASE Call(r)
    BY <2>7 DEF Call
  <2>8. CASE NodeSigns(r)
    BY <2>8 DEF NodeSigns, Window, Later
  <2>9. CASE Signed(r)
    BY <2>9 DEF Signed, Window
  <2>10. CASE Refused(r)
    BY <2>10 DEF Refused, Window
  <2>11. CASE Lost(r)
    BY <2>11 DEF Lost
  <2>12. CASE Orphaned(r)
    BY <2>12 DEF Orphaned, Window
  <2>13. CASE GiveUp(r)
    BY <2>13 DEF GiveUp
  <2>14. CASE Verify(r)
    BY <2>14 DEF Verify
  <2>15. CASE Store(r)
    BY <2>15 DEF Store, Storable
  <2>16. CASE Reread(r)
    BY <2>16 DEF Reread
  <2>17. CASE RefundRefused(r)
    BY <2>17 DEF RefundRefused, Close, SoleAttempt
  <2> QED
    BY <1>1, <2>1, <2>2, <2>3, <2>4, <2>5, <2>6, <2>7, <2>8, <2>9, <2>10,
       <2>11, <2>12, <2>13, <2>14, <2>15, <2>16, <2>17 DEF Request
<1>2. CASE RefundVerified
  BY <1>2 DEF RefundVerified, Refundable, Close
<1>3. CASE ResolvePending
  BY <1>3 DEF ResolvePending, RiskIsOver, Close
<1>4. CASE PurgeRead
  BY <1>4 DEF PurgeRead, Purgeable, UndatedHeaderTTL
<1>5. CASE PurgeWrite
  BY <1>5 DEF PurgeWrite
<1>6. CASE Tick
  BY <1>6 DEF Tick
<1>7. CASE UNCHANGED vars
  BY <1>7 DEF vars
<1> QED
  BY <1>1, <1>2, <1>3, <1>4, <1>5, <1>6, <1>7 DEF Next

\* A lease is taken only when the last one is over.
LEMMA NextTurn ==
  ASSUME TypeOK, ClockInv, AttemptInv, TurnInv, [Next]_vars
  PROVE  TurnInv'
<1> USE DurationAssumption
    DEF TypeOK, RowTypeOK, RequestTypeOK, HistoryTypeOK, Stages,
        Statuses, RefundKinds, ClockInv, AttemptInv, TurnInv, Leased,
        SignLease, money, fences, credential, timing, node, history
<1>1. ASSUME NEW r \in Requests, Request(r) PROVE TurnInv'
  <2> USE DEF Goto, Return
  <2>1. CASE Begin(r)
    BY <2>1 DEF Begin
  <2>2. CASE Charge(r)
    BY <2>2 DEF Charge
  <2>3. CASE Replay(r)
    BY <2>3 DEF Replay, AttemptsLeft, SignLeaseHeld
  <2>4. CASE Reissue(r)
    BY <2>4 DEF Reissue, StillVerified
  <2>5. CASE Dispatch(r)
    BY <2>5 DEF Dispatch, InTime
  <2>6. CASE Count(r)
    BY <2>6 DEF Count
  <2>7. CASE Call(r)
    BY <2>7 DEF Call
  <2>8. CASE NodeSigns(r)
    BY <2>8 DEF NodeSigns, Window, Later
  <2>9. CASE Signed(r)
    BY <2>9 DEF Signed, Window
  <2>10. CASE Refused(r)
    BY <2>10 DEF Refused, Window
  <2>11. CASE Lost(r)
    BY <2>11 DEF Lost
  <2>12. CASE Orphaned(r)
    BY <2>12 DEF Orphaned, Window
  <2>13. CASE GiveUp(r)
    BY <2>13 DEF GiveUp
  <2>14. CASE Verify(r)
    BY <2>14 DEF Verify
  <2>15. CASE Store(r)
    BY <2>15 DEF Store, Storable
  <2>16. CASE Reread(r)
    BY <2>16 DEF Reread
  <2>17. CASE RefundRefused(r)
    BY <2>17 DEF RefundRefused, Close, SoleAttempt
  <2> QED
    BY <1>1, <2>1, <2>2, <2>3, <2>4, <2>5, <2>6, <2>7, <2>8, <2>9, <2>10,
       <2>11, <2>12, <2>13, <2>14, <2>15, <2>16, <2>17 DEF Request
<1>2. CASE RefundVerified
  BY <1>2 DEF RefundVerified, Refundable, Close
<1>3. CASE ResolvePending
  BY <1>3 DEF ResolvePending, RiskIsOver, Close
<1>4. CASE PurgeRead
  BY <1>4 DEF PurgeRead, Purgeable
<1>5. CASE PurgeWrite
  BY <1>5 DEF PurgeWrite
<1>6. CASE Tick
  BY <1>6 DEF Tick
<1>7. CASE UNCHANGED vars
  BY <1>7 DEF vars
<1> QED
  BY <1>1, <1>2, <1>3, <1>4, <1>5, <1>6, <1>7 DEF Next

LEMMA InvHolds == Spec => []Inv
<1>1. Inv /\ [Next]_vars => Inv'
  BY NextType, NextClock, NextFence, NextAttempt, NextHeader, NextTurn DEF Inv
<1> QED
  BY InitInv, <1>1, PTL DEF Spec

-----------------------------------------------------------------------------
\* Every variable keeps its type.
THEOREM TypeCorrect == Spec => []TypeOK
  BY InvHolds, PTL DEF Inv

\* The debit is given back exactly when the row is closed, and only once.
THEOREM NetChargeHolds == Spec => []NetCharge
  BY InvHolds, PTL DEF Inv

\* A row closed by a refusal never had an authorization signed for it.
THEOREM RefusedIsUnsignedHolds == Spec => []RefusedIsUnsigned
<1>1. Inv => RefusedIsUnsigned
  BY DEF Inv, AttemptInv, RefusedIsUnsigned
<1> QED
  BY InvHolds, <1>1, PTL

\* At most one header is handed out per key, and only by a VERIFIED row.
THEOREM OneHeaderHolds == Spec => []OneHeader
<1>1. Inv => OneHeader
  BY DEF Inv, HeaderInv, OneHeader
<1> QED
  BY InvHolds, <1>1, PTL

\* The sweep drops a stored header only when it can no longer settle.
THEOREM PurgedIsDeadHolds == Spec => []PurgedIsDead
<1>1. Inv => PurgedIsDead
  BY DEF Inv, HeaderInv, PurgedIsDead
<1> QED
  BY InvHolds, <1>1, PTL

\* If the first attempt's write stays within the dispatch budget, a resolved
\* row leaves no live authorization behind.
THEOREM ResolvedIsDeadHolds ==
  ASSUME CountingDelay = 0
  PROVE  Spec => []ResolvedIsDead
<1>1. Inv => ResolvedIsDead
  BY DurationAssumption
     DEF Inv, TypeOK, RowTypeOK, HistoryTypeOK, FenceInv, MaxSignRisk,
         ResolvedIsDead
<1> QED
  BY InvHolds, <1>1, PTL

\* Under the same condition the node never has two requests of the row to
\* sign at the same time.
THEOREM OneSignerHolds ==
  ASSUME CountingDelay = 0
  PROVE  Spec => []OneSigner
<1>1. ASSUME Inv PROVE OneSigner
  <2>1. SUFFICES ASSUME NEW r \in Requests, NEW s \in Requests,
                        Window(r), Window(s), r # s,
                        signStartedAt[r] + SignLease <= signStartedAt[s]
                 PROVE  FALSE
    BY <1>1, <2>1 DEF Inv, TurnInv, Leased, Window, OneSigner
  <2>2. now < signStartedAt[r] + SignLease
    BY <1>1, <2>1, DurationAssumption
       DEF Inv, TypeOK, RequestTypeOK, ClockInv, Window, SignLease
  <2>3. signStartedAt[s] <= now
    BY <1>1, <2>1 DEF Inv, TypeOK, RowTypeOK, RequestTypeOK, ClockInv
  <2> QED
    BY <1>1, <2>1, <2>2, <2>3, DurationAssumption
       DEF Inv, TypeOK, RequestTypeOK, SignLease
<1> QED
  BY InvHolds, <1>1, PTL
-----------------------------------------------------------------------------
\* The row is one plain charge; most steps leave it where it is.

LEMMA OutcomeIs ==
  /\ Outcome("absent") = "none" /\ Outcome("PENDING") = "held"
  /\ Outcome("VERIFIED") = "settled"
  /\ Outcome("FAILED") = "returned" /\ Outcome("REFUNDED") = "returned"
BY DEF Outcome

LEMMA ChargeStep == [Next]_vars => [Charges!Next]_(Charges!vars)
<1> SUFFICES ASSUME [Next]_vars
             PROVE  Charges!Next \/ UNCHANGED Charges!vars
  OBVIOUS
<1> DEFINE p == "payment"
<1> USE DEF money
<1>1. ASSUME status' = status, net' = net PROVE UNCHANGED Charges!vars
  BY <1>1 DEF Charges!vars
<1>2. ASSUME NEW r \in Requests, Charge(r) PROVE Charges!Charge(p)
  BY <1>2, OutcomeIs DEF Charge, Charges!Charge
<1>3. ASSUME NEW r \in Requests, Store(r)
      PROVE  Charges!Settle(p) \/ UNCHANGED Charges!vars
  <2>1. CASE Storable
    BY <1>3, <2>1, OutcomeIs DEF Store, Storable, Charges!Settle
  <2>2. CASE ~Storable
    BY <1>1, <1>3, <2>2 DEF Store
  <2> QED
    BY <2>1, <2>2
<1>4. ASSUME NEW r \in Requests, RefundRefused(r) PROVE Charges!GiveBack(p)
  BY <1>4, OutcomeIs DEF RefundRefused, Close, Charges!GiveBack
<1>5. ASSUME RefundVerified PROVE Charges!GiveBack(p)
  BY <1>5, OutcomeIs DEF RefundVerified, Refundable, Close, Charges!GiveBack
<1>6. ASSUME ResolvePending PROVE Charges!GiveBack(p)
  BY <1>6, OutcomeIs DEF ResolvePending, Close, Charges!GiveBack
<1>7. ASSUME NEW r \in Requests, Request(r)
      PROVE  Charges!Next \/ UNCHANGED Charges!vars
  BY <1>1, <1>2, <1>3, <1>4, <1>7
     DEF Request, Begin, Replay, Reissue, Dispatch, Count, Call, NodeSigns,
         Signed, Refused, Lost, Orphaned, GiveUp, Verify, Reread, Charges!Next
<1>8. CASE PurgeRead \/ PurgeWrite \/ Tick
  BY <1>1, <1>8 DEF PurgeRead, PurgeWrite, Tick
<1>9. CASE UNCHANGED vars
  BY <1>1, <1>9 DEF vars
<1> QED
  BY <1>5, <1>6, <1>7, <1>8, <1>9 DEF Next, Charges!Next

\* Requests, operators and the sweep together are the plain charge.
THEOREM ImplementsChargeHolds == Spec => ImplementsCharge
<1>1. Init => Charges!Init
  BY OutcomeIs DEF Init, Charges!Init
<1> QED
  BY <1>1, ChargeStep, PTL DEF Spec, ImplementsCharge, Charges!Spec
=============================================================================
