-------------------------- MODULE TaskCredits_proofs --------------------------
(***************************************************************************)
(* Proofs about TaskCredits: no bucket is overdrawn, only a paused task is *)
(* revived, and a grant forgets only a task whose pause it crossed.        *)
(*                                                                         *)
(* Two inductive invariants.  Covered: what an open charge has prepared is *)
(* still there, unless it has been overtaken.  Watched: a task that was    *)
(* out of credits when a grant looked stays on the grant's list, or is     *)
(* held by its row lock, until the grant lands.                            *)
(***************************************************************************)
EXTENDS TaskCredits, FiniteSetTheorems, WellFoundedInduction, TLAPS

-----------------------------------------------------------------------------
(* Types and balances.                                                     *)

Covered ==
  /\ NeverOverdrawn
  /\ \A c \in Charges, b \in Buckets :
       stage[c] = "open" /\ c \notin overtaken
         => plan[c][b] <= amount[b] - used[b]
  /\ \A c \in Charges :
       stage[c] = "open" /\ asks[c] = "OUT_OF_CREDITS" => c \in Events

\* What the loop of prepareConsumption draws is whole cents, and never more
\* than the bucket holds.
LEMMA DrawsAreCovered ==
  ASSUME TypeOK, Covered, NEW c \in Charges, NEW rem \in Remaining(c)
  PROVE  /\ Draws(rem) \in [Buckets -> Nat]
         /\ \A b \in Buckets : Draws(rem)[b] <= amount[b] - used[b]
<1>1. /\ rem \in [0 .. LastBucket -> 0 .. Price[c]]
      /\ \A b \in Buckets : rem[b] = rem[b - 1] - Take(b, rem[b - 1])
  BY DEF Remaining
<1>2. ASSUME NEW b \in Buckets
      PROVE  /\ rem[b - 1] - rem[b] \in Nat
             /\ rem[b - 1] - rem[b] <= amount[b] - used[b]
  <2>1. /\ b \in 0 .. LastBucket /\ b - 1 \in 0 .. LastBucket
        /\ Price[c] \in Nat
    BY BucketAssumption, ChargeAssumption DEF Buckets
  <2>2. rem[b] \in Nat /\ rem[b - 1] \in Nat
    BY <1>1, <2>1
  <2>3. /\ amount[b] \in Nat /\ used[b] \in Nat /\ used[b] <= amount[b]
    BY DEF TypeOK, Covered, NeverOverdrawn
  <2>4. /\ Available(b) \in Nat /\ Available(b) <= amount[b] - used[b]
    BY <2>3 DEF Available
  <2>5. Take(b, rem[b - 1]) \in Nat /\ Take(b, rem[b - 1]) <= Available(b)
    BY <2>2, <2>4 DEF Take
  <2>. QED BY <1>1, <2>2, <2>3, <2>4, <2>5
<1>. QED BY <1>2 DEF Draws

LEMMA CoveredInit == Init => TypeOK /\ Covered
<1>. SUFFICES ASSUME Init PROVE TypeOK /\ Covered
  OBVIOUS
<1>. USE BucketAssumption, ChargeAssumption DEF Init, NoDraw
<1>1. TypeOK
  BY DEF TypeOK, Statuses, Pausable, Requested
<1>2. Covered
  BY DEF Covered, NeverOverdrawn
<1>. QED BY <1>1, <1>2

LEMMA CoveredOpen ==
  ASSUME TypeOK, Covered, NEW c \in Charges, Open(c)
  PROVE  TypeOK' /\ Covered'
<1>1. PICK rem \in Remaining(c) :
        \/ FallShort(c, rem)
        \/ \E want \in Requested \cup {Keep} : Prepare(c, rem, want)
  BY DEF Open
<1>2. PICK draw \in [Buckets -> Nat],
           want \in Requested \cup {"OUT_OF_CREDITS", Keep} :
        /\ Read(c, draw, want)
        /\ \A b \in Buckets : draw[b] <= amount[b] - used[b]
        /\ want = "OUT_OF_CREDITS" => c \in Events
  <2>1. CASE FallShort(c, rem)
    <3>1. NoDraw \in [Buckets -> Nat]
      BY DEF NoDraw
    <3>2. \A b \in Buckets : NoDraw[b] <= amount[b] - used[b]
      BY DEF NoDraw, TypeOK, Covered, NeverOverdrawn
    <3>. QED BY <2>1, <3>1, <3>2 DEF FallShort
  <2>2. ASSUME NEW want \in Requested \cup {Keep}, Prepare(c, rem, want)
        PROVE  \E draw \in [Buckets -> Nat] :
                 /\ Read(c, draw, want)
                 /\ \A b \in Buckets : draw[b] <= amount[b] - used[b]
    BY <2>2, DrawsAreCovered DEF Prepare
  <2>3. \A want \in Requested \cup {Keep} : want # "OUT_OF_CREDITS"
    BY DEF Requested, Keep
  <2>. QED BY <1>1, <2>1, <2>2, <2>3
<1>. USE <1>2 DEF Read, buckets, tasks, grants, refunds
<1>3. TypeOK'
  BY DEF TypeOK
<1>4. Covered'
  BY DEF TypeOK, Covered, NeverOverdrawn
<1>. QED BY <1>3, <1>4

\* A charge that commits overtakes every other that has prepared something.
LEMMA CoveredPay ==
  ASSUME TypeOK, Covered, NEW c \in Charges, Pay(c)
  PROVE  TypeOK' /\ Covered'
<1>. USE DEF Pay, MayCommit, Forget, grants, refunds
<1>0. NoDraw \in [Buckets -> Nat]
  BY DEF NoDraw
<1>1. TypeOK'
  <2>1. used' \in [Buckets -> Nat]
    BY DEF TypeOK
  <2>2. status' \in [Tasks -> Statuses]
    BY ChargeAssumption DEF TypeOK, WritesTask, Statuses, Keep
  <2>3. overtaken' \subseteq Charges
    BY DEF TypeOK, Overtake
  <2>4. /\ plan' \in [Charges -> [Buckets -> Nat]]
        /\ asks' \in [Charges -> Requested \cup {"OUT_OF_CREDITS", Keep}]
        /\ seen' \in [Charges -> SUBSET Buckets]
        /\ stage' \in [Charges -> {"idle", "open", "paid", "refused"}]
    BY <1>0 DEF TypeOK
  <2>. QED BY <2>1, <2>2, <2>3, <2>4 DEF TypeOK
<1>2. ASSUME NEW b \in Buckets
      PROVE  /\ used'[b] = used[b] + plan[c][b]
             /\ plan[c][b] <= amount[b] - used[b]
             /\ amount'[b] = amount[b] /\ amount[b] \in Nat
             /\ used[b] \in Nat /\ plan[c][b] \in Nat
  BY DEF TypeOK, Covered
<1>3. NeverOverdrawn'
  <2>1. ASSUME NEW b \in Buckets PROVE used'[b] <= amount'[b]
    BY <1>2
  <2>. QED BY <2>1 DEF NeverOverdrawn
<1>4. ASSUME NEW o \in Charges, NEW b \in Buckets,
             stage'[o] = "open", o \notin overtaken'
      PROVE  plan'[o][b] <= amount'[b] - used'[b]
  <2>1. o # c /\ stage[o] = "open" /\ plan'[o] = plan[o]
    BY <1>4 DEF TypeOK
  <2>2. o \notin overtaken /\ ~Overtakes(c, o)
    BY <1>4, <2>1 DEF Overtake
  <2>3. plan[c] = NoDraw \/ plan[o] = NoDraw
    BY <2>2 DEF Overtakes
  <2>4. CASE plan[o] = NoDraw
    <3>1. plan'[o][b] = 0
      BY <2>1, <2>4 DEF NoDraw
    <3>. QED BY <3>1, <1>2
  <2>5. CASE plan[c] = NoDraw
    <3>1. plan[c][b] = 0
      BY <2>5 DEF NoDraw
    <3>2. plan[o][b] <= amount[b] - used[b]
      BY <2>1, <2>2 DEF Covered
    <3>. QED BY <3>1, <3>2, <2>1, <1>2
  <2>. QED BY <2>3, <2>4, <2>5
<1>5. \A o \in Charges :
        stage'[o] = "open" /\ asks'[o] = "OUT_OF_CREDITS" => o \in Events
  BY DEF TypeOK, Covered
<1>. QED BY <1>1, <1>3, <1>4, <1>5 DEF Covered

LEMMA CoveredPause ==
  ASSUME TypeOK, Covered, NEW c \in Charges, Pause(c)
  PROVE  TypeOK' /\ Covered'
<1>. USE DEF Pause, MayCommit, Forget, buckets, refunds
<1>0. NoDraw \in [Buckets -> Nat] /\ c \in Events /\ TaskOf[c] \in Tasks
  BY ChargeAssumption DEF NoDraw, Covered
<1>1. TypeOK'
  <2>1. status' \in [Tasks -> Statuses]
    BY <1>0 DEF TypeOK, Statuses
  <2>2. /\ overtaken' \subseteq Charges
        /\ crossed' \in [Deliveries -> SUBSET Events]
    BY <1>0 DEF TypeOK, Overtake
  <2>. QED BY <1>0, <2>1, <2>2 DEF TypeOK
<1>2. Covered'
  BY DEF TypeOK, Covered, NeverOverdrawn, Overtake
<1>. QED BY <1>1, <1>2

LEMMA CoveredAbort ==
  ASSUME TypeOK, Covered, NEW c \in Charges, Abort(c)
  PROVE  TypeOK' /\ Covered'
<1>. USE DEF Abort, Forget, buckets, tasks, refunds
<1>0. NoDraw \in [Buckets -> Nat]
  BY DEF NoDraw
<1>1. TypeOK'
  BY <1>0 DEF TypeOK
<1>2. Covered'
  BY DEF TypeOK, Covered, NeverOverdrawn
<1>. QED BY <1>1, <1>2

\* The steps that are no charge's: none of them consumes from a bucket, and a
\* bucket's amount only grows.
LEMMA CoveredKept ==
  ASSUME TypeOK, Covered, TypeOK', UNCHANGED <<used, open>>,
         overtaken \subseteq overtaken',
         \A b \in Buckets : amount[b] <= amount'[b]
  PROVE  Covered'
BY DEF TypeOK, Covered, NeverOverdrawn, open

LEMMA CoveredBucketSteps ==
  ASSUME TypeOK, Covered, NEW b \in Buckets, Activate(b) \/ Expire(b)
  PROVE  TypeOK' /\ Covered'
<1>. USE DEF Activate, Expire, tasks, open, grants, refunds
<1>1. TypeOK'
  BY DEF TypeOK
<1>2. \A x \in Buckets : amount[x] <= amount'[x]
  BY DEF TypeOK
<1>. QED BY <1>1, <1>2, CoveredKept

LEMMA CoveredSetStatus ==
  ASSUME TypeOK, Covered, NEW t \in Tasks, NEW s \in Requested,
         SetStatus(t, s)
  PROVE  TypeOK' /\ Covered'
<1>. USE DEF SetStatus, Superseded, buckets, open, grants, refunds
<1>1. TypeOK'
  BY DEF TypeOK, Statuses
<1>2. \A x \in Buckets : amount[x] <= amount'[x]
  BY DEF TypeOK
<1>. QED BY <1>1, <1>2, CoveredKept

LEMMA CoveredGrantSteps ==
  ASSUME TypeOK, Covered, NEW d \in Deliveries,
         \/ Check(d) \/ Mint(d) \/ Known(d) \/ Look(d) \/ Undo(d)
         \/ \E t \in Tasks : Lift(d, t)
  PROVE  TypeOK' /\ Covered'
<1>. USE DEF To, buckets, tasks, open, refunds
<1>1. TypeOK'
  <2>1. CASE Check(d)
    BY <2>1, DeliveryAssumption DEF Check, TypeOK
  <2>2. CASE Mint(d) \/ Known(d)
    BY <2>2 DEF Mint, Known, TypeOK
  <2>3. CASE Look(d)
    BY <2>3 DEF Look, Paused, TypeOK
  <2>4. CASE Undo(d)
    BY <2>4 DEF Undo, TypeOK
  <2>5. ASSUME NEW t \in Tasks, Lift(d, t) PROVE TypeOK'
    BY <2>5 DEF Lift, TypeOK
  <2>. QED BY <2>1, <2>2, <2>3, <2>4, <2>5
<1>2. UNCHANGED <<buckets, open, overtaken>>
  BY DEF Check, Mint, Known, Look, Undo, Lift
<1>3. \A x \in Buckets : amount[x] <= amount'[x]
  BY <1>2 DEF TypeOK
<1>. QED BY <1>1, <1>2, <1>3, CoveredKept

LEMMA CoveredLand ==
  ASSUME TypeOK, Covered, NEW d \in Deliveries, Land(d)
  PROVE  TypeOK' /\ Covered'
<1>. USE BucketAssumption DEF Land, To, Superseded, open, refunds
<1>1. TypeOK'
  <2>1. /\ phase' \in [Buckets -> {"none", "pending", "active", "expired"}]
        /\ amount' \in [Buckets -> Nat] /\ used' \in [Buckets -> Nat]
    BY DEF TypeOK
  <2>2. /\ status' \in [Tasks -> Statuses]
        /\ pausedBy' \in [Tasks -> Charges \cup {NoCharge}]
    BY DEF TypeOK, Statuses, Pausable
  <2>3. /\ step' \in [Deliveries ->
              {"idle", "checked", "minted", "looked", "done"}]
        /\ missing' \in [Deliveries -> SUBSET Buckets]
        /\ todo' \in [Deliveries -> SUBSET Tasks]
        /\ lifted' \in [Deliveries -> SUBSET Tasks]
        /\ crossed' \in [Deliveries -> SUBSET Events]
    BY DEF TypeOK
  <2>. QED BY <2>1, <2>2, <2>3 DEF TypeOK
<1>2. \A x \in Buckets : amount[x] <= amount'[x]
  BY DEF TypeOK
<1>. QED BY <1>1, <1>2, CoveredKept

LEMMA CoveredRefundSteps ==
  ASSUME TypeOK, Covered, NEW s \in Syncs,
         Refund(s) \/ Drop(s) \/ \E j \in Jobs : Sight(s, j)
  PROVE  TypeOK' /\ Covered'
<1>. USE DEF tasks, open, grants, buckets
<1>1. CASE Refund(s)
  <2>. USE <1>1 DEF Refund
  <2>1. sighted[s] \in Jobs /\ RefundOf[sighted[s]] \in Buckets
        /\ Price[sighted[s]] \in Nat
    BY ChargeAssumption DEF TypeOK, Charges
  <2>2. TypeOK'
    BY <2>1 DEF TypeOK
  <2>3. \A x \in Buckets : amount[x] <= amount'[x]
    BY <2>1 DEF TypeOK
  <2>. QED BY <2>2, <2>3, CoveredKept
<1>2. CASE Drop(s) \/ \E j \in Jobs : Sight(s, j)
  <2>0. /\ UNCHANGED <<buckets, tasks, open, overtaken, grants, refunded>>
        /\ \E j \in Jobs \cup {NoJob} : sighted' = [sighted EXCEPT ![s] = j]
    BY <1>2 DEF Drop, Sight
  <2>1. TypeOK'
    BY <2>0 DEF TypeOK
  <2>2. \A x \in Buckets : amount[x] <= amount'[x]
    BY <2>0 DEF TypeOK
  <2>. QED BY <2>0, <2>1, <2>2, CoveredKept
<1>. QED BY <1>1, <1>2

LEMMA CoveredNext == TypeOK /\ Covered /\ [Next]_vars => TypeOK' /\ Covered'
<1>. SUFFICES ASSUME TypeOK, Covered, [Next]_vars PROVE TypeOK' /\ Covered'
  OBVIOUS
<1>1. CASE UNCHANGED vars
  BY <1>1 DEF vars, buckets, tasks, open, grants, refunds, TypeOK, Covered,
     NeverOverdrawn
<1>2. CASE Next
  BY <1>2, CoveredOpen, CoveredPay, CoveredPause, CoveredAbort,
     CoveredBucketSteps, CoveredSetStatus, CoveredGrantSteps, CoveredLand,
     CoveredRefundSteps DEF Next
<1>. QED BY <1>1, <1>2

\* Every variable keeps its type, and no bucket is consumed beyond its
\* amount: the promise of createTaskEventTransaction, createPaidJob and
\* chargeSokoBotUsage, for any number of concurrent charges.
THEOREM CoveredHolds == Spec => [](TypeOK /\ Covered)
BY CoveredInit, CoveredNext, PTL DEF Spec

THEOREM TypeCorrect == Spec => []TypeOK
BY CoveredHolds, PTL

THEOREM NeverOverdrawnHolds == Spec => []NeverOverdrawn
<1>1. Covered => NeverOverdrawn
  BY DEF Covered
<1>. QED BY <1>1, CoveredHolds, PTL


-----------------------------------------------------------------------------
(* Grants and the tasks they revive.                                       *)

\* Between its search and its commit a grant keeps every paused task in view.
Listed ==
  \A d \in Deliveries, t \in Tasks :
    step[d] = "looked" /\ status[t] = "OUT_OF_CREDITS" =>
      t \in todo[d] \cup lifted[d] \/ pausedBy[t] \in crossed[d]

\* A task it has updated stays out of credits, under one grant's lock.
Locked ==
  /\ \A d \in Deliveries : \A t \in lifted[d] :
       step[d] = "looked" /\ status[t] = "OUT_OF_CREDITS"
  /\ \A d, e \in Deliveries : \A t \in lifted[d] \cap lifted[e] : d = e

\* Who paused a task is done.
Settled ==
  \A t \in Tasks : status[t] = "OUT_OF_CREDITS" =>
    pausedBy[t] \in Events /\ stage[pausedBy[t]] = "refused"

\* What has landed is known to whoever paused or is about to.
PausersKnew ==
  \A d \in Deliveries, t \in Tasks :
    step[d] = "done" /\ status[t] = "OUT_OF_CREDITS" =>
      missing[d] \subseteq seen[pausedBy[t]] \/ pausedBy[t] \in crossed[d]
OpenKnow ==
  \A d \in Deliveries, c \in Events :
    step[d] = "done" /\ stage[c] = "open" =>
      missing[d] \subseteq seen[c] \/ c \in crossed[d]

\* What has landed counts, or has counted.
Arrived ==
  \A d \in Deliveries : step[d] = "done" =>
    \A b \in missing[d] : phase[b] \in {"active", "expired"}

\* What is being inserted exists nowhere else.
Inserting ==
  /\ \A d \in Deliveries : step[d] \in {"minted", "looked"} =>
       missing[d] # {} /\ \A b \in missing[d] : phase[b] = "none"
  /\ \A d, e \in Deliveries :
       {step[d], step[e]} \subseteq {"minted", "looked"} /\ d # e
         => missing[d] \cap missing[e] = {}

Watched ==
  /\ Listed /\ Locked /\ Settled /\ PausersKnew /\ OpenKnow
  /\ Arrived /\ Inserting

LEMMA WatchedInit == Init => Watched
BY DEF Init, Watched, Listed, Locked, Settled, PausersKnew, OpenKnow, Arrived,
   Inserting

LEMMA OpenReads ==
  ASSUME NEW c \in Charges, Open(c)
  PROVE  /\ stage[c] = "idle" /\ stage' = [stage EXCEPT ![c] = "open"]
         /\ seen' = [seen EXCEPT ![c] =
                       {b \in Buckets : phase[b] \in {"active", "expired"}}]
         /\ UNCHANGED <<buckets, tasks, grants>>
BY DEF Open, FallShort, Prepare, Read

LEMMA WatchedOpen ==
  ASSUME TypeOK, Covered, Watched, NEW c \in Charges, Open(c)
  PROVE  Watched'
<1>. USE OpenReads DEF buckets, tasks, grants
<1>1. Listed'
  BY DEF TypeOK, Watched, Listed, Settled, Locked
<1>2. Locked'
  BY DEF TypeOK, Watched, Locked
<1>3. Settled'
  BY DEF TypeOK, Watched, Settled, Charges
<1>4. PausersKnew'
  <2>1. ASSUME NEW t \in Tasks, status[t] = "OUT_OF_CREDITS"
        PROVE  pausedBy[t] # c /\ seen'[pausedBy[t]] = seen[pausedBy[t]]
    <3>1. pausedBy[t] # c /\ pausedBy[t] \in Charges
      BY <2>1 DEF Watched, Settled, Charges
    <3>. QED BY <3>1 DEF TypeOK
  <2>. QED BY <2>1 DEF Watched, PausersKnew
<1>5. OpenKnow'
  <2>1. ASSUME NEW d \in Deliveries, step[d] = "done"
        PROVE  missing[d] \subseteq seen'[c]
    BY <2>1 DEF TypeOK, Watched, Arrived
  <2>2. ASSUME NEW o \in Events, o # c
        PROVE  stage'[o] = stage[o] /\ seen'[o] = seen[o]
    BY <2>2 DEF TypeOK, Charges
  <2>. QED BY <2>1, <2>2 DEF Watched, OpenKnow
<1>6. Arrived'
  BY DEF TypeOK, Watched, Arrived
<1>7. Inserting'
  BY DEF TypeOK, Watched, Inserting
<1>. QED BY <1>1, <1>2, <1>3, <1>4, <1>5, <1>6, <1>7 DEF Watched

LEMMA WatchedPay ==
  ASSUME TypeOK, Covered, Watched, NEW c \in Charges, Pay(c)
  PROVE  Watched'
<1>. USE ChargeAssumption DEF Pay, MayCommit, WritesTask, Unlocked, Forget,
    grants, refunds, Keep
<1>1. Listed'
  BY DEF TypeOK, Watched, Listed, Settled, Locked
<1>2. Locked'
  BY DEF TypeOK, Watched, Locked
<1>3. Settled'
  BY DEF TypeOK, Watched, Settled
<1>4. PausersKnew'
  BY DEF TypeOK, Watched, PausersKnew, Settled
<1>5. OpenKnow'
  BY DEF TypeOK, Watched, OpenKnow
<1>6. Arrived'
  BY DEF TypeOK, Watched, Arrived
<1>7. Inserting'
  BY DEF TypeOK, Watched, Inserting
<1>. QED BY <1>1, <1>2, <1>3, <1>4, <1>5, <1>6, <1>7 DEF Watched

LEMMA WatchedPause ==
  ASSUME TypeOK, Covered, Watched, NEW c \in Charges, Pause(c)
  PROVE  Watched'
<1>. USE ChargeAssumption DEF Pause, MayCommit, WritesTask, Unlocked, Forget,
    buckets, refunds, Keep, Covered
<1>1. Listed'
  BY DEF TypeOK, Watched, Listed, Settled, Locked
<1>2. Locked'
  BY DEF TypeOK, Watched, Locked
<1>3. Settled'
  BY DEF TypeOK, Watched, Settled
<1>4. PausersKnew'
  <2>1. c \in Events /\ TaskOf[c] \in Tasks
    OBVIOUS
  <2>2. \A e \in Deliveries : step[e] = "done" => crossed'[e] = crossed[e]
    OBVIOUS
  <2>3. ASSUME NEW e \in Deliveries, step[e] = "done"
        PROVE  \/ missing[e] \subseteq seen[pausedBy'[TaskOf[c]]]
               \/ pausedBy'[TaskOf[c]] \in crossed[e]
    BY <2>1, <2>3 DEF TypeOK, Watched, OpenKnow
  <2>4. ASSUME NEW t \in Tasks, t # TaskOf[c]
        PROVE  status'[t] = status[t] /\ pausedBy'[t] = pausedBy[t]
    BY <2>4 DEF TypeOK
  <2>. QED BY <2>2, <2>3, <2>4 DEF Watched, PausersKnew
<1>5. OpenKnow'
  BY DEF TypeOK, Watched, OpenKnow
<1>6. Arrived'
  BY DEF TypeOK, Watched, Arrived
<1>7. Inserting'
  BY DEF TypeOK, Watched, Inserting
<1>. QED BY <1>1, <1>2, <1>3, <1>4, <1>5, <1>6, <1>7 DEF Watched

LEMMA WatchedAbort ==
  ASSUME TypeOK, Covered, Watched, NEW c \in Charges, Abort(c)
  PROVE  Watched'
<1>. USE DEF Abort, Forget, buckets, tasks, refunds
<1>1. Listed'
  BY DEF TypeOK, Watched, Listed, Settled, Locked
<1>2. Locked'
  BY DEF TypeOK, Watched, Locked
<1>3. Settled'
  BY DEF TypeOK, Watched, Settled
<1>4. PausersKnew'
  BY DEF TypeOK, Watched, PausersKnew, Settled
<1>5. OpenKnow'
  BY DEF TypeOK, Watched, OpenKnow
<1>6. Arrived'
  BY DEF TypeOK, Watched, Arrived
<1>7. Inserting'
  BY DEF TypeOK, Watched, Inserting
<1>. QED BY <1>1, <1>2, <1>3, <1>4, <1>5, <1>6, <1>7 DEF Watched

LEMMA WatchedBucketSteps ==
  ASSUME TypeOK, Covered, Watched, NEW b \in Buckets, Activate(b) \/ Expire(b)
  PROVE  Watched'
<1>. USE DEF Activate, Expire, tasks, open, grants, refunds
<1>1. Listed'
  BY DEF TypeOK, Watched, Listed, Settled, Locked
<1>2. Locked'
  BY DEF TypeOK, Watched, Locked
<1>3. Settled'
  BY DEF TypeOK, Watched, Settled
<1>4. PausersKnew'
  BY DEF TypeOK, Watched, PausersKnew, Settled
<1>5. OpenKnow'
  BY DEF TypeOK, Watched, OpenKnow
<1>6. Arrived'
  BY DEF TypeOK, Watched, Arrived
<1>7. Inserting'
  BY DEF TypeOK, Watched, Inserting
<1>. QED BY <1>1, <1>2, <1>3, <1>4, <1>5, <1>6, <1>7 DEF Watched

LEMMA WatchedSetStatus ==
  ASSUME TypeOK, Covered, Watched, NEW t \in Tasks, NEW s \in Requested,
         SetStatus(t, s)
  PROVE  Watched'
<1>. USE DEF SetStatus, Unlocked, Requested, buckets, open, grants, refunds
<1>1. Listed'
  BY DEF TypeOK, Watched, Listed, Settled, Locked
<1>2. Locked'
  BY DEF TypeOK, Watched, Locked
<1>3. Settled'
  BY DEF TypeOK, Watched, Settled
<1>4. PausersKnew'
  BY DEF TypeOK, Watched, PausersKnew, Settled
<1>5. OpenKnow'
  BY DEF TypeOK, Watched, OpenKnow
<1>6. Arrived'
  BY DEF TypeOK, Watched, Arrived
<1>7. Inserting'
  BY DEF TypeOK, Watched, Inserting
<1>. QED BY <1>1, <1>2, <1>3, <1>4, <1>5, <1>6, <1>7 DEF Watched

LEMMA WatchedCheck ==
  ASSUME TypeOK, Covered, Watched, NEW d \in Deliveries, Check(d)
  PROVE  Watched'
<1>. USE DEF Check, To, buckets, tasks, open, refunds
<1>1. Listed'
  BY DEF TypeOK, Watched, Listed, Settled, Locked
<1>2. Locked'
  BY DEF TypeOK, Watched, Locked
<1>3. Settled'
  BY DEF TypeOK, Watched, Settled
<1>4. PausersKnew'
  BY DEF TypeOK, Watched, PausersKnew, Settled
<1>5. OpenKnow'
  BY DEF TypeOK, Watched, OpenKnow
<1>6. Arrived'
  BY DEF TypeOK, Watched, Arrived
<1>7. Inserting'
  BY DEF TypeOK, Watched, Inserting
<1>. QED BY <1>1, <1>2, <1>3, <1>4, <1>5, <1>6, <1>7 DEF Watched

LEMMA WatchedMint ==
  ASSUME TypeOK, Covered, Watched, NEW d \in Deliveries, Mint(d)
  PROVE  Watched'
<1>. USE DEF Mint, To, buckets, tasks, open, refunds, Unique
<1>1. Listed'
  BY DEF TypeOK, Watched, Listed, Settled, Locked
<1>2. Locked'
  BY DEF TypeOK, Watched, Locked
<1>3. Settled'
  BY DEF TypeOK, Watched, Settled
<1>4. PausersKnew'
  BY DEF TypeOK, Watched, PausersKnew, Settled
<1>5. OpenKnow'
  BY DEF TypeOK, Watched, OpenKnow
<1>6. Arrived'
  BY DEF TypeOK, Watched, Arrived
<1>7. Inserting'
  BY DEF TypeOK, Watched, Inserting
<1>. QED BY <1>1, <1>2, <1>3, <1>4, <1>5, <1>6, <1>7 DEF Watched

LEMMA WatchedKnown ==
  ASSUME TypeOK, Covered, Watched, NEW d \in Deliveries, Known(d)
  PROVE  Watched'
<1>. USE DEF Known, To, buckets, tasks, open, refunds
<1>1. Listed'
  BY DEF TypeOK, Watched, Listed, Settled, Locked
<1>2. Locked'
  BY DEF TypeOK, Watched, Locked
<1>3. Settled'
  BY DEF TypeOK, Watched, Settled
<1>4. PausersKnew'
  BY DEF TypeOK, Watched, PausersKnew, Settled
<1>5. OpenKnow'
  BY DEF TypeOK, Watched, OpenKnow
<1>6. Arrived'
  BY DEF TypeOK, Watched, Arrived
<1>7. Inserting'
  BY DEF TypeOK, Watched, Inserting
<1>. QED BY <1>1, <1>2, <1>3, <1>4, <1>5, <1>6, <1>7 DEF Watched

LEMMA WatchedLook ==
  ASSUME TypeOK, Covered, Watched, NEW d \in Deliveries, Look(d)
  PROVE  Watched'
<1>. USE DEF Look, To, buckets, tasks, open, refunds, Paused
<1>1. Listed'
  BY DEF TypeOK, Watched, Listed, Settled, Locked
<1>2. Locked'
  BY DEF TypeOK, Watched, Locked
<1>3. Settled'
  BY DEF TypeOK, Watched, Settled
<1>4. PausersKnew'
  BY DEF TypeOK, Watched, PausersKnew, Settled
<1>5. OpenKnow'
  BY DEF TypeOK, Watched, OpenKnow
<1>6. Arrived'
  BY DEF TypeOK, Watched, Arrived
<1>7. Inserting'
  BY DEF TypeOK, Watched, Inserting
<1>. QED BY <1>1, <1>2, <1>3, <1>4, <1>5, <1>6, <1>7 DEF Watched

LEMMA WatchedUndo ==
  ASSUME TypeOK, Covered, Watched, NEW d \in Deliveries, Undo(d)
  PROVE  Watched'
<1>. USE DEF Undo, To, buckets, tasks, open, refunds
<1>1. Listed'
  BY DEF TypeOK, Watched, Listed, Settled, Locked
<1>2. Locked'
  BY DEF TypeOK, Watched, Locked
<1>3. Settled'
  BY DEF TypeOK, Watched, Settled
<1>4. PausersKnew'
  BY DEF TypeOK, Watched, PausersKnew, Settled
<1>5. OpenKnow'
  BY DEF TypeOK, Watched, OpenKnow
<1>6. Arrived'
  BY DEF TypeOK, Watched, Arrived
<1>7. Inserting'
  BY DEF TypeOK, Watched, Inserting
<1>. QED BY <1>1, <1>2, <1>3, <1>4, <1>5, <1>6, <1>7 DEF Watched

LEMMA WatchedLift ==
  ASSUME TypeOK, Covered, Watched, NEW d \in Deliveries, NEW t \in Tasks,
         Lift(d, t)
  PROVE  Watched'
<1>. USE DEF Lift, Unlocked, StillOut, buckets, tasks, open, refunds
<1>1. Listed'
  BY DEF TypeOK, Watched, Listed, Settled, Locked
<1>2. Locked'
  <2>1. \A e \in Deliveries : t \notin lifted[e]
    OBVIOUS
  <2>2. ASSUME NEW e \in Deliveries, NEW x \in lifted'[e]
        PROVE  \/ x \in lifted[e]
               \/ x = t /\ e = d /\ status[t] = "OUT_OF_CREDITS"
    BY <2>2 DEF TypeOK
  <2>. QED BY <2>1, <2>2 DEF Watched, Locked
<1>3. Settled'
  BY DEF TypeOK, Watched, Settled
<1>4. PausersKnew'
  BY DEF TypeOK, Watched, PausersKnew, Settled
<1>5. OpenKnow'
  BY DEF TypeOK, Watched, OpenKnow
<1>6. Arrived'
  BY DEF TypeOK, Watched, Arrived
<1>7. Inserting'
  BY DEF TypeOK, Watched, Inserting
<1>. QED BY <1>1, <1>2, <1>3, <1>4, <1>5, <1>6, <1>7 DEF Watched

LEMMA WatchedLand ==
  ASSUME TypeOK, Covered, Watched, NEW d \in Deliveries, Land(d)
  PROVE  Watched'
<1>. USE DEF Land, To, open, refunds
<1>1. Listed'
  BY DEF TypeOK, Watched, Listed, Settled, Locked
<1>2. Locked'
  BY DEF TypeOK, Watched, Locked
<1>3. Settled'
  BY DEF TypeOK, Watched, Settled
<1>4. PausersKnew'
  <2>1. ASSUME NEW t \in Tasks, status'[t] = "OUT_OF_CREDITS"
        PROVE  status[t] = "OUT_OF_CREDITS" /\ t \notin lifted[d]
    BY <2>1 DEF TypeOK
  <2>2. ASSUME NEW t \in Tasks, status'[t] = "OUT_OF_CREDITS"
        PROVE  pausedBy[t] \in crossed[d]
    BY <2>1, <2>2 DEF Watched, Listed
  <2>3. \A e \in Deliveries : crossed[e] \subseteq crossed'[e]
    BY DEF TypeOK
  <2>4. \A e \in Deliveries : step'[e] = "done" => e = d \/ step[e] = "done"
    BY DEF TypeOK
  <2>. QED BY <2>1, <2>2, <2>3, <2>4 DEF Watched, PausersKnew
<1>5. OpenKnow'
  BY DEF TypeOK, Watched, OpenKnow
<1>6. Arrived'
  BY DEF TypeOK, Watched, Arrived
<1>7. Inserting'
  BY DEF TypeOK, Watched, Inserting
<1>. QED BY <1>1, <1>2, <1>3, <1>4, <1>5, <1>6, <1>7 DEF Watched

LEMMA WatchedRefund ==
  ASSUME TypeOK, Covered, Watched, NEW s \in Syncs, Refund(s)
  PROVE  Watched'
<1>. USE DEF Refund, Unique, tasks, open, grants
<1>1. Listed'
  BY DEF TypeOK, Watched, Listed, Settled, Locked
<1>2. Locked'
  BY DEF TypeOK, Watched, Locked
<1>3. Settled'
  BY DEF TypeOK, Watched, Settled
<1>4. PausersKnew'
  BY DEF TypeOK, Watched, PausersKnew, Settled
<1>5. OpenKnow'
  BY DEF TypeOK, Watched, OpenKnow
<1>6. Arrived'
  BY DEF TypeOK, Watched, Arrived
<1>7. Inserting'
  BY DEF TypeOK, Watched, Inserting
<1>. QED BY <1>1, <1>2, <1>3, <1>4, <1>5, <1>6, <1>7 DEF Watched

LEMMA WatchedSightings ==
  ASSUME TypeOK, Covered, Watched, NEW s \in Syncs,
         Drop(s) \/ \E j \in Jobs : Sight(s, j)
  PROVE  Watched'
<1>. USE DEF Drop, Sight, buckets, tasks, open, grants
<1>1. Listed'
  BY DEF TypeOK, Watched, Listed, Settled, Locked
<1>2. Locked'
  BY DEF TypeOK, Watched, Locked
<1>3. Settled'
  BY DEF TypeOK, Watched, Settled
<1>4. PausersKnew'
  BY DEF TypeOK, Watched, PausersKnew, Settled
<1>5. OpenKnow'
  BY DEF TypeOK, Watched, OpenKnow
<1>6. Arrived'
  BY DEF TypeOK, Watched, Arrived
<1>7. Inserting'
  BY DEF TypeOK, Watched, Inserting
<1>. QED BY <1>1, <1>2, <1>3, <1>4, <1>5, <1>6, <1>7 DEF Watched

LEMMA WatchedStutter ==
  ASSUME TypeOK, Covered, Watched, UNCHANGED vars
  PROVE  Watched'
<1>. USE DEF vars, buckets, tasks, open, grants, refunds
<1>1. Listed'
  BY DEF TypeOK, Watched, Listed, Settled, Locked
<1>2. Locked'
  BY DEF TypeOK, Watched, Locked
<1>3. Settled'
  BY DEF TypeOK, Watched, Settled
<1>4. PausersKnew'
  BY DEF TypeOK, Watched, PausersKnew, Settled
<1>5. OpenKnow'
  BY DEF TypeOK, Watched, OpenKnow
<1>6. Arrived'
  BY DEF TypeOK, Watched, Arrived
<1>7. Inserting'
  BY DEF TypeOK, Watched, Inserting
<1>. QED BY <1>1, <1>2, <1>3, <1>4, <1>5, <1>6, <1>7 DEF Watched

LEMMA WatchedNext ==
  TypeOK /\ Covered /\ Watched /\ [Next]_vars => Watched'
BY WatchedOpen, WatchedPay, WatchedPause, WatchedAbort, WatchedBucketSteps,
   WatchedSetStatus, WatchedCheck, WatchedMint, WatchedKnown, WatchedLook,
   WatchedUndo, WatchedLift, WatchedLand, WatchedRefund, WatchedSightings,
   WatchedStutter DEF Next

LEMMA WatchedHolds == Spec => []Watched
BY WatchedInit, WatchedNext, CoveredHolds, PTL DEF Spec

\* markOutOfCreditsTasksAsToppedUp: a grant forgets a paused task only if it
\* crossed the charge that paused it.
THEOREM OnlyCrossedIsForgottenHolds == Spec => []OnlyCrossedIsForgotten
<1>1. Watched => OnlyCrossedIsForgotten
  BY DEF Watched, PausersKnew, OnlyCrossedIsForgotten, Forgotten
<1>. QED BY <1>1, WatchedHolds, PTL

\* Only Land revives, and what it revives is locked while out of credits.
LEMMA RevivingStep ==
  ASSUME TypeOK, Watched, Next, NEW t \in Tasks,
         status'[t] = "CREDITS_TOPPED_UP", status[t] # "CREDITS_TOPPED_UP"
  PROVE  /\ status[t] = "OUT_OF_CREDITS"
         /\ \E b \in Buckets : phase[b] = "none" /\ phase'[b] = "active"
<1>1. CASE \E d \in Deliveries : Land(d)
  <2>1. PICK d \in Deliveries : Land(d)
    BY <1>1
  <2>2. t \in lifted[d]
    BY <2>1 DEF Land
  <2>3. status[t] = "OUT_OF_CREDITS" /\ step[d] = "looked"
    BY <2>2 DEF Watched, Locked
  <2>4. PICK b \in missing[d] : phase[b] = "none"
    BY <2>3 DEF Watched, Inserting
  <2>5. b \in Buckets /\ phase'[b] = "active"
    BY <2>1, <2>4 DEF Land, TypeOK
  <2>. QED BY <2>3, <2>4, <2>5
<1>2. CASE \E c \in Charges : Pay(c)
  <2>1. PICK c \in Charges : Pay(c)
    BY <1>2
  <2>2. status'[t] \in {asks[c], status[t]}
    BY <2>1 DEF Pay
  <2>3. asks[c] # "CREDITS_TOPPED_UP"
    BY DEF TypeOK, Requested, Keep
  <2>. QED BY <2>2, <2>3
<1>3. CASE \E c \in Charges : Pause(c)
  BY <1>3 DEF Pause, TypeOK
<1>4. CASE \E x \in Tasks, s \in Requested : SetStatus(x, s)
  BY <1>4 DEF SetStatus, TypeOK, Requested
<1>5. ASSUME UNCHANGED status PROVE FALSE
  BY <1>5
<1>6. CASE \E c \in Charges : Open(c) \/ Abort(c)
  BY <1>5, <1>6 DEF Open, FallShort, Prepare, Read, Abort, tasks
<1>7. CASE \E b \in Buckets : Activate(b) \/ Expire(b)
  BY <1>5, <1>7 DEF Activate, Expire, tasks
<1>8. CASE \E d \in Deliveries :
             \/ Check(d) \/ Mint(d) \/ Known(d) \/ Look(d) \/ Undo(d)
             \/ \E x \in Tasks : Lift(d, x)
  BY <1>5, <1>8 DEF Check, Mint, Known, Look, Undo, Lift, tasks
<1>9. CASE \E s \in Syncs :
             Refund(s) \/ Drop(s) \/ \E j \in Jobs : Sight(s, j)
  BY <1>5, <1>9 DEF Refund, Drop, Sight, tasks
<1>. QED
  BY <1>1, <1>2, <1>3, <1>4, <1>6, <1>7, <1>8, <1>9 DEF Next

\* A task is revived only while it is out of credits, and only with credits
\* that arrive in the same transaction.
THEOREM OnlyPausedIsRevivedHolds == Spec => OnlyPausedIsRevived
<1>. DEFINE A ==
  \A t \in Tasks :
    status'[t] = "CREDITS_TOPPED_UP" /\ status[t] # "CREDITS_TOPPED_UP" =>
      /\ status[t] = "OUT_OF_CREDITS"
      /\ \E b \in Buckets : phase[b] = "none" /\ phase'[b] = "active"
<1>1. TypeOK /\ Watched /\ [Next]_vars => [A]_vars
  BY RevivingStep
<1>2. Spec => [][A]_vars
  BY <1>1, CoveredHolds, WatchedHolds, PTL DEF Spec
<1>. QED BY <1>2 DEF OnlyPausedIsRevived

-----------------------------------------------------------------------------
(* Sums over finite sets.                                                  *)

\* What holds of a subset of a finite set whenever it holds of the subset
\* less any one element, holds of all: induction, with a set of subsets in the
\* place of the predicate.
LEMMA SubsetInduction ==
  ASSUME NEW S, IsFiniteSet(S), NEW G,
         \A T \in SUBSET S : (\A x \in T : T \ {x} \in G) => T \in G
  PROVE  \A T \in SUBSET S : T \in G
<1>. DEFINE Sizes == {Cardinality(T) : T \in (SUBSET S) \ G}
<1>1. SUFFICES ASSUME NEW R \in (SUBSET S) \ G PROVE FALSE
  OBVIOUS
<1>2. \A T \in SUBSET S : IsFiniteSet(T) /\ Cardinality(T) \in Nat
  BY FS_Subset, FS_CardinalityType
<1>3. Sizes \in SUBSET Nat /\ Cardinality(R) \in Sizes
  BY <1>2
<1>4. PICK n \in Sizes : \A m \in Sizes : ~(<<m, n>> \in OpToRel(<, Nat))
  <2>. HIDE DEF Sizes
  <2>. QED BY <1>3, NatLessThanWellFounded, WFMin
<1>5. PICK T \in (SUBSET S) \ G : n = Cardinality(T)
  BY <1>4
<1>6. PICK x \in T : T \ {x} \notin G
  BY <1>5
<1>7. T \ {x} \in (SUBSET S) \ G
  BY <1>5, <1>6
<1>8. Cardinality(T \ {x}) \in Sizes
  BY <1>7
<1>9. Cardinality(T \ {x}) = n - 1 /\ n \in Nat /\ n - 1 \in Nat
  <2>1. IsFiniteSet(T) /\ x \in T /\ n = Cardinality(T) /\ n \in Nat
    BY <1>2, <1>5, <1>6
  <2>2. Cardinality(T \ {x}) \in Nat
    BY <1>2, <1>7
  <2>3. Cardinality(T \ {x}) = Cardinality(T) - 1
    BY <2>1, FS_RemoveElement
  <2>. QED BY <2>1, <2>2, <2>3
<1>. HIDE DEF Sizes
<1>10. <<n - 1, n>> \in OpToRel(<, Nat)
  BY <1>9 DEF OpToRel
<1>. QED BY <1>4, <1>8, <1>9, <1>10

\* The function that a sum over S is computed with: TLAPS reads its recursive
\* definition as a choice, so that there is one, and only one, is to be shown.
Pick(s) == CHOOSE x \in s : TRUE
IsTable(t, f, S) ==
  t = [s \in SUBSET S |->
         IF s = {} THEN 0 ELSE f[Pick(s)] + t[s \ {Pick(s)}]]
Table(f, S) == CHOOSE t : IsTable(t, f, S)

LEMMA SumIsTable ==
  ASSUME NEW f, NEW S
  PROVE  SumFunctionOnSet(f, S) = Table(f, S)[S]
BY DEF SumFunctionOnSet, FoldFunctionOnSet, MapThenFoldSet, Table, IsTable,
  Pick

LEMMA TableAt ==
  ASSUME NEW f, NEW S, NEW t, IsTable(t, f, S), NEW s \in SUBSET S
  PROVE  t[s] = IF s = {} THEN 0 ELSE f[Pick(s)] + t[s \ {Pick(s)}]
<1>. DEFINE g == [r \in SUBSET S |->
               IF r = {} THEN 0 ELSE f[Pick(r)] + t[r \ {Pick(r)}]]
<1>1. t = g
  BY DEF IsTable
<1>2. g[s] = IF s = {} THEN 0 ELSE f[Pick(s)] + t[s \ {Pick(s)}]
  OBVIOUS
<1>. HIDE DEF g
<1>. QED BY <1>1, <1>2

LEMMA PickIn == ASSUME NEW s, s # {} PROVE Pick(s) \in s
BY DEF Pick

LEMMA TablesAgree ==
  ASSUME NEW f, NEW S, NEW R, NEW t, NEW u, IsTable(t, f, S), IsTable(u, f, R),
         NEW Q, IsFiniteSet(Q), Q \subseteq S, Q \subseteq R
  PROVE  t[Q] = u[Q]
<1>. DEFINE G == {s \in SUBSET Q : t[s] = u[s]}
<1>1. ASSUME NEW T \in SUBSET Q, \A x \in T : T \ {x} \in G PROVE T \in G
  <2>1. /\ t[T] = IF T = {} THEN 0 ELSE f[Pick(T)] + t[T \ {Pick(T)}]
        /\ u[T] = IF T = {} THEN 0 ELSE f[Pick(T)] + u[T \ {Pick(T)}]
    BY TableAt
  <2>. QED BY <1>1, <2>1, PickIn
<1>2. \A T \in SUBSET Q : T \in G
  <2>. HIDE DEF G
  <2>. QED BY <1>1, SubsetInduction
<1>3. Q \in G
  BY <1>2
<1>. QED BY <1>3

LEMMA TableExists ==
  ASSUME NEW f, NEW S, IsFiniteSet(S)
  PROVE  IsTable(Table(f, S), f, S)
<1>. DEFINE G == {s \in SUBSET S :
               \A r \in SUBSET s : IsTable(Table(f, r), f, r)}
<1>1. ASSUME NEW T \in SUBSET S, \A x \in T : T \ {x} \in G PROVE T \in G
  <2>1. ASSUME NEW r \in SUBSET T, r # T PROVE IsTable(Table(f, r), f, r)
    <3>1. PICK x \in T : r \subseteq T \ {x}
      BY <2>1
    <3>. QED BY <1>1, <3>1
  <2>. DEFINE V(r) == Table(f, r)[r]
              g == [r \in SUBSET T |->
                      IF r = {} THEN 0 ELSE f[Pick(r)] + V(r \ {Pick(r)})]
  <2>2. ASSUME NEW r \in SUBSET T, r # T PROVE g[r] = V(r)
    <3>1. V(r) = IF r = {} THEN 0
                 ELSE f[Pick(r)] + Table(f, r)[r \ {Pick(r)}]
      BY <2>1, <2>2, TableAt
    <3>2. ASSUME r # {} PROVE Table(f, r)[r \ {Pick(r)}] = V(r \ {Pick(r)})
      <4>1. /\ r \ {Pick(r)} \in SUBSET T /\ r \ {Pick(r)} # T
            /\ IsFiniteSet(r \ {Pick(r)})
        BY <2>2, <3>2, PickIn, FS_Subset
      <4>2. /\ IsTable(Table(f, r), f, r)
            /\ IsTable(Table(f, r \ {Pick(r)}), f, r \ {Pick(r)})
        BY <2>1, <2>2, <4>1
      <4>. QED BY <4>1, <4>2, TablesAgree
    <3>3. g[r] = IF r = {} THEN 0 ELSE f[Pick(r)] + V(r \ {Pick(r)})
      OBVIOUS
    <3>. HIDE DEF g, V
    <3>. QED BY <3>1, <3>2, <3>3
  <2>3. IsTable(g, f, T)
    <3>1. ASSUME NEW r \in SUBSET T, r # {}
          PROVE  V(r \ {Pick(r)}) = g[r \ {Pick(r)}]
      <4>1. r \ {Pick(r)} \in SUBSET T /\ r \ {Pick(r)} # T
        BY <3>1, PickIn
      <4>. HIDE DEF g, V
      <4>. QED BY <2>2, <4>1
    <3>2. g = [r \in SUBSET T |->
                 IF r = {} THEN 0 ELSE f[Pick(r)] + g[r \ {Pick(r)}]]
      BY <3>1
    <3>. HIDE DEF g
    <3>. QED BY <3>2 DEF IsTable
  <2>4. IsTable(Table(f, T), f, T)
    <3>. HIDE DEF g
    <3>. QED BY <2>3 DEF Table
  <2>. QED BY <2>1, <2>4
<1>2. S \in G
  <2>. HIDE DEF G
  <2>. QED BY <1>1, SubsetInduction
<1>. QED BY <1>2

LEMMA SumStep ==
  ASSUME NEW f, NEW S, IsFiniteSet(S)
  PROVE  SumFunctionOnSet(f, S) =
           IF S = {} THEN 0
           ELSE f[Pick(S)] + SumFunctionOnSet(f, S \ {Pick(S)})
<1>1. IsTable(Table(f, S), f, S)
  BY TableExists
<1>2. IsFiniteSet(S \ {Pick(S)})
  BY FS_Subset
<1>3. IsTable(Table(f, S \ {Pick(S)}), f, S \ {Pick(S)})
  BY <1>2, TableExists
<1>4. Table(f, S)[S \ {Pick(S)}] = Table(f, S \ {Pick(S)})[S \ {Pick(S)}]
  BY <1>1, <1>2, <1>3, TablesAgree
<1>5. Table(f, S)[S] = IF S = {} THEN 0
                       ELSE f[Pick(S)] + Table(f, S)[S \ {Pick(S)}]
  BY <1>1, TableAt
<1>. QED BY <1>4, <1>5, SumIsTable

Sum(f, S) == SumFunctionOnSet(f, S)

LEMMA SumEmpty == ASSUME NEW f PROVE Sum(f, {}) = 0
BY SumStep, FS_EmptySet DEF Sum

LEMMA SumType ==
  ASSUME NEW f, NEW S, IsFiniteSet(S), \A x \in S : f[x] \in Int
  PROVE  Sum(f, S) \in Int
<1>. DEFINE G == {T \in SUBSET S : Sum(f, T) \in Int}
<1>1. ASSUME NEW T \in SUBSET S, \A x \in T : T \ {x} \in G PROVE T \in G
  <2>1. CASE T = {}
    BY <2>1, SumEmpty
  <2>2. CASE T # {}
    <3>1. Pick(T) \in T /\ IsFiniteSet(T)
      BY <2>2, PickIn, FS_Subset
    <3>2. Sum(f, T) = f[Pick(T)] + Sum(f, T \ {Pick(T)})
      BY <2>2, <3>1, SumStep DEF Sum
    <3>. QED BY <1>1, <3>1, <3>2
  <2>. QED BY <2>1, <2>2
<1>2. \A T \in SUBSET S : T \in G
  <2>. HIDE DEF G
  <2>. QED BY <1>1, SubsetInduction
<1>3. S \in G
  BY <1>2
<1>. QED BY <1>3

\* The order in which a sum is computed does not matter.
LEMMA SumRemove ==
  ASSUME NEW f, NEW S, IsFiniteSet(S), \A x \in S : f[x] \in Int
  PROVE  \A x \in S : Sum(f, S) = f[x] + Sum(f, S \ {x})
<1>. DEFINE G == {T \in SUBSET S :
               \A x \in T : Sum(f, T) = f[x] + Sum(f, T \ {x})}
<1>0. \A T \in SUBSET S : IsFiniteSet(T) /\ Sum(f, T) \in Int
  BY FS_Subset, SumType
<1>1. ASSUME NEW T \in SUBSET S, \A x \in T : T \ {x} \in G PROVE T \in G
  <2>. SUFFICES ASSUME NEW x \in T
                PROVE  Sum(f, T) = f[x] + Sum(f, T \ {x})
    OBVIOUS
  <2>. DEFINE y == Pick(T)
  <2>1. y \in T
    BY T # {}, PickIn
  <2>2. Sum(f, T) = f[y] + Sum(f, T \ {y})
    BY <1>0, <2>1, SumStep DEF Sum
  <2>3. CASE x = y
    BY <2>2, <2>3
  <2>4. CASE x # y
    <3>1. T \ {x} \in G /\ T \ {y} \in G /\ x \in T \ {y} /\ y \in T \ {x}
      BY <1>1, <2>1, <2>4
    <3>2. /\ Sum(f, T \ {y}) = f[x] + Sum(f, (T \ {y}) \ {x})
          /\ Sum(f, T \ {x}) = f[y] + Sum(f, (T \ {x}) \ {y})
      BY <3>1
    <3>3. (T \ {y}) \ {x} = (T \ {x}) \ {y}
      OBVIOUS
    <3>4. /\ Sum(f, (T \ {x}) \ {y}) \in Int /\ f[x] \in Int
          /\ f[y] \in Int
      BY <1>0, <2>1
    <3>5. /\ Sum(f, T) = f[y] + (f[x] + Sum(f, (T \ {x}) \ {y}))
          /\ Sum(f, T \ {x}) = f[y] + Sum(f, (T \ {x}) \ {y})
      BY <2>2, <3>2, <3>3
    <3>. HIDE DEF y, G
    <3>. QED BY <3>4, <3>5
  <2>. QED BY <2>3, <2>4
<1>2. \A T \in SUBSET S : T \in G
  <2>. HIDE DEF G
  <2>. QED BY <1>1, SubsetInduction
<1>3. S \in G
  BY <1>2
<1>. QED BY <1>3

\* Sums of sums.
LEMMA SumCombined ==
  ASSUME NEW f, NEW g, NEW h, NEW S, IsFiniteSet(S),
         \A x \in S : f[x] \in Int /\ g[x] \in Int /\ h[x] = f[x] + g[x]
  PROVE  Sum(h, S) = Sum(f, S) + Sum(g, S)
<1>. DEFINE G == {T \in SUBSET S : Sum(h, T) = Sum(f, T) + Sum(g, T)}
<1>1. ASSUME NEW T \in SUBSET S, \A x \in T : T \ {x} \in G PROVE T \in G
  <2>1. CASE T = {}
    BY <2>1, SumEmpty
  <2>2. CASE T # {}
    <3>1. PICK x \in T : TRUE
      BY <2>2
    <3>2. IsFiniteSet(T) /\ IsFiniteSet(T \ {x})
      BY FS_Subset, T \ {x} \in SUBSET S
    <3>3. \A y \in T : f[y] \in Int /\ g[y] \in Int /\ h[y] \in Int
      OBVIOUS
    <3>4. /\ Sum(f, T) = f[x] + Sum(f, T \ {x})
          /\ Sum(g, T) = g[x] + Sum(g, T \ {x})
          /\ Sum(h, T) = h[x] + Sum(h, T \ {x})
      BY <3>2, <3>3, SumRemove
    <3>5. /\ Sum(f, T \ {x}) \in Int /\ Sum(g, T \ {x}) \in Int
          /\ f[x] \in Int /\ g[x] \in Int /\ h[x] = f[x] + g[x]
      BY <3>2, <3>3, SumType
    <3>6. Sum(h, T \ {x}) = Sum(f, T \ {x}) + Sum(g, T \ {x})
      BY <1>1
    <3>7. Sum(h, T) = Sum(f, T) + Sum(g, T)
      BY <3>4, <3>5, <3>6
    <3>. QED BY <3>7
  <2>. QED BY <2>1, <2>2
<1>2. \A T \in SUBSET S : T \in G
  <2>. HIDE DEF G
  <2>. QED BY <1>1, SubsetInduction
<1>3. S \in G
  BY <1>2
<1>. QED BY <1>3

\* What is zero outside A may be summed over A.
LEMMA SumWithin ==
  ASSUME NEW f, NEW h, NEW S, IsFiniteSet(S), NEW A \in SUBSET S,
         \A x \in S : h[x] = IF x \in A THEN f[x] ELSE 0,
         \A x \in A : f[x] \in Int
  PROVE  Sum(h, S) = Sum(f, A)
<1>. DEFINE G == {T \in SUBSET S : Sum(h, T) = Sum(f, T \cap A)}
<1>1. ASSUME NEW T \in SUBSET S, \A x \in T : T \ {x} \in G PROVE T \in G
  <2>1. CASE T = {}
    <3>1. T \cap A = {}
      BY <2>1
    <3>. QED BY <2>1, <3>1, SumEmpty
  <2>2. CASE T # {}
    <3>1. PICK x \in T : TRUE
      BY <2>2
    <3>2. IsFiniteSet(T) /\ IsFiniteSet(T \ {x}) /\ IsFiniteSet(T \cap A)
      BY FS_Subset, T \ {x} \in SUBSET S, T \cap A \in SUBSET S
    <3>3. \A y \in T : h[y] \in Int
      OBVIOUS
    <3>4. Sum(h, T) = h[x] + Sum(h, T \ {x}) /\ Sum(h, T \ {x}) \in Int
      BY <3>2, <3>3, SumRemove, SumType
    <3>5. Sum(h, T \ {x}) = Sum(f, (T \ {x}) \cap A)
      BY <1>1
    <3>6. CASE x \in A
      <4>1. Sum(f, T \cap A) = f[x] + Sum(f, (T \cap A) \ {x})
        BY <3>2, <3>6, SumRemove
      <4>2. (T \cap A) \ {x} = (T \ {x}) \cap A
        OBVIOUS
      <4>3. h[x] = f[x]
        BY <3>6
      <4>. QED BY <3>4, <3>5, <4>1, <4>2, <4>3
    <3>7. CASE x \notin A
      <4>1. (T \ {x}) \cap A = T \cap A /\ h[x] = 0
        BY <3>7
      <4>2. Sum(h, T) = Sum(h, T \ {x})
        BY <3>4, <4>1
      <4>. QED BY <3>5, <4>1, <4>2
    <3>. QED BY <3>6, <3>7
  <2>. QED BY <2>1, <2>2
<1>2. \A T \in SUBSET S : T \in G
  <2>. HIDE DEF G
  <2>. QED BY <1>1, SubsetInduction
<1>3. S \in G /\ S \cap A = A
  BY <1>2
<1>. QED BY <1>3

\* The sum of what is not negative is not negative.
LEMMA SumNat ==
  ASSUME NEW f, NEW S, IsFiniteSet(S), \A x \in S : f[x] \in Nat
  PROVE  Sum(f, S) \in Nat
<1>. DEFINE G == {T \in SUBSET S : Sum(f, T) \in Nat}
<1>1. ASSUME NEW T \in SUBSET S, \A x \in T : T \ {x} \in G PROVE T \in G
  <2>1. CASE T = {}
    BY <2>1, SumEmpty
  <2>2. CASE T # {}
    <3>1. PICK x \in T : TRUE
      BY <2>2
    <3>2. IsFiniteSet(T) /\ \A y \in T : f[y] \in Int
      BY FS_Subset
    <3>3. Sum(f, T) = f[x] + Sum(f, T \ {x})
      BY <3>2, SumRemove
    <3>. QED BY <1>1, <3>3
  <2>. QED BY <2>1, <2>2
<1>2. \A T \in SUBSET S : T \in G
  <2>. HIDE DEF G
  <2>. QED BY <1>1, SubsetInduction
<1>3. S \in G
  BY <1>2
<1>. QED BY <1>3

-----------------------------------------------------------------------------
(* What a charge has planned covers its price, first bucket first.         *)

LEMMA UpwardInduction ==
  ASSUME NEW m \in Nat, NEW n \in Nat, NEW G, m \in G,
         \A k \in m .. n : k \in G /\ k < n => k + 1 \in G
  PROVE  \A k \in m .. n : k \in G
<1>. DEFINE Bad == {k \in m .. n : k \notin G}
<1>1. SUFFICES ASSUME Bad # {} PROVE FALSE
  OBVIOUS
<1>2. Bad \in SUBSET Nat
  OBVIOUS
<1>3. PICK k \in Bad : \A i \in Bad : ~(<<i, k>> \in OpToRel(<, Nat))
  <2>. HIDE DEF Bad
  <2>. QED BY <1>1, <1>2, NatLessThanWellFounded, WFMin
<1>4. k # m /\ k - 1 \in m .. n /\ k - 1 < n
  OBVIOUS
<1>5. k - 1 \in Bad
  BY <1>4
<1>6. <<k - 1, k>> \in OpToRel(<, Nat)
  BY <1>4 DEF OpToRel
<1>. QED BY <1>3, <1>5, <1>6

\* The loop: what remains to be covered never grows, and what is drawn from
\* the first n buckets is what no longer remains.
LEMMA RemainingFalls ==
  ASSUME TypeOK, Covered, NEW c \in Charges, NEW rem \in Remaining(c),
         NEW m \in 0 .. LastBucket
  PROVE  \A n \in m .. LastBucket : rem[n] <= rem[m]
<1>. DEFINE G == {n \in m .. LastBucket : rem[n] <= rem[m]}
<1>1. /\ rem \in [0 .. LastBucket -> 0 .. Price[c]] /\ Price[c] \in Nat
      /\ LastBucket \in Nat /\ m \in Nat
  BY BucketAssumption, ChargeAssumption DEF Remaining
<1>2. m \in G
  BY <1>1
<1>3. ASSUME NEW n \in m .. LastBucket, n \in G, n < LastBucket
      PROVE  n + 1 \in G
  <2>1. n + 1 \in Buckets /\ n + 1 \in m .. LastBucket /\ (n + 1) - 1 = n
    BY <1>1, <1>3 DEF Buckets
  <2>2. Draws(rem)[n + 1] = rem[n] - rem[n + 1]
    BY <2>1 DEF Draws
  <2>3. rem[n] - rem[n + 1] \in Nat
    BY <2>1, <2>2, DrawsAreCovered
  <2>4. rem[n] \in Nat /\ rem[n + 1] \in Nat /\ rem[m] \in Nat
    BY <1>1, <2>1
  <2>. QED BY <1>3, <2>1, <2>3, <2>4
<1>4. \A n \in m .. LastBucket : n \in G
  <2>. HIDE DEF G
  <2>. QED BY <1>1, <1>2, <1>3, UpwardInduction
<1>. QED BY <1>4

LEMMA DrawsAddUp ==
  ASSUME TypeOK, Covered, NEW c \in Charges, NEW rem \in Remaining(c)
  PROVE  Sum(Draws(rem), Buckets) = Price[c] - rem[LastBucket]
<1>. DEFINE G == {n \in 0 .. LastBucket :
                    Sum(Draws(rem), 1 .. n) = rem[0] - rem[n]}
<1>1. /\ rem \in [0 .. LastBucket -> 0 .. Price[c]] /\ Price[c] \in Nat
      /\ rem[0] = Price[c] /\ LastBucket \in Nat /\ 0 \in Nat
  BY BucketAssumption, ChargeAssumption DEF Remaining
<1>2. 0 \in G
  <2>1. 1 .. 0 = {}
    OBVIOUS
  <2>. QED BY <1>1, <2>1, SumEmpty
<1>3. ASSUME NEW n \in 0 .. LastBucket, n \in G, n < LastBucket
      PROVE  n + 1 \in G
  <2>1. /\ n + 1 \in Buckets /\ n + 1 \in 0 .. LastBucket
        /\ (n + 1) - 1 = n /\ 1 .. (n + 1) \in SUBSET Buckets
        /\ n + 1 \in 1 .. (n + 1) /\ (1 .. (n + 1)) \ {n + 1} = 1 .. n
    BY <1>1, <1>3 DEF Buckets
  <2>2. Draws(rem)[n + 1] = rem[n] - rem[n + 1]
    BY <2>1 DEF Draws
  <2>3. \A b \in 1 .. (n + 1) : Draws(rem)[b] \in Int
    BY <2>1, DrawsAreCovered
  <2>4. IsFiniteSet(1 .. (n + 1))
    BY <1>1, FS_Interval
  <2>5. Sum(Draws(rem), 1 .. (n + 1)) =
          Draws(rem)[n + 1] + Sum(Draws(rem), 1 .. n)
    BY <2>1, <2>3, <2>4, SumRemove
  <2>6. Sum(Draws(rem), 1 .. n) = rem[0] - rem[n]
    BY <1>3
  <2>7. rem[n] \in Nat /\ rem[n + 1] \in Nat /\ rem[0] \in Nat
    BY <1>1, <2>1
  <2>8. Sum(Draws(rem), 1 .. (n + 1)) = rem[0] - rem[n + 1]
    BY <2>2, <2>5, <2>6, <2>7
  <2>. QED BY <2>1, <2>8
<1>4. \A n \in 0 .. LastBucket : n \in G
  <2>. HIDE DEF G
  <2>. QED BY <1>1, <1>2, <1>3, UpwardInduction
<1>5. LastBucket \in G
  BY <1>1, <1>4
<1>. QED BY <1>1, <1>5 DEF Buckets

\* When something is drawn from a bucket, all is drawn from those before it.
LEMMA DrawsInOrder ==
  ASSUME TypeOK, Covered, NEW c \in Charges, NEW rem \in Remaining(c),
         NEW b \in Buckets, NEW e \in Buckets, Draws(rem)[b] > 0, e < b,
         phase[e] = "active"
  PROVE  Draws(rem)[e] = amount[e] - used[e]
<1>1. /\ rem \in [0 .. LastBucket -> 0 .. Price[c]] /\ Price[c] \in Nat
      /\ \A x \in Buckets : rem[x] = rem[x - 1] - Take(x, rem[x - 1])
  BY ChargeAssumption DEF Remaining
<1>2. /\ {b, b - 1, e, e - 1} \subseteq 0 .. LastBucket
      /\ b - 1 \in e .. LastBucket
  BY BucketAssumption DEF Buckets
<1>3. {rem[b], rem[b - 1], rem[e], rem[e - 1]} \subseteq Nat
  BY <1>1, <1>2
<1>4. rem[b - 1] > 0
  BY <1>3 DEF Draws
<1>5. rem[e] > 0
  BY <1>2, <1>3, <1>4, RemainingFalls
<1>6. Available(e) = amount[e] - used[e] /\ Available(e) \in Int
  BY DEF Available, TypeOK
<1>7. rem[e] = rem[e - 1] - Take(e, rem[e - 1])
  BY <1>1
<1>8. Take(e, rem[e - 1]) = Available(e)
  BY <1>3, <1>5, <1>6, <1>7 DEF Take
<1>9. Draws(rem)[e] = rem[e - 1] - rem[e]
  BY DEF Draws
<1>. QED BY <1>3, <1>6, <1>7, <1>8, <1>9

-----------------------------------------------------------------------------
(* What stands in the books.                                               *)

\* A grant adds only what it is for; a charge takes its price; a job is given
\* back only if it was paid, and leaves its bucket behind.
Entered ==
  /\ \A d \in Deliveries : missing[d] \subseteq Refs[d]
  /\ \A c \in Charges : stage[c] = "open" /\ asks[c] # "OUT_OF_CREDITS" =>
       Sum(plan[c], Buckets) = Price[c]
  /\ \A j \in refunded : stage[j] = "paid" /\ phase[RefundOf[j]] # "none"
  /\ \A s \in Syncs : sighted[s] # NoJob => stage[sighted[s]] = "paid"

LEMMA EnteredInit == Init => Entered
BY DEF Init, Entered

\* The steps of grants, tasks and buckets leave the charges alone, and no
\* bucket that exists ceases to.
LEMMA EnteredKept ==
  ASSUME TypeOK, Entered, UNCHANGED <<open, refunds>>,
         \A d \in Deliveries :
           missing'[d] = missing[d] \/ missing'[d] \subseteq Refs[d],
         \A b \in Buckets : phase[b] # "none" => phase'[b] # "none"
  PROVE  Entered'
<1>1. \A d \in Deliveries : missing'[d] \subseteq Refs[d]
  BY DEF Entered
<1>2. \A j \in Jobs : RefundOf[j] \in Buckets
  BY ChargeAssumption
<1>3. UNCHANGED <<stage, plan, asks, refunded, sighted>>
  BY DEF open, refunds
<1>. QED BY <1>1, <1>2, <1>3 DEF Entered, TypeOK

LEMMA EnteredNext ==
  ASSUME TypeOK, Covered, Watched, Entered, [Next]_vars
  PROVE  Entered'
<1>0. \A j \in Jobs : j \in Charges /\ RefundOf[j] \in Buckets
  BY ChargeAssumption DEF Charges
<1>1. ASSUME NEW b \in Buckets, Activate(b) \/ Expire(b) PROVE Entered'
  <2>1. /\ UNCHANGED <<open, refunds, missing>>
        /\ \A x \in Buckets : phase[x] # "none" => phase'[x] # "none"
    BY <1>1 DEF Activate, Expire, grants, TypeOK
  <2>. QED BY <2>1, EnteredKept
<1>2. ASSUME NEW c \in Charges, Open(c) PROVE Entered'
  <2>1. /\ stage[c] = "idle" /\ stage' = [stage EXCEPT ![c] = "open"]
        /\ UNCHANGED <<phase, missing, refunded, sighted>>
    BY <1>2, OpenReads DEF buckets, grants, refunds, Open, FallShort, Prepare,
       Read
  <2>2. /\ \A o \in Charges \ {c} : plan'[o] = plan[o] /\ asks'[o] = asks[o]
        /\ asks'[c] # "OUT_OF_CREDITS" => Sum(plan'[c], Buckets) = Price[c]
    <3>1. PICK rem \in Remaining(c) :
            \/ FallShort(c, rem)
            \/ \E want \in Requested \cup {Keep} : Prepare(c, rem, want)
      BY <1>2 DEF Open
    <3>2. CASE FallShort(c, rem)
      BY <3>2 DEF FallShort, Read, TypeOK
    <3>3. ASSUME NEW want \in Requested \cup {Keep}, Prepare(c, rem, want)
          PROVE  <2>2!1 /\ plan'[c] = Draws(rem) /\ Covers(rem)
      BY <3>3 DEF Prepare, Read, TypeOK
    <3>4. ASSUME Covers(rem) PROVE Sum(Draws(rem), Buckets) = Price[c]
      <4>1. Price[c] \in Nat
        BY ChargeAssumption
      <4>. QED BY <3>4, <4>1, DrawsAddUp DEF Covers
    <3>. QED BY <3>1, <3>2, <3>3, <3>4
  <2>. QED BY <1>0, <2>1, <2>2 DEF Entered, TypeOK
<1>3. ASSUME NEW c \in Charges, Pay(c) \/ Pause(c) \/ Abort(c) PROVE Entered'
  <2>1. /\ stage[c] = "open" /\ UNCHANGED <<phase, missing, refunded, sighted>>
        /\ stage'[c] # "open"
        /\ \A o \in Charges \ {c} : /\ stage'[o] = stage[o]
                                    /\ plan'[o] = plan[o] /\ asks'[o] = asks[o]
    BY <1>3 DEF Pay, Pause, Abort, MayCommit, Forget, buckets, grants, refunds,
       TypeOK
  <2>2. \A j \in Jobs : stage[j] = "paid" => stage'[j] = "paid"
    BY <1>0, <2>1
  <2>. QED BY <1>0, <2>1, <2>2 DEF Entered, TypeOK
<1>4. ASSUME NEW t \in Tasks, NEW s \in Requested, SetStatus(t, s)
      PROVE  Entered'
  BY <1>4, EnteredKept DEF SetStatus, buckets, grants
<1>5. ASSUME NEW d \in Deliveries,
             \/ Check(d) \/ Mint(d) \/ Known(d) \/ Look(d) \/ Undo(d)
             \/ \E t \in Tasks : Lift(d, t)
      PROVE  Entered'
  <2>1. UNCHANGED <<open, refunds, phase>>
    BY <1>5 DEF Check, Mint, Known, Look, Undo, Lift, buckets
  <2>2. \A e \in Deliveries :
          missing'[e] = missing[e] \/ missing'[e] \subseteq Refs[e]
    BY <1>5 DEF Check, Mint, Known, Look, Undo, Lift, TypeOK
  <2>. QED BY <2>1, <2>2, EnteredKept
<1>6. ASSUME NEW d \in Deliveries, Land(d) PROVE Entered'
  <2>1. /\ UNCHANGED <<open, refunds, missing>>
        /\ \A b \in Buckets : phase[b] # "none" => phase'[b] # "none"
    BY <1>6 DEF Land
  <2>. QED BY <2>1, EnteredKept
<1>7. ASSUME NEW s \in Syncs, Refund(s) PROVE Entered'
  <2>. DEFINE j == sighted[s]
  <2>1. j \in Jobs /\ stage[j] = "paid"
    BY <1>7 DEF Refund, Entered, TypeOK
  <2>2. /\ UNCHANGED <<stage, plan, asks, missing>>
        /\ refunded' = refunded \cup {j}
        /\ sighted' = [sighted EXCEPT ![s] = NoJob]
        /\ phase' = [phase EXCEPT ![RefundOf[j]] = "active"]
    BY <1>7 DEF Refund, open, grants
  <2>. HIDE DEF j
  <2>. QED BY <1>0, <2>1, <2>2 DEF Entered, TypeOK
<1>8. ASSUME NEW s \in Syncs, Drop(s) \/ \E j \in Jobs : Sight(s, j)
      PROVE  Entered'
  BY <1>8 DEF Drop, Sight, buckets, open, grants, Entered, TypeOK
<1>9. CASE UNCHANGED vars
  BY <1>9 DEF vars, buckets, open, grants, refunds, Entered
<1>. QED BY <1>1, <1>2, <1>3, <1>4, <1>5, <1>6, <1>7, <1>8, <1>9 DEF Next

LEMMA EnteredHolds == Spec => []Entered
BY EnteredInit, EnteredNext, CoveredHolds, WatchedHolds, PTL DEF Spec

-----------------------------------------------------------------------------
(* The wallet implements CreditBalance.                                    *)

received == {b \in Opening \cup Granted : phase[b] # "none"}
charged == {c \in Charges : stage[c] = "paid"}

LEMMA TotalIsSum == \A S : Balance!Total(S) = Sum(Worth, S)
BY DEF Balance!Total, Sum, SumFunctionOnSet, Balance!SumFunctionOnSet,
  FoldFunctionOnSet, Balance!FoldFunctionOnSet, MapThenFoldSet,
  Balance!MapThenFoldSet

LEMMA BalanceInit == Init => Balance!Init
<1>. SUFFICES ASSUME Init PROVE Balance!Init
  OBVIOUS
<1>1. received = Opening
  <2>1. Granted \subseteq Buckets /\ Opening \subseteq Buckets
    BY BucketAssumption, DeliveryAssumption DEF Granted
  <2>. QED BY <2>1 DEF Init, received
<1>2. Sum(Held, Buckets) = Sum(Worth, Opening)
  <2>1. IsFiniteSet(Buckets) /\ Opening \in SUBSET Buckets
    BY BucketAssumption, FS_Interval DEF Buckets
  <2>2. \A b \in Buckets : Held[b] = IF b \in Opening THEN Worth[b] ELSE 0
    BY BucketAssumption DEF Init, Held, NoDraw
  <2>3. \A b \in Opening : Worth[b] \in Int
    BY BucketAssumption
  <2>. QED BY <2>1, <2>2, <2>3, SumWithin
<1>3. charged = {} /\ refunded = {}
  BY DEF Init, charged
<1>. QED BY <1>1, <1>2, <1>3, TotalIsSum
   DEF Balance!Init, received, charged, Sum

\* What a step that fits none of the actions leaves alone.
LEMMA BalanceKept ==
  ASSUME UNCHANGED <<amount, used, received, charged, refunded>>
  PROVE  UNCHANGED Balance!vars
BY DEF Balance!vars, Held, received, charged

LEMMA HeldType ==
  ASSUME TypeOK, NeverOverdrawn
  PROVE  /\ IsFiniteSet(Buckets)
         /\ \A b \in Buckets : Held[b] \in Nat /\ Held[b] = amount[b] - used[b]
         /\ Sum(Held, Buckets) \in Nat
<1>1. IsFiniteSet(Buckets)
  BY BucketAssumption, FS_Interval DEF Buckets
<1>2. \A b \in Buckets : Held[b] \in Nat /\ Held[b] = amount[b] - used[b]
  BY DEF TypeOK, NeverOverdrawn, Held
<1>. QED BY <1>1, <1>2, SumNat

\* A charge that commits takes its price, of credits that are there: the
\* balance it leaves is not negative.
LEMMA PayIsCharge ==
  ASSUME TypeOK, Covered, Entered, TypeOK', Covered', NEW c \in Charges, Pay(c)
  PROVE  Balance!Charge(c)
<1>1. /\ stage[c] = "open" /\ asks[c] # "OUT_OF_CREDITS"
      /\ stage' = [stage EXCEPT ![c] = "paid"]
      /\ used' = [b \in Buckets |-> used[b] + plan[c][b]]
      /\ UNCHANGED <<phase, amount, refunded>>
  BY DEF Pay, MayCommit, refunds
<1>2. c \notin charged /\ charged' = charged \cup {c} /\ received' = received
  BY <1>1 DEF charged, received, TypeOK
<1>3. \A b \in Buckets : /\ Held'[b] \in Int /\ plan[c][b] \in Int
                         /\ Held[b] = Held'[b] + plan[c][b]
  BY <1>1 DEF Held, TypeOK
<1>4. /\ IsFiniteSet(Buckets) /\ Sum(Held, Buckets) \in Nat
      /\ Sum(Held', Buckets) \in Nat
  <2>1. \A b \in Buckets : Held'[b] \in Nat
    BY HeldType DEF Covered, NeverOverdrawn, Held, TypeOK
  <2>. QED BY <2>1, HeldType, SumNat DEF Covered
<1>5. Sum(Held, Buckets) = Sum(Held', Buckets) + Sum(plan[c], Buckets)
  BY <1>3, <1>4, SumCombined
<1>6. Sum(plan[c], Buckets) = Price[c] /\ Price[c] \in Nat
  BY <1>1, ChargeAssumption DEF Entered
<1>7. /\ Price[c] <= Sum(Held, Buckets)
      /\ Sum(Held', Buckets) = Sum(Held, Buckets) - Price[c]
  BY <1>4, <1>5, <1>6
<1>. QED BY <1>1, <1>2, <1>7 DEF Balance!Charge, received, charged, Sum

\* A grant that lands is received: what it inserts is new, and is its own.
LEMMA LandIsReceive ==
  ASSUME TypeOK, Covered, Watched, Entered, NEW d \in Deliveries, Land(d)
  PROVE  \E S \in SUBSET (Opening \cup Granted) : Balance!Receive(S)
<1>0. PICK S : S = missing[d]
  OBVIOUS
<1>. DEFINE gain == [b \in Buckets |-> IF b \in S THEN Worth[b] ELSE 0]
<1>1. /\ step[d] = "looked" /\ UNCHANGED <<used, stage, refunded>>
      /\ phase' = [b \in Buckets |-> IF b \in S THEN "active" ELSE phase[b]]
      /\ amount' = [b \in Buckets |->
                      IF b \in S THEN amount[b] + Worth[b] ELSE amount[b]]
  BY <1>0 DEF Land, open, refunds
<1>2. /\ S \in SUBSET Granted /\ S \in SUBSET Buckets /\ S # {}
      /\ \A b \in S : phase[b] = "none"
  BY <1>0, <1>1 DEF Entered, Watched, Inserting, Granted, TypeOK
<1>3. /\ Granted \subseteq Buckets /\ Opening \subseteq Buckets
  BY BucketAssumption, DeliveryAssumption DEF Granted
<1>4. S \cap received = {} /\ received' = received \cup S
  BY <1>1, <1>2, <1>3 DEF received
<1>5. charged' = charged
  BY <1>1 DEF charged
<1>6. Sum(Held', Buckets) = Sum(Held, Buckets) + Sum(Worth, S)
  <2>1. \A b \in Buckets : /\ Held[b] \in Int /\ gain[b] \in Int
                           /\ Held'[b] = Held[b] + gain[b]
    BY <1>1, BucketAssumption DEF Held, TypeOK
  <2>2. IsFiniteSet(Buckets)
    BY HeldType DEF Covered
  <2>3. Sum(Held', Buckets) = Sum(Held, Buckets) + Sum(gain, Buckets)
    <3>. HIDE DEF gain
    <3>. QED BY <2>1, <2>2, SumCombined
  <2>4. \A b \in Buckets : gain[b] = IF b \in S THEN Worth[b] ELSE 0
    OBVIOUS
  <2>5. \A b \in S : Worth[b] \in Int
    BY <1>2, BucketAssumption
  <2>6. Sum(gain, Buckets) = Sum(Worth, S)
    <3>. HIDE DEF gain
    <3>. QED BY <1>2, <2>2, <2>4, <2>5, SumWithin
  <2>. QED BY <2>3, <2>6
<1>7. Balance!Receive(S)
  <2>. HIDE DEF gain
  <2>. QED BY <1>1, <1>2, <1>4, <1>5, <1>6, TotalIsSum
       DEF Balance!Receive, received, charged, Sum
<1>. QED BY <1>2, <1>7

\* A job that failed is given back once, because its bucket is unique.
LEMMA RefundIsGiveBack ==
  ASSUME TypeOK, Covered, Entered, NEW s \in Syncs, Refund(s)
  PROVE  \E j \in Charges : Balance!GiveBack(j)
<1>0. PICK j : j = sighted[s]
  OBVIOUS
<1>. DEFINE r == RefundOf[j]
            gain == [b \in Buckets |-> IF b = r THEN Price[j] ELSE 0]
<1>1. /\ j \in Jobs /\ stage[j] = "paid" /\ phase[r] = "none"
      /\ phase' = [phase EXCEPT ![r] = "active"]
      /\ amount' = [amount EXCEPT ![r] = amount[r] + Price[j]]
      /\ refunded' = refunded \cup {j}
      /\ UNCHANGED <<used, stage>>
  BY <1>0 DEF Refund, Unique, Entered, TypeOK, open
<1>2. /\ j \in Charges /\ r \in Buckets /\ r \notin Opening \cup Granted
      /\ Price[j] \in Nat /\ IsFiniteSet(Buckets)
  BY <1>1, ChargeAssumption, ReferenceAssumption, HeldType
     DEF Charges, Covered
<1>3. j \in (charged \cap Jobs) \ refunded
  BY <1>1, <1>2 DEF charged, Entered
<1>4. received' = received /\ charged' = charged
  <2>1. Opening \cup Granted \subseteq Buckets
    BY BucketAssumption, DeliveryAssumption DEF Granted
  <2>. HIDE DEF r
  <2>. QED BY <1>1, <1>2, <2>1 DEF received, charged, TypeOK
<1>5. Sum(Held', Buckets) = Sum(Held, Buckets) + Price[j]
  <2>. DEFINE fee == [b \in {r} |-> Price[j]]
  <2>1. \A b \in Buckets : /\ Held[b] \in Int /\ gain[b] \in Int
                           /\ Held'[b] = Held[b] + gain[b]
    <3>. HIDE DEF r
    <3>. QED BY <1>1, <1>2 DEF Held, TypeOK
  <2>2. Sum(Held', Buckets) = Sum(Held, Buckets) + Sum(gain, Buckets)
    <3>. HIDE DEF gain
    <3>. QED BY <1>2, <2>1, SumCombined
  <2>3. Sum(gain, Buckets) = Sum(fee, {r})
    <3>1. \A b \in Buckets : gain[b] = IF b \in {r} THEN fee[b] ELSE 0
      OBVIOUS
    <3>2. \A b \in {r} : fee[b] \in Int
      BY <1>2
    <3>3. {r} \in SUBSET Buckets
      BY <1>2
    <3>. HIDE DEF gain, fee, r
    <3>. QED BY <1>2, <3>1, <3>2, <3>3, SumWithin
  <2>4. Sum(fee, {r}) = Price[j]
    <3>1. IsFiniteSet({r}) /\ {r} \ {r} = {} /\ fee[r] = Price[j]
      BY FS_Singleton
    <3>2. \A b \in {r} : fee[b] \in Int
      BY <1>2
    <3>3. Sum(fee, {r}) = fee[r] + Sum(fee, {})
      <4>. HIDE DEF fee, r
      <4>. QED BY <3>1, <3>2, SumRemove
    <3>. QED BY <1>2, <3>1, <3>3, SumEmpty
  <2>. QED BY <2>2, <2>3, <2>4
<1>6. Balance!GiveBack(j)
  BY <1>1, <1>3, <1>4, <1>5 DEF Balance!GiveBack, received, charged, Sum
<1>. QED BY <1>2, <1>6

\* Every step of the wallet is one of CreditBalance, or none.
LEMMA BalanceStep ==
  ASSUME TypeOK, Covered, Watched, Entered, TypeOK', Covered', [Next]_vars
  PROVE  [Balance!Next]_(Balance!vars)
<1>. SUFFICES ASSUME ~ UNCHANGED Balance!vars PROVE Balance!Next
  BY DEF Balance!vars
<1>0. ~ UNCHANGED <<amount, used, received, charged, refunded>>
  BY BalanceKept
<1>1. ASSUME NEW b \in Buckets, Activate(b) \/ Expire(b) PROVE FALSE
  <2>1. /\ UNCHANGED <<amount, used, stage, refunded>>
        /\ \A x \in Buckets : phase'[x] = "none" <=> phase[x] = "none"
    BY <1>1 DEF Activate, Expire, open, refunds, TypeOK
  <2>2. Opening \cup Granted \subseteq Buckets
    BY BucketAssumption, DeliveryAssumption DEF Granted
  <2>. QED BY <1>0, <2>1, <2>2 DEF received, charged
<1>2. ASSUME NEW c \in Charges, Open(c) \/ Pause(c) \/ Abort(c) PROVE FALSE
  <2>1. UNCHANGED <<buckets, refunded>>
    BY <1>2, OpenReads DEF Open, FallShort, Prepare, Read, Pause, Abort,
       refunds
  <2>2. /\ stage[c] # "paid" /\ stage'[c] # "paid"
        /\ \A o \in Charges \ {c} : stage'[o] = stage[o]
    BY <1>2, OpenReads DEF Pause, Abort, MayCommit, TypeOK
  <2>. QED BY <1>0, <2>1, <2>2 DEF received, charged, buckets
<1>3. ASSUME NEW c \in Charges, Pay(c) PROVE Balance!Next
  BY <1>3, PayIsCharge DEF Balance!Next
<1>4. ASSUME NEW t \in Tasks, NEW s \in Requested, SetStatus(t, s) PROVE FALSE
  BY <1>0, <1>4 DEF SetStatus, open, refunds, buckets, received, charged
<1>5. ASSUME NEW d \in Deliveries,
             \/ Check(d) \/ Mint(d) \/ Known(d) \/ Look(d) \/ Undo(d)
             \/ \E t \in Tasks : Lift(d, t)
      PROVE  FALSE
  <2>1. UNCHANGED <<buckets, open, refunds>>
    BY <1>5 DEF Check, Mint, Known, Look, Undo, Lift
  <2>. QED BY <1>0, <2>1 DEF open, refunds, buckets, received, charged
<1>6. ASSUME NEW d \in Deliveries, Land(d) PROVE Balance!Next
  BY <1>6, LandIsReceive DEF Balance!Next
<1>7. ASSUME NEW s \in Syncs, Refund(s) PROVE Balance!Next
  BY <1>7, RefundIsGiveBack DEF Balance!Next
<1>8. ASSUME NEW s \in Syncs, Drop(s) \/ \E j \in Jobs : Sight(s, j)
      PROVE  FALSE
  BY <1>0, <1>8 DEF Drop, Sight, open, buckets, received, charged
<1>9. CASE UNCHANGED vars
  BY <1>0, <1>9 DEF vars, open, buckets, refunds, received, charged
<1>. QED BY <1>1, <1>2, <1>3, <1>4, <1>5, <1>6, <1>7, <1>8, <1>9 DEF Next

\* The buckets, their expiry, the concurrent transactions, the grants that
\* arrive twice and the syncs that overlap come to one balance, which receives
\* each grant once, takes each charge once, in full and within the credits,
\* and gives each failed job back once.
THEOREM ImplementsBalanceHolds == Spec => ImplementsBalance
<1>. DEFINE Inv == TypeOK /\ Covered /\ Watched /\ Entered
<1>1. Spec => []Inv
  BY CoveredHolds, WatchedHolds, EnteredHolds, PTL
<1>2. Inv /\ Inv' /\ [Next]_vars => [Balance!Next]_(Balance!vars)
  BY BalanceStep
<1>. HIDE DEF Inv
<1>. QED
  BY <1>1, <1>2, BalanceInit, PTL DEF Spec, ImplementsBalance, Balance!Spec

-----------------------------------------------------------------------------
(* The books of the wallet.                                                *)

LEMMA SumDisjoint ==
  ASSUME NEW f, NEW A, NEW B, IsFiniteSet(A), IsFiniteSet(B), A \cap B = {},
         \A x \in A \cup B : f[x] \in Int
  PROVE  Sum(f, A \cup B) = Sum(f, A) + Sum(f, B)
<1>. DEFINE S == A \cup B
            g == [x \in S |-> IF x \in A THEN f[x] ELSE 0]
            h == [x \in S |-> IF x \in B THEN f[x] ELSE 0]
<1>1. IsFiniteSet(S) /\ A \in SUBSET S /\ B \in SUBSET S
  BY FS_Union
<1>2. Sum(f, S) = Sum(g, S) + Sum(h, S)
  <2>1. \A x \in S : g[x] \in Int /\ h[x] \in Int /\ f[x] = g[x] + h[x]
    OBVIOUS
  <2>. HIDE DEF g, h
  <2>. QED BY <1>1, <2>1, SumCombined
<1>3. Sum(g, S) = Sum(f, A)
  <2>1. /\ \A x \in S : g[x] = IF x \in A THEN f[x] ELSE 0
        /\ \A x \in A : f[x] \in Int
    OBVIOUS
  <2>. HIDE DEF g
  <2>. QED BY <1>1, <2>1, SumWithin
<1>4. Sum(h, S) = Sum(f, B)
  <2>1. /\ \A x \in S : h[x] = IF x \in B THEN f[x] ELSE 0
        /\ \A x \in B : f[x] \in Int
    OBVIOUS
  <2>. HIDE DEF h
  <2>. QED BY <1>1, <2>1, SumWithin
<1>. QED BY <1>2, <1>3, <1>4

\* What the buckets hold, expired ones too, is what was ever granted and given
\* back, less what was ever charged.
EveryCentAccounted ==
  Sum(Held, Buckets) =
    Sum(Worth, received) + Sum(Price, refunded) - Sum(Price, charged)

\* Each step charges at most once, so that there are finitely many to add up.
Books == IsFiniteSet(charged) /\ EveryCentAccounted

LEMMA ReceivedFinite == received \in SUBSET Buckets /\ IsFiniteSet(Buckets)
<1>1. IsFiniteSet(Buckets)
  BY BucketAssumption, FS_Interval DEF Buckets
<1>2. Opening \subseteq Buckets /\ Granted \subseteq Buckets
  BY BucketAssumption, DeliveryAssumption DEF Granted
<1>. QED BY <1>1, <1>2 DEF received

LEMMA BooksInit == Init => Books
<1>. SUFFICES ASSUME Init PROVE Books
  OBVIOUS
<1>1. charged = {} /\ refunded = {}
  BY DEF Init, charged
<1>2. Sum(Held, Buckets) = Sum(Worth, received)
  BY BalanceInit, TotalIsSum DEF Balance!Init, received, Sum
<1>3. received \in SUBSET Buckets /\ IsFiniteSet(Buckets)
  BY ReceivedFinite
<1>4. Sum(Worth, received) \in Int
  BY <1>3, BucketAssumption, FS_Subset, SumType
<1>. QED BY <1>1, <1>2, <1>4, SumEmpty, FS_EmptySet
   DEF Books, EveryCentAccounted

LEMMA BooksNext ==
  ASSUME TypeOK, Covered, Watched, Entered, Books, TypeOK', Covered',
         [Next]_vars
  PROVE  Books'
<1>1. /\ received \in SUBSET Buckets /\ IsFiniteSet(Buckets)
      /\ \A b \in Buckets : Worth[b] \in Int
      /\ \A c \in Charges : Price[c] \in Int
      /\ charged \subseteq Charges /\ refunded \subseteq charged
  <2>1. /\ \A b \in Buckets : Worth[b] \in Int
        /\ \A c \in Charges : Price[c] \in Int
    BY BucketAssumption, ChargeAssumption
  <2>2. charged \subseteq Charges /\ refunded \subseteq charged
    BY DEF charged, Charges, Entered, TypeOK
  <2>. QED BY <2>1, <2>2, ReceivedFinite
<1>2. /\ IsFiniteSet(received) /\ IsFiniteSet(charged)
      /\ IsFiniteSet(refunded)
  BY <1>1, FS_Subset DEF Books
<1>3. /\ Sum(Worth, received) \in Int /\ Sum(Price, charged) \in Int
      /\ Sum(Price, refunded) \in Int
  BY <1>1, <1>2, SumType
<1>4. Sum(Held, Buckets) =
        Sum(Worth, received) + Sum(Price, refunded) - Sum(Price, charged)
  BY DEF Books, EveryCentAccounted
\* One more charge, or one more refund.
<1>5. ASSUME NEW S \in SUBSET Charges, IsFiniteSet(S), NEW c \in Charges \ S
      PROVE  /\ IsFiniteSet(S \cup {c})
             /\ Sum(Price, S \cup {c}) = Sum(Price, S) + Price[c]
  <2>1. IsFiniteSet(S \cup {c})
    BY <1>5, FS_AddElement
  <2>2. Sum(Price, S \cup {c}) = Price[c] + Sum(Price, (S \cup {c}) \ {c})
    BY <1>1, <2>1, SumRemove
  <2>3. (S \cup {c}) \ {c} = S
    OBVIOUS
  <2>4. Sum(Price, S) \in Int /\ Price[c] \in Int
    BY <1>1, <1>5, SumType
  <2>5. Sum(Price, S \cup {c}) = Price[c] + Sum(Price, S)
    BY <2>2, <2>3
  <2>. QED BY <2>1, <2>4, <2>5
<1>6. CASE UNCHANGED Balance!vars
  BY <1>2, <1>4, <1>6
  DEF Balance!vars, received, charged, Books, EveryCentAccounted, Sum
<1>7. ASSUME NEW S \in SUBSET (Opening \cup Granted), Balance!Receive(S)
      PROVE  Books'
  <2>1. /\ S \cap received = {} /\ received' = received \cup S
        /\ Sum(Held, Buckets)' = Sum(Held, Buckets) + Sum(Worth, S)
        /\ charged' = charged /\ refunded' = refunded
    BY <1>7, TotalIsSum DEF Balance!Receive, received, charged, Sum
  <2>2. S \in SUBSET Buckets /\ IsFiniteSet(S)
    BY <1>1, BucketAssumption, DeliveryAssumption, FS_Subset DEF Granted
  <2>3. Sum(Worth, received \cup S) = Sum(Worth, received) + Sum(Worth, S)
    BY <1>1, <1>2, <2>1, <2>2, SumDisjoint
  <2>4. Sum(Worth, S) \in Int
    BY <1>1, <2>2, SumType
  <2>5. Sum(Worth, received)' = Sum(Worth, received) + Sum(Worth, S)
    BY <2>1, <2>3
  <2>6. /\ Sum(Price, charged)' = Sum(Price, charged)
        /\ Sum(Price, refunded)' = Sum(Price, refunded)
    BY <2>1
  <2>. QED BY <1>2, <1>3, <1>4, <2>1, <2>4, <2>5, <2>6
     DEF Books, EveryCentAccounted
<1>8. ASSUME NEW c \in Charges, Balance!Charge(c) PROVE Books'
  <2>1. /\ c \notin charged /\ charged' = charged \cup {c}
        /\ Sum(Held, Buckets)' = Sum(Held, Buckets) - Price[c]
        /\ received' = received /\ refunded' = refunded
    BY <1>8 DEF Balance!Charge, received, charged, Sum
  <2>2. /\ IsFiniteSet(charged')
        /\ Sum(Price, charged)' = Sum(Price, charged) + Price[c]
    BY <1>1, <1>2, <1>5, <2>1
  <2>3. /\ Sum(Worth, received)' = Sum(Worth, received)
        /\ Sum(Price, refunded)' = Sum(Price, refunded)
        /\ Price[c] \in Int
    BY <1>1, <2>1
  <2>. QED BY <1>3, <1>4, <2>1, <2>2, <2>3 DEF Books, EveryCentAccounted
<1>9. ASSUME NEW c \in Charges, Balance!GiveBack(c) PROVE Books'
  <2>1. /\ c \notin refunded /\ refunded' = refunded \cup {c}
        /\ Sum(Held, Buckets)' = Sum(Held, Buckets) + Price[c]
        /\ received' = received /\ charged' = charged
    BY <1>9 DEF Balance!GiveBack, received, charged, Sum
  <2>2. Sum(Price, refunded)' = Sum(Price, refunded) + Price[c]
    BY <1>1, <1>2, <1>5, <2>1
  <2>3. /\ Sum(Worth, received)' = Sum(Worth, received)
        /\ Sum(Price, charged)' = Sum(Price, charged)
        /\ Price[c] \in Int
    BY <1>1, <2>1
  <2>. QED BY <1>2, <1>3, <1>4, <2>1, <2>2, <2>3
     DEF Books, EveryCentAccounted
<1>. QED BY BalanceStep, <1>6, <1>7, <1>8, <1>9 DEF Balance!Next

\* No interleaving of charges, grants delivered twice, refunds and expiry
\* loses or invents a cent: at any time the buckets hold what came in and was
\* given back, less what the paid charges cost.
THEOREM EveryCentAccountedHolds == Spec => []EveryCentAccounted
<1>. DEFINE Inv == TypeOK /\ Covered /\ Watched /\ Entered
<1>1. Spec => []Inv
  BY CoveredHolds, WatchedHolds, EnteredHolds, PTL
<1>2. Inv /\ Inv' /\ Books /\ [Next]_vars => Books'
  BY BooksNext
<1>3. Books => EveryCentAccounted
  BY DEF Books
<1>. HIDE DEF Inv
<1>. QED BY <1>1, <1>2, <1>3, BooksInit, PTL DEF Spec

-----------------------------------------------------------------------------
(* Credits that expire first are spent first.                              *)

\* What an open charge has planned was the whole of each earlier bucket, and
\* while it is not overtaken, and the bucket has not expired, it still is.
Ordered ==
  \A c \in Charges : stage[c] = "open" =>
    /\ \A e \in seen[c] : phase[e] \in {"active", "expired"}
    /\ c \notin overtaken =>
         \A b \in Buckets, e \in seen[c] :
           plan[c][b] > 0 /\ e < b /\ phase[e] = "active"
             => plan[c][e] = amount[e] - used[e]

LEMMA OrderedInit == Init => Ordered
BY DEF Init, Ordered

\* A step that changes no charge, and no bucket that any has seen but by
\* letting it expire.
LEMMA OrderedKept ==
  ASSUME TypeOK, Ordered, UNCHANGED <<used, open>>,
         overtaken \subseteq overtaken',
         \A b \in Buckets : phase[b] \in {"active", "expired"} =>
           /\ amount'[b] = amount[b]
           /\ phase'[b] \in {phase[b], "expired"}
  PROVE  Ordered'
<1>. SUFFICES ASSUME NEW c \in Charges, stage[c] = "open"
              PROVE  /\ \A e \in seen[c] : phase'[e] \in {"active", "expired"}
                     /\ c \notin overtaken =>
                          \A b \in Buckets, e \in seen[c] :
                            plan[c][b] > 0 /\ e < b /\ phase'[e] = "active"
                              => plan[c][e] = amount'[e] - used[e]
  BY DEF Ordered, open
<1>1. seen[c] \subseteq Buckets
  BY DEF TypeOK
<1>. QED BY <1>1 DEF Ordered

LEMMA OrderedOpen ==
  ASSUME TypeOK, Covered, Ordered, NEW c \in Charges, Open(c)
  PROVE  Ordered'
<1>1. PICK rem \in Remaining(c) :
        \/ FallShort(c, rem)
        \/ \E want \in Requested \cup {Keep} : Prepare(c, rem, want)
  BY DEF Open
<1>2. /\ stage' = [stage EXCEPT ![c] = "open"]
      /\ seen' = [seen EXCEPT ![c] =
                    {b \in Buckets : phase[b] \in {"active", "expired"}}]
      /\ UNCHANGED <<phase, amount, used, overtaken>>
      /\ \/ plan' = [plan EXCEPT ![c] = NoDraw]
         \/ plan' = [plan EXCEPT ![c] = Draws(rem)]
  BY <1>1 DEF FallShort, Prepare, Read, buckets
<1>3. ASSUME NEW b \in Buckets, NEW e \in Buckets, plan'[c][b] > 0, e < b,
             phase[e] = "active"
      PROVE  plan'[c][e] = amount[e] - used[e]
  <2>1. CASE plan' = [plan EXCEPT ![c] = NoDraw]
    BY <1>3, <2>1 DEF TypeOK, NoDraw
  <2>2. CASE plan' = [plan EXCEPT ![c] = Draws(rem)]
    <3>1. plan'[c] = Draws(rem)
      BY <2>2 DEF TypeOK
    <3>. QED BY <1>3, <3>1, DrawsInOrder
  <2>. QED BY <1>2, <2>1, <2>2
<1>4. seen'[c] = {b \in Buckets : phase[b] \in {"active", "expired"}}
  BY <1>2 DEF TypeOK
<1>5. \A o \in Charges \ {c} : /\ stage'[o] = stage[o] /\ seen'[o] = seen[o]
                               /\ plan'[o] = plan[o]
  BY <1>2 DEF TypeOK
<1>. QED BY <1>2, <1>3, <1>4, <1>5 DEF Ordered

\* A charge that commits overtakes each that read what it has drawn on.
LEMMA OrderedPay ==
  ASSUME TypeOK, Ordered, NEW c \in Charges, Pay(c)
  PROVE  Ordered'
<1>1. /\ stage' = [stage EXCEPT ![c] = "paid"]
      /\ used' = [b \in Buckets |-> used[b] + plan[c][b]]
      /\ UNCHANGED <<phase, amount>> /\ Overtake(c)
      /\ \A o \in Charges \ {c} : seen'[o] = seen[o] /\ plan'[o] = plan[o]
  BY DEF Pay, Forget, TypeOK
<1>. SUFFICES ASSUME NEW o \in Charges, stage'[o] = "open"
              PROVE  /\ \A e \in seen'[o] : phase'[e] \in {"active", "expired"}
                     /\ o \notin overtaken' =>
                          \A b \in Buckets, e \in seen'[o] :
                            plan'[o][b] > 0 /\ e < b /\ phase'[e] = "active"
                              => plan'[o][e] = amount'[e] - used'[e]
  BY DEF Ordered
<1>2. o # c /\ stage[o] = "open"
  BY <1>1 DEF TypeOK
<1>3. \A e \in seen'[o] : phase'[e] \in {"active", "expired"}
  BY <1>1, <1>2 DEF Ordered
<1>4. ASSUME o \notin overtaken', NEW b \in Buckets, NEW e \in seen'[o],
             plan'[o][b] > 0, e < b, phase'[e] = "active"
      PROVE  plan'[o][e] = amount'[e] - used'[e]
  <2>1. o \notin overtaken /\ ~Overtakes(c, o)
    BY <1>1, <1>2, <1>4 DEF Overtake
  <2>2. plan[o] # NoDraw /\ e \in Buckets
    BY <1>1, <1>2, <1>4 DEF NoDraw, TypeOK
  <2>3. plan[c][e] = 0
    BY <2>1, <2>2 DEF Overtakes, NoDraw
  <2>4. plan[o][e] = amount[e] - used[e]
    BY <1>1, <1>2, <1>4, <2>1 DEF Ordered
  <2>. QED BY <1>1, <1>2, <2>2, <2>3, <2>4 DEF TypeOK
<1>. QED BY <1>3, <1>4

LEMMA OrderedNext ==
  ASSUME TypeOK, Covered, Watched, Ordered, [Next]_vars
  PROVE  Ordered'
<1>1. ASSUME NEW b \in Buckets, Activate(b) \/ Expire(b) PROVE Ordered'
  <2>1. /\ UNCHANGED <<amount, used, open, overtaken>>
        /\ \A x \in Buckets : phase[x] \in {"active", "expired"} =>
             phase'[x] \in {phase[x], "expired"}
    BY <1>1 DEF Activate, Expire, TypeOK
  <2>. QED BY <2>1, OrderedKept
<1>2. ASSUME NEW c \in Charges, Open(c) PROVE Ordered'
  BY <1>2, OrderedOpen
<1>3. ASSUME NEW c \in Charges, Pay(c) PROVE Ordered'
  BY <1>3, OrderedPay
<1>4. ASSUME NEW c \in Charges, Pause(c) \/ Abort(c) PROVE Ordered'
  <2>1. /\ stage'[c] # "open" /\ UNCHANGED buckets
        /\ overtaken \ {c} \subseteq overtaken'
        /\ \A o \in Charges \ {c} : /\ stage'[o] = stage[o]
                                    /\ seen'[o] = seen[o] /\ plan'[o] = plan[o]
    BY <1>4 DEF Pause, Abort, Forget, Overtake, TypeOK
  <2>. QED BY <2>1 DEF Ordered, buckets
<1>5. ASSUME NEW t \in Tasks, NEW s \in Requested, SetStatus(t, s)
      PROVE  Ordered'
  BY <1>5, OrderedKept DEF SetStatus, buckets
<1>6. ASSUME NEW d \in Deliveries,
             \/ Check(d) \/ Mint(d) \/ Known(d) \/ Look(d) \/ Undo(d)
             \/ \E t \in Tasks : Lift(d, t)
      PROVE  Ordered'
  <2>1. UNCHANGED <<buckets, open, overtaken>>
    BY <1>6 DEF Check, Mint, Known, Look, Undo, Lift
  <2>. QED BY <2>1, OrderedKept DEF buckets
\* What is inserted did not exist, so that nobody can have seen it.
<1>7. ASSUME NEW d \in Deliveries, Land(d) PROVE Ordered'
  <2>1. \A b \in missing[d] : phase[b] = "none"
    BY <1>7 DEF Land, Watched, Inserting
  <2>2. /\ UNCHANGED <<used, open>> /\ overtaken \subseteq overtaken'
        /\ \A b \in Buckets \ missing[d] : /\ phase'[b] = phase[b]
                                           /\ amount'[b] = amount[b]
    BY <1>7 DEF Land
  <2>. QED BY <2>1, <2>2, OrderedKept
<1>8. ASSUME NEW s \in Syncs, Refund(s) PROVE Ordered'
  <2>1. /\ UNCHANGED <<used, open, overtaken>>
        /\ phase[RefundOf[sighted[s]]] = "none"
        /\ \A b \in Buckets \ {RefundOf[sighted[s]]} :
             phase'[b] = phase[b] /\ amount'[b] = amount[b]
    BY <1>8 DEF Refund, Unique, TypeOK
  <2>. QED BY <2>1, OrderedKept
<1>9. ASSUME NEW s \in Syncs, Drop(s) \/ \E j \in Jobs : Sight(s, j)
      PROVE  Ordered'
  BY <1>9, OrderedKept DEF Drop, Sight, buckets
<1>10. CASE UNCHANGED vars
  BY <1>10, OrderedKept DEF vars, buckets
<1>. QED
  BY <1>1, <1>2, <1>3, <1>4, <1>5, <1>6, <1>7, <1>8, <1>9, <1>10 DEF Next

LEMMA OrderedHolds == Spec => []Ordered
BY OrderedInit, OrderedNext, CoveredHolds, WatchedHolds, PTL DEF Spec

\* Only Pay makes a charge paid, and it takes what was planned.
LEMMA PaidInOrder ==
  ASSUME TypeOK, Ordered, Next, NEW c \in Charges, stage[c] = "open",
         stage'[c] = "paid", NEW b \in Buckets, NEW e \in seen[c],
         plan[c][b] > 0, e < b, phase[e] = "active"
  PROVE  used'[e] = amount'[e]
<1>1. ASSUME UNCHANGED open PROVE FALSE
  BY <1>1 DEF open
<1>2. PICK o \in Charges : Open(o) \/ Pay(o) \/ Pause(o) \/ Abort(o)
  <2>1. CASE \E x \in Buckets : Activate(x) \/ Expire(x)
    BY <1>1, <2>1 DEF Activate, Expire
  <2>2. CASE \E t \in Tasks, s \in Requested : SetStatus(t, s)
    BY <1>1, <2>2 DEF SetStatus
  <2>3. CASE \E d \in Deliveries :
               \/ Check(d) \/ Mint(d) \/ Known(d) \/ Look(d) \/ Land(d)
               \/ Undo(d) \/ \E t \in Tasks : Lift(d, t)
    BY <1>1, <2>3 DEF Check, Mint, Known, Look, Land, Undo, Lift
  <2>4. CASE \E s \in Syncs :
               Refund(s) \/ Drop(s) \/ \E j \in Jobs : Sight(s, j)
    BY <1>1, <2>4 DEF Refund, Drop, Sight
  <2>. QED BY <2>1, <2>2, <2>3, <2>4 DEF Next
<1>3. Pay(c)
  <2>1. stage' \in {[stage EXCEPT ![o] = v] :
                     v \in {"open", "paid", "refused", "idle"}}
    BY <1>2, OpenReads DEF Pay, Pause, Abort
  <2>2. o = c
    BY <2>1 DEF TypeOK
  <2>3. ~Open(c)
    BY OpenReads
  <2>4. ~Pause(c) /\ ~Abort(c)
    BY DEF Pause, Abort, TypeOK
  <2>. QED BY <1>2, <2>2, <2>3, <2>4
<1>4. c \notin overtaken /\ e \in Buckets
  BY <1>3 DEF Pay, MayCommit, TypeOK
<1>5. plan[c][e] = amount[e] - used[e]
  BY <1>4 DEF Ordered
<1>6. used'[e] = used[e] + plan[c][e] /\ amount'[e] = amount[e]
  BY <1>3, <1>4 DEF Pay
<1>. QED BY <1>4, <1>5, <1>6 DEF TypeOK

\* prepareConsumption takes the buckets in the order in which they expire, and
\* what other transactions do between its read and its commit does not turn
\* that order: a charge that draws on a bucket leaves nothing in an earlier
\* one that it had read and that has not expired.
THEOREM SoonestFirstHolds == Spec => SoonestFirst
<1>. DEFINE A ==
  \A c \in Charges : stage[c] = "open" /\ stage'[c] = "paid" =>
    \A b \in Buckets, e \in seen[c] :
      plan[c][b] > 0 /\ e < b /\ phase[e] = "active"
        => used'[e] = amount'[e]
<1>1. TypeOK /\ Ordered /\ [Next]_vars => [A]_vars
  BY PaidInOrder
<1>2. Spec => [][A]_vars
  BY <1>1, CoveredHolds, OrderedHolds, PTL DEF Spec
<1>. QED BY <1>2 DEF SoonestFirst
=============================================================================
