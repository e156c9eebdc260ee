------------------------ MODULE ProjectClose_proofs ------------------------
(***************************************************************************)
(* Proofs about ProjectClose and the TaskSchedule it extends, for any      *)
(* rules, horizons, batch sizes and numbers of transactions and workers:   *)
(* in a project a Run makes one Task whatever crosses, no planned Run is   *)
(* overlooked, a closed project owes nothing, and nothing moves in it.     *)
(***************************************************************************)
EXTENDS ProjectClose, FiniteSetTheorems, WellFoundedInduction, TLAPS

Planned == In(runState, "PLANNED")

\* Nothing after `from` is left for rule e to plan: each of its times has its
\* row, or the end rule has had its Runs.
SpentIn(rs, e, from, count) ==
  \/ \A t \in Rule[e] : t > from => rs[<<e, t>>] # "NONE"
  \/ Target[e] \in 1 .. count

Spent(from) == SpentIn(runState, epoch, from, releasedCount)

\* An active schedule that plans nothing has nothing left to plan.  An open
\* release has seen no later count or revision than the present ones; while
\* they are the same, it would not plan again what it found planned out.
PlanInv ==
  /\ cutoff = 0 /\ state = "ACTIVE" /\ Planned = {} => Spent(now)
  /\ \A x \in Transactions : doing[x] = "release" =>
       /\ saw[x].revision <= revision
       /\ saw[x].count <= releasedCount
       /\ /\ saw[x].revision = revision /\ saw[x].count = releasedCount
          /\ Planned = {}
          => Spent(saw[x].at)

\* The operation exists from the cutoff on, and only in a project.  A lease
\* is held on a close that is due.  By the second failure no transaction of
\* before the cutoff is open.
OperationInv ==
  /\ opState = "NONE" <=> cutoff = 0
  /\ opState = "NONE" => attempts = 0
  /\ opState # "NONE" => inProject
  /\ opState = "CLOSING" /\ lease # NoWorker => due
  /\ \/ opState = "CLOSE_FAILED"
     \/ opState = "CLOSING" /\ attempts > 0 /\ due
     => Quiet

\* What was owed has its Task, or the close still has it to release.
OwedInv ==
  /\ inProject /\ state = "ENDED" => Planned = {}
  /\ opState = "CLOSED" => state = "ENDED"
  /\ opState # "NONE" =>
       \A k \in owed \ waived : tasks[k] = 1 \/ k \in StillOwed(runState)

\* An open edit has seen no later revision than the present one, and while
\* it is the same, the rules are not exhausted.
EditInv ==
  \A x \in Transactions : doing[x] = "edit" =>
    /\ saw[x].revision <= revision
    /\ saw[x].revision = revision => epoch < LastEpoch

-----------------------------------------------------------------------------
USE ScheduleAssumption, CloseAssumption

(* What the operators of the ledger return                                 *)

LEMMA KeysFinite == IsFiniteSet(Keys)
<1>1. IsFiniteSet(Epochs) /\ IsFiniteSet(Times)
  BY FS_Interval DEF Epochs, Times
<1> QED BY <1>1, FS_Product DEF Keys

LEMMA CountType ==
  ASSUME NEW K \in SUBSET Keys
  PROVE  /\ Cardinality(K) \in Nat
         /\ Cardinality(K) = 0 => K = {}
         /\ K = {} => Cardinality(K) = 0
BY KeysFinite, FS_Subset, FS_CardinalityType, FS_EmptySet

LEMMA MinExists ==
  ASSUME NEW S \in SUBSET Nat, S # {}
  PROVE  \E t \in S : \A u \in S : t <= u
<1>1. PICK t \in S : \A u \in S : ~(<<u, t>> \in OpToRel(<, Nat))
  BY NatLessThanWellFounded, WFMin
<1>2. \A u \in S : ~(u < t)
  BY <1>1 DEF OpToRel
<1> QED BY <1>2

\* The earliest planned Run: null if none is planned, and never later than
\* one that is.
LEMMA EarliestIs ==
  ASSUME runAt \in [Keys -> Times], NEW rs
  PROVE  /\ Earliest(rs) \in 0 .. LastTime
         /\ Earliest(rs) = 0 <=> In(rs, "PLANNED") = {}
         /\ \A k \in In(rs, "PLANNED") : Earliest(rs) \in 1 .. runAt[k]
<1> DEFINE times == {runAt[k] : k \in In(rs, "PLANNED")}
<1>1. In(rs, "PLANNED") \subseteq Keys
  BY DEF In
<1>2. times \in SUBSET Times /\ times \in SUBSET Nat
  BY <1>1 DEF Times
<1>3. CASE times = {}
  <2>1. Earliest(rs) = 0
    BY <1>3 DEF Earliest
  <2>2. \A k \in In(rs, "PLANNED") : runAt[k] \in times
    OBVIOUS
  <2> HIDE DEF times
  <2> QED BY <1>3, <2>1, <2>2
<1>4. CASE times # {}
  <2>1. \E t \in times : \A u \in times : t <= u
    <3> HIDE DEF times
    <3> QED BY <1>2, <1>4, MinExists
  <2>2. Earliest(rs) = CHOOSE t \in times : \A u \in times : t <= u
    BY <1>4 DEF Earliest
  <2> HIDE DEF times
  <2>3. Earliest(rs) \in times /\ \A u \in times : Earliest(rs) <= u
    BY <2>1, <2>2
  <2>4. \A k \in In(rs, "PLANNED") : runAt[k] \in times
    BY DEF times
  <2>5. In(rs, "PLANNED") # {}
    BY <1>4 DEF times
  <2>6. /\ Earliest(rs) \in 1 .. LastTime
        /\ \A k \in In(rs, "PLANNED") :
             Earliest(rs) <= runAt[k] /\ runAt[k] \in 1 .. LastTime
    BY <1>2, <2>3, <2>4 DEF Times
  <2> HIDE DEF Earliest, In
  <2> QED BY <2>5, <2>6
<1> QED BY <1>3, <1>4

\* Only times without a row are planned.
LEMMA PlanIs ==
  ASSUME NEW rs, NEW from, NEW e \in Epochs, NEW count
  PROVE  /\ Plan(rs, from, e, count) \subseteq Keys
         /\ \A k \in Plan(rs, from, e, count) : rs[k] = "NONE"
<1>1. Rule[e] \subseteq Times
  OBVIOUS
<1>2. ASSUME NEW k \in Plan(rs, from, e, count)
      PROVE  \E t \in Rule[e] :
               k = <<e, t>> /\ t > from /\ rs[<<e, t>>] = "NONE"
  BY <1>1 DEF Plan
<1> HIDE DEF Plan
<1>3. \A k \in Plan(rs, from, e, count) : k \in Keys /\ rs[k] = "NONE"
  <2> TAKE k \in Plan(rs, from, e, count)
  <2>1. PICK t \in Rule[e] :
          k = <<e, t>> /\ t > from /\ rs[<<e, t>>] = "NONE"
    BY <1>2
  <2> QED BY <1>1, <2>1 DEF Keys
<1> QED BY <1>3

LEMMA MarkedType ==
  ASSUME NEW rs \in [Keys -> RunStates], NEW K, NEW s \in RunStates
  PROVE  Marked(rs, K, s) \in [Keys -> RunStates]
BY DEF Marked

LEMMA StopType ==
  ASSUME NEW rs \in [Keys -> RunStates], NEW lists, NEW cancel
  PROVE  Stop(rs, lists, cancel) \in [Keys -> RunStates]
BY DEF Stop, Marked, RunStates

LEMMA Times0Type ==
  ASSUME runAt \in [Keys -> Times], NEW rs
  PROVE  Times0(rs) \in [Keys -> Times]
BY DEF Times0, Keys

-----------------------------------------------------------------------------
(* Types                                                                   *)

CloseTypeOK ==
  /\ opState \in {"NONE", "CLOSING", "CLOSE_FAILED", "CLOSED"}
  /\ attempts \in Nat
  /\ lease \in Workers \cup {NoWorker}
  /\ fresh \in BOOLEAN /\ due \in BOOLEAN /\ named \in BOOLEAN
  /\ pending \in BOOLEAN
  /\ at \in [Workers -> {"idle", "holding", "revoking"}]
  /\ owed \subseteq Keys /\ waived \subseteq Keys

LEMMA InitType == Init => TypeOK
<1> SUFFICES ASSUME Init PROVE TypeOK
  OBVIOUS
<1> DEFINE none == [k \in Keys |-> "NONE"]
           plan == Plan(none, 1, 1, 0)
<1>1. runAt \in [Keys -> Times] /\ 1 \in Times /\ 1 \in Epochs
  BY DEF Init, ScheduleInit, Keys, Times, Epochs
<1>2. runState \in [Keys -> RunStates]
  <2>1. none \in [Keys -> RunStates]
    BY DEF RunStates
  <2>2. runState = Marked(none, plan, "PLANNED")
    BY DEF Init, ScheduleInit
  <2> HIDE DEF none, plan
  <2> QED BY <2>1, <2>2, MarkedType DEF RunStates
<1>3. nextRunAt \in 0 .. LastTime
  BY <1>1, EarliestIs DEF Init, ScheduleInit
<1>4. Nothing \in Snapshot
  BY <1>1 DEF Nothing, Read, Snapshot, States
<1>5. cutoff \in 0 .. LastTime
  BY DEF Init, ScheduleInit
<1> QED BY <1>1, <1>2, <1>3, <1>4, <1>5 DEF Init, ScheduleInit, TypeOK,
  ScheduleTypeOK, States, Operations

\* Beginning and ending a transaction.
LEMMA BeginType ==
  ASSUME ScheduleTypeOK, NEW x, NEW op \in Operations, NEW s \in Snapshot,
         NEW lists \in (SUBSET Keys) \X (SUBSET Keys), Begin(x, op, s, lists),
         UNCHANGED <<clock, cutoff, schedule, ledger>>
  PROVE  ScheduleTypeOK'
BY DEF Begin, ScheduleTypeOK, clock, schedule, ledger

LEMMA FinishType ==
  ASSUME ScheduleTypeOK, NEW x, Finish(x)
  PROVE  /\ doing' \in [Transactions -> Operations]
         /\ saw' \in [Transactions -> Snapshot]
         /\ listed' \in [Transactions -> (SUBSET Keys) \X (SUBSET Keys)]
<1>1. Nothing \in Snapshot
  BY DEF Nothing, Read, Snapshot, States, Times, Epochs
<1> QED BY <1>1 DEF Finish, ScheduleTypeOK, Operations

LEMMA OpenType ==
  ASSUME ScheduleTypeOK, NEW x \in Transactions,
         \/ OpenRelease(x) \/ OpenStop(x, "pause") \/ OpenStop(x, "end")
         \/ OpenResume(x) \/ OpenEdit(x)
  PROVE  ScheduleTypeOK'
<1> USE DEF ScheduleTypeOK
<1>0. 1 \in Times /\ 1 \in Epochs /\ {} \in SUBSET Keys
  BY DEF Times, Epochs
<1>1. CASE OpenRelease(x)
  <2>1. PICK S \in SUBSET Keys :
          Begin(x, "release", Read(now, "ACTIVE", 1, releasedCount, revision),
                <<S, {}>>)
    BY <1>1 DEF OpenRelease, Oldest, In
  <2>2. S \in SUBSET Keys
    OBVIOUS
  <2>3. Read(now, "ACTIVE", 1, releasedCount, revision) \in Snapshot
    BY <1>0 DEF Read, Snapshot, States
  <2>4. /\ <<S, {}>> \in (SUBSET Keys) \X (SUBSET Keys)
        /\ "release" \in Operations
    BY <2>2 DEF Operations
  <2> QED BY <1>1, <2>1, <2>3, <2>4, BeginType DEF OpenRelease
<1>2. ASSUME NEW op \in {"pause", "end"}, OpenStop(x, op) PROVE ScheduleTypeOK'
  <2> DEFINE lists ==
        IF inProject THEN <<{}, {}>>
        ELSE Split(runState, Stoppable(runState, now, FALSE))
  <2>1. Read(1, state, 1, 0, 0) \in Snapshot
    BY <1>0 DEF Read, Snapshot
  <2>2. lists \in (SUBSET Keys) \X (SUBSET Keys)
    BY DEF Split, Stoppable
  <2>3. Begin(x, op, Read(1, state, 1, 0, 0), lists) /\ op \in Operations
    BY <1>2 DEF OpenStop, Operations
  <2> HIDE DEF lists
  <2> QED BY <1>2, <2>1, <2>2, <2>3, BeginType DEF OpenStop
<1>3. CASE OpenResume(x)
  <2>1. Read(1, "PAUSED", epoch, releasedCount, 0) \in Snapshot
    BY <1>0 DEF Read, Snapshot, States
  <2>2. /\ Begin(x, "resume", Read(1, "PAUSED", epoch, releasedCount, 0),
                 <<{}, {}>>)
        /\ UNCHANGED <<clock, cutoff, schedule, ledger>>
    BY <1>3 DEF OpenResume
  <2>3. /\ "resume" \in Operations
        /\ <<{}, {}>> \in (SUBSET Keys) \X (SUBSET Keys)
    BY DEF Operations
  <2> QED BY <2>1, <2>2, <2>3, BeginType
<1>4. CASE OpenEdit(x)
  <2>1. Read(1, "ACTIVE", 1, releasedCount, revision) \in Snapshot
    BY <1>0 DEF Read, Snapshot, States
  <2>2. /\ Begin(x, "edit", Read(1, "ACTIVE", 1, releasedCount, revision),
                 <<{}, {}>>)
        /\ UNCHANGED <<clock, cutoff, schedule, ledger>>
    BY <1>4 DEF OpenEdit
  <2>3. /\ "edit" \in Operations
        /\ <<{}, {}>> \in (SUBSET Keys) \X (SUBSET Keys)
    BY DEF Operations
  <2> QED BY <2>1, <2>2, <2>3, BeginType
<1> QED BY <1>1, <1>2, <1>3, <1>4

LEMMA ReleaseType ==
  ASSUME ScheduleTypeOK, NEW x \in Transactions, CommitRelease(x)
  PROVE  ScheduleTypeOK'
<1> DEFINE batch == listed[x][1]
           count == saw[x].count + Cardinality(batch)
           released == Marked(runState, batch, "RELEASED")
           new == Plan(released, saw[x].at, epoch, count)
           after == Marked(released, new, "PLANNED")
<1>1. batch \in SUBSET Keys /\ saw[x].count \in Nat
  BY DEF ScheduleTypeOK, Snapshot
<1>2. count \in Nat
  BY <1>1, CountType
<1>3. after \in [Keys -> RunStates]
  BY MarkedType DEF ScheduleTypeOK, RunStates
<1>4. Earliest(after) \in 0 .. LastTime
  BY EarliestIs DEF ScheduleTypeOK
<1>5. /\ runState' = after
      /\ tasks' = [k \in Keys |-> tasks[k] + IF k \in batch THEN 1 ELSE 0]
      /\ releasedCount' = count /\ nextRunAt' = Earliest(after)
      /\ state' = IF Earliest(after) = 0 THEN "ENDED" ELSE "ACTIVE"
      /\ Finish(x)
      /\ UNCHANGED <<clock, cutoff, epoch, revision, runAt>>
  BY DEF CommitRelease
<1> HIDE DEF after, count, batch
<1>6. tasks' \in [Keys -> Nat]
  BY <1>5 DEF ScheduleTypeOK
<1> QED BY <1>2, <1>3, <1>4, <1>5, <1>6, FinishType DEF ScheduleTypeOK, clock,
  States

LEMMA StopStepType ==
  ASSUME ScheduleTypeOK, NEW x \in Transactions, CommitStop(x)
  PROVE  ScheduleTypeOK'
<1>1. PICK lists, ends : runState' = Stop(runState, lists, ends)
  BY DEF CommitStop
<1>2. runState' \in [Keys -> RunStates]
  BY <1>1, StopType DEF ScheduleTypeOK
<1>3. runAt' \in [Keys -> Times]
  BY Times0Type DEF CommitStop, ScheduleTypeOK
<1>4. /\ state' \in {"ENDED", "PAUSED"} /\ nextRunAt' = 0
      /\ revision' = revision + 1 /\ Finish(x)
      /\ UNCHANGED <<clock, cutoff, epoch, releasedCount, tasks>>
  BY DEF CommitStop
<1>5. state' \in States /\ revision' \in Nat /\ nextRunAt' \in 0 .. LastTime
  BY <1>4 DEF ScheduleTypeOK, States
<1> QED BY <1>2, <1>3, <1>4, <1>5, FinishType DEF ScheduleTypeOK, clock

LEMMA ResumeType ==
  ASSUME ScheduleTypeOK, NEW x \in Transactions, CommitResume(x)
  PROVE  ScheduleTypeOK'
<1> DEFINE missed == {k \in In(runState, "PLANNED") : runAt[k] <= now}
           rest == Marked(runState, missed, "CANCELED")
           new == Plan(rest, now, saw[x].epoch, saw[x].count)
           after == Marked(rest, new, "PLANNED")
           ends == Earliest(after) = 0
           lists == Split(after, Stoppable(after, now, FALSE))
<1>1. after \in [Keys -> RunStates]
  BY MarkedType DEF ScheduleTypeOK, RunStates
<1>2. Earliest(after) \in 0 .. LastTime
  BY EarliestIs DEF ScheduleTypeOK
<1>3. /\ runState' = IF ends THEN Stop(after, lists, TRUE) ELSE after
      /\ state' = IF ends THEN "ENDED" ELSE "ACTIVE"
      /\ nextRunAt' = Earliest(after)
      /\ revision' = revision + 1
      /\ Finish(x)
      /\ UNCHANGED <<clock, cutoff, epoch, releasedCount, runAt, tasks>>
  BY DEF CommitResume
<1> HIDE DEF after, lists
<1>4. runState' \in [Keys -> RunStates]
  BY <1>1, <1>3, StopType
<1>5. state' \in States /\ revision' \in Nat
  BY <1>3 DEF ScheduleTypeOK, States
<1> HIDE DEF ends
<1> QED BY <1>2, <1>3, <1>4, <1>5, FinishType DEF ScheduleTypeOK, clock

LEMMA EditType ==
  ASSUME ScheduleTypeOK, EditInv, NEW x \in Transactions, CommitEdit(x)
  PROVE  ScheduleTypeOK'
<1> DEFINE lists == Split(runState, Stoppable(runState, now, TRUE))
           rest == Stop(runState, lists, TRUE)
           e == epoch + 1
           new == IF state = "ACTIVE" THEN Plan(rest, now, e, releasedCount)
                  ELSE {}
           after == Marked(rest, new, "PLANNED")
<1>1. after \in [Keys -> RunStates]
  BY MarkedType, StopType DEF ScheduleTypeOK, RunStates
<1>2. Earliest(after) \in 0 .. LastTime
  BY EarliestIs DEF ScheduleTypeOK
<1>3. /\ runState' = after
      /\ runAt' = Times0(after)
      /\ nextRunAt' = IF state = "ACTIVE" THEN Earliest(after) ELSE nextRunAt
      /\ epoch' = epoch + 1
      /\ revision' = revision + 1
      /\ Finish(x)
      /\ UNCHANGED <<clock, cutoff, state, releasedCount, tasks>>
  BY DEF CommitEdit
<1>4. epoch + 1 \in Epochs
  <2>1. epoch < LastEpoch
    BY DEF CommitEdit, EditInv
  <2> QED BY <2>1 DEF ScheduleTypeOK, Epochs
<1> HIDE DEF after
<1>5. runAt' \in [Keys -> Times]
  BY <1>3, Times0Type DEF ScheduleTypeOK
<1> QED BY <1>1, <1>2, <1>3, <1>4, <1>5, FinishType DEF ScheduleTypeOK, clock

LEMMA ChangeType ==
  ASSUME ScheduleTypeOK, NEW k \in Keys, NEW s \in RunStates, NEW t \in Times,
         ChangeRun(k, s, t)
  PROVE  ScheduleTypeOK'
<1>1. PICK S \in Excess(Marked(runState, {k}, s), k) :
        LET rest == Marked(Marked(runState, {k}, s), S, "NONE")
            after == Marked(rest, Plan(rest, now, epoch, releasedCount),
                            "PLANNED")
            times == [j \in Keys |-> IF j = k THEN t ELSE Times0(rest)[j]]
            wakes == {times[j] : j \in In(after, "PLANNED")}
        IN  /\ runState' = after
            /\ runAt' = times
            /\ nextRunAt' = IF wakes = {} THEN t
                            ELSE CHOOSE u \in wakes : \A v \in wakes : u <= v
  BY DEF ChangeRun
<1> DEFINE rest == Marked(Marked(runState, {k}, s), S, "NONE")
           after == Marked(rest, Plan(rest, now, epoch, releasedCount),
                           "PLANNED")
           times == [j \in Keys |-> IF j = k THEN t ELSE Times0(rest)[j]]
           wakes == {times[j] : j \in In(after, "PLANNED")}
<1>2. rest \in [Keys -> RunStates] /\ after \in [Keys -> RunStates]
  BY MarkedType DEF ScheduleTypeOK, RunStates
<1>3. times \in [Keys -> Times]
  BY Times0Type DEF ScheduleTypeOK
<1>4. wakes \in SUBSET Times
  <2> HIDE DEF times, after
  <2> QED BY <1>3 DEF In
<1>5. /\ runState' = after /\ runAt' = times
      /\ nextRunAt' = IF wakes = {} THEN t
                      ELSE CHOOSE u \in wakes : \A v \in wakes : u <= v
  BY <1>1
<1>6. nextRunAt' \in Times
  <2> HIDE DEF wakes
  <2>1. CASE wakes = {}
    BY <1>5, <2>1
  <2>2. CASE wakes # {}
    <3>1. wakes \in SUBSET Nat
      BY <1>4 DEF Times
    <3>2. \E u \in wakes : \A v \in wakes : u <= v
      BY <2>2, <3>1, MinExists
    <3>3. (CHOOSE u \in wakes : \A v \in wakes : u <= v) \in wakes
      BY <3>2
    <3> QED BY <1>4, <1>5, <2>2, <3>3
  <2> QED BY <2>1, <2>2
<1>7. UNCHANGED <<clock, cutoff, state, epoch, releasedCount, tasks, open>>
      /\ revision' = revision + 1
  BY DEF ChangeRun
<1> HIDE DEF after, times, wakes
<1> QED BY <1>2, <1>3, <1>5, <1>6, <1>7 DEF ScheduleTypeOK, clock, open, Times

\* What a batch of the close does to the schedule.
LEMMA BatchIs ==
  ASSUME TypeOK, NEW w, CloseSchedule(w)
  PROVE  \E n \in 0 .. CloseLimit, S \in SUBSET StillOwed(runState) :
           LET released == Marked(runState, S, "RELEASED")
               rest == StillOwed(released)
               lists == Split(released, Stoppable(released, now, FALSE))
           IN  /\ Cardinality(S) = n
               /\ n = CloseLimit \/ S = StillOwed(runState)
               /\ runState' = IF rest = {} THEN Stop(released, lists, TRUE)
                              ELSE released
               /\ tasks' =
                    [k \in Keys |-> tasks[k] + IF k \in S THEN 1 ELSE 0]
               /\ releasedCount' = releasedCount + n
               /\ IF rest = {}
                  THEN /\ state' = "ENDED" /\ nextRunAt' = 0
                       /\ revision' = revision + 1
                  ELSE /\ state' = state /\ nextRunAt' = Earliest(released)
                       /\ revision' = revision
<1>1. PICK n \in 0 .. CloseLimit, S \in SUBSET StillOwed(runState) :
        LET released == Marked(runState, S, "RELEASED")
            rest == StillOwed(released)
            lists == Split(released, Stoppable(released, now, FALSE))
        IN  /\ Cardinality(S) = n
            /\ n = CloseLimit \/ S = StillOwed(runState)
            /\ runState' = IF rest = {} THEN Stop(released, lists, TRUE)
                           ELSE released
            /\ tasks' = [k \in Keys |-> tasks[k] + IF k \in S THEN 1 ELSE 0]
            /\ releasedCount' = releasedCount + n
            /\ state' = IF rest = {} THEN "ENDED" ELSE state
            /\ nextRunAt' = IF rest = {} THEN 0 ELSE Earliest(released)
            /\ revision' = revision + IF rest = {} THEN 1 ELSE 0
  BY DEF CloseSchedule, Oldest, Ends
<1>2. revision \in Nat
  BY DEF TypeOK, ScheduleTypeOK
<1> DEFINE rest == StillOwed(Marked(runState, S, "RELEASED"))
<1>3. IF rest = {} THEN /\ state' = "ENDED" /\ nextRunAt' = 0
                        /\ revision' = revision + 1
      ELSE /\ state' = state /\ revision' = revision
           /\ nextRunAt' = Earliest(Marked(runState, S, "RELEASED"))
  <2>1. /\ state' = IF rest = {} THEN "ENDED" ELSE state
        /\ nextRunAt' = IF rest = {} THEN 0
                        ELSE Earliest(Marked(runState, S, "RELEASED"))
        /\ revision' = revision + IF rest = {} THEN 1 ELSE 0
    BY <1>1
  <2> HIDE DEF rest
  <2> QED BY <1>2, <2>1
<1> WITNESS n \in 0 .. CloseLimit, S \in SUBSET StillOwed(runState)
<1> QED BY <1>1, <1>3

LEMMA CloseScheduleType ==
  ASSUME TypeOK, NEW w \in Workers, CloseSchedule(w)
  PROVE  TypeOK'
<1>1. PICK n \in 0 .. CloseLimit, S \in SUBSET StillOwed(runState) :
        LET released == Marked(runState, S, "RELEASED")
            rest == StillOwed(released)
            lists == Split(released, Stoppable(released, now, FALSE))
        IN  /\ runState' = IF rest = {} THEN Stop(released, lists, TRUE)
                           ELSE released
            /\ tasks' = [k \in Keys |-> tasks[k] + IF k \in S THEN 1 ELSE 0]
            /\ releasedCount' = releasedCount + n
            /\ IF rest = {}
               THEN /\ state' = "ENDED" /\ nextRunAt' = 0
                    /\ revision' = revision + 1
               ELSE /\ state' = state /\ nextRunAt' = Earliest(released)
                    /\ revision' = revision
  BY BatchIs
<1> DEFINE released == Marked(runState, S, "RELEASED")
           rest == StillOwed(released)
           lists == Split(released, Stoppable(released, now, FALSE))
<1>2. released \in [Keys -> RunStates]
  BY MarkedType DEF TypeOK, ScheduleTypeOK, RunStates
<1>3. runState' \in [Keys -> RunStates]
  <2> HIDE DEF rest, released, lists
  <2>1. runState' = IF rest = {} THEN Stop(released, lists, TRUE) ELSE released
    BY <1>1 DEF rest, released, lists
  <2> QED BY <1>2, <2>1, StopType
<1>4. Earliest(released) \in 0 .. LastTime
  BY EarliestIs DEF TypeOK, ScheduleTypeOK
<1>5. runAt' \in [Keys -> Times]
  <2>1. PICK rs : runAt' = Times0(rs)
    BY DEF CloseSchedule
  <2> QED BY <2>1, Times0Type DEF TypeOK, ScheduleTypeOK
<1>6. tasks' \in [Keys -> Nat] /\ releasedCount' \in Nat
  BY <1>1 DEF TypeOK, ScheduleTypeOK
<1>7. /\ state' \in States /\ nextRunAt' \in 0 .. LastTime /\ revision' \in Nat
  <2> HIDE DEF rest, released
  <2>1. CASE rest = {}
    BY <1>1, <2>1 DEF TypeOK, ScheduleTypeOK, States, rest, released
  <2>2. CASE rest # {}
    BY <1>1, <1>4, <2>2 DEF TypeOK, ScheduleTypeOK, States, rest, released
  <2> QED BY <2>1, <2>2
<1>8. UNCHANGED <<clock, cutoff, epoch, open, opState, lease, due, pending, at,
                  owed, waived>>
      /\ attempts' = 0 /\ named' = FALSE /\ fresh' = TRUE
  BY DEF CloseSchedule
<1> QED BY <1>3, <1>5, <1>6, <1>7, <1>8 DEF TypeOK, ScheduleTypeOK, clock, open

\* The other steps of the close leave the schedule alone.
LEMMA OperationType ==
  ASSUME TypeOK, NEW w \in Workers,
         \/ Claim(w) \/ FindRevocation(w) \/ Revoked(w) \/ Yield(w) \/ Crash(w)
         \/ Fail(w, TRUE) \/ Fail(w, FALSE)
  PROVE  TypeOK'
<1>1. UNCHANGED scheduleVars
  BY DEF Claim, FindRevocation, Revoked, Yield, Crash, Fail
<1>2. ScheduleTypeOK'
  BY <1>1 DEF TypeOK, ScheduleTypeOK, scheduleVars, clock, schedule, ledger,
    open
<1>3. CloseTypeOK'
  <2> USE DEF TypeOK, CloseTypeOK
  <2>1. CASE Claim(w)
    BY <2>1 DEF Claim
  <2>2. CASE FindRevocation(w)
    BY <2>2 DEF FindRevocation
  <2>3. CASE Revoked(w)
    BY <2>3 DEF Revoked, operation
  <2>4. CASE Yield(w)
    BY <2>4 DEF Yield, Stops
  <2>5. CASE Crash(w)
    BY <2>5 DEF Crash, Stops, operation
  <2>6. ASSUME NEW b \in BOOLEAN, Fail(w, b) PROVE CloseTypeOK'
    <3>1. CASE Owns(w)
      <4>1. /\ attempts' = attempts + 1 /\ named' = b
            /\ opState' \in {"CLOSE_FAILED", "CLOSING"}
            /\ lease' = NoWorker /\ fresh' = FALSE /\ due' = FALSE
            /\ at' = [at EXCEPT ![w] = "idle"]
            /\ UNCHANGED <<pending, owed, waived>>
        BY <2>6, <3>1 DEF Fail, Stops
      <4>2. named' \in BOOLEAN
        BY <2>6, <4>1
      <4>3. attempts' \in Nat /\ opState' \in {"CLOSE_FAILED", "CLOSING"}
        BY <4>1
      <4>4. at' \in [Workers -> {"idle", "holding", "revoking"}]
        BY <4>1
      <4>5. fresh' \in BOOLEAN /\ due' \in BOOLEAN /\ lease' = NoWorker
        BY <4>1
      <4> QED BY <4>1, <4>2, <4>3, <4>4, <4>5, Zenon
    <3>2. CASE ~Owns(w)
      BY <2>6, <3>2 DEF Fail, Stops, operation
    <3> QED BY <3>1, <3>2
  <2> QED BY <2>1, <2>2, <2>3, <2>4, <2>5, <2>6
<1> QED BY <1>2, <1>3 DEF TypeOK, CloseTypeOK

\* A change of one Run is to a state and a time of the model.
LEMMA ChangeIs ==
  ASSUME ScheduleTypeOK, NEW k \in Keys, Skip(k) \/ Move(k) \/ Restore(k)
  PROVE  \E s \in {"PLANNED", "SKIPPED"}, t \in Times :
           runState[k] \in {"PLANNED", "SKIPPED"} /\ ChangeRun(k, s, t)
<1>1. runAt[k] \in Times /\ k[2] \in Times
  BY DEF ScheduleTypeOK, Keys
<1>2. CASE Skip(k)
  BY <1>1, <1>2 DEF Skip
<1>3. CASE Move(k)
  BY <1>3 DEF Move
<1>4. CASE Restore(k)
  BY <1>1, <1>4 DEF Restore, Exception
<1> QED BY <1>2, <1>3, <1>4

LEMMA TypeStep == TypeOK /\ EditInv /\ [Next]_vars => TypeOK'
<1> SUFFICES ASSUME TypeOK, EditInv, [Next]_vars PROVE TypeOK'
  OBVIOUS
<1>0. ScheduleTypeOK /\ CloseTypeOK
  BY DEF TypeOK, CloseTypeOK
<1>1. ASSUME ScheduleNext, UNCHANGED closeVars PROVE TypeOK'
  <2>1. ASSUME NEW x \in Transactions, Rollback(x) PROVE ScheduleTypeOK'
    BY <1>0, <2>1, FinishType DEF Rollback, ScheduleTypeOK, clock, schedule,
      ledger
  <2>2. ASSUME NEW k \in Keys, Skip(k) \/ Move(k) \/ Restore(k)
        PROVE  ScheduleTypeOK'
    BY <1>0, <2>2, ChangeIs, ChangeType DEF RunStates
  <2>3. ASSUME RunNow PROVE ScheduleTypeOK'
    BY <1>0, <2>3 DEF RunNow, ScheduleTypeOK, clock, ledger, open
  <2>4. ASSUME Tick PROVE ScheduleTypeOK'
    BY <1>0, <2>4 DEF Tick, ScheduleTypeOK, schedule, ledger, open, Times
  <2>5. ScheduleTypeOK'
    BY <1>0, <1>1, <2>1, <2>2, <2>3, <2>4, OpenType, ReleaseType,
      StopStepType, ResumeType, EditType DEF ScheduleNext
  <2>6. CloseTypeOK'
    BY <1>0, <1>1 DEF CloseTypeOK, closeVars, operation
  <2> QED BY <2>5, <2>6 DEF TypeOK, CloseTypeOK
<1>2. CASE RequestClose
  <2>1. ScheduleTypeOK'
    BY <1>0, <1>2 DEF RequestClose, ScheduleTypeOK, clock, schedule, ledger,
      open, Times
  <2>2. CloseTypeOK'
    BY <1>0, <1>2 DEF RequestClose, CloseTypeOK, In
  <2> QED BY <2>1, <2>2 DEF TypeOK, CloseTypeOK
<1>3. ASSUME NEW K \in SUBSET Keys, Recover(K) PROVE TypeOK'
  <2>1. runState' \in [Keys -> RunStates]
    BY <1>0, <1>3, MarkedType DEF Recover, ScheduleTypeOK, RunStates
  <2>2. ScheduleTypeOK'
    BY <1>0, <1>3, <2>1 DEF Recover, ScheduleTypeOK, clock, schedule, open
  <2>3. CloseTypeOK'
    BY <1>0, <1>3 DEF Recover, CloseTypeOK
  <2> QED BY <2>2, <2>3 DEF TypeOK, CloseTypeOK
<1>4. ASSUME NEW w \in Workers, Finalize(w) PROVE TypeOK'
  <2>1. runState' \in [Keys -> RunStates]
    BY <1>0, <1>4, MarkedType DEF Finalize, ScheduleTypeOK, RunStates
  <2>2. ScheduleTypeOK'
    BY <1>0, <1>4, <2>1 DEF Finalize, ScheduleTypeOK, clock, schedule, open
  <2>3. CloseTypeOK'
    BY <1>0, <1>4 DEF Finalize, CloseTypeOK, Stops
  <2> QED BY <2>2, <2>3 DEF TypeOK, CloseTypeOK
<1>5. CASE ExpireLease \/ BecomeDue
  <2>1. ScheduleTypeOK'
    BY <1>0, <1>5 DEF ExpireLease, BecomeDue, ScheduleTypeOK, scheduleVars,
      clock, schedule, ledger, open
  <2>2. CloseTypeOK'
    BY <1>0, <1>5 DEF ExpireLease, BecomeDue, CloseTypeOK
  <2> QED BY <2>1, <2>2 DEF TypeOK, CloseTypeOK
<1>6. CASE UNCHANGED vars
  BY <1>6 DEF vars, scheduleVars, closeVars, operation, clock, schedule,
    ledger, open, TypeOK, ScheduleTypeOK
<1>7. RetryClose => Recover({})
  BY DEF RetryClose
<1>8. CancelOwed => \E K \in SUBSET Keys : Recover(K)
  BY DEF CancelOwed, In
<1>9. ASSUME NEW w \in Workers, NEW b \in BOOLEAN, Fail(w, b)
      PROVE  Fail(w, TRUE) \/ Fail(w, FALSE)
  BY <1>9
<1> QED BY <1>1, <1>2, <1>3, <1>4, <1>5, <1>6, <1>7, <1>8, <1>9,
  CloseScheduleType, OperationType DEF Next, Work

LEMMA EditStep == TypeOK /\ EditInv /\ [Next]_vars => EditInv'
<1> SUFFICES ASSUME TypeOK, EditInv, [Next]_vars,
                    NEW x \in Transactions, doing'[x] = "edit"
             PROVE  /\ saw'[x].revision <= revision'
                    /\ saw'[x].revision = revision' => epoch' < LastEpoch
  BY DEF EditInv
<1>0. ScheduleTypeOK /\ revision \in Nat /\ epoch \in Epochs
  BY DEF TypeOK, ScheduleTypeOK
<1>1. ASSUME OpenEdit(x)
      PROVE  /\ saw'[x].revision = revision /\ revision' = revision
             /\ epoch' < LastEpoch
  BY <1>1, <1>0 DEF OpenEdit, Begin, Read, schedule, ScheduleTypeOK
\* Whatever else the step does, x was open before it.
<1> DEFINE Kept == doing[x] = "edit" /\ saw'[x] = saw[x]
<1> DEFINE Bumped == revision' = revision + 1
           Same == revision' = revision /\ epoch' = epoch
<1>2. ASSUME Kept, Bumped \/ Same
      PROVE  /\ saw'[x].revision <= revision'
             /\ saw'[x].revision = revision' => epoch' < LastEpoch
  <2>1. saw[x].revision \in Nat
    BY <1>0 DEF ScheduleTypeOK, Snapshot
  <2> QED BY <1>0, <1>2, <2>1 DEF EditInv
<1>3. ASSUME NEW y \in Transactions, Finish(y) PROVE Kept
  BY <1>0, <1>3 DEF Finish, ScheduleTypeOK
<1>4. ASSUME NEW y \in Transactions, NEW op, NEW s, NEW l,
             Begin(y, op, s, l), op # "edit"
      PROVE  Kept
  BY <1>0, <1>4 DEF Begin, ScheduleTypeOK
<1>5. ASSUME NEW y \in Transactions, Begin(y, "edit", Read(1, "ACTIVE", 1,
             releasedCount, revision), <<{}, {}>>), y # x
      PROVE  Kept
  BY <1>0, <1>5 DEF Begin, ScheduleTypeOK
<1>6. UNCHANGED open => Kept
  BY DEF open
<1>7. ASSUME NEW y \in Transactions, Rollback(y) PROVE Kept /\ Same
  BY <1>3, <1>7 DEF Rollback, schedule
<1>8. ASSUME NEW y \in Transactions, OpenRelease(y) \/ OpenStop(y, "pause")
             \/ OpenStop(y, "end") \/ OpenResume(y)
      PROVE  Kept /\ Same
  BY <1>4, <1>8 DEF OpenRelease, OpenStop, OpenResume, schedule
<1>9. ASSUME NEW y \in Transactions, OpenEdit(y), y # x PROVE Kept /\ Same
  BY <1>5, <1>9 DEF OpenEdit, schedule
<1>10. ASSUME NEW y \in Transactions, CommitRelease(y) PROVE Kept /\ Same
  BY <1>3, <1>10 DEF CommitRelease
<1>11. ASSUME NEW y \in Transactions, CommitStop(y) \/ CommitResume(y)
              \/ CommitEdit(y)
       PROVE  Kept /\ Bumped
  BY <1>3, <1>11 DEF CommitStop, CommitResume, CommitEdit
<1>12. ASSUME NEW k \in Keys, Skip(k) \/ Move(k) \/ Restore(k)
       PROVE  Kept /\ Bumped
  <2>1. PICK s, t : ChangeRun(k, s, t)
    BY <1>12 DEF Skip, Move, Restore
  <2> QED BY <1>6, <2>1 DEF ChangeRun
<1>13. RunNow => Kept /\ Bumped
  BY <1>6 DEF RunNow
<1>14. Tick => Kept /\ Same
  BY <1>6 DEF Tick, schedule
<1>15. RequestClose \/ RetryClose \/ CancelOwed => Kept /\ Same
  BY <1>6 DEF RequestClose, RetryClose, CancelOwed, Recover, schedule
<1>16. ASSUME NEW w \in Workers, CloseSchedule(w)
       PROVE  Kept /\ (Bumped \/ Same)
  <2>1. revision' = revision + 1 \/ revision' = revision
    BY <1>16, BatchIs
  <2> QED BY <1>6, <1>16, <2>1 DEF CloseSchedule
<1>17. ASSUME NEW w \in Workers, Finalize(w) PROVE Kept /\ Same
  BY <1>6, <1>17 DEF Finalize, schedule
<1>18. UNCHANGED scheduleVars => Kept /\ Same
  BY <1>6 DEF scheduleVars, schedule
<1>19. ASSUME NEW w \in Workers,
              \/ Claim(w) \/ FindRevocation(w) \/ Revoked(w) \/ Yield(w)
              \/ Crash(w) \/ \E b \in BOOLEAN : Fail(w, b)
       PROVE  UNCHANGED scheduleVars
  BY <1>19 DEF Claim, FindRevocation, Revoked, Yield, Crash, Fail
<1>20. ExpireLease \/ BecomeDue \/ UNCHANGED vars => UNCHANGED scheduleVars
  BY DEF ExpireLease, BecomeDue, vars
<1> HIDE DEF Kept, Bumped, Same
<1>21. ScheduleNext => OpenEdit(x) \/ (Kept /\ (Bumped \/ Same))
  BY <1>7, <1>8, <1>9, <1>10, <1>11, <1>12, <1>13, <1>14 DEF ScheduleNext
<1>22. Next => OpenEdit(x) \/ (Kept /\ (Bumped \/ Same))
  BY <1>15, <1>16, <1>17, <1>18, <1>19, <1>20, <1>21 DEF Next, Work
<1>23. OpenEdit(x) \/ (Kept /\ (Bumped \/ Same))
  BY <1>18, <1>20, <1>22
<1> QED BY <1>0, <1>1, <1>2, <1>23

\* Every variable keeps its type, through any crossing of operations: an
\* edit that commits after another one never runs past the last rule.
THEOREM TypeCorrect == Spec => []TypeOK
<1>1. Init => TypeOK /\ EditInv
  BY InitType DEF Init, ScheduleInit, EditInv
<1>2. TypeOK /\ EditInv /\ [Next]_vars => TypeOK' /\ EditInv'
  BY TypeStep, EditStep
<1> QED BY <1>1, <1>2, PTL DEF Spec

-----------------------------------------------------------------------------
(* One Task for each Run                                                   *)

\* The steps that touch neither the ledger nor the schedule.
LEMMA QuietSteps ==
  ASSUME \/ \E x \in Transactions :
              \/ Rollback(x) \/ OpenRelease(x) \/ OpenResume(x) \/ OpenEdit(x)
              \/ \E op \in {"pause", "end"} : OpenStop(x, op)
         \/ Tick \/ RequestClose \/ ExpireLease \/ BecomeDue \/ UNCHANGED vars
         \/ \E w \in Workers :
              \/ Claim(w) \/ FindRevocation(w) \/ Revoked(w) \/ Yield(w)
              \/ Crash(w) \/ \E b \in BOOLEAN : Fail(w, b)
  PROVE  UNCHANGED <<schedule, ledger, inProject>>
<1>1. ASSUME NEW x \in Transactions,
             \/ Rollback(x) \/ OpenRelease(x) \/ OpenResume(x) \/ OpenEdit(x)
             \/ \E op \in {"pause", "end"} : OpenStop(x, op)
      PROVE  UNCHANGED <<schedule, ledger, inProject>>
  BY <1>1 DEF Rollback, OpenRelease, OpenResume, OpenEdit, OpenStop, clock
<1>2. CASE Tick \/ RequestClose
  BY <1>2 DEF Tick, RequestClose, clock
<1>3. CASE ExpireLease \/ BecomeDue \/ UNCHANGED vars
  BY <1>3 DEF ExpireLease, BecomeDue, vars, scheduleVars, clock
<1>4. ASSUME NEW w \in Workers,
             \/ Claim(w) \/ FindRevocation(w) \/ Revoked(w) \/ Yield(w)
             \/ Crash(w) \/ \E b \in BOOLEAN : Fail(w, b)
      PROVE  UNCHANGED <<schedule, ledger, inProject>>
  BY <1>4 DEF Claim, FindRevocation, Revoked, Yield, Crash, Fail,
    scheduleVars, clock
<1> QED BY <1>1, <1>2, <1>3, <1>4

OneTask(k) ==
  /\ runState[k] = "RELEASED" => tasks[k] > 0
  /\ inProject => /\ tasks[k] <= 1
                  /\ tasks[k] = 1 => runState[k] = "RELEASED"

\* A row may change as it likes while it is not of a released Run, and
\* becomes one only with its Task.
LEMMA OneTaskKept ==
  ASSUME NEW k \in Keys, OneTask(k), tasks[k] \in Nat, inProject' = inProject,
         tasks'[k] = tasks[k],
         \/ runState'[k] = runState[k]
         \/ /\ runState'[k] # "RELEASED"
            /\ inProject => runState[k] # "RELEASED"
  PROVE  OneTask(k)'
BY DEF OneTask

LEMMA OneTaskMade ==
  ASSUME NEW k \in Keys, OneTask(k), tasks[k] \in Nat, inProject' = inProject,
         runState[k] # "RELEASED", runState'[k] = "RELEASED",
         tasks'[k] = tasks[k] + 1
  PROVE  OneTask(k)'
BY DEF OneTask

LEMMA OneTaskStep ==
  TypeOK /\ TypeOK' /\ EditInv /\ OneTaskPerRun /\ [Next]_vars
    => OneTaskPerRun'
<1> SUFFICES ASSUME TypeOK, TypeOK', EditInv, OneTaskPerRun, [Next]_vars,
                    NEW k \in Keys
             PROVE  OneTask(k)'
  BY DEF OneTaskPerRun, OneTask
<1>0. /\ OneTask(k) /\ tasks[k] \in Nat /\ ScheduleTypeOK
      /\ epoch \in Epochs /\ epoch' \in Epochs
      /\ \A x \in Transactions : saw[x].epoch \in Epochs
  BY DEF OneTaskPerRun, OneTask, TypeOK, ScheduleTypeOK, Snapshot
<1>1. ASSUME UNCHANGED <<schedule, ledger, inProject>> PROVE OneTask(k)'
  BY <1>1 DEF ledger, OneTask, OneTaskPerRun
<1>2. ASSUME NEW x \in Transactions, CommitRelease(x) PROVE OneTask(k)'
  <2> DEFINE batch == listed[x][1]
             count == saw[x].count + Cardinality(batch)
             released == Marked(runState, batch, "RELEASED")
             new == Plan(released, saw[x].at, epoch, count)
  <2>1. /\ runState' = Marked(released, new, "PLANNED")
        /\ tasks' = [j \in Keys |-> tasks[j] + IF j \in batch THEN 1 ELSE 0]
        /\ batch \subseteq In(runState, "PLANNED") /\ inProject' = inProject
    BY <1>2 DEF CommitRelease, Claims, clock
  <2>2. \A j \in new : released[j] = "NONE"
    BY <1>0, PlanIs
  <2> HIDE DEF batch, new
  <2>3. CASE k \in batch
    <3>1. runState[k] # "RELEASED" /\ runState'[k] = "RELEASED"
      BY <2>1, <2>2, <2>3 DEF Marked, In
    <3>2. tasks'[k] = tasks[k] + 1
      BY <2>1, <2>3
    <3> QED BY <1>0, <2>1, <3>1, <3>2, OneTaskMade
  <2>4. CASE k \notin batch
    <3>1. \/ runState'[k] = runState[k]
          \/ runState'[k] # "RELEASED" /\ runState[k] # "RELEASED"
      BY <2>1, <2>2, <2>4 DEF Marked
    <3>2. tasks'[k] = tasks[k]
      BY <1>0, <2>1, <2>4
    <3> QED BY <1>0, <2>1, <3>1, <3>2, OneTaskKept
  <2> QED BY <2>3, <2>4
<1>3. ASSUME NEW x \in Transactions, CommitStop(x) PROVE OneTask(k)'
  <2> DEFINE lists == IF inProject
                      THEN Split(runState, Stoppable(runState, now, FALSE))
                      ELSE listed[x]
             ends == doing[x] = "end"
  <2>1. /\ runState' = Stop(runState, lists, ends) /\ tasks' = tasks
        /\ inProject' = inProject
        /\ ends => \A j \in lists[2] : runState[j] # "RELEASED"
    BY <1>3 DEF CommitStop, clock
  <2>2. inProject => \A j \in lists[1] \cup lists[2] : runState[j] # "RELEASED"
    BY DEF Split, Stoppable
  <2> HIDE DEF lists, ends
  <2>3. \/ runState'[k] = runState[k]
        \/ k \in lists[1] /\ runState'[k] # "RELEASED"
        \/ k \in lists[2] /\ runState'[k] # "RELEASED"
    BY <2>1 DEF Stop, Marked
  <2> QED BY <1>0, <2>1, <2>2, <2>3, OneTaskKept
<1>4. ASSUME NEW x \in Transactions, CommitResume(x) PROVE OneTask(k)'
  <2> DEFINE missed == {j \in In(runState, "PLANNED") : runAt[j] <= now}
             rest == Marked(runState, missed, "CANCELED")
             new == Plan(rest, now, saw[x].epoch, saw[x].count)
             after == Marked(rest, new, "PLANNED")
             ends == Earliest(after) = 0
             lists == Split(after, Stoppable(after, now, FALSE))
  <2>1. /\ runState' = IF ends THEN Stop(after, lists, TRUE) ELSE after
        /\ tasks' = tasks /\ inProject' = inProject
    BY <1>4 DEF CommitResume, clock
  <2>2. \A j \in new : rest[j] = "NONE"
    BY <1>0, PlanIs
  <2>3. \A j \in lists[1] \cup lists[2] : after[j] # "RELEASED"
    BY DEF Split, Stoppable
  <2> HIDE DEF new, lists, ends
  <2>4. \/ after[k] = runState[k]
        \/ after[k] # "RELEASED" /\ runState[k] # "RELEASED"
    BY <2>2 DEF Marked, In
  <2> HIDE DEF after
  <2>5. \/ runState'[k] = after[k]
        \/ runState'[k] # "RELEASED" /\ after[k] # "RELEASED"
    BY <2>1, <2>3 DEF Stop, Marked
  <2> QED BY <1>0, <2>1, <2>4, <2>5, OneTaskKept
<1>5. ASSUME NEW x \in Transactions, CommitEdit(x) PROVE OneTask(k)'
  <2> DEFINE lists == Split(runState, Stoppable(runState, now, TRUE))
             rest == Stop(runState, lists, TRUE)
             new == IF state = "ACTIVE"
                    THEN Plan(rest, now, epoch + 1, releasedCount) ELSE {}
  <2>1. /\ runState' = Marked(rest, new, "PLANNED")
        /\ tasks' = tasks /\ inProject' = inProject /\ epoch' = epoch + 1
    BY <1>5 DEF CommitEdit, clock
  <2>2. \A j \in new : rest[j] = "NONE"
    BY <1>0, <2>1, PlanIs
  <2>3. \A j \in lists[1] \cup lists[2] : runState[j] # "RELEASED"
    BY DEF Split, Stoppable
  <2> HIDE DEF new, lists
  <2>4. \/ rest[k] = runState[k]
        \/ rest[k] # "RELEASED" /\ runState[k] # "RELEASED"
    BY <2>3 DEF Stop, Marked
  <2>5. \/ runState'[k] = rest[k]
        \/ runState'[k] # "RELEASED" /\ rest[k] # "RELEASED"
    <3> HIDE DEF rest
    <3> QED BY <2>1, <2>2 DEF Marked
  <2> HIDE DEF rest
  <2> QED BY <1>0, <2>1, <2>4, <2>5, OneTaskKept
<1>6. ASSUME NEW i \in Keys, NEW s \in {"PLANNED", "SKIPPED"}, NEW t,
             runState[i] \in {"PLANNED", "SKIPPED"}, ChangeRun(i, s, t)
      PROVE  OneTask(k)'
  <2>1. PICK S \in Excess(Marked(runState, {i}, s), i) :
          LET rest == Marked(Marked(runState, {i}, s), S, "NONE")
          IN  runState' = Marked(rest, Plan(rest, now, epoch, releasedCount),
                                 "PLANNED")
    BY <1>6 DEF ChangeRun
  <2> DEFINE changed == Marked(runState, {i}, s)
             rest == Marked(changed, S, "NONE")
             new == Plan(rest, now, epoch, releasedCount)
  <2>2. \A j \in S : changed[j] = "PLANNED"
    <3> HIDE DEF changed
    <3> QED BY <2>1 DEF Excess, In, changed
  <2>3. \A j \in new : rest[j] = "NONE"
    BY <1>0, PlanIs
  <2>4. runState' = Marked(rest, new, "PLANNED")
    BY <2>1
  <2>5. UNCHANGED <<tasks, inProject>>
    BY <1>6 DEF ChangeRun, clock
  <2> HIDE DEF new
  <2>6. \/ runState'[k] = runState[k]
        \/ runState'[k] # "RELEASED" /\ runState[k] # "RELEASED"
    BY <1>6, <2>2, <2>3, <2>4 DEF Marked
  <2> QED BY <1>0, <2>5, <2>6, OneTaskKept
<1>7. ASSUME NEW K \in SUBSET In(runState, "PLANNED"), Recover(K)
      PROVE  OneTask(k)'
  <2>1. /\ runState' = Marked(runState, K, "CANCELED")
        /\ UNCHANGED <<tasks, inProject>>
    BY <1>7 DEF Recover, clock
  <2>2. \/ runState'[k] = runState[k]
        \/ runState'[k] # "RELEASED" /\ runState[k] # "RELEASED"
    BY <2>1 DEF Marked, In
  <2> QED BY <1>0, <2>1, <2>2, OneTaskKept
<1>8. ASSUME NEW w \in Workers, CloseSchedule(w) PROVE OneTask(k)'
  <2>1. PICK S \in SUBSET StillOwed(runState) :
          LET released == Marked(runState, S, "RELEASED")
              lists == Split(released, Stoppable(released, now, FALSE))
          IN  /\ runState' = IF StillOwed(released) = {}
                             THEN Stop(released, lists, TRUE) ELSE released
              /\ tasks' = [j \in Keys |-> tasks[j] + IF j \in S THEN 1 ELSE 0]
    BY <1>8, BatchIs
  <2> DEFINE released == Marked(runState, S, "RELEASED")
             lists == Split(released, Stoppable(released, now, FALSE))
             ends == StillOwed(released) = {}
  <2>2. \A j \in S : runState[j] = "PLANNED"
    BY DEF StillOwed, In
  <2>3. \A j \in lists[1] \cup lists[2] : released[j] # "RELEASED"
    BY DEF Split, Stoppable
  <2>4. inProject' = inProject
    BY <1>8 DEF CloseSchedule, clock
  <2>5. /\ runState' = IF ends THEN Stop(released, lists, TRUE) ELSE released
        /\ tasks' = [j \in Keys |-> tasks[j] + IF j \in S THEN 1 ELSE 0]
    BY <2>1
  <2> HIDE DEF ends, lists
  <2>6. CASE k \in S
    <3>1. released[k] = "RELEASED"
      BY <2>6 DEF Marked
    <3>2. runState'[k] = "RELEASED"
      BY <2>3, <2>5, <3>1 DEF Stop, Marked
    <3>3. tasks'[k] = tasks[k] + 1
      BY <2>5, <2>6
    <3> QED BY <1>0, <2>2, <2>4, <2>6, <3>2, <3>3, OneTaskMade
  <2>7. CASE k \notin S
    <3>1. released[k] = runState[k]
      BY <2>7 DEF Marked
    <3>2. \/ runState'[k] = runState[k]
          \/ runState'[k] # "RELEASED" /\ runState[k] # "RELEASED"
      BY <2>3, <2>5, <3>1 DEF Stop, Marked
    <3>3. tasks'[k] = tasks[k]
      BY <1>0, <2>5, <2>7
    <3> QED BY <1>0, <2>4, <3>2, <3>3, OneTaskKept
  <2> QED BY <2>6, <2>7
<1>9. ASSUME NEW w \in Workers, Finalize(w) PROVE OneTask(k)'
  <2>1. \/ runState'[k] = runState[k]
        \/ runState'[k] # "RELEASED" /\ runState[k] # "RELEASED"
    BY <1>9 DEF Finalize, Marked
  <2>2. UNCHANGED <<tasks, inProject>>
    BY <1>9 DEF Finalize, clock
  <2> QED BY <1>0, <2>1, <2>2, OneTaskKept
<1>10. ASSUME RunNow PROVE OneTask(k)'
  <2>1. UNCHANGED <<ledger, inProject>>
    BY <1>10 DEF RunNow, clock
  <2> QED BY <1>0, <2>1, OneTaskKept DEF ledger
<1>11. RetryClose => \E K \in SUBSET In(runState, "PLANNED") : Recover(K)
  BY DEF RetryClose
<1>12. CancelOwed => \E K \in SUBSET In(runState, "PLANNED") : Recover(K)
  BY DEF CancelOwed
<1>13. ASSUME ScheduleNext PROVE OneTask(k)'
  BY <1>0, <1>1, <1>2, <1>3, <1>4, <1>5, <1>6, <1>10, <1>13, ChangeIs,
    QuietSteps DEF ScheduleNext
<1> QED BY <1>1, <1>7, <1>8, <1>9, <1>11, <1>12, <1>13, QuietSteps DEF Next,
  Work

LEMMA TypedSpec == Spec => [](TypeOK /\ EditInv)
<1>1. Init => TypeOK /\ EditInv
  BY InitType DEF Init, ScheduleInit, EditInv
<1>2. TypeOK /\ EditInv /\ [Next]_vars => TypeOK' /\ EditInv'
  BY TypeStep, EditStep
<1> QED BY <1>1, <1>2, PTL DEF Spec

\* A Run the ledger calls released has made its Task; in a project, whose
\* lock guards the ledger, no Run makes two, however many releases, changes
\* and closing batches cross, and the ledger forgets none that made one.
THEOREM OneTaskPerRunHolds == Spec => []OneTaskPerRun
<1>1. Init => OneTaskPerRun
  <2> SUFFICES ASSUME Init, NEW k \in Keys
               PROVE  tasks[k] = 0 /\ runState[k] # "RELEASED"
    BY DEF OneTaskPerRun
  <2> QED BY DEF Init, ScheduleInit, Marked
<1>2. TypeOK /\ TypeOK' /\ EditInv /\ OneTaskPerRun /\ [Next]_vars
      => OneTaskPerRun'
  BY OneTaskStep
<1> QED BY <1>1, <1>2, TypedSpec, PTL DEF Spec

-----------------------------------------------------------------------------
(* No planned Run is overlooked                                            *)

\* A row that is there keeps its time.
LEMMA Times0Planned ==
  ASSUME NEW rs, NEW k \in In(rs, "PLANNED")
  PROVE  Times0(rs)[k] = runAt[k]
BY DEF In, Times0

LEMMA OverlookedStep ==
  TypeOK /\ NoRunOverlooked /\ [Next]_vars => NoRunOverlooked'
<1> SUFFICES ASSUME TypeOK, NoRunOverlooked, [Next]_vars, state' = "ACTIVE",
                    NEW k \in In(runState', "PLANNED")
             PROVE  nextRunAt' \in 1 .. runAt'[k]
  BY DEF NoRunOverlooked
<1>0. ScheduleTypeOK /\ runAt \in [Keys -> Times] /\ k \in Keys
  BY DEF TypeOK, ScheduleTypeOK, In
<1>1. ASSUME UNCHANGED <<state, nextRunAt, runAt>>,
             In(runState', "PLANNED") \subseteq In(runState, "PLANNED")
      PROVE  nextRunAt' \in 1 .. runAt'[k]
  BY <1>1 DEF NoRunOverlooked
<1>2. ASSUME nextRunAt' = Earliest(runState'), runAt' = runAt
      PROVE  nextRunAt' \in 1 .. runAt'[k]
  BY <1>0, <1>2, EarliestIs
<1>3. ASSUME nextRunAt' = Earliest(runState'), runAt' = Times0(runState')
      PROVE  nextRunAt' \in 1 .. runAt'[k]
  BY <1>0, <1>3, EarliestIs, Times0Planned
<1>4. ASSUME NEW x \in Transactions, CommitRelease(x)
      PROVE  nextRunAt' \in 1 .. runAt'[k]
  <2>1. nextRunAt' = Earliest(runState') /\ runAt' = runAt
    BY <1>4 DEF CommitRelease
  <2> QED BY <1>2, <2>1
<1>5. ASSUME NEW x \in Transactions, CommitStop(x) PROVE FALSE
  BY <1>5 DEF CommitStop
<1>6. ASSUME NEW x \in Transactions, CommitResume(x)
      PROVE  nextRunAt' \in 1 .. runAt'[k]
  <2>1. nextRunAt' = Earliest(runState') /\ runAt' = runAt
    BY <1>6 DEF CommitResume
  <2> QED BY <1>2, <2>1
<1>7. ASSUME NEW x \in Transactions, CommitEdit(x)
      PROVE  nextRunAt' \in 1 .. runAt'[k]
  <2>1. nextRunAt' = Earliest(runState') /\ runAt' = Times0(runState')
    BY <1>7 DEF CommitEdit
  <2> QED BY <1>3, <2>1
<1>8. ASSUME NEW i \in Keys, NEW s \in {"PLANNED", "SKIPPED"},
             NEW t \in Times, ChangeRun(i, s, t)
      PROVE  nextRunAt' \in 1 .. runAt'[k]
  <2>1. PICK S \in Excess(Marked(runState, {i}, s), i) :
          LET rest == Marked(Marked(runState, {i}, s), S, "NONE")
              after == Marked(rest, Plan(rest, now, epoch, releasedCount),
                              "PLANNED")
              times == [j \in Keys |-> IF j = i THEN t ELSE Times0(rest)[j]]
              min == {times[j] : j \in In(after, "PLANNED")}
          IN  /\ runState' = after
              /\ runAt' = times
              /\ nextRunAt' = IF min = {} THEN t
                              ELSE CHOOSE u \in min : \A v \in min : u <= v
    BY <1>8 DEF ChangeRun
  <2> DEFINE wakes == {runAt'[j] : j \in In(runState', "PLANNED")}
  <2>2. ScheduleTypeOK'
    BY <1>0, <1>8, ChangeType DEF RunStates
  <2>3. wakes \in SUBSET Times /\ runAt'[k] \in wakes
    BY <2>2 DEF ScheduleTypeOK, In
  <2>4. nextRunAt' = CHOOSE u \in wakes : \A v \in wakes : u <= v
    <3>1. nextRunAt' = IF wakes = {} THEN t
                       ELSE CHOOSE u \in wakes : \A v \in wakes : u <= v
      BY <2>1
    <3> QED BY <2>3, <3>1
  <2> HIDE DEF wakes
  <2>5. \E u \in wakes : \A v \in wakes : u <= v
    BY <2>3, MinExists DEF Times
  <2>6. nextRunAt' \in wakes /\ nextRunAt' <= runAt'[k]
    BY <2>3, <2>4, <2>5
  <2> QED BY <2>3, <2>6 DEF Times
<1>9. ASSUME NEW K, Recover(K) PROVE nextRunAt' \in 1 .. runAt'[k]
  <2>1. UNCHANGED <<state, nextRunAt, runAt>>
        /\ runState' = Marked(runState, K, "CANCELED")
    BY <1>9 DEF Recover, schedule
  <2>2. In(runState', "PLANNED") \subseteq In(runState, "PLANNED")
    BY <2>1 DEF Marked, In
  <2> QED BY <1>1, <2>1, <2>2
<1>10. ASSUME NEW w \in Workers, CloseSchedule(w)
       PROVE  nextRunAt' \in 1 .. runAt'[k]
  <2>1. PICK S \in SUBSET StillOwed(runState) :
          LET released == Marked(runState, S, "RELEASED")
              rest == StillOwed(released)
              lists == Split(released, Stoppable(released, now, FALSE))
          IN  /\ runState' = IF rest = {} THEN Stop(released, lists, TRUE)
                             ELSE released
              /\ IF rest = {}
                 THEN /\ state' = "ENDED" /\ nextRunAt' = 0
                      /\ revision' = revision + 1
                 ELSE /\ state' = state /\ nextRunAt' = Earliest(released)
                      /\ revision' = revision
    BY <1>10, BatchIs
  <2>2. nextRunAt' = Earliest(runState')
    BY <2>1
  <2>3. runAt' = Times0(runState')
    BY <1>10 DEF CloseSchedule
  <2> QED BY <1>3, <2>2, <2>3
<1>11. ASSUME NEW w \in Workers, Finalize(w) PROVE FALSE
  BY <1>11 DEF Finalize, schedule
<1>12. ASSUME UNCHANGED <<schedule, ledger, inProject>> \/ RunNow
       PROVE  nextRunAt' \in 1 .. runAt'[k]
  <2>1. UNCHANGED <<state, nextRunAt, runAt, runState>>
    BY <1>12 DEF RunNow, schedule, ledger
  <2> QED BY <1>1, <2>1
<1>13. ASSUME ScheduleNext PROVE nextRunAt' \in 1 .. runAt'[k]
  BY <1>0, <1>4, <1>5, <1>6, <1>7, <1>8, <1>12, <1>13, ChangeIs, QuietSteps
    DEF ScheduleNext
<1> QED BY <1>9, <1>10, <1>11, <1>12, <1>13, QuietSteps DEF Next, Work,
  RetryClose, CancelOwed

\* An active schedule never sleeps past a planned Run: not one of an earlier
\* rule that is still owed, not one that was moved.
THEOREM NoRunOverlookedHolds == Spec => []NoRunOverlooked
<1>1. Init => NoRunOverlooked
  <2> SUFFICES ASSUME Init PROVE NoRunOverlooked
    OBVIOUS
  <2>1. nextRunAt = Earliest(runState) /\ runAt \in [Keys -> Times]
    BY DEF Init, ScheduleInit, Keys
  <2> QED BY <2>1, EarliestIs DEF NoRunOverlooked
<1>2. TypeOK /\ NoRunOverlooked /\ [Next]_vars => NoRunOverlooked'
  BY OverlookedStep
<1> QED BY <1>1, <1>2, TypedSpec, PTL DEF Spec

-----------------------------------------------------------------------------
(* The close operation                                                     *)

\* Once the project has its cutoff, no transaction opens.
LEMMA QuietStep ==
  ASSUME TypeOK, inProject, cutoff # 0, [Next]_vars, Quiet
  PROVE  Quiet'
<1>1. ASSUME NEW x \in Transactions, doing[x] # "none" PROVE FALSE
  BY <1>1 DEF Quiet
<1>2. ~Allowed
  BY DEF Allowed
<1>3. ASSUME NEW x \in Transactions,
             \/ Rollback(x) \/ CommitRelease(x) \/ CommitStop(x)
             \/ CommitResume(x) \/ CommitEdit(x)
      PROVE  FALSE
  BY <1>1, <1>3 DEF Rollback, CommitRelease, CommitStop, CommitResume,
    CommitEdit
<1>4. ASSUME NEW x \in Transactions,
             \/ OpenRelease(x) \/ OpenResume(x) \/ OpenEdit(x)
             \/ \E op \in {"pause", "end"} : OpenStop(x, op)
      PROVE  FALSE
  BY <1>2, <1>4 DEF OpenRelease, OpenResume, OpenEdit, OpenStop
<1>5. ASSUME NEW k \in Keys, Skip(k) \/ Move(k) \/ Restore(k) PROVE FALSE
  BY <1>2, <1>5 DEF Skip, Move, Restore, ChangeRun
<1>6. ~RunNow
  BY <1>2 DEF RunNow
<1>7. ASSUME UNCHANGED doing PROVE Quiet'
  BY <1>7 DEF Quiet
<1>8. ScheduleNext => UNCHANGED doing
  BY <1>3, <1>4, <1>5, <1>6 DEF ScheduleNext, Tick, open
<1>9. RequestClose \/ RetryClose \/ CancelOwed => UNCHANGED doing
  BY DEF RequestClose, RetryClose, CancelOwed, Recover, open
<1>10. ASSUME NEW w \in Workers,
              CloseSchedule(w) \/ Finalize(w) PROVE UNCHANGED doing
  BY <1>10 DEF CloseSchedule, Finalize, open
<1>11. ASSUME NEW w \in Workers,
              \/ Claim(w) \/ FindRevocation(w) \/ Revoked(w) \/ Yield(w)
              \/ Crash(w) \/ \E b \in BOOLEAN : Fail(w, b)
       PROVE  UNCHANGED doing
  BY <1>11 DEF Claim, FindRevocation, Revoked, Yield, Crash, Fail,
    scheduleVars, open
<1>12. ExpireLease \/ BecomeDue \/ UNCHANGED vars => UNCHANGED doing
  BY DEF ExpireLease, BecomeDue, vars, scheduleVars, open
<1> QED BY <1>7, <1>8, <1>9, <1>10, <1>11, <1>12 DEF Next, Work

LEMMA OperationStep == TypeOK /\ OperationInv /\ [Next]_vars => OperationInv'
<1> SUFFICES ASSUME TypeOK, OperationInv, [Next]_vars PROVE OperationInv'
  OBVIOUS
<1>0. /\ attempts \in Nat /\ now \in Nat \ {0} /\ NoWorker \notin Workers
      /\ opState \in {"NONE", "CLOSING", "CLOSE_FAILED", "CLOSED"}
  BY DEF TypeOK, ScheduleTypeOK, Times
<1>1. Quiet /\ opState # "NONE" => Quiet'
  BY QuietStep DEF OperationInv
<1>2. ASSUME UNCHANGED <<opState, attempts, lease, due, cutoff, inProject>>
      PROVE  OperationInv'
  BY <1>1, <1>2 DEF OperationInv
<1>3. CASE RequestClose
  BY <1>0, <1>3 DEF RequestClose, OperationInv, clock
<1>4. ASSUME NEW K, Recover(K) PROVE OperationInv'
  BY <1>0, <1>4 DEF Recover, OperationInv, clock
<1>5. ASSUME NEW w \in Workers, Claim(w) PROVE OperationInv'
  BY <1>0, <1>1, <1>5 DEF Claim, OperationInv, scheduleVars, clock
<1>6. ASSUME NEW w \in Workers, FindRevocation(w) \/ Revoked(w) \/ Crash(w)
      PROVE  OperationInv'
  BY <1>2, <1>6 DEF FindRevocation, Revoked, Crash, scheduleVars, clock,
    operation
<1>7. ASSUME NEW w \in Workers, CloseSchedule(w) PROVE OperationInv'
  BY <1>0, <1>7 DEF CloseSchedule, Owns, OperationInv, clock
<1>8. ASSUME NEW w \in Workers, Finalize(w) PROVE OperationInv'
  BY <1>0, <1>8 DEF Finalize, Owns, OperationInv, clock
<1>9. ASSUME NEW w \in Workers, Yield(w) PROVE OperationInv'
  <2>1. CASE Owns(w)
    BY <1>0, <1>1, <1>9, <2>1 DEF Yield, Owns, OperationInv, scheduleVars,
      clock
  <2>2. CASE ~Owns(w)
    BY <1>2, <1>9, <2>2 DEF Yield, scheduleVars, clock
  <2> QED BY <2>1, <2>2
<1>10. ASSUME NEW w \in Workers, NEW b \in BOOLEAN, Fail(w, b)
       PROVE  OperationInv'
  <2>1. UNCHANGED <<cutoff, inProject>>
    BY <1>10 DEF Fail, scheduleVars, clock
  <2>2. CASE Owns(w)
    <3>1. due /\ opState = "CLOSING" /\ cutoff # 0 /\ inProject
      BY <1>0, <2>2 DEF Owns, OperationInv
    <3>2. /\ opState' = IF attempts + 1 >= MaxFailures THEN "CLOSE_FAILED"
                        ELSE "CLOSING"
          /\ lease' = NoWorker /\ due' = FALSE
      BY <1>10, <2>2 DEF Fail, Final
    <3>3. opState' = "CLOSE_FAILED" => Quiet'
      BY <1>0, <1>1, <3>1, <3>2 DEF OperationInv
    <3> QED BY <2>1, <3>1, <3>2, <3>3 DEF OperationInv
  <2>3. CASE ~Owns(w)
    BY <1>2, <1>10, <2>1, <2>3 DEF Fail, operation
  <2> QED BY <2>2, <2>3
<1>11. CASE ExpireLease
  BY <1>2, <1>11 DEF ExpireLease, scheduleVars, clock
<1>12. CASE BecomeDue
  BY <1>0, <1>1, <1>12 DEF BecomeDue, OperationInv, scheduleVars, clock
<1>13. ASSUME ScheduleNext, UNCHANGED closeVars PROVE OperationInv'
  <2>1. UNCHANGED <<cutoff, inProject>>
    BY <1>13 DEF ScheduleNext, Rollback, OpenRelease, CommitRelease, OpenStop,
      CommitStop, OpenResume, CommitResume, OpenEdit, CommitEdit, Skip, Move,
      Restore, ChangeRun, RunNow, Tick, clock
  <2> QED BY <1>2, <1>13, <2>1 DEF closeVars, operation
<1>14. CASE UNCHANGED vars
  BY <1>2, <1>14 DEF vars, scheduleVars, clock, closeVars, operation
<1> QED BY <1>3, <1>4, <1>5, <1>6, <1>7, <1>8, <1>9, <1>10, <1>11, <1>12,
  <1>13, <1>14 DEF Next, Work, RetryClose, CancelOwed

-----------------------------------------------------------------------------
(* What is planned out stays planned out                                   *)

\* Where no Run is planned, the plan is empty just if the rule is spent.
LEMMA PlanEmpty ==
  ASSUME NEW rs, NEW e \in Epochs, NEW from \in Times, NEW count \in Nat,
         In(rs, "PLANNED") = {}
  PROVE  Plan(rs, from, e, count) = {} <=> SpentIn(rs, e, from, count)
<1> DEFINE taken == {t \in Times : t > from /\ rs[<<e, t>>] # "NONE"}
           free == {t \in Rule[e] : t > from} \ taken
           near == {t \in free : t < from + Ahead}
           first == {t \in free : \A u \in free : t <= u}
           times == IF near = {} THEN first ELSE near
           room == Target[e] - count
           fits(t) == Cardinality({u \in times : u < t}) < room
<1>0. Rule[e] \subseteq Times /\ Target[e] \in Nat /\ Times \subseteq Nat
  BY DEF Times
<1>1. \A t \in Times : rs[<<e, t>>] # "PLANNED"
  BY DEF In, Keys
<1>2. Cardinality(In(rs, "PLANNED")) = 0
  BY CountType DEF In
<1>3. Plan(rs, from, e, count) =
        {<<e, t>> : t \in {t \in times : Target[e] = 0 \/ fits(t)}}
  <2>1. \A t \in taken : rs[<<e, t>>] # "PLANNED"
    BY <1>1
  <2>2. Target[e] - count - Cardinality(In(rs, "PLANNED")) = room
    BY <1>0, <1>2
  <2> QED BY <2>1, <2>2 DEF Plan
<1>4. free = {t \in Rule[e] : t > from /\ rs[<<e, t>>] = "NONE"}
  BY <1>0
<1>5. times \in SUBSET free /\ free \in SUBSET Nat
  BY <1>0
<1>6. CASE free = {}
  <2>1. SpentIn(rs, e, from, count)
    BY <1>4, <1>6 DEF SpentIn
  <2> HIDE DEF free, times, fits
  <2>2. Plan(rs, from, e, count) = {}
    BY <1>3, <1>5, <1>6
  <2> QED BY <2>1, <2>2
<1>7. CASE free # {} /\ Target[e] \in 1 .. count
  <2>1. SpentIn(rs, e, from, count)
    BY <1>7 DEF SpentIn
  <2>2. \A t \in times : ~fits(t)
    <3> SUFFICES ASSUME NEW t \in times PROVE ~fits(t)
      OBVIOUS
    <3> DEFINE before == {u \in times : u < t}
    <3>1. before \in SUBSET Times
      BY <1>0
    <3>2. IsFiniteSet(Times)
      BY FS_Interval DEF Times
    <3> HIDE DEF before
    <3>3. Cardinality(before) \in Nat
      BY <3>1, <3>2, FS_Subset, FS_CardinalityType
    <3>4. room <= 0
      BY <1>0, <1>7
    <3>5. Cardinality(before) >= room
      BY <1>0, <3>3, <3>4
    <3> QED BY <1>0, <3>3, <3>5 DEF before
  <2>3. Target[e] # 0
    BY <1>7
  <2> HIDE DEF times, fits
  <2>4. Plan(rs, from, e, count) = {}
    BY <1>3, <2>2, <2>3
  <2> QED BY <2>1, <2>4
<1>8. CASE free # {} /\ Target[e] \notin 1 .. count
  <2>1. ~SpentIn(rs, e, from, count)
    BY <1>4, <1>8 DEF SpentIn
  <2>2. \E t \in times : \A u \in times : t <= u
    <3>1. times # {}
      <4>1. CASE near = {}
        <5> HIDE DEF free
        <5>1. first # {}
          BY <1>5, <1>8, MinExists
        <5> QED BY <4>1, <5>1
      <4>2. CASE near # {}
        BY <4>2
      <4> QED BY <4>1, <4>2
    <3> HIDE DEF times, free
    <3> QED BY <1>5, <3>1, MinExists
  <2>3. PICK t \in times : \A u \in times : t <= u
    BY <2>2
  <2>4. Target[e] = 0 \/ fits(t)
    <3>1. \A u \in times : ~(u < t)
      <4> HIDE DEF times, free
      <4> QED BY <1>5, <2>3
    <3>2. {u \in times : u < t} = {}
      <4> HIDE DEF times
      <4> QED BY <3>1
    <3>3. Cardinality({u \in times : u < t}) = 0
      <4> HIDE DEF times
      <4> QED BY <3>2, FS_EmptySet
    <3>4. Target[e] # 0 => 0 < room
      BY <1>0, <1>8
    <3> HIDE DEF times, room
    <3> QED BY <3>3, <3>4
  <2> HIDE DEF times, fits
  <2>5. t \in {u \in times : Target[e] = 0 \/ fits(u)}
    BY <2>3, <2>4
  <2>6. <<e, t>> \in Plan(rs, from, e, count)
    BY <1>3, <2>5
  <2>7. Plan(rs, from, e, count) # {}
    BY <2>6
  <2> QED BY <2>1, <2>7
<1> QED BY <1>6, <1>7, <1>8

\* If nothing is planned after planning, nothing was, and nothing could be.
LEMMA PlannedOut ==
  ASSUME NEW rest \in [Keys -> RunStates], NEW e \in Epochs,
         NEW from \in Times, NEW count \in Nat,
         In(Marked(rest, Plan(rest, from, e, count), "PLANNED"),
            "PLANNED") = {}
  PROVE  /\ Marked(rest, Plan(rest, from, e, count), "PLANNED") = rest
         /\ In(rest, "PLANNED") = {}
         /\ SpentIn(rest, e, from, count)
<1> DEFINE new == Plan(rest, from, e, count)
<1>1. new \subseteq Keys
  BY PlanIs
<1> HIDE DEF new
<1>2. new = {}
  BY <1>1 DEF In, Marked, new
<1>3. Marked(rest, new, "PLANNED") = rest
  BY <1>2 DEF Marked
<1>4. In(rest, "PLANNED") = {}
  BY <1>3 DEF new
<1> QED BY <1>2, <1>3, <1>4, PlanEmpty DEF new

\* An active schedule without a planned Run has nothing left to plan.
LEMMA ActiveStep ==
  ASSUME TypeOK, TypeOK', OperationInv, PlanInv, [Next]_vars,
         cutoff' = 0, state' = "ACTIVE", In(runState', "PLANNED") = {}
  PROVE  SpentIn(runState', epoch', now', releasedCount')
<1>0. /\ ScheduleTypeOK /\ ScheduleTypeOK'
      /\ now \in Times /\ now' \in Times /\ now' \in Nat
      /\ epoch \in Epochs /\ epoch' \in Epochs /\ releasedCount \in Nat
      /\ runState \in [Keys -> RunStates]
      /\ \A k \in Epochs : Rule[k] \subseteq Nat
  BY DEF TypeOK, ScheduleTypeOK, Times
<1>1. ASSUME UNCHANGED <<cutoff, state, runState, epoch, releasedCount>>,
             now' \in {now, now + 1}
      PROVE  SpentIn(runState', epoch', now', releasedCount')
  <2>1. SpentIn(runState, epoch, now, releasedCount)
    BY <1>1 DEF PlanInv, Planned, Spent
  <2>2. \A t \in Rule[epoch] : t > now' => t > now
    BY <1>0, <1>1 DEF Times
  <2> QED BY <1>1, <2>1, <2>2 DEF SpentIn
<1>2. ASSUME NEW x \in Transactions, CommitRelease(x) PROVE FALSE
  <2>1. Earliest(runState') # 0
    BY <1>2 DEF CommitRelease
  <2> QED BY <1>0, <2>1, EarliestIs DEF ScheduleTypeOK
<1>3. ASSUME NEW x \in Transactions, CommitStop(x) PROVE FALSE
  BY <1>3 DEF CommitStop
<1>4. ASSUME NEW x \in Transactions, CommitResume(x) PROVE FALSE
  <2>1. Earliest(runState') # 0
    BY <1>4 DEF CommitResume
  <2> QED BY <1>0, <2>1, EarliestIs DEF ScheduleTypeOK
<1>5. ASSUME NEW x \in Transactions, CommitEdit(x)
      PROVE  SpentIn(runState', epoch', now', releasedCount')
  <2> DEFINE lists == Split(runState, Stoppable(runState, now, TRUE))
             rest == Stop(runState, lists, TRUE)
  <2>1. /\ state = "ACTIVE" /\ epoch' = epoch + 1
        /\ runState' = Marked(rest, Plan(rest, now, epoch + 1, releasedCount),
                              "PLANNED")
        /\ now' = now /\ releasedCount' = releasedCount
    BY <1>5 DEF CommitEdit, clock
  <2>2. rest \in [Keys -> RunStates]
    BY <1>0, StopType
  <2> HIDE DEF rest
  <2> QED BY <1>0, <2>1, <2>2, PlannedOut
<1>6. ASSUME NEW i \in Keys, NEW s \in {"PLANNED", "SKIPPED"},
             NEW t \in Times, ChangeRun(i, s, t)
      PROVE  SpentIn(runState', epoch', now', releasedCount')
  <2>1. PICK S \in Excess(Marked(runState, {i}, s), i) :
          LET rest == Marked(Marked(runState, {i}, s), S, "NONE")
          IN  runState' = Marked(rest, Plan(rest, now, epoch, releasedCount),
                                 "PLANNED")
    BY <1>6 DEF ChangeRun
  <2> DEFINE rest == Marked(Marked(runState, {i}, s), S, "NONE")
  <2>2. runState' = Marked(rest, Plan(rest, now, epoch, releasedCount),
                           "PLANNED")
    BY <2>1
  <2>3. UNCHANGED <<now, epoch, releasedCount>>
    BY <1>6 DEF ChangeRun, clock
  <2>4. rest \in [Keys -> RunStates]
    BY <1>0, MarkedType DEF RunStates
  <2> HIDE DEF rest
  <2> QED BY <1>0, <2>2, <2>3, <2>4, PlannedOut
<1>7. RunNow =>
        UNCHANGED <<cutoff, state, runState, epoch, releasedCount, now>>
  BY DEF RunNow, ledger, clock
<1>8. Tick => /\ UNCHANGED <<cutoff, state, runState, epoch, releasedCount>>
              /\ now' = now + 1
  BY DEF Tick, ledger, schedule
<1>9. ASSUME NEW x \in Transactions,
             \/ Rollback(x) \/ OpenRelease(x) \/ OpenResume(x) \/ OpenEdit(x)
             \/ \E op \in {"pause", "end"} : OpenStop(x, op)
      PROVE  UNCHANGED <<cutoff, state, runState, epoch, releasedCount, now>>
  BY <1>9 DEF Rollback, OpenRelease, OpenResume, OpenEdit, OpenStop, clock,
    schedule, ledger
<1>10. ~RequestClose
  BY <1>0 DEF RequestClose, Times
<1>11. opState = "NONE" \/ cutoff # 0
  BY DEF OperationInv
<1>12. ~RetryClose /\ ~CancelOwed
  BY <1>11 DEF RetryClose, CancelOwed, Recover
<1>13. ASSUME NEW w \in Workers, CloseSchedule(w) \/ Finalize(w) PROVE FALSE
  BY <1>11, <1>13 DEF CloseSchedule, Finalize, Owns
<1>14. ASSUME \/ UNCHANGED scheduleVars \/ UNCHANGED vars
              \/ ExpireLease \/ BecomeDue
              \/ \E w \in Workers :
                   \/ Claim(w) \/ FindRevocation(w) \/ Revoked(w) \/ Yield(w)
                   \/ Crash(w) \/ \E b \in BOOLEAN : Fail(w, b)
       PROVE  UNCHANGED <<cutoff, state, runState, epoch, releasedCount, now>>
  <2>1. UNCHANGED scheduleVars
    BY <1>14 DEF vars, ExpireLease, BecomeDue, Claim, FindRevocation, Revoked,
      Yield, Crash, Fail
  <2> QED BY <2>1 DEF scheduleVars, clock, schedule, ledger
<1>15. ASSUME ScheduleNext
       PROVE  SpentIn(runState', epoch', now', releasedCount')
  BY <1>0, <1>1, <1>2, <1>3, <1>4, <1>5, <1>6, <1>7, <1>8, <1>9, <1>15,
    ChangeIs DEF ScheduleNext
<1> QED BY <1>1, <1>10, <1>12, <1>13, <1>14, <1>15 DEF Next, Work

\* An open release would not plan again what it found planned out.
LEMMA OpenReleaseStep ==
  ASSUME TypeOK, OperationInv, OwedInv, PlanInv, [Next]_vars,
         NEW x \in Transactions, doing'[x] = "release"
  PROVE  /\ saw'[x].revision <= revision'
         /\ saw'[x].count <= releasedCount'
         /\ /\ saw'[x].revision = revision'
            /\ saw'[x].count = releasedCount'
            /\ In(runState', "PLANNED") = {}
            => SpentIn(runState', epoch', saw'[x].at, releasedCount')
<1> DEFINE Good == /\ saw'[x].revision <= revision'
                   /\ saw'[x].count <= releasedCount'
                   /\ /\ saw'[x].revision = revision'
                      /\ saw'[x].count = releasedCount'
                      /\ In(runState', "PLANNED") = {}
                      => SpentIn(runState', epoch', saw'[x].at, releasedCount')
           Kept == doing[x] = "release" /\ saw'[x] = saw[x]
<1>0. /\ ScheduleTypeOK /\ epoch \in Epochs
      /\ revision \in Nat /\ releasedCount \in Nat
      /\ runState \in [Keys -> RunStates]
      /\ \A y \in Transactions : /\ saw[y].revision \in Nat
                                 /\ saw[y].count \in Nat
                                 /\ saw[y].at \in Times
                                 /\ listed[y][1] \in SUBSET Keys
  BY DEF TypeOK, ScheduleTypeOK, Snapshot
<1>1. doing[x] = "release" =>
        /\ saw[x].revision <= revision /\ saw[x].count <= releasedCount
        /\ /\ saw[x].revision = revision /\ saw[x].count = releasedCount
           /\ In(runState, "PLANNED") = {}
           => SpentIn(runState, epoch, saw[x].at, releasedCount)
  BY DEF PlanInv, Planned, Spent
\* How the other steps leave x, and what is enough of them.
<1>2. ASSUME Kept, revision' = revision + 1, UNCHANGED releasedCount PROVE Good
  BY <1>0, <1>1, <1>2
<1>3. ASSUME Kept, UNCHANGED <<revision, releasedCount, epoch, runState>>
      PROVE  Good
  BY <1>1, <1>3
<1>4. ASSUME NEW y \in Transactions, Finish(y) PROVE Kept /\ x # y
  BY <1>0, <1>4 DEF Finish, ScheduleTypeOK
<1>5. ASSUME NEW y \in Transactions, NEW op, NEW s, NEW l,
             Begin(y, op, s, l), op # "release"
      PROVE  Kept
  BY <1>0, <1>5 DEF Begin, ScheduleTypeOK
<1>6. UNCHANGED open => Kept
  BY DEF open
<1>7. ASSUME NEW y \in Transactions, OpenRelease(y) PROVE Good
  <2>1. PICK l : Begin(y, "release",
                       Read(now, "ACTIVE", 1, releasedCount, revision), l)
    BY <1>7 DEF OpenRelease
  <2>2. UNCHANGED <<revision, releasedCount, epoch, runState>>
    BY <1>7 DEF OpenRelease, schedule, ledger
  <2>3. CASE y # x
    <3>1. Kept
      BY <1>0, <2>1, <2>3 DEF Begin, ScheduleTypeOK
    <3> QED BY <1>3, <2>2, <3>1
  <2>4. CASE y = x
    <3>1. saw'[x] = Read(now, "ACTIVE", 1, releasedCount, revision)
      BY <1>0, <2>1, <2>4 DEF Begin, ScheduleTypeOK
    <3>2. In(runState, "PLANNED") = {} =>
            SpentIn(runState, epoch, now, releasedCount)
      BY <1>7 DEF OpenRelease, PlanInv, Planned, Spent
    <3> QED BY <1>0, <2>2, <3>1, <3>2 DEF Read
  <2> QED BY <2>3, <2>4
<1>8. ASSUME NEW y \in Transactions, CommitRelease(y) PROVE Good
  <2> DEFINE batch == listed[y][1]
             count == saw[y].count + Cardinality(batch)
             released == Marked(runState, batch, "RELEASED")
             after == Marked(released,
                             Plan(released, saw[y].at, epoch, count),
                             "PLANNED")
  <2>1. /\ runState' = after /\ releasedCount' = count
        /\ UNCHANGED <<epoch, revision>> /\ saw[y].count = releasedCount
        /\ Finish(y)
    BY <1>8 DEF CommitRelease, Claims
  <2>2. Kept /\ Cardinality(batch) \in Nat
    BY <1>0, <1>4, <2>1, CountType
  <2>3. saw'[x].revision <= revision' /\ saw'[x].count <= releasedCount'
    BY <1>0, <1>1, <2>1, <2>2
  <2>4. ASSUME saw'[x].revision = revision', saw'[x].count = releasedCount',
               In(runState', "PLANNED") = {}
        PROVE  SpentIn(runState', epoch', saw'[x].at, releasedCount')
    <3>1. Cardinality(batch) = 0 /\ releasedCount' = releasedCount
      BY <1>0, <1>1, <2>1, <2>2, <2>4
    <3>2. released = runState
      <4>1. batch = {}
        BY <1>0, <3>1, CountType
      <4> HIDE DEF batch
      <4> QED BY <1>0, <4>1 DEF Marked
    <3>3. count = releasedCount /\ count \in Nat
      BY <1>0, <2>1, <3>1
    <3>4. runState' = runState /\ In(runState, "PLANNED") = {}
      <4> HIDE DEF released, count
      <4> QED BY <1>0, <2>1, <2>4, <3>2, <3>3, PlannedOut
    <3> HIDE DEF count
    <3> QED BY <1>1, <2>1, <2>2, <2>4, <3>1, <3>4
  <2> QED BY <2>3, <2>4
<1>9. ASSUME NEW y \in Transactions,
             CommitStop(y) \/ CommitResume(y) \/ CommitEdit(y)
      PROVE  Good
  <2>1. /\ Finish(y) /\ revision' = revision + 1 /\ UNCHANGED releasedCount
    BY <1>9 DEF CommitStop, CommitResume, CommitEdit
  <2> QED BY <1>2, <1>4, <2>1
<1>10. ASSUME NEW k, NEW s, NEW t, ChangeRun(k, s, t) PROVE Good
  BY <1>2, <1>6, <1>10 DEF ChangeRun
<1>11. ASSUME RunNow PROVE Good
  BY <1>2, <1>6, <1>11 DEF RunNow
<1>12. ASSUME NEW y \in Transactions,
              \/ Rollback(y) \/ OpenResume(y) \/ OpenEdit(y)
              \/ \E op \in {"pause", "end"} : OpenStop(y, op)
       PROVE  Good
  <2>1. Kept
    BY <1>4, <1>5, <1>12 DEF Rollback, OpenResume, OpenEdit, OpenStop
  <2>2. UNCHANGED <<revision, releasedCount, epoch, runState>>
    BY <1>12 DEF Rollback, OpenResume, OpenEdit, OpenStop, schedule, ledger
  <2> QED BY <1>3, <2>1, <2>2
<1>13. ASSUME Tick \/ RequestClose PROVE Good
  <2>1. UNCHANGED <<revision, releasedCount, epoch, runState, open>>
    BY <1>13 DEF Tick, RequestClose, schedule, ledger
  <2> QED BY <1>3, <1>6, <2>1
<1>14. ASSUME NEW K, Recover(K) PROVE Good
  <2>1. doing[x] = "none"
    BY <1>14 DEF Recover, OperationInv, Quiet
  <2> QED BY <1>6, <1>14, <2>1 DEF Recover
<1>15. ASSUME NEW w \in Workers, CloseSchedule(w) PROVE Good
  <2>1. PICK n \in 0 .. CloseLimit, S \in SUBSET StillOwed(runState) :
          LET released == Marked(runState, S, "RELEASED")
              rest == StillOwed(released)
          IN  /\ Cardinality(S) = n
              /\ n = CloseLimit \/ S = StillOwed(runState)
              /\ releasedCount' = releasedCount + n
              /\ IF rest = {}
                 THEN /\ state' = "ENDED" /\ nextRunAt' = 0
                      /\ revision' = revision + 1
                 ELSE /\ state' = state /\ nextRunAt' = Earliest(released)
                      /\ revision' = revision
    BY <1>15, BatchIs
  <2> DEFINE released == Marked(runState, S, "RELEASED")
  <2>2. Kept /\ n \in Nat
    BY <1>6, <1>15 DEF CloseSchedule
  <2>3. \/ revision' = revision + 1
        \/ revision' = revision /\ n # 0
    <3>1. CASE StillOwed(released) = {}
      BY <2>1, <3>1
    <3>2. CASE StillOwed(released) # {}
      <4>1. ASSUME n = 0 PROVE FALSE
        <5>1. S \in SUBSET Keys
          BY DEF StillOwed, In
        <5>2. S = {} /\ StillOwed(runState) = {}
          BY <2>1, <4>1, <5>1, CountType
        <5>3. released = runState
          BY <1>0, <5>2 DEF Marked
        <5> QED BY <3>2, <5>2, <5>3
      <4> QED BY <2>1, <3>2, <4>1
    <3> QED BY <3>1, <3>2
  <2>4. releasedCount' = releasedCount + n
    BY <2>1
  <2> QED BY <1>0, <1>1, <2>2, <2>3, <2>4
<1>16. ASSUME NEW w \in Workers, Finalize(w) PROVE Good
  <2>1. Kept /\ UNCHANGED <<revision, releasedCount, epoch>>
    BY <1>6, <1>16 DEF Finalize, schedule
  <2>2. In(runState, "PLANNED") = {}
    BY <1>16 DEF Finalize, Owns, OwedInv, OperationInv, Planned
  <2>3. \A k \in Keys : runState[k] # "NONE" => runState'[k] # "NONE"
    BY <1>16 DEF Finalize, Marked
  <2>4. ASSUME SpentIn(runState, epoch, saw[x].at, releasedCount)
        PROVE  SpentIn(runState', epoch, saw[x].at, releasedCount)
    <3>1. \A t \in Rule[epoch] : <<epoch, t>> \in Keys
      BY <1>0 DEF Keys
    <3> QED BY <2>3, <2>4, <3>1 DEF SpentIn
  <2> QED BY <1>1, <2>1, <2>2, <2>4
<1>17. ASSUME \/ UNCHANGED vars \/ ExpireLease \/ BecomeDue
              \/ \E w \in Workers :
                   \/ Claim(w) \/ FindRevocation(w) \/ Revoked(w) \/ Yield(w)
                   \/ Crash(w) \/ \E b \in BOOLEAN : Fail(w, b)
       PROVE  Good
  <2>1. UNCHANGED scheduleVars
    BY <1>17 DEF vars, ExpireLease, BecomeDue, Claim, FindRevocation, Revoked,
      Yield, Crash, Fail
  <2> QED BY <1>3, <1>6, <2>1 DEF scheduleVars, schedule, ledger
<1> HIDE DEF Good
<1>18. ASSUME ScheduleNext PROVE Good
  BY <1>7, <1>8, <1>9, <1>10, <1>11, <1>12, <1>13, <1>18 DEF ScheduleNext,
    Skip, Move, Restore
<1>19. Good
  BY <1>13, <1>14, <1>15, <1>16, <1>17, <1>18 DEF Next, Work, RetryClose,
    CancelOwed
<1> QED BY <1>19 DEF Good

LEMMA PlanStep ==
  TypeOK /\ TypeOK' /\ OperationInv /\ OwedInv /\ PlanInv /\ [Next]_vars
    => PlanInv'
BY ActiveStep, OpenReleaseStep DEF PlanInv, Planned, Spent

-----------------------------------------------------------------------------
(* The closed project                                                      *)

\* Nothing moves once the operation is closed: a release that was open then
\* is stopped by its claims, or has nothing to do.
LEMMA ClosedStep ==
  ASSUME TypeOK, OperationInv, OwedInv, PlanInv, [Next]_vars,
         opState = "CLOSED"
  PROVE  UNCHANGED <<opState, state, runState, tasks>>
<1>0. /\ ScheduleTypeOK /\ epoch \in Epochs /\ releasedCount \in Nat
      /\ runState \in [Keys -> RunStates] /\ tasks \in [Keys -> Nat]
      /\ inProject /\ cutoff # 0 /\ state = "ENDED"
      /\ In(runState, "PLANNED") = {}
  BY DEF TypeOK, ScheduleTypeOK, OperationInv, OwedInv, Planned
<1>1. ~Allowed
  BY <1>0 DEF Allowed
<1>2. ASSUME NEW x \in Transactions, CommitRelease(x)
      PROVE  UNCHANGED <<state, runState, tasks>>
  <2> DEFINE batch == listed[x][1]
             count == saw[x].count + Cardinality(batch)
             released == Marked(runState, batch, "RELEASED")
             new == Plan(released, saw[x].at, epoch, count)
  <2>1. /\ runState' = Marked(released, new, "PLANNED")
        /\ tasks' = [k \in Keys |-> tasks[k] + IF k \in batch THEN 1 ELSE 0]
        /\ state' = IF Earliest(runState') = 0 THEN "ENDED" ELSE "ACTIVE"
        /\ batch \subseteq In(runState, "PLANNED")
        /\ saw[x].count = releasedCount /\ saw[x].revision = revision
    BY <1>2 DEF CommitRelease, Claims
  <2>2. saw[x].at \in Times /\ saw[x].count \in Nat
    BY <1>0 DEF ScheduleTypeOK, Snapshot
  <2>3. batch = {} /\ count = releasedCount
    <3>1. batch = {}
      BY <1>0, <2>1
    <3>2. Cardinality(batch) = 0
      BY <3>1, FS_EmptySet
    <3> HIDE DEF batch
    <3> QED BY <2>1, <2>2, <3>1, <3>2
  <2>4. released = runState
    <3> HIDE DEF batch
    <3> QED BY <1>0, <2>3 DEF Marked
  <2>5. SpentIn(runState, epoch, saw[x].at, releasedCount)
    <3>1. doing[x] = "release"
      BY <1>2 DEF CommitRelease
    <3> QED BY <1>0, <2>1, <3>1 DEF PlanInv, Planned, Spent
  <2> HIDE DEF released, count, batch
  <2>6. new = {}
    BY <1>0, <2>2, <2>3, <2>4, <2>5, PlanEmpty
  <2> HIDE DEF new
  <2>7. runState' = runState
    BY <1>0, <2>1, <2>4, <2>6 DEF Marked
  <2>8. tasks' = tasks
    BY <1>0, <2>1, <2>3
  <2>9. state' = "ENDED"
    BY <1>0, <2>1, <2>7, EarliestIs DEF ScheduleTypeOK
  <2> QED BY <1>0, <2>7, <2>8, <2>9
<1>3. ASSUME NEW x \in Transactions,
             \/ CommitStop(x) \/ CommitResume(x) \/ CommitEdit(x)
      PROVE  FALSE
  BY <1>1, <1>3 DEF CommitStop, CommitResume, CommitEdit
<1>4. ASSUME NEW k \in Keys, Skip(k) \/ Move(k) \/ Restore(k) PROVE FALSE
  BY <1>1, <1>4 DEF Skip, Move, Restore, ChangeRun
<1>5. ~RunNow
  BY <1>1 DEF RunNow
<1>6. ASSUME UNCHANGED <<schedule, ledger, inProject>>
      PROVE  UNCHANGED <<state, runState, tasks>>
  BY <1>6 DEF schedule, ledger
<1>7. ScheduleNext => UNCHANGED <<state, runState, tasks>>
  BY <1>2, <1>3, <1>4, <1>5, <1>6, QuietSteps DEF ScheduleNext
<1>8. ~RequestClose /\ ~RetryClose /\ ~CancelOwed
  BY <1>0 DEF RequestClose, RetryClose, CancelOwed, Recover
<1>9. ASSUME NEW w \in Workers, CloseSchedule(w) \/ Finalize(w) PROVE FALSE
  BY <1>9 DEF CloseSchedule, Finalize, Owns
<1>10. ASSUME \/ UNCHANGED vars \/ ExpireLease \/ BecomeDue
              \/ \E w \in Workers :
                   \/ Claim(w) \/ FindRevocation(w) \/ Revoked(w) \/ Yield(w)
                   \/ Crash(w) \/ \E b \in BOOLEAN : Fail(w, b)
       PROVE  UNCHANGED <<opState, state, runState, tasks>>
  <2>1. UNCHANGED opState
    BY <1>10 DEF vars, closeVars, operation, ExpireLease, BecomeDue, Claim,
      FindRevocation, Revoked, Yield, Crash, Fail, Owns
  <2> QED BY <1>6, <1>10, <2>1, QuietSteps
<1>11. ScheduleNext /\ UNCHANGED closeVars
       => UNCHANGED <<opState, state, runState, tasks>>
  BY <1>7 DEF closeVars, operation
<1> QED BY <1>8, <1>9, <1>10, <1>11 DEF Next, Work

\* A schedule of a project that has ended plans nothing.
LEMMA EndedStep ==
  ASSUME TypeOK, OwedInv, [Next]_vars, inProject, state' = "ENDED"
  PROVE  In(runState', "PLANNED") = {}
<1>0. runAt \in [Keys -> Times] /\ (state = "ENDED" => Planned = {})
  BY DEF TypeOK, ScheduleTypeOK, OwedInv
<1>1. ASSUME UNCHANGED state,
             In(runState', "PLANNED") \subseteq In(runState, "PLANNED")
      PROVE  In(runState', "PLANNED") = {}
  BY <1>0, <1>1 DEF Planned
\* Stopping plans nothing, and with every stoppable Run leaves none.
<1>2. ASSUME NEW rs, NEW lists, NEW cancel
      PROVE  In(Stop(rs, lists, cancel), "PLANNED") \subseteq In(rs, "PLANNED")
  BY DEF Stop, Marked, In
<1>3. ASSUME NEW rs
      PROVE  In(Stop(rs, Split(rs, Stoppable(rs, now, FALSE)), TRUE),
                "PLANNED") = {}
  <2> DEFINE lists == Split(rs, Stoppable(rs, now, FALSE))
  <2>1. In(rs, "PLANNED") \subseteq lists[1] \cup lists[2]
    BY DEF In, Stoppable, Split
  <2> HIDE DEF lists
  <2>2. In(Stop(rs, lists, TRUE), "PLANNED") = {}
    BY <2>1 DEF Stop, Marked, In
  <2> QED BY <2>2 DEF lists
<1>4. ASSUME NEW x \in Transactions, CommitRelease(x)
      PROVE  In(runState', "PLANNED") = {}
  <2>1. Earliest(runState') = 0
    BY <1>4 DEF CommitRelease
  <2> QED BY <1>0, <2>1, EarliestIs
<1>5. ASSUME NEW x \in Transactions, CommitStop(x)
      PROVE  In(runState', "PLANNED") = {}
  <2>1. runState' =
          Stop(runState, Split(runState, Stoppable(runState, now, FALSE)),
               TRUE)
    BY <1>5 DEF CommitStop
  <2> QED BY <1>3, <2>1
<1>6. ASSUME NEW x \in Transactions, CommitResume(x)
      PROVE  In(runState', "PLANNED") = {}
  <2>1. PICK rs : runState' = Stop(rs, Split(rs, Stoppable(rs, now, FALSE)),
                                   TRUE)
    BY <1>6 DEF CommitResume
  <2> QED BY <1>3, <2>1
<1>7. ASSUME NEW x \in Transactions, CommitEdit(x)
      PROVE  In(runState', "PLANNED") = {}
  <2>1. UNCHANGED state
        /\ runState' = Marked(Stop(runState,
                                   Split(runState,
                                         Stoppable(runState, now, TRUE)),
                                   TRUE), {}, "PLANNED")
    BY <1>7 DEF CommitEdit
  <2>2. In(runState', "PLANNED") \subseteq In(runState, "PLANNED")
    BY <1>2, <2>1 DEF Marked, In
  <2> QED BY <1>1, <2>1, <2>2
<1>8. ASSUME NEW k \in Keys, Skip(k) \/ Move(k) \/ Restore(k) PROVE FALSE
  BY <1>8 DEF Skip, Move, Restore, ChangeRun
<1>9. ASSUME RunNow PROVE FALSE
  BY <1>9 DEF RunNow
<1>10. ASSUME NEW K, Recover(K) PROVE In(runState', "PLANNED") = {}
  <2>1. UNCHANGED state /\ runState' = Marked(runState, K, "CANCELED")
    BY <1>10 DEF Recover, schedule
  <2>2. In(runState', "PLANNED") \subseteq In(runState, "PLANNED")
    BY <2>1 DEF Marked, In
  <2> QED BY <1>1, <2>1, <2>2
<1>11. ASSUME NEW w \in Workers, CloseSchedule(w)
       PROVE  In(runState', "PLANNED") = {}
  <2>1. PICK S \in SUBSET StillOwed(runState) :
          LET released == Marked(runState, S, "RELEASED")
              rest == StillOwed(released)
              lists == Split(released, Stoppable(released, now, FALSE))
          IN  /\ runState' = IF rest = {} THEN Stop(released, lists, TRUE)
                             ELSE released
              /\ IF rest = {}
                 THEN /\ state' = "ENDED" /\ nextRunAt' = 0
                      /\ revision' = revision + 1
                 ELSE /\ state' = state /\ nextRunAt' = Earliest(released)
                      /\ revision' = revision
    BY <1>11, BatchIs
  <2>2. StillOwed(Marked(runState, S, "RELEASED")) = {}
    BY <1>11, <2>1 DEF CloseSchedule
  <2>3. PICK rs : runState' = Stop(rs, Split(rs, Stoppable(rs, now, FALSE)),
                                   TRUE)
    BY <2>1, <2>2
  <2> QED BY <1>3, <2>3
<1>12. ASSUME NEW w \in Workers, Finalize(w)
       PROVE  In(runState', "PLANNED") = {}
  <2>1. UNCHANGED state
        /\ In(runState', "PLANNED") \subseteq In(runState, "PLANNED")
    BY <1>12 DEF Finalize, schedule, Marked, In
  <2> QED BY <1>1, <2>1
<1>13. ASSUME UNCHANGED <<schedule, ledger, inProject>>
       PROVE  In(runState', "PLANNED") = {}
  BY <1>1, <1>13 DEF schedule, ledger
<1>14. ASSUME ScheduleNext PROVE In(runState', "PLANNED") = {}
  BY <1>4, <1>5, <1>6, <1>7, <1>8, <1>9, <1>13, <1>14, QuietSteps
    DEF ScheduleNext
<1> QED BY <1>10, <1>11, <1>12, <1>13, <1>14, QuietSteps DEF Next, Work,
  RetryClose, CancelOwed

\* What was owed when the close was requested stays owed until it is made.
LEMMA OwedStep ==
  ASSUME TypeOK, OneTaskPerRun, OperationInv, OwedInv, [Next]_vars,
         opState' # "NONE", NEW k \in owed' \ waived'
  PROVE  \/ tasks'[k] = 1
         \/ /\ k \in In(runState', "PLANNED")
            /\ state' = "ACTIVE" /\ runAt'[k] < cutoff'
<1> DEFINE Good == \/ tasks'[k] = 1
                   \/ /\ k \in In(runState', "PLANNED")
                      /\ state' = "ACTIVE" /\ runAt'[k] < cutoff'
           Was == \/ tasks[k] = 1
                  \/ /\ k \in In(runState, "PLANNED")
                     /\ state = "ACTIVE" /\ runAt[k] < cutoff
<1>0. /\ ScheduleTypeOK /\ tasks \in [Keys -> Nat]
      /\ runAt \in [Keys -> Times] /\ epoch \in Epochs
  BY DEF TypeOK, ScheduleTypeOK
<1>1. opState # "NONE" => inProject /\ cutoff # 0 /\ ~Allowed
  BY DEF OperationInv, Allowed
<1>2. ASSUME opState # "NONE", k \in owed \ waived PROVE Was /\ k \in Keys
  BY <1>2 DEF OwedInv, StillOwed, In, TypeOK
\* A Run whose Task is made keeps it, and is no longer planned.
<1>3. ASSUME opState # "NONE", k \in Keys, tasks[k] = 1
      PROVE  runState[k] = "RELEASED"
  BY <1>1, <1>3 DEF OneTaskPerRun
<1>4. ASSUME opState # "NONE", k \in Keys, runState[k] = "PLANNED"
      PROVE  tasks[k] = 0
  BY <1>0, <1>1, <1>4 DEF OneTaskPerRun
<1>5. ASSUME UNCHANGED <<schedule, ledger, cutoff, opState, owed, waived>>
      PROVE  Good
  BY <1>2, <1>5 DEF schedule, ledger
<1>6. ASSUME RequestClose PROVE Good
  <2>1. k \in In(runState, "PLANNED") /\ state = "ACTIVE" /\ runAt[k] < now
    BY <1>6 DEF RequestClose
  <2> QED BY <1>6, <2>1 DEF RequestClose, schedule, ledger
<1>7. ASSUME NEW K, Recover(K), waived' = waived \cup K PROVE Good
  <2>1. opState # "NONE" /\ k \in owed \ waived /\ k \notin K
    BY <1>7 DEF Recover
  <2>2. /\ runState' = Marked(runState, K, "CANCELED")
        /\ UNCHANGED <<cutoff, state, runAt, tasks>>
    BY <1>7 DEF Recover, schedule
  <2> QED BY <1>2, <2>1, <2>2 DEF In, Marked
<1>8. ASSUME NEW x \in Transactions, CommitRelease(x), UNCHANGED closeVars
      PROVE  Good
  <2> DEFINE batch == listed[x][1]
             count == saw[x].count + Cardinality(batch)
             released == Marked(runState, batch, "RELEASED")
             new == Plan(released, saw[x].at, epoch, count)
  <2>1. /\ runState' = Marked(released, new, "PLANNED")
        /\ tasks' = [j \in Keys |-> tasks[j] + IF j \in batch THEN 1 ELSE 0]
        /\ batch \subseteq In(runState, "PLANNED")
        /\ state' = IF Earliest(runState') = 0 THEN "ENDED" ELSE "ACTIVE"
        /\ UNCHANGED <<cutoff, runAt>>
    BY <1>8 DEF CommitRelease, Claims
  <2>2. opState # "NONE" /\ k \in owed \ waived /\ k \in Keys
    BY <1>2, <1>8 DEF closeVars, operation
  <2> HIDE DEF batch, new
  <2>3. CASE k \in batch
    <3>1. tasks[k] = 0
      BY <1>4, <2>1, <2>2, <2>3 DEF In
    <3> QED BY <2>1, <2>2, <2>3, <3>1
  <2>4. CASE k \notin batch /\ tasks[k] = 1
    BY <2>1, <2>2, <2>4
  <2>5. CASE k \notin batch /\ tasks[k] # 1
    <3>1. /\ k \in In(runState, "PLANNED") /\ state = "ACTIVE"
          /\ runAt[k] < cutoff
      BY <1>2, <2>2, <2>5
    <3>2. k \in In(runState', "PLANNED")
      BY <2>1, <2>2, <2>5, <3>1 DEF Marked, In
    <3>3. state' = "ACTIVE"
      BY <1>0, <2>1, <3>2, EarliestIs
    <3> QED BY <2>1, <3>1, <3>2, <3>3
  <2> QED BY <2>3, <2>4, <2>5
<1>9. ASSUME NEW w \in Workers, CloseSchedule(w) PROVE Good
  <2>1. PICK S \in SUBSET StillOwed(runState) :
          LET released == Marked(runState, S, "RELEASED")
              rest == StillOwed(released)
              lists == Split(released, Stoppable(released, now, FALSE))
          IN  /\ runState' = IF rest = {} THEN Stop(released, lists, TRUE)
                             ELSE released
              /\ tasks' = [j \in Keys |-> tasks[j] + IF j \in S THEN 1 ELSE 0]
              /\ IF rest = {}
                 THEN /\ state' = "ENDED" /\ nextRunAt' = 0
                      /\ revision' = revision + 1
                 ELSE /\ state' = state /\ nextRunAt' = Earliest(released)
                      /\ revision' = revision
    BY <1>9, BatchIs
  <2> DEFINE released == Marked(runState, S, "RELEASED")
             rest == StillOwed(released)
  <2>2. opState # "NONE" /\ k \in owed \ waived /\ k \in Keys
    BY <1>2, <1>9 DEF CloseSchedule, Owns
  <2>3. tasks' = [j \in Keys |-> tasks[j] + IF j \in S THEN 1 ELSE 0]
    BY <2>1
  <2>4. cutoff' = cutoff
    BY <1>9 DEF CloseSchedule
  <2>5. CASE k \in S
    <3>1. tasks[k] = 0
      BY <1>4, <2>2, <2>5 DEF StillOwed, In
    <3> QED BY <2>2, <2>3, <2>5, <3>1
  <2>6. CASE k \notin S /\ tasks[k] = 1
    BY <2>2, <2>3, <2>6
  <2>7. CASE k \notin S /\ tasks[k] # 1
    <3>1. /\ k \in In(runState, "PLANNED") /\ state = "ACTIVE"
          /\ runAt[k] < cutoff
      BY <1>2, <2>2, <2>7
    <3>2. k \in rest
      BY <2>2, <2>7, <3>1 DEF StillOwed, In, Marked
    <3>3. runState' = released /\ state' = state
      BY <2>1, <3>2
    <3>4. k \in In(runState', "PLANNED")
      BY <2>2, <2>7, <3>1, <3>3 DEF In, Marked
    <3>5. runAt' = Times0(runState')
      BY <1>9 DEF CloseSchedule
    <3> QED BY <2>4, <3>1, <3>3, <3>4, <3>5, Times0Planned
  <2> QED BY <2>5, <2>6, <2>7
<1>10. ASSUME NEW w \in Workers, Finalize(w) PROVE Good
  <2>1. /\ opState # "NONE" /\ k \in owed \ waived /\ state = "ENDED"
        /\ tasks' = tasks
    BY <1>10 DEF Finalize, Owns
  <2> QED BY <1>2, <2>1
<1>11. ASSUME \/ UNCHANGED vars \/ ExpireLease \/ BecomeDue
              \/ \E w \in Workers :
                   \/ Claim(w) \/ FindRevocation(w) \/ Revoked(w) \/ Yield(w)
                   \/ Crash(w) \/ \E b \in BOOLEAN : Fail(w, b)
       PROVE  Good
  <2>1. UNCHANGED <<schedule, ledger, inProject>>
    BY <1>11, QuietSteps
  <2>2. UNCHANGED <<cutoff, owed, waived>>
    BY <1>11 DEF vars, closeVars, scheduleVars, ExpireLease, BecomeDue, Claim,
      FindRevocation, Revoked, Yield, Crash, Fail
  <2>3. opState # "NONE"
    BY <1>11 DEF vars, closeVars, operation, ExpireLease, BecomeDue, Claim,
      FindRevocation, Revoked, Yield, Crash, Fail, Owns
  <2> QED BY <1>2, <2>1, <2>2, <2>3 DEF schedule, ledger
<1> HIDE DEF Good
<1>12. ASSUME ScheduleNext, UNCHANGED closeVars PROVE Good
  <2>1. opState # "NONE" /\ UNCHANGED <<opState, owed, waived>>
    BY <1>12 DEF closeVars, operation
  <2>2. ~Allowed
    BY <1>1, <2>1
  <2>3. ASSUME NEW x \in Transactions,
               \/ CommitStop(x) \/ CommitResume(x) \/ CommitEdit(x)
        PROVE  FALSE
    BY <2>2, <2>3 DEF CommitStop, CommitResume, CommitEdit
  <2>4. ASSUME NEW j \in Keys, Skip(j) \/ Move(j) \/ Restore(j) PROVE FALSE
    BY <2>2, <2>4 DEF Skip, Move, Restore, ChangeRun
  <2>5. ~RunNow
    BY <2>2 DEF RunNow
  <2>6. ASSUME \/ Tick
               \/ \E x \in Transactions :
                    \/ Rollback(x) \/ OpenRelease(x) \/ OpenResume(x)
                    \/ OpenEdit(x)
                    \/ \E op \in {"pause", "end"} : OpenStop(x, op)
        PROVE  Good
    <3>1. UNCHANGED <<schedule, ledger, inProject>>
      BY <2>6, QuietSteps
    <3>2. UNCHANGED cutoff
      BY <2>6 DEF Tick, Rollback, OpenRelease, OpenResume, OpenEdit, OpenStop
    <3> QED BY <1>5, <2>1, <3>1, <3>2
  <2> QED BY <1>8, <1>12, <2>3, <2>4, <2>5, <2>6 DEF ScheduleNext
<1>13. RetryClose => \E K : Recover(K) /\ waived' = waived \cup K
  BY DEF RetryClose, Recover
<1>14. CancelOwed => \E K : Recover(K) /\ waived' = waived \cup K
  BY DEF CancelOwed, Recover
<1>15. Good
  BY <1>6, <1>7, <1>9, <1>10, <1>11, <1>12, <1>13, <1>14 DEF Next, Work
<1> QED BY <1>15 DEF Good

LEMMA OwedInvStep ==
  TypeOK /\ OneTaskPerRun /\ OperationInv /\ OwedInv /\ PlanInv /\ [Next]_vars
    => OwedInv'
<1> SUFFICES ASSUME TypeOK, OneTaskPerRun, OperationInv, OwedInv, PlanInv,
                    [Next]_vars
             PROVE  OwedInv'
  OBVIOUS
<1>1. inProject' /\ state' = "ENDED" => In(runState', "PLANNED") = {}
  <2>1. inProject' = inProject
    <3>1. ScheduleNext => inProject' = inProject
      BY DEF ScheduleNext, Rollback, OpenRelease, CommitRelease, OpenStop,
        CommitStop, OpenResume, CommitResume, OpenEdit, CommitEdit, Skip, Move,
        Restore, ChangeRun, RunNow, Tick, clock
    <3> QED BY <3>1 DEF Next, Work, RequestClose, RetryClose, CancelOwed,
      Recover, Claim, FindRevocation, Revoked, CloseSchedule, Finalize, Yield,
      Fail, Crash, ExpireLease, BecomeDue, vars, scheduleVars, clock
  <2> QED BY <2>1, EndedStep
<1>2. opState' = "CLOSED" => state' = "ENDED"
  <2>1. CASE opState = "CLOSED"
    BY <2>1, ClosedStep DEF OwedInv
  <2>2. CASE opState # "CLOSED"
    <3>1. ASSUME opState' = "CLOSED"
          PROVE  \E w \in Workers : Finalize(w)
      BY <2>2, <3>1 DEF Next, Work, closeVars, operation, RequestClose,
        RetryClose, CancelOwed, Recover, Claim, FindRevocation, Revoked,
        CloseSchedule, Yield, Fail, Crash, ExpireLease, BecomeDue, vars
    <3> QED BY <3>1 DEF Finalize, schedule
  <2> QED BY <2>1, <2>2
<1>3. opState' # "NONE" =>
        \A k \in owed' \ waived' :
          \/ tasks'[k] = 1
          \/ /\ k \in In(runState', "PLANNED")
             /\ state' = "ACTIVE" /\ runAt'[k] < cutoff'
  BY OwedStep
<1> QED BY <1>1, <1>2, <1>3 DEF OwedInv, Planned, StillOwed

\* The inductive invariant, whole.
CloseInv ==
  TypeOK /\ EditInv /\ OneTaskPerRun /\ OperationInv /\ OwedInv /\ PlanInv

LEMMA CloseInvHolds == Spec => []CloseInv
<1>1. Init => CloseInv
  <2> SUFFICES ASSUME Init PROVE CloseInv
    OBVIOUS
  <2>1. TypeOK
    BY InitType
  <2>2. OneTaskPerRun
    BY DEF Init, ScheduleInit, Marked, OneTaskPerRun
  <2>3. EditInv /\ OperationInv /\ OwedInv
    BY DEF Init, ScheduleInit, EditInv, OperationInv, OwedInv
  <2>4. PlanInv
    <3> DEFINE none == [k \in Keys |-> "NONE"]
    <3>1. /\ runState = Marked(none, Plan(none, 1, 1, 0), "PLANNED")
          /\ epoch = 1 /\ now = 1 /\ releasedCount = 0
          /\ \A x \in Transactions : doing[x] = "none"
      BY DEF Init, ScheduleInit
    <3>2. none \in [Keys -> RunStates] /\ 1 \in Epochs /\ 1 \in Times
      BY DEF RunStates, Epochs, Times
    <3> HIDE DEF none
    <3>3. In(runState, "PLANNED") = {} => SpentIn(runState, 1, 1, 0)
      BY <3>1, <3>2, PlannedOut
    <3> QED BY <3>1, <3>3 DEF PlanInv, Planned, Spent
  <2> QED BY <2>1, <2>2, <2>3, <2>4 DEF CloseInv
<1>2. CloseInv /\ [Next]_vars => CloseInv'
  <2> SUFFICES ASSUME CloseInv, [Next]_vars PROVE CloseInv'
    OBVIOUS
  <2>1. TypeOK' /\ EditInv'
    BY TypeStep, EditStep DEF CloseInv
  <2>2. OneTaskPerRun'
    BY <2>1, OneTaskStep DEF CloseInv
  <2>3. OperationInv'
    BY OperationStep DEF CloseInv
  <2>4. OwedInv'
    BY OwedInvStep DEF CloseInv
  <2>5. PlanInv'
    BY <2>1, PlanStep DEF CloseInv
  <2> QED BY <2>1, <2>2, <2>3, <2>4, <2>5 DEF CloseInv
<1> QED BY <1>1, <1>2, PTL DEF Spec

\* A closed project owes nothing: its schedule has ended, no Run is planned,
\* and each Run due at the request has its Task or was canceled by somebody.
THEOREM ClosedOwesNothingHolds == Spec => []ClosedOwesNothing
<1>1. CloseInv => ClosedOwesNothing
  <2> SUFFICES ASSUME CloseInv, opState = "CLOSED"
               PROVE  /\ state = "ENDED" /\ Planned = {}
                      /\ \A k \in owed \ waived : tasks[k] = 1
    BY DEF ClosedOwesNothing, Planned
  <2>1. state = "ENDED" /\ inProject
    BY DEF CloseInv, OwedInv, OperationInv
  <2> QED BY <2>1 DEF CloseInv, OwedInv, StillOwed
<1> QED BY <1>1, CloseInvHolds, PTL

\* Nothing moves in a closed project, whatever was still open when it closed.
THEOREM ClosedIsStillHolds == Spec => ClosedIsStill
<1>1. CloseInv /\ [Next]_vars =>
        [opState = "CLOSED" =>
           UNCHANGED <<opState, state, runState, tasks>>]_vars
  BY ClosedStep DEF CloseInv
<1> QED BY <1>1, CloseInvHolds, PTL DEF Spec, ClosedIsStill

-----------------------------------------------------------------------------
(* What still makes a Task once the close is requested                     *)

\* A Run without a row has its rule's time.
RowlessTimes == \A k \in Keys : runState[k] = "NONE" => runAt[k] = k[2]

\* An open release has read the clock, at the latest at the cutoff.  While the
\* schedule's revision is what it read, the schedule is not paused and what it
\* has in hand is still there, at times that had come.
ReleaseReads(x) ==
  /\ saw[x].revision <= revision
  /\ now - 1 <= saw[x].at /\ saw[x].at <= now
  /\ cutoff # 0 => saw[x].at <= cutoff
  /\ saw[x].revision = revision =>
       /\ state # "PAUSED"
       /\ \A k \in listed[x][1] : runState[k] # "NONE" /\ runAt[k] <= saw[x].at

LateInv ==
  /\ RowlessTimes
  /\ cutoff <= now
  /\ \A x \in Transactions : doing[x] = "release" => ReleaseReads(x)
  /\ cutoff # 0 => StillOwed(runState) \subseteq owed

\* What is planned is later than the time it is planned from.
LEMMA PlanLater ==
  ASSUME NEW rs, NEW from, NEW e \in Epochs, NEW count,
         NEW k \in Plan(rs, from, e, count)
  PROVE  k[2] > from
<1>1. \E t \in Rule[e] : k = <<e, t>> /\ t > from
  BY DEF Plan
<1> QED BY <1>1

\* Marking rows leaves no Run without its row.
LEMMA MarkedRows ==
  ASSUME NEW rs, NEW K, NEW s, s # "NONE", NEW k \in Keys,
         Marked(rs, K, s)[k] = "NONE"
  PROVE  rs[k] = "NONE"
BY DEF Marked

LEMMA RowlessStep ==
  ASSUME TypeOK, RowlessTimes, [Next]_vars
  PROVE  RowlessTimes'
<1>1. ASSUME UNCHANGED ledger PROVE RowlessTimes'
  BY <1>1 DEF ledger, RowlessTimes
<1>2. ASSUME runAt' = runAt,
             \A k \in Keys : runState'[k] = "NONE" => runState[k] = "NONE"
      PROVE  RowlessTimes'
  BY <1>2 DEF RowlessTimes
<1>3. ASSUME runAt' = Times0(runState') PROVE RowlessTimes'
  BY <1>3 DEF Times0, RowlessTimes
<1>4. ASSUME NEW x \in Transactions, CommitRelease(x) PROVE RowlessTimes'
  <2>1. PICK K, new : runState' = Marked(Marked(runState, K, "RELEASED"), new,
                                         "PLANNED")
    BY <1>4 DEF CommitRelease
  <2>2. runAt' = runAt
    BY <1>4 DEF CommitRelease
  <2> QED BY <1>2, <2>1, <2>2, MarkedRows
<1>5. ASSUME NEW x \in Transactions, CommitStop(x) \/ CommitEdit(x)
      PROVE  RowlessTimes'
  <2>1. runAt' = Times0(runState')
    BY <1>5 DEF CommitStop, CommitEdit
  <2> QED BY <1>3, <2>1
<1>6. ASSUME NEW x \in Transactions, CommitResume(x) PROVE RowlessTimes'
  <2>1. PICK K, new :
          LET after == Marked(Marked(runState, K, "CANCELED"), new, "PLANNED")
          IN  runState' = IF Earliest(after) = 0
                          THEN Stop(after, Split(after, Stoppable(after, now,
                                                                  FALSE)), TRUE)
                          ELSE after
    BY <1>6 DEF CommitResume
  <2> DEFINE after == Marked(Marked(runState, K, "CANCELED"), new, "PLANNED")
             lists == Split(after, Stoppable(after, now, FALSE))
  <2>2. \A k \in Keys : after[k] = "NONE" => runState[k] = "NONE"
    BY MarkedRows
  <2>3. runState' = IF Earliest(after) = 0 THEN Stop(after, lists, TRUE)
                    ELSE after
    BY <2>1
  <2> HIDE DEF after
  <2>4. ASSUME Earliest(after) = 0,
               NEW k \in Keys, Stop(after, lists, TRUE)[k] = "NONE"
        PROVE  after[k] = "NONE"
    <3>1. In(after, "PLANNED") = {}
      BY <2>4, EarliestIs DEF TypeOK, ScheduleTypeOK
    <3>2. lists[1] = {}
      BY <3>1 DEF Split, Stoppable, Exception, In
    <3> QED BY <2>4, <3>2 DEF Stop, Marked
  <2>5. runAt' = runAt
    BY <1>6 DEF CommitResume
  <2>6. \A k \in Keys : runState'[k] = "NONE" => runState[k] = "NONE"
    BY <2>2, <2>3, <2>4
  <2> QED BY <1>2, <2>5, <2>6
<1>7. ASSUME NEW i \in Keys, NEW s \in {"PLANNED", "SKIPPED"}, NEW t,
             ChangeRun(i, s, t)
      PROVE  RowlessTimes'
  <2>1. PICK S, new :
          LET rest == Marked(Marked(runState, {i}, s), S, "NONE")
          IN  /\ S \in Excess(Marked(runState, {i}, s), i)
              /\ runState' = Marked(rest, new, "PLANNED")
              /\ runAt' = [j \in Keys |-> IF j = i THEN t ELSE Times0(rest)[j]]
    BY <1>7 DEF ChangeRun
  <2>2. i \notin S
    BY <2>1 DEF Excess
  <2> DEFINE rest == Marked(Marked(runState, {i}, s), S, "NONE")
  <2>3. rest[i] # "NONE"
    BY <2>2 DEF Marked
  <2>4. /\ runState' = Marked(rest, new, "PLANNED")
        /\ runAt' = [j \in Keys |-> IF j = i THEN t ELSE Times0(rest)[j]]
    BY <2>1
  <2> HIDE DEF rest
  <2> QED BY <2>3, <2>4, MarkedRows DEF Times0, RowlessTimes
<1>8. ASSUME NEW K, Recover(K) PROVE RowlessTimes'
  <2>1. runState' = Marked(runState, K, "CANCELED") /\ runAt' = runAt
    BY <1>8 DEF Recover
  <2> QED BY <1>2, <2>1, MarkedRows
<1>9. ASSUME NEW w \in Workers, CloseSchedule(w) PROVE RowlessTimes'
  <2>1. runAt' = Times0(runState')
    BY <1>9 DEF CloseSchedule
  <2> QED BY <1>3, <2>1
<1>10. ASSUME NEW w \in Workers, Finalize(w) PROVE RowlessTimes'
  <2>1. PICK K : runState' = Marked(runState, K, "CANCELED")
    BY <1>10 DEF Finalize
  <2>2. runAt' = runAt
    BY <1>10 DEF Finalize
  <2> QED BY <1>2, <2>1, <2>2, MarkedRows
<1>11. RunNow => UNCHANGED ledger
  BY DEF RunNow
<1>12. ScheduleTypeOK
  BY DEF TypeOK, ScheduleTypeOK
<1>13. ASSUME ScheduleNext PROVE RowlessTimes'
  BY <1>1, <1>4, <1>5, <1>6, <1>7, <1>11, <1>12, <1>13, ChangeIs, QuietSteps
    DEF ScheduleNext
<1> QED BY <1>1, <1>8, <1>9, <1>10, <1>13, QuietSteps DEF Next, Work,
  RetryClose, CancelOwed

LEMMA ReadsStep ==
  ASSUME TypeOK, TypeOK', OperationInv, OperationInv', LateInv, [Next]_vars,
         NEW x \in Transactions, doing'[x] = "release"
  PROVE  ReleaseReads(x)'
<1> DEFINE Kept == /\ doing[x] = "release" /\ saw'[x] = saw[x]
                   /\ listed'[x] = listed[x]
           Still == \A k \in listed[x][1] :
                      runState[k] # "NONE" =>
                        runState'[k] # "NONE" /\ runAt'[k] = runAt[k]
<1>0. /\ ScheduleTypeOK
      /\ revision \in Nat /\ now \in Nat /\ cutoff \in Nat
      /\ saw[x].revision \in Nat /\ saw[x].at \in Nat
      /\ listed[x][1] \in SUBSET Keys
  BY DEF TypeOK, ScheduleTypeOK, Snapshot, Times
\* How the other steps leave x, and what is enough of them.
<1>1. ASSUME Kept, revision' = revision + 1, UNCHANGED <<now, cutoff>>
      PROVE  ReleaseReads(x)'
  BY <1>0, <1>1 DEF LateInv, ReleaseReads
<1>2. ASSUME Kept, Still, UNCHANGED <<revision, now, cutoff>>,
             state' = state \/ state' # "PAUSED"
      PROVE  ReleaseReads(x)'
  BY <1>0, <1>2 DEF LateInv, ReleaseReads
<1>3. UNCHANGED ledger => Still
  BY DEF ledger
<1>4. ASSUME NEW y \in Transactions, Finish(y) PROVE Kept
  BY <1>0, <1>4 DEF Finish, ScheduleTypeOK
<1>5. ASSUME NEW y \in Transactions, NEW op, NEW s, NEW l,
             Begin(y, op, s, l), op # "release" \/ y # x
      PROVE  Kept
  BY <1>0, <1>5 DEF Begin, ScheduleTypeOK
<1>6. UNCHANGED open => Kept
  BY DEF open
<1>7. ASSUME NEW y \in Transactions, OpenRelease(y) PROVE ReleaseReads(x)'
  <2>1. PICK S : /\ \A k \in S : k \in In(runState, "PLANNED") /\ runAt[k] <= now
                 /\ Begin(y, "release", Read(now, "ACTIVE", 1, releasedCount,
                                             revision), <<S, {}>>)
    BY <1>7 DEF OpenRelease, Oldest
  <2>2. /\ UNCHANGED <<now, cutoff, revision, state, ledger>>
        /\ state = "ACTIVE" /\ cutoff = 0
    BY <1>7 DEF OpenRelease, clock, schedule
  <2>3. CASE y # x
    BY <1>2, <1>3, <1>5, <2>1, <2>2, <2>3
  <2>4. CASE y = x
    <3>1. /\ saw'[x].at = now /\ saw'[x].revision = revision
          /\ listed'[x][1] = S
      BY <1>0, <2>1, <2>4 DEF Begin, Read, ScheduleTypeOK
    <3>2. \A k \in S : runState'[k] # "NONE" /\ runAt'[k] <= now
      BY <2>1, <2>2 DEF In, ledger
    <3> QED BY <1>0, <2>2, <3>1, <3>2 DEF ReleaseReads
  <2> QED BY <2>3, <2>4
<1>8. ASSUME NEW y \in Transactions, CommitRelease(y) PROVE ReleaseReads(x)'
  <2>1. PICK K, new : runState' = Marked(Marked(runState, K, "RELEASED"), new,
                                         "PLANNED")
    BY <1>8 DEF CommitRelease
  <2>2. /\ UNCHANGED <<now, cutoff, revision, runAt>> /\ Finish(y)
        /\ state' # "PAUSED"
    BY <1>8 DEF CommitRelease, clock
  <2>3. Still
    BY <1>0, <2>1, <2>2, MarkedRows
  <2> QED BY <1>2, <1>4, <2>2, <2>3
<1>9. ASSUME NEW y \in Transactions,
             CommitStop(y) \/ CommitResume(y) \/ CommitEdit(y)
      PROVE  ReleaseReads(x)'
  <2>1. /\ Finish(y) /\ revision' = revision + 1 /\ UNCHANGED <<now, cutoff>>
    BY <1>9 DEF CommitStop, CommitResume, CommitEdit, clock
  <2> QED BY <1>1, <1>4, <2>1
<1>10. ASSUME NEW k, NEW s, NEW t, ChangeRun(k, s, t) PROVE ReleaseReads(x)'
  BY <1>1, <1>6, <1>10 DEF ChangeRun, clock
<1>19. ASSUME RunNow PROVE ReleaseReads(x)'
  BY <1>1, <1>6, <1>19 DEF RunNow, clock
<1>11. ASSUME NEW y \in Transactions,
              \/ Rollback(y) \/ OpenResume(y) \/ OpenEdit(y)
              \/ \E op \in {"pause", "end"} : OpenStop(y, op)
       PROVE  ReleaseReads(x)'
  <2>1. Kept
    BY <1>4, <1>5, <1>11 DEF Rollback, OpenResume, OpenEdit, OpenStop
  <2>2. UNCHANGED <<revision, now, cutoff, state, ledger>>
    BY <1>11 DEF Rollback, OpenResume, OpenEdit, OpenStop, schedule, clock
  <2> QED BY <1>2, <1>3, <2>1, <2>2
<1>12. ASSUME Tick PROVE ReleaseReads(x)'
  <2>1. /\ UNCHANGED <<revision, cutoff, state, ledger, open>>
        /\ now' = now + 1
        /\ doing[x] = "release" => saw[x].at = now
    BY <1>12 DEF Tick, schedule
  <2> QED BY <1>0, <1>6, <2>1 DEF LateInv, ReleaseReads, ledger
<1>13. ASSUME RequestClose PROVE ReleaseReads(x)'
  <2>1. /\ UNCHANGED <<revision, now, state, ledger, open>> /\ cutoff' = now
    BY <1>13 DEF RequestClose, schedule, clock
  <2> QED BY <1>0, <1>6, <2>1 DEF LateInv, ReleaseReads, ledger
<1>14. ASSUME NEW K, Recover(K) PROVE FALSE
  BY <1>6, <1>14 DEF Recover, OperationInv, Quiet
<1>15. ASSUME NEW w \in Workers, CloseSchedule(w) PROVE ReleaseReads(x)'
  <2>1. Kept /\ UNCHANGED <<now, cutoff>> /\ runAt' = Times0(runState')
    BY <1>6, <1>15 DEF CloseSchedule, clock
  <2>2. PICK S :
          LET released == Marked(runState, S, "RELEASED")
          IN  IF StillOwed(released) = {} THEN revision' = revision + 1
              ELSE /\ runState' = released /\ state' = state
                   /\ revision' = revision
    <3>1. PICK S \in SUBSET StillOwed(runState) :
            LET released == Marked(runState, S, "RELEASED")
                rest == StillOwed(released)
            IN  /\ runState' = IF rest = {}
                               THEN Stop(released, Split(released,
                                      Stoppable(released, now, FALSE)), TRUE)
                               ELSE released
                /\ IF rest = {}
                   THEN /\ state' = "ENDED" /\ nextRunAt' = 0
                        /\ revision' = revision + 1
                   ELSE /\ state' = state /\ nextRunAt' = Earliest(released)
                        /\ revision' = revision
      BY <1>15, BatchIs
    <3> WITNESS S
    <3> QED BY <3>1
  <2>3. CASE revision' = revision + 1
    BY <1>1, <2>1, <2>3
  <2>4. CASE /\ runState' = Marked(runState, S, "RELEASED") /\ state' = state
             /\ revision' = revision
    <3>1. Still
      BY <1>0, <2>1, <2>4, MarkedRows DEF Times0
    <3> QED BY <1>2, <2>1, <2>4, <3>1
  <2> QED BY <2>2, <2>3, <2>4
<1>16. ASSUME NEW w \in Workers, Finalize(w) PROVE ReleaseReads(x)'
  <2>1. PICK K : runState' = Marked(runState, K, "CANCELED")
    BY <1>16 DEF Finalize
  <2>2. Kept /\ UNCHANGED <<revision, now, cutoff, state, runAt>>
    BY <1>6, <1>16 DEF Finalize, schedule, clock
  <2>3. Still
    BY <1>0, <2>1, <2>2, MarkedRows
  <2> QED BY <1>2, <2>2, <2>3
<1>17. ASSUME \/ UNCHANGED vars \/ ExpireLease \/ BecomeDue
              \/ \E w \in Workers :
                   \/ Claim(w) \/ FindRevocation(w) \/ Revoked(w) \/ Yield(w)
                   \/ Crash(w) \/ \E b \in BOOLEAN : Fail(w, b)
       PROVE  ReleaseReads(x)'
  <2>1. UNCHANGED scheduleVars
    BY <1>17 DEF vars, ExpireLease, BecomeDue, Claim, FindRevocation, Revoked,
      Yield, Crash, Fail
  <2>2. Kept /\ Still /\ UNCHANGED <<revision, now, cutoff, state>>
    BY <1>3, <1>6, <2>1 DEF scheduleVars, schedule, clock
  <2> QED BY <1>2, <2>2
<1> HIDE DEF Kept, Still
<1>18. ASSUME ScheduleNext PROVE ReleaseReads(x)'
  BY <1>7, <1>8, <1>9, <1>10, <1>11, <1>12, <1>18, <1>19 DEF ScheduleNext,
    Skip, Move, Restore
<1> QED BY <1>13, <1>14, <1>15, <1>16, <1>17, <1>18 DEF Next, Work,
  RetryClose, CancelOwed

\* What the close still owes was owed when it was requested.
LEMMA DuesStep ==
  ASSUME TypeOK, TypeOK', OperationInv, OwedInv, LateInv, [Next]_vars,
         cutoff' # 0
  PROVE  StillOwed(runState)' \subseteq owed'
<1> SUFFICES ASSUME NEW k \in Keys, k \in In(runState', "PLANNED"),
                    state' = "ACTIVE", runAt'[k] < cutoff'
             PROVE  k \in owed'
  BY DEF StillOwed, In
<1> DEFINE Due == k \in StillOwed(runState)
<1>0. /\ ScheduleTypeOK
      /\ epoch \in Epochs /\ now \in Nat /\ cutoff \in Nat
      /\ runAt[k] \in Nat /\ k[2] \in Nat
      /\ \A y \in Transactions : saw[y].at \in Nat /\ saw[y].revision \in Nat
  BY DEF TypeOK, ScheduleTypeOK, Snapshot, Times, Keys
<1>1. CASE RequestClose
  BY <1>1 DEF RequestClose, schedule, ledger, In
<1>2. ASSUME cutoff # 0, owed' = owed, Due PROVE k \in owed'
  BY <1>2 DEF LateInv
<1>3. ASSUME cutoff # 0 PROVE inProject /\ ~Allowed
  BY <1>3 DEF OperationInv, Allowed
<1>4. ASSUME UNCHANGED <<state, cutoff>>, k \in In(runState, "PLANNED"),
             runAt'[k] = runAt[k]
      PROVE  cutoff # 0 /\ Due
  BY <1>4 DEF StillOwed
<1>5. ASSUME NEW x \in Transactions, CommitRelease(x)
      PROVE  cutoff # 0 /\ Due
  <2> DEFINE batch == listed[x][1]
             count == saw[x].count + Cardinality(batch)
             released == Marked(runState, batch, "RELEASED")
  <2>1. /\ runState' = Marked(released,
                              Plan(released, saw[x].at, epoch, count),
                              "PLANNED")
        /\ doing[x] = "release" /\ revision = saw[x].revision
        /\ UNCHANGED <<cutoff, runAt>>
    BY <1>5 DEF CommitRelease, Claims
  <2>2. ReleaseReads(x) /\ cutoff # 0 /\ state # "PAUSED"
    BY <2>1 DEF LateInv, ReleaseReads
  <2> HIDE DEF count
  <2>3. k \notin Plan(released, saw[x].at, epoch, count)
    <3> SUFFICES ASSUME k \in Plan(released, saw[x].at, epoch, count)
                 PROVE  FALSE
      OBVIOUS
    <3>1. released[k] = "NONE" /\ k[2] > saw[x].at
      BY <1>0, PlanIs, PlanLater
    <3>2. runAt[k] = k[2]
      BY <3>1, MarkedRows DEF LateInv, RowlessTimes
    <3>3. cutoff <= now /\ now - 1 <= saw[x].at /\ runAt[k] < cutoff
      BY <2>1, <2>2 DEF LateInv, ReleaseReads
    <3> QED BY <1>0, <3>1, <3>2, <3>3
  <2>4. k \in Planned
    BY <2>1, <2>3 DEF In, Marked, Planned
  <2>5. state = "ACTIVE"
    BY <1>0, <1>3, <2>2, <2>4 DEF ScheduleTypeOK, States, OwedInv
  <2> QED BY <2>1, <2>2, <2>4, <2>5 DEF StillOwed, Planned
<1>6. ASSUME cutoff # 0, NEW x \in Transactions,
             CommitStop(x) \/ CommitResume(x) \/ CommitEdit(x)
      PROVE  FALSE
  BY <1>3, <1>6 DEF CommitStop, CommitResume, CommitEdit
<1>7. ASSUME cutoff # 0, NEW j, NEW s, NEW t, ChangeRun(j, s, t) PROVE FALSE
  BY <1>3, <1>7 DEF ChangeRun
<1>17. ASSUME cutoff # 0, RunNow PROVE FALSE
  BY <1>3, <1>17 DEF RunNow
<1>8. ASSUME NEW K, Recover(K) PROVE cutoff # 0 /\ Due
  <2>1. /\ UNCHANGED <<state, cutoff, runAt>>
        /\ runState' = Marked(runState, K, "CANCELED")
    BY <1>8 DEF Recover, schedule
  <2>2. k \in In(runState, "PLANNED")
    BY <2>1 DEF In, Marked
  <2> QED BY <1>4, <2>1, <2>2
<1>9. ASSUME NEW w \in Workers, CloseSchedule(w) PROVE cutoff # 0 /\ Due
  <2>1. PICK S : /\ runState' = Marked(runState, S, "RELEASED")
                 /\ state' = state
    <3>1. PICK S \in SUBSET StillOwed(runState) :
            LET released == Marked(runState, S, "RELEASED")
                rest == StillOwed(released)
            IN  /\ runState' = IF rest = {}
                               THEN Stop(released, Split(released,
                                      Stoppable(released, now, FALSE)), TRUE)
                               ELSE released
                /\ IF rest = {}
                   THEN /\ state' = "ENDED" /\ nextRunAt' = 0
                        /\ revision' = revision + 1
                   ELSE /\ state' = state /\ nextRunAt' = Earliest(released)
                        /\ revision' = revision
      BY <1>9, BatchIs
    <3> WITNESS S
    <3> QED BY <3>1
  <2>2. /\ runAt' = Times0(runState') /\ UNCHANGED cutoff
        /\ k \in In(runState, "PLANNED")
    BY <1>9, <2>1 DEF CloseSchedule, In, Marked
  <2> QED BY <1>4, <2>1, <2>2, Times0Planned
<1>10. ASSUME NEW w \in Workers, Finalize(w) PROVE cutoff # 0 /\ Due
  <2>1. PICK K : runState' = Marked(runState, K, "CANCELED")
    BY <1>10 DEF Finalize
  <2>2. UNCHANGED <<state, cutoff, runAt>>
    BY <1>10 DEF Finalize, schedule
  <2>3. k \in In(runState, "PLANNED")
    BY <2>1 DEF In, Marked
  <2> QED BY <1>4, <2>2, <2>3
<1>11. ASSUME UNCHANGED <<schedule, ledger, cutoff>> PROVE cutoff # 0 /\ Due
  BY <1>4, <1>11 DEF schedule, ledger
<1>12. ASSUME \/ \E x \in Transactions :
                   \/ Rollback(x) \/ OpenRelease(x) \/ OpenResume(x)
                   \/ OpenEdit(x)
                   \/ \E op \in {"pause", "end"} : OpenStop(x, op)
              \/ Tick \/ ExpireLease \/ BecomeDue \/ UNCHANGED vars
              \/ \E w \in Workers :
                   \/ Claim(w) \/ FindRevocation(w) \/ Revoked(w) \/ Yield(w)
                   \/ Crash(w) \/ \E b \in BOOLEAN : Fail(w, b)
       PROVE  cutoff # 0 /\ Due
  <2>1. UNCHANGED cutoff
    BY <1>12 DEF Rollback, OpenRelease, OpenResume, OpenEdit, OpenStop, Tick,
      ExpireLease, BecomeDue, vars, Claim, FindRevocation, Revoked, Yield,
      Crash, Fail, scheduleVars
  <2> QED BY <1>11, <1>12, <2>1, QuietSteps
<1>13. ASSUME RunNow \/ (\E j, s, t : ChangeRun(j, s, t))
              \/ \E x \in Transactions : CommitStop(x) \/ CommitResume(x)
                                           \/ CommitEdit(x)
       PROVE  FALSE
  <2>1. RunNow => cutoff # 0
    BY DEF RunNow
  <2>2. ASSUME NEW j, NEW s, NEW t, ChangeRun(j, s, t) PROVE cutoff # 0
    BY <2>2 DEF ChangeRun
  <2>3. ASSUME NEW x \in Transactions,
               CommitStop(x) \/ CommitResume(x) \/ CommitEdit(x)
        PROVE  cutoff # 0
    BY <2>3 DEF CommitStop, CommitResume, CommitEdit
  <2> QED BY <1>6, <1>7, <1>13, <1>17, <2>1, <2>2, <2>3
<1> HIDE DEF Due
<1>14. ASSUME ScheduleNext PROVE cutoff # 0 /\ Due
  BY <1>5, <1>12, <1>13, <1>14 DEF ScheduleNext, Skip, Move, Restore
<1>15. RequestClose \/ (cutoff # 0 /\ Due)
  BY <1>8, <1>9, <1>10, <1>12, <1>14 DEF Next, Work, RetryClose, CancelOwed
<1>16. RequestClose \/ owed' = owed
  BY DEF Next, closeVars, RetryClose, CancelOwed, Recover, Claim, Work,
    FindRevocation, Revoked, CloseSchedule, Finalize, Fail, Yield, Crash,
    ExpireLease, BecomeDue, vars
<1> QED BY <1>1, <1>2, <1>15, <1>16

LEMMA LateStep ==
  ASSUME TypeOK, TypeOK', OperationInv, OperationInv', OwedInv, LateInv,
         [Next]_vars
  PROVE  LateInv'
<1>1. RowlessTimes'
  BY RowlessStep DEF LateInv
<1>2. cutoff' <= now'
  <2>1. now \in Nat /\ cutoff \in Nat
    BY DEF TypeOK, ScheduleTypeOK, Times
  <2>2. ASSUME UNCHANGED clock, cutoff' \in {cutoff, now} PROVE cutoff' <= now'
    BY <2>1, <2>2 DEF clock, LateInv
  <2>3. Tick => cutoff' <= now'
    BY <2>1 DEF Tick, LateInv
  <2>4. ASSUME NEW x \in Transactions,
               \/ Rollback(x) \/ OpenRelease(x) \/ OpenResume(x) \/ OpenEdit(x)
               \/ CommitRelease(x) \/ CommitStop(x) \/ CommitResume(x)
               \/ CommitEdit(x)
               \/ \E op \in {"pause", "end"} : OpenStop(x, op)
        PROVE  UNCHANGED <<clock, cutoff>>
    BY <2>4 DEF Rollback, OpenRelease, OpenResume, OpenEdit, OpenStop,
      CommitRelease, CommitStop, CommitResume, CommitEdit
  <2>5. ASSUME NEW j, NEW s, NEW t, ChangeRun(j, s, t)
        PROVE  UNCHANGED <<clock, cutoff>>
    BY <2>5 DEF ChangeRun
  <2>6. RunNow => UNCHANGED <<clock, cutoff>>
    BY DEF RunNow
  <2>7. ScheduleNext => cutoff' <= now'
    BY <2>2, <2>3, <2>4, <2>5, <2>6 DEF ScheduleNext, Skip, Move, Restore
  <2>8. RequestClose => UNCHANGED clock /\ cutoff' = now
    BY DEF RequestClose
  <2>9. ASSUME NEW K, Recover(K) PROVE UNCHANGED <<clock, cutoff>>
    BY <2>9 DEF Recover
  <2>10. ASSUME NEW w \in Workers, CloseSchedule(w) \/ Finalize(w)
         PROVE  UNCHANGED <<clock, cutoff>>
    BY <2>10 DEF CloseSchedule, Finalize
  <2>11. ASSUME \/ UNCHANGED vars \/ ExpireLease \/ BecomeDue
                \/ \E w \in Workers :
                     \/ Claim(w) \/ FindRevocation(w) \/ Revoked(w) \/ Yield(w)
                     \/ Crash(w) \/ \E b \in BOOLEAN : Fail(w, b)
         PROVE  UNCHANGED <<clock, cutoff>>
    BY <2>11 DEF vars, ExpireLease, BecomeDue, Claim, FindRevocation, Revoked,
      Yield, Crash, Fail, scheduleVars
  <2> QED BY <2>2, <2>7, <2>8, <2>9, <2>10, <2>11 DEF Next, Work, RetryClose,
    CancelOwed
<1> QED BY <1>1, <1>2, ReadsStep, DuesStep DEF LateInv

LEMMA LateInvHolds == Spec => [](CloseInv /\ LateInv)
<1>1. Init => LateInv
  BY DEF Init, ScheduleInit, LateInv, RowlessTimes
<1>2. CloseInv /\ CloseInv' /\ LateInv /\ [Next]_vars => LateInv'
  BY LateStep DEF CloseInv
<1> QED BY <1>1, <1>2, CloseInvHolds, PTL DEF Spec

\* After the request, only what was owed at that moment makes a Task, or what
\* came due at that very moment and a release already had in hand: neither the
\* close nor a release that crosses it plans and releases anything else.
OnlyOwedMakesTasks ==
  [][cutoff # 0 =>
       \A k \in Keys : tasks'[k] # tasks[k] =>
         \/ k \in owed
         \/ /\ runAt[k] = cutoff
            /\ \E x \in Transactions :
                 doing[x] = "release" /\ k \in listed[x][1]]_vars

THEOREM OnlyOwedMakesTasksHolds == Spec => OnlyOwedMakesTasks
<1> DEFINE Allows(k) == \/ k \in owed
                        \/ /\ runAt[k] = cutoff
                           /\ \E x \in Transactions :
                                doing[x] = "release" /\ k \in listed[x][1]
           Only == cutoff # 0 =>
                     \A k \in Keys : tasks'[k] # tasks[k] => Allows(k)
<1>1. ASSUME CloseInv, LateInv, Next PROVE Only
  <2> SUFFICES ASSUME cutoff # 0, NEW k \in Keys, tasks'[k] # tasks[k]
               PROVE  Allows(k)
    OBVIOUS
  <2>0. /\ ScheduleTypeOK /\ tasks[k] \in Nat
        /\ runAt[k] \in Nat /\ cutoff \in Nat
        /\ \A x \in Transactions : saw[x].at \in Nat
    BY <1>1 DEF CloseInv, TypeOK, ScheduleTypeOK, Snapshot, Times
  <2>1. ASSUME NEW x \in Transactions, CommitRelease(x) PROVE Allows(k)
    <3>1. /\ doing[x] = "release" /\ saw[x].revision = revision
          /\ listed[x][1] \subseteq Planned
          /\ tasks' = [j \in Keys |->
                         tasks[j] + IF j \in listed[x][1] THEN 1 ELSE 0]
      BY <2>1 DEF CommitRelease, Claims, Planned
    <3>2. k \in listed[x][1]
      BY <2>0, <3>1
    <3>3. /\ state # "PAUSED" /\ runAt[k] <= saw[x].at /\ saw[x].at <= cutoff
      BY <1>1, <3>1, <3>2 DEF LateInv, ReleaseReads
    <3>4. inProject
      BY <1>1 DEF CloseInv, OperationInv
    <3>5. state = "ACTIVE"
      BY <1>1, <2>0, <3>1, <3>2, <3>3, <3>4 DEF ScheduleTypeOK, States,
        CloseInv, OwedInv
    <3>6. CASE runAt[k] < cutoff
      <4>1. k \in StillOwed(runState)
        BY <3>1, <3>2, <3>5, <3>6 DEF StillOwed, Planned
      <4> QED BY <1>1, <4>1 DEF LateInv
    <3>7. runAt[k] < cutoff \/ runAt[k] = cutoff
      BY <2>0, <3>3
    <3> QED BY <3>1, <3>2, <3>6, <3>7
  <2>2. ASSUME NEW w \in Workers, CloseSchedule(w) PROVE Allows(k)
    <3>1. PICK S \in SUBSET StillOwed(runState) :
            tasks' = [j \in Keys |-> tasks[j] + IF j \in S THEN 1 ELSE 0]
      BY <1>1, <2>2, BatchIs DEF CloseInv
    <3>2. k \in S
      BY <2>0, <3>1
    <3> QED BY <1>1, <3>2 DEF LateInv
  <2>3. ASSUME UNCHANGED tasks PROVE FALSE
    BY <2>3
  <2>4. ASSUME NEW x \in Transactions,
               CommitStop(x) \/ CommitResume(x) \/ CommitEdit(x)
        PROVE  FALSE
    BY <2>3, <2>4 DEF CommitStop, CommitResume, CommitEdit
  <2>5. ASSUME NEW j, NEW s, NEW t, ChangeRun(j, s, t) PROVE FALSE
    BY <2>3, <2>5 DEF ChangeRun
  <2>6. ~RunNow
    BY <2>3 DEF RunNow, ledger
  <2>7. ASSUME NEW K, Recover(K) PROVE FALSE
    BY <2>3, <2>7 DEF Recover
  <2>8. ASSUME NEW w \in Workers, Finalize(w) PROVE FALSE
    BY <2>3, <2>8 DEF Finalize
  <2>9. ASSUME UNCHANGED <<schedule, ledger, inProject>> PROVE FALSE
    BY <2>3, <2>9 DEF ledger
  <2> HIDE DEF Allows
  <2>10. ASSUME ScheduleNext PROVE Allows(k)
    BY <2>1, <2>4, <2>5, <2>6, <2>9, <2>10, QuietSteps DEF ScheduleNext, Skip,
      Move, Restore
  <2> QED BY <1>1, <2>2, <2>7, <2>8, <2>9, <2>10, QuietSteps DEF Next, Work,
    RetryClose, CancelOwed
<1>2. CloseInv /\ LateInv /\ [Next]_vars => [Only]_vars
  BY <1>1
<1> QED BY <1>2, LateInvHolds, PTL DEF Spec, OnlyOwedMakesTasks
=============================================================================
