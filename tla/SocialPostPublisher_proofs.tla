--------------------- MODULE SocialPostPublisher_proofs ---------------------
(***************************************************************************)
(* Proofs about SocialPostPublisher, for any number of runs, parts,        *)
(* attempts, faults and acts of people: what the marker and the lease keep *)
(* from being posted twice, out of order, or in silence.                   *)
(***************************************************************************)
EXTENDS SocialPostPublisher, WellFoundedInduction, TLAPS

AllLive == \A p \in OwnParts : live[p] > 0

\* No attempt beyond MaxAttempts is ever begun.
TriesInv ==
  /\ status \in {"DRAFT", "SCHEDULED", "PUBLISHING"} =>
       attemptCount < MaxAttempts
  /\ \A w \in Workers :
       /\ tried[w] < MaxAttempts
       /\ stage[w] = "settling" /\ verdict[w] = "SCHEDULED" =>
            w \in counting /\ tried[w] + 1 < MaxAttempts

\* Where a run is says which part it is at, and whether it posts a thread.
ShapeInv ==
  \A w \in Workers :
    /\ stage[w] \in {"calling", "progress"} => part[w] \in OwnParts
    /\ stage[w] \in {"part", "progress"} => ~Single

\* Nothing but the post's own parts is posted.
OwnInv == \A p \in Parts : live[p] > 0 => p \in OwnParts

\* What is on record as published is live.
LiveInv ==
  /\ \A p \in ids : live[p] > 0
  /\ latest = "succeeded" => AllLive
  /\ status = "PUBLISHED" => AllLive
  /\ \A w \in Workers :
       /\ stage[w] = "created" => AllLive
       /\ verdict[w] = "PUBLISHED" => AllLive
       /\ stage[w] = "progress" => live[part[w]] > 0

\* A part is called only when all before it are recorded.
OrderInv ==
  /\ InOrder
  /\ \A w \in Workers : stage[w] \in {"calling", "progress"} =>
       \A q \in 1 .. part[w] - 1 : q \in ids

\* The marker of a thread: one call at a time, of a part that is not live;
\* what is live without an id is marked.  No lease is needed for that.
ThreadInv ==
  ~Single =>
    /\ \A v, w \in Workers :
         stage[v] \in {"calling", "progress"}
           /\ stage[w] \in {"calling", "progress"} => v = w
    /\ \A w \in Workers :
         /\ stage[w] \in {"calling", "progress"} => marker = part[w]
         /\ stage[w] = "calling" => live[part[w]] = 0
    /\ \A p \in Parts : /\ live[p] > 0 /\ p \notin ids => marker = p
                        /\ live[p] <= 1

\* What a run has found is still so while it is current.
FoundInv ==
  \A w \in Workers :
    /\ stage[w] = "idle" => w \notin recovering
    /\ stage[w] = "found" /\ w \in current =>
         IF w \in recovering THEN status = "PUBLISHING" /\ expired
         ELSE status = "SCHEDULED"

\* A single post has one run at work at a time, the holder of the lease.
HolderInv ==
  /\ \A w \in Workers : stage[w] = "recovering" => w \in recovering
  /\ status = "PUBLISHING" => token # NoWorker
  /\ Single => \A w \in Workers : AtWork(w) =>
       token = w /\ ~expired /\ status = "PUBLISHING"

\* A single post that is live is on record as published, being looked into,
\* or known to be in doubt.
AccountedFor ==
  /\ status = "PUBLISHED" <=> 1 \in ids
  /\ live[1] <= 1
  /\ \A w \in Workers :
       stage[w] \in {"attempt", "calling"} \cup Answers =>
         w \in mine /\ latest = "open"
  /\ live[1] > 0 =>
       /\ \/ status \in {"PUBLISHED", "PUBLISHING", "CANCELED"}
          \/ status = "FAILED" /\ unsure
       /\ status = "PUBLISHING" =>
            latest \in {"open", "succeeded", "unconfirmed"}
       /\ \A w \in Workers :
            /\ stage[w] \notin {"eligible", "manual", "attempt", "calling",
                                "transient", "permanent"}
            /\ stage[w] = "settling" =>
                 \/ verdict[w] = "PUBLISHED"
                 \/ verdict[w] = "FAILED" /\ w \in doubting

SingleInv == Single => AccountedFor

Inv ==
  /\ TriesInv /\ ShapeInv /\ OwnInv /\ LiveInv /\ OrderInv /\ ThreadInv
  /\ FoundInv /\ HolderInv /\ SingleInv /\ ClosedIsQuiet

-----------------------------------------------------------------------------
USE WorkerAssumption, PartAssumption, AttemptAssumption, BoundAssumption

LEMMA NextPartLeast ==
  TypeOK /\ ~AllPublished => NextPart \in Left /\ \A q \in Left : NextPart <= q
<1> SUFFICES ASSUME TypeOK, ~AllPublished
             PROVE  NextPart \in Left /\ \A q \in Left : NextPart <= q
  OBVIOUS
<1> DEFINE Less == {ss \in Nat \X Nat : ss[1] < ss[2]}
<1>1. Left # {}
  <2>1. ids \subseteq OwnParts /\ ids # OwnParts
    BY DEF TypeOK, RowTypeOK, AllPublished
  <2> QED BY <2>1 DEF Left
<1>2. Left \subseteq Nat
  BY DEF TypeOK, RowTypeOK, Left, OwnParts, Parts
<1>3. IsWellFoundedOn(Less, Nat)
  BY NatLessThanWellFounded DEF OpToRel
<1>4. \E p \in Left : \A q \in Left : <<q, p>> \notin Less
  <2> HIDE DEF Less
  <2> QED BY <1>1, <1>2, <1>3, WFMin
<1>5. PICK p \in Left : \A q \in Left : <<q, p>> \notin Less
  BY <1>4
<1>6. ASSUME NEW q \in Left PROVE p <= q
  <2>1. p \in Nat /\ q \in Nat /\ <<q, p>> \in Nat \X Nat
    BY <1>2
  <2>2. ~(<<q, p>>[1] < <<q, p>>[2])
    BY <1>5, <2>1
  <2> QED BY <2>1, <2>2
<1> QED BY <1>6 DEF NextPart

LEMMA VerdictFacts ==
  ASSUME NEW o, NEW n
  PROVE  /\ VerdictOf(o, n) \in {"PUBLISHED", "MISSED", "SCHEDULED", "FAILED"}
         /\ VerdictOf(o, n) = "PUBLISHED" <=> o = "succeeded"
         /\ VerdictOf(o, n) = "MISSED" <=> o = "missed"
         /\ VerdictOf(o, n) = "SCHEDULED" =>
              o = "failed_transient" /\ n + 1 < MaxAttempts
  BY DEF VerdictOf

\* What the moves of a run do to it, and what they leave to the others.
LEMMA GotoFacts ==
  ASSUME TypeOK, NEW w \in Workers, NEW s \in Stages, Goto(w, s)
  PROVE  /\ stage' \in [Workers -> Stages] /\ stage'[w] = s
         /\ \A v \in Workers \ {w} : stage'[v] = stage[v]
         /\ part' = part
  BY DEF Goto, TypeOK, RunTypeOK

LEMMA ReturnFacts ==
  ASSUME TypeOK, NEW w \in Workers, Return(w)
  PROVE  /\ stage' \in [Workers -> Stages] /\ part' \in [Workers -> Nat]
         /\ stage'[w] = "idle" /\ tried'[w] = 0 /\ verdict'[w] = "FAILED"
         /\ w \notin recovering' /\ w \notin counting' /\ w \notin doubting'
         /\ \A v \in Workers \ {w} :
              /\ stage'[v] = stage[v] /\ part'[v] = part[v]
              /\ tried'[v] = tried[v] /\ verdict'[v] = verdict[v]
              /\ v \in recovering' <=> v \in recovering
              /\ v \in counting' <=> v \in counting
              /\ v \in doubting' <=> v \in doubting
<1> USE DEF TypeOK, RowTypeOK, RunTypeOK, Return, OwnParts, Parts
<1>1. stage' \in [Workers -> Stages] /\ part' \in [Workers -> Nat]
  BY DEF Stages
<1>6. /\ stage'[w] = "idle" /\ tried'[w] = 0 /\ verdict'[w] = "FAILED"
      /\ w \notin recovering' /\ w \notin counting' /\ w \notin doubting'
  OBVIOUS
<1>7. ASSUME NEW v \in Workers \ {w}
      PROVE  /\ stage'[v] = stage[v] /\ part'[v] = part[v]
             /\ tried'[v] = tried[v] /\ verdict'[v] = verdict[v]
             /\ v \in recovering' <=> v \in recovering
             /\ v \in counting' <=> v \in counting
             /\ v \in doubting' <=> v \in doubting
  OBVIOUS
<1> QED BY <1>1, <1>6, <1>7

LEMMA ReturnType ==
  ASSUME TypeOK, NEW w \in Workers, Return(w), UNCHANGED <<length, mine>>,
         current' \subseteq Workers
  PROVE  RunTypeOK'
<1> USE DEF TypeOK, RowTypeOK, RunTypeOK, Return, OwnParts
<1>1. /\ stage' \in [Workers -> Stages]
      /\ tried' \in [Workers -> 0 .. MaxAttempts]
  BY DEF Stages
<1>2. verdict' \in [Workers -> Verdicts]
  BY DEF Verdicts
<1>3. part' \in [Workers -> {0} \cup OwnParts']
  OBVIOUS
<1>4. {mine, current, recovering, begun, counting, doubting}'
        \subseteq SUBSET Workers
  OBVIOUS
<1> QED BY <1>1, <1>2, <1>3, <1>4

LEMMA DecideFacts ==
  ASSUME TypeOK, NEW w \in Workers, NEW s \in Verdicts,
         NEW counts \in BOOLEAN, NEW doubts \in BOOLEAN,
         Decide(w, s, counts, doubts)
  PROVE  /\ stage' \in [Workers -> Stages] /\ stage'[w] = "settling"
         /\ verdict' \in [Workers -> Verdicts] /\ verdict'[w] = s
         /\ counting' \subseteq Workers /\ doubting' \subseteq Workers
         /\ w \in counting' <=> counts
         /\ w \in doubting' <=> doubts
         /\ part' = part
         /\ \A v \in Workers \ {w} :
              /\ stage'[v] = stage[v] /\ verdict'[v] = verdict[v]
              /\ v \in counting' <=> v \in counting
              /\ v \in doubting' <=> v \in doubting
  BY DEF Decide, Goto, TypeOK, RunTypeOK, Stages

LEMMA GotoType ==
  ASSUME TypeOK, NEW w \in Workers, NEW s \in Stages, Goto(w, s),
         UNCHANGED <<length, tried, verdict, recovering, begun, counting,
                     doubting>>,
         mine' \subseteq Workers, current' \subseteq Workers
  PROVE  RunTypeOK'
<1> USE DEF TypeOK, RunTypeOK
<1>1. stage' \in [Workers -> Stages] /\ part' = part
  BY GotoFacts
<1>2. /\ part' \in [Workers -> {0} \cup OwnParts']
      /\ tried' \in [Workers -> 0 .. MaxAttempts]
      /\ verdict' \in [Workers -> Verdicts]
  BY <1>1 DEF OwnParts
<1>3. {mine, current, recovering, begun, counting, doubting}'
        \subseteq SUBSET Workers
  OBVIOUS
<1> QED BY <1>1, <1>2, <1>3

LEMMA DecideType ==
  ASSUME TypeOK, NEW w \in Workers, NEW s \in Verdicts,
         NEW counts \in BOOLEAN, NEW doubts \in BOOLEAN,
         Decide(w, s, counts, doubts),
         UNCHANGED <<length, tried, current, recovering, begun>>,
         mine' \subseteq Workers
  PROVE  RunTypeOK'
<1> USE DEF TypeOK, RunTypeOK
<1>1. /\ stage' \in [Workers -> Stages] /\ part' = part
      /\ verdict' \in [Workers -> Verdicts]
      /\ counting' \subseteq Workers /\ doubting' \subseteq Workers
  BY DecideFacts
<1>2. /\ part' \in [Workers -> {0} \cup OwnParts']
      /\ tried' \in [Workers -> 0 .. MaxAttempts]
  BY <1>1 DEF OwnParts
<1>3. {mine, current, recovering, begun, counting, doubting}'
        \subseteq SUBSET Workers
  BY <1>1
<1> QED BY <1>1, <1>2, <1>3

LEMMA LandedFacts ==
  ASSUME TypeOK, ShapeInv, NEW w \in Workers, stage[w] = "calling", Landed(w)
  PROVE  /\ part[w] \in OwnParts /\ part[w] \in Parts
         /\ live' \in [Parts -> Nat]
         /\ live'[part[w]] = live[part[w]] + 1
         /\ \A p \in Parts \ {part[w]} : live'[p] = live[p]
<1>1. part[w] \in OwnParts /\ part[w] \in Parts
  BY DEF ShapeInv, OwnParts, Parts, TypeOK, RowTypeOK
<1>2. live \in [Parts -> Nat]
  BY DEF TypeOK, HistoryTypeOK
<1> QED BY <1>1, <1>2 DEF Landed

LEMMA LandedGrows ==
  ASSUME TypeOK, ShapeInv, NEW w \in Workers, stage[w] = "calling", Landed(w)
  PROVE  \A p \in OwnParts : live[p] > 0 => live'[p] > 0
<1>1. OwnParts \subseteq Parts /\ live \in [Parts -> Nat]
  BY DEF TypeOK, RowTypeOK, HistoryTypeOK, OwnParts, Parts
<1>2. \A p \in OwnParts : live[p] \in Nat
  BY <1>1
<1> QED BY <1>1, <1>2, LandedFacts

\* A step that begins no call, and one in which a call reaches the platform.
LEMMA ThreadQuiet ==
  ASSUME TypeOK, ThreadInv, UNCHANGED <<length, marker, ids, live>>,
         \A v \in Workers : stage'[v] \in {"calling", "progress"} =>
           stage'[v] = stage[v] /\ part'[v] = part[v]
  PROVE  ThreadInv'
  BY DEF ThreadInv, Single

LEMMA ThreadLands ==
  ASSUME TypeOK, ShapeInv, ThreadInv, NEW w \in Workers,
         stage[w] = "calling", Landed(w), UNCHANGED <<length, marker, ids>>,
         stage'[w] # "calling", stage'[w] = "progress" => part'[w] = part[w],
         \A v \in Workers \ {w} : stage'[v] = stage[v] /\ part'[v] = part[v]
  PROVE  ThreadInv'
<1> SUFFICES ASSUME ~Single PROVE ThreadInv'
  BY DEF ThreadInv, Single
<1>1. /\ part[w] \in Parts /\ live \in [Parts -> Nat]
      /\ live'[part[w]] = live[part[w]] + 1
      /\ \A p \in Parts \ {part[w]} : live'[p] = live[p]
  BY LandedFacts DEF TypeOK, HistoryTypeOK
<1>2. marker = part[w] /\ live[part[w]] = 0
  BY DEF ThreadInv
<1>3. \A v \in Workers \ {w} : stage'[v] \notin {"calling", "progress"}
  BY DEF ThreadInv
<1>4. \A p \in Parts : /\ live'[p] > 0 /\ p \notin ids => marker = p
                       /\ live'[p] <= 1
  BY <1>1, <1>2 DEF ThreadInv
<1> QED BY <1>2, <1>3, <1>4 DEF ThreadInv, Single

\* Only Schedule, Settle and CloseProject matter: the last two look at both.
LEMMA QuietStep == ClosedIsQuiet /\ [Next]_vars => ClosedIsQuiet'
<1> SUFFICES ASSUME ClosedIsQuiet, [Next]_vars PROVE ClosedIsQuiet'
  OBVIOUS
<1> USE DEF ClosedIsQuiet, row, lease, thread, run, attempts, seen, closing,
      bounds, Restable, Act
<1>1. ASSUME NEW w \in Workers, Find(w) PROVE ClosedIsQuiet'
  BY <1>1 DEF Find, Goto
<1>2. ASSUME NEW w \in Workers, Claim(w) PROVE ClosedIsQuiet'
  BY <1>2 DEF Claim, Goto, Return
<1>3. ASSUME NEW w \in Workers, Recover(w) PROVE ClosedIsQuiet'
  BY <1>3 DEF Recover, Decide, Goto
<1>4. ASSUME NEW w \in Workers, Ineligible(w) PROVE ClosedIsQuiet'
  BY <1>4 DEF Ineligible, Decide, Goto
<1>5. ASSUME NEW w \in Workers, WindowOver(w) PROVE ClosedIsQuiet'
  BY <1>5 DEF WindowOver, Decide, Goto
<1>6. ASSUME NEW w \in Workers, Missed(w) PROVE ClosedIsQuiet'
  BY <1>6 DEF Missed, Decide, Goto
<1>7. ASSUME NEW w \in Workers, StartAttempt(w) PROVE ClosedIsQuiet'
  BY <1>7 DEF StartAttempt, Goto
<1>8. ASSUME NEW w \in Workers, Revoked(w) PROVE ClosedIsQuiet'
  BY <1>8 DEF Revoked, Decide, Goto
<1>9. ASSUME NEW w \in Workers, Unfit(w) PROVE ClosedIsQuiet'
  BY <1>9 DEF Unfit, Goto
<1>10. ASSUME NEW w \in Workers, Publish(w) PROVE ClosedIsQuiet'
  BY <1>10 DEF Publish, BeginCall, Goto
<1>11. ASSUME NEW w \in Workers, NextCall(w) PROVE ClosedIsQuiet'
  BY <1>11 DEF NextCall, BeginCall
<1>12. ASSUME NEW w \in Workers, EndLoop(w) PROVE ClosedIsQuiet'
  BY <1>12 DEF EndLoop, Goto, Return
<1>13. ASSUME NEW w \in Workers, Created(w) PROVE ClosedIsQuiet'
  BY <1>13 DEF Created, Goto
<1>14. ASSUME NEW w \in Workers,
                NEW answer \in Answers \ {"created"}, NotConfirmed(w, answer)
      PROVE  ClosedIsQuiet'
  BY <1>14 DEF NotConfirmed, Goto, Return
<1>15. ASSUME NEW w \in Workers, Progress(w) PROVE ClosedIsQuiet'
  BY <1>15 DEF Progress, Goto, Return
<1>16. ASSUME NEW w \in Workers, RecordSuccess(w) PROVE ClosedIsQuiet'
  BY <1>16 DEF RecordSuccess, Decide, Goto
<1>17. ASSUME NEW w \in Workers, RecordFailure(w) PROVE ClosedIsQuiet'
  BY <1>17 DEF RecordFailure, Decide, Goto
<1>18. ASSUME NEW w \in Workers, Settle(w) PROVE ClosedIsQuiet'
  BY <1>18 DEF Settle, SettlesAs, Owns, Return
<1>19. ASSUME NEW w \in Workers, ProgressFails(w) PROVE ClosedIsQuiet'
  BY <1>19 DEF ProgressFails, Goto
<1>20. ASSUME NEW w \in Workers, Crash(w) PROVE ClosedIsQuiet'
  BY <1>20 DEF Crash, Return
<1>21. ASSUME NEW w \in Workers, PublishNow(w) PROVE ClosedIsQuiet'
  BY <1>21 DEF PublishNow, Goto
<1>22. ASSUME ExpireLease PROVE ClosedIsQuiet'
  BY <1>22 DEF ExpireLease
<1>23. ASSUME BecomeDue PROVE ClosedIsQuiet'
  BY <1>23 DEF BecomeDue
<1>24. ASSUME Schedule PROVE ClosedIsQuiet'
  BY <1>24 DEF Schedule
<1>25. ASSUME Edit PROVE ClosedIsQuiet'
  BY <1>25 DEF Edit
<1>26. ASSUME Cancel PROVE ClosedIsQuiet'
  BY <1>26 DEF Cancel
<1>27. ASSUME Resume PROVE ClosedIsQuiet'
  BY <1>27 DEF Resume
<1>28. ASSUME CloseProject PROVE ClosedIsQuiet'
  BY <1>28 DEF CloseProject
<1>29. CASE UNCHANGED vars
  BY <1>29 DEF vars
<1> QED BY <1>1, <1>2, <1>3, <1>4, <1>5, <1>6, <1>7, <1>8, <1>9, <1>10, <1>11,
      <1>12, <1>13, <1>14, <1>15, <1>16, <1>17, <1>18, <1>19, <1>20, <1>21,
      <1>22, <1>23, <1>24, <1>25, <1>26, <1>27, <1>28, <1>29 DEF Next, Work

\* A part stored by Progress is one of the post's (ShapeInv); a settled count
\* is one more than a number below MaxAttempts (TriesInv).
LEMMA RowStep == TypeOK /\ TriesInv /\ ShapeInv /\ [Next]_vars => RowTypeOK'
<1> SUFFICES ASSUME TypeOK, TriesInv, ShapeInv, [Next]_vars PROVE RowTypeOK'
  OBVIOUS
<1> USE DEF TypeOK, RunTypeOK, RowTypeOK, HistoryTypeOK, OwnParts, Parts,
      Single, Stages, Answers, Statuses, Verdicts, Outcomes, TriesInv,
      ShapeInv, row, lease, thread, run, attempts, seen, closing, bounds,
      Begin, Note, Record
<1>1. ASSUME NEW w \in Workers, Find(w) PROVE RowTypeOK'
  BY <1>1 DEF Find, Stranded
<1>2. ASSUME NEW w \in Workers, Claim(w) PROVE RowTypeOK'
  <2>1. RowTypeOK
    BY DEF TypeOK
  <2>2. /\ due' \in BOOLEAN /\ unsure' \in BOOLEAN /\ open' \in BOOLEAN
        /\ expired' \in BOOLEAN
    BY <1>2, <2>1, Zenon DEF Claim
  <2>3. /\ status' \in Statuses /\ attemptCount' \in 0 .. MaxAttempts
        /\ length' \in Parts /\ token' \in Workers \cup {NoWorker}
        /\ marker' \in {0} \cup OwnParts' /\ ids' \subseteq OwnParts'
        /\ latest' \in Outcomes
    BY <1>2, <2>1 DEF Claim
  <2> QED BY <2>2, <2>3
<1>3. ASSUME NEW w \in Workers, Recover(w) PROVE RowTypeOK'
  BY <1>3, VerdictFacts DEF Recover, ThreadGoesOn, CountsOnRecovery, Exhausted,
    DoubtsOnRecovery
<1>4. ASSUME NEW w \in Workers, Ineligible(w) PROVE RowTypeOK'
  BY <1>4 DEF Ineligible, Eligible
<1>5. ASSUME NEW w \in Workers, WindowOver(w) PROVE RowTypeOK'
  BY <1>5 DEF WindowOver, Eligible
<1>6. ASSUME NEW w \in Workers, Missed(w) PROVE RowTypeOK'
  BY <1>6 DEF Missed
<1>7. ASSUME NEW w \in Workers, StartAttempt(w) PROVE RowTypeOK'
  BY <1>7 DEF StartAttempt, Eligible
<1>8. ASSUME NEW w \in Workers, Revoked(w) PROVE RowTypeOK'
  BY <1>8 DEF Revoked
<1>9. ASSUME NEW w \in Workers, Unfit(w) PROVE RowTypeOK'
  BY <1>9 DEF Unfit
<1>10. ASSUME NEW w \in Workers, Publish(w) PROVE RowTypeOK'
  BY <1>10 DEF Publish
<1>11. ASSUME NEW w \in Workers, NextCall(w) PROVE RowTypeOK'
  <2>1. RowTypeOK
    BY DEF TypeOK
  <2>2. /\ due' \in BOOLEAN /\ unsure' \in BOOLEAN /\ open' \in BOOLEAN
        /\ expired' \in BOOLEAN
    BY <1>11, <2>1, Zenon DEF NextCall
  <2>4. NextPart \in OwnParts
    BY <1>11, NextPartLeast DEF NextCall, Left
  <2>3. /\ status' \in Statuses /\ attemptCount' \in 0 .. MaxAttempts
        /\ length' \in Parts /\ token' \in Workers \cup {NoWorker}
        /\ marker' \in {0} \cup OwnParts' /\ ids' \subseteq OwnParts'
        /\ latest' \in Outcomes
    BY <1>11, <2>1, <2>4 DEF NextCall, Announced
  <2> QED BY <2>2, <2>3
<1>12. ASSUME NEW w \in Workers, EndLoop(w) PROVE RowTypeOK'
  BY <1>12 DEF EndLoop, Fenced, AllPublished
<1>13. ASSUME NEW w \in Workers, Created(w) PROVE RowTypeOK'
  BY <1>13 DEF Created
<1>14. ASSUME NEW w \in Workers,
                NEW answer \in Answers \ {"created"}, NotConfirmed(w, answer)
      PROVE  RowTypeOK'
  BY <1>14 DEF NotConfirmed, Fenced, KeepsMarker
<1>15. ASSUME NEW w \in Workers, Progress(w) PROVE RowTypeOK'
  <2>1. RowTypeOK
    BY DEF TypeOK
  <2>2. /\ due' \in BOOLEAN /\ unsure' \in BOOLEAN /\ open' \in BOOLEAN
        /\ expired' \in BOOLEAN
    BY <1>15, <2>1, Zenon DEF Progress
  <2>3. /\ status' \in Statuses /\ attemptCount' \in 0 .. MaxAttempts
        /\ length' \in Parts /\ token' \in Workers \cup {NoWorker}
        /\ marker' \in {0} \cup OwnParts' /\ ids' \subseteq OwnParts'
        /\ latest' \in Outcomes
    BY <1>15, <2>1 DEF Progress
  <2> QED BY <2>2, <2>3
<1>16. ASSUME NEW w \in Workers, RecordSuccess(w) PROVE RowTypeOK'
  BY <1>16 DEF RecordSuccess
<1>17. ASSUME NEW w \in Workers, RecordFailure(w) PROVE RowTypeOK'
  <2>1. UNCHANGED <<row, lease, length, thread, open>>
    BY <1>17 DEF RecordFailure
  <2>2. PICK o \in Outcomes : Record(w, o)
    <3> HIDE DEF Record
    <3> QED BY <1>17 DEF RecordFailure
  <2>3. latest' \in Outcomes
    BY <2>2
  <2> QED BY <2>1, <2>3
<1>18. ASSUME NEW w \in Workers, Settle(w) PROVE RowTypeOK'
  <2> DEFINE Kept == UNCHANGED <<length, marker, open, latest>>
  <2>1. RowTypeOK /\ RunTypeOK /\ Kept
    BY <1>18 DEF Settle
  <2>2. CASE Owns(w)
    <3>1. /\ status' = SettlesAs(w)
          /\ attemptCount' =
               (IF w \in counting THEN tried[w] + 1 ELSE attemptCount)
          /\ unsure' = (w \in doubting) /\ due' = FALSE
          /\ token' = NoWorker /\ expired' = FALSE
          /\ ids' = (IF verdict[w] = "PUBLISHED" THEN ids \cup {1} ELSE ids)
      BY <1>18, <2>2 DEF Settle
    <3>2. unsure' \in BOOLEAN
      <4>1. unsure' = (w \in doubting)
        BY <3>1
      <4> QED BY <4>1, SMT
    <3>3. due' \in BOOLEAN /\ expired' \in BOOLEAN
      BY <3>1, Zenon
    <3>4. status' \in Statuses
      BY <2>1, <3>1 DEF SettlesAs
    <3>5. tried[w] \in Nat /\ tried[w] < MaxAttempts
      BY <2>1
    <3>6. attemptCount' \in 0 .. MaxAttempts
      BY <2>1, <3>1, <3>5
    <3>7. ids' \subseteq OwnParts
      BY <2>1, <3>1
    <3> QED BY <2>1, <3>1, <3>2, <3>3, <3>4, <3>6, <3>7
  <2>3. CASE ~Owns(w)
    <3>1. UNCHANGED <<row, lease, ids>>
      BY <1>18, <2>3 DEF Settle
    <3> QED BY <2>1, <3>1
  <2> QED BY <2>2, <2>3
<1>19. ASSUME NEW w \in Workers, ProgressFails(w) PROVE RowTypeOK'
  BY <1>19 DEF ProgressFails
<1>20. ASSUME NEW w \in Workers, Crash(w) PROVE RowTypeOK'
  BY <1>20 DEF Crash, AtWork
<1>21. ASSUME NEW w \in Workers, PublishNow(w) PROVE RowTypeOK'
  <2>1. RowTypeOK
    BY DEF TypeOK
  <2>2. /\ due' \in BOOLEAN /\ unsure' \in BOOLEAN /\ open' \in BOOLEAN
        /\ expired' \in BOOLEAN
    BY <1>21, <2>1, Zenon DEF PublishNow, Afresh
  <2>3. /\ status' \in Statuses /\ attemptCount' \in 0 .. MaxAttempts
        /\ length' \in Parts /\ token' \in Workers \cup {NoWorker}
        /\ marker' \in {0} \cup OwnParts' /\ ids' \subseteq OwnParts'
        /\ latest' \in Outcomes
    BY <1>21, <2>1 DEF PublishNow, Afresh
  <2> QED BY <2>2, <2>3
<1>22. ASSUME ExpireLease PROVE RowTypeOK'
  BY <1>22 DEF ExpireLease, AtWork
<1>23. ASSUME BecomeDue PROVE RowTypeOK'
  BY <1>23 DEF BecomeDue
<1>24. ASSUME Schedule PROVE RowTypeOK'
  <2>1. RowTypeOK
    BY DEF TypeOK
  <2>2. /\ due' \in BOOLEAN /\ unsure' \in BOOLEAN /\ open' \in BOOLEAN
        /\ expired' \in BOOLEAN
    BY <1>24, <2>1, Zenon DEF Schedule, Afresh
  <2>3. /\ status' \in Statuses /\ attemptCount' \in 0 .. MaxAttempts
        /\ length' \in Parts /\ token' \in Workers \cup {NoWorker}
        /\ marker' \in {0} \cup OwnParts' /\ ids' \subseteq OwnParts'
        /\ latest' \in Outcomes
    BY <1>24, <2>1 DEF Schedule, Afresh
  <2> QED BY <2>2, <2>3
<1>25. ASSUME Edit PROVE RowTypeOK'
  <2>1. RowTypeOK
    BY DEF TypeOK
  <2>2. /\ due' \in BOOLEAN /\ unsure' \in BOOLEAN /\ open' \in BOOLEAN
        /\ expired' \in BOOLEAN
    BY <1>25, <2>1, Zenon DEF Edit, Afresh
  <2>3. /\ status' \in Statuses /\ attemptCount' \in 0 .. MaxAttempts
        /\ length' \in Parts /\ token' \in Workers \cup {NoWorker}
        /\ marker' \in {0} \cup OwnParts' /\ ids' \subseteq OwnParts'
        /\ latest' \in Outcomes
    BY <1>25, <2>1 DEF Edit, Afresh, Restable
  <2> QED BY <2>2, <2>3
<1>26. ASSUME Cancel PROVE RowTypeOK'
  BY <1>26 DEF Cancel, Act, Restable
<1>27. ASSUME Resume PROVE RowTypeOK'
  BY <1>27 DEF Resume, Act
<1>28. ASSUME CloseProject PROVE RowTypeOK'
  <2>1. RowTypeOK
    BY DEF TypeOK
  <2>2. /\ due' \in BOOLEAN /\ unsure' \in BOOLEAN /\ open' \in BOOLEAN
        /\ expired' \in BOOLEAN
    BY <1>28, <2>1, Zenon DEF CloseProject
  <2>3. /\ status' \in Statuses /\ attemptCount' \in 0 .. MaxAttempts
        /\ length' \in Parts /\ token' \in Workers \cup {NoWorker}
        /\ marker' \in {0} \cup OwnParts' /\ ids' \subseteq OwnParts'
        /\ latest' \in Outcomes
    BY <1>28, <2>1 DEF CloseProject
  <2> QED BY <2>2, <2>3
<1>29. CASE UNCHANGED vars
  BY <1>29 DEF vars
<1> QED BY <1>1, <1>2, <1>3, <1>4, <1>5, <1>6, <1>7, <1>8, <1>9, <1>10, <1>11,
      <1>12, <1>13, <1>14, <1>15, <1>16, <1>17, <1>18, <1>19, <1>20, <1>21,
      <1>22, <1>23, <1>24, <1>25, <1>26, <1>27, <1>28, <1>29 DEF Next, Work

\* What a run remembers keeps its type.
LEMMA RunStep == TypeOK /\ ShapeInv /\ [Next]_vars => RunTypeOK'
<1> SUFFICES ASSUME TypeOK, ShapeInv, [Next]_vars PROVE RunTypeOK'
  OBVIOUS
<1> USE DEF ShapeInv, TypeOK, RunTypeOK, RowTypeOK, HistoryTypeOK, OwnParts,
      Parts, Single, Stages, Answers, Statuses, Verdicts, Outcomes, row, lease,
      thread, run, attempts, seen, closing, bounds, Begin, Note, Record
<1>1. ASSUME NEW w \in Workers, Find(w) PROVE RunTypeOK'
  BY <1>1 DEF Find, Stranded, Goto
<1>2. ASSUME NEW w \in Workers, Claim(w) PROVE RunTypeOK'
  <2>1. CASE SameRow(w) /\ (w \in recovering \/ open)
    <3>1. /\ \E s \in Stages : Goto(w, s)
          /\ UNCHANGED <<length, tried, verdict, recovering, begun, counting,
                         doubting>>
          /\ mine' \subseteq Workers /\ current' \subseteq Workers
      BY <1>2, <2>1 DEF Claim
    <3> QED BY <3>1, GotoType
  <2>2. CASE ~(SameRow(w) /\ (w \in recovering \/ open))
    <3>1. /\ Return(w) /\ UNCHANGED <<length, mine>>
          /\ current' \subseteq Workers
      BY <1>2, <2>2 DEF Claim
    <3> QED BY <3>1, ReturnType
  <2> QED BY <2>1, <2>2
<1>3. ASSUME NEW w \in Workers, Recover(w) PROVE RunTypeOK'
  <2>1. CASE ThreadGoesOn(latest)
    <3>1. Goto(w, "eligible")
      BY <1>3, <2>1 DEF Recover
    <3>2. UNCHANGED <<length, attempts, current, seen, closing>>
      BY <1>3, <2>1 DEF Recover
    <3> QED BY <3>1, <3>2, GotoType
  <2>2. CASE ~ThreadGoesOn(latest)
    <3>1. PICK s \in Verdicts, counts \in BOOLEAN, doubts \in BOOLEAN :
            Decide(w, s, counts, doubts)
      <4>1. /\ VerdictOf(latest, tried[w]) \in Verdicts
            /\ CountsOnRecovery(latest, tried[w]) \in BOOLEAN
            /\ DoubtsOnRecovery(latest, tried[w]) \in BOOLEAN
        BY VerdictFacts DEF CountsOnRecovery, DoubtsOnRecovery
      <4> QED BY <1>3, <2>2, <4>1 DEF Recover
    <3>2. UNCHANGED <<length, tried, current, recovering, begun>>
      BY <1>3, <2>2 DEF Recover
    <3>3. mine' \subseteq Workers
      BY <1>3, <2>2 DEF Recover
    <3> HIDE DEF TypeOK, RowTypeOK, RunTypeOK, ShapeInv, Verdicts
    <3> QED BY <3>1, <3>2, <3>3, DecideType
  <2> QED BY <2>1, <2>2
<1>4. ASSUME NEW w \in Workers, Ineligible(w) PROVE RunTypeOK'
  BY <1>4 DEF Ineligible, Eligible, Decide, Goto
<1>5. ASSUME NEW w \in Workers, WindowOver(w) PROVE RunTypeOK'
  BY <1>5 DEF WindowOver, Eligible, Decide, Goto
<1>6. ASSUME NEW w \in Workers, Missed(w) PROVE RunTypeOK'
  BY <1>6 DEF Missed, Decide, Goto
<1>7. ASSUME NEW w \in Workers, StartAttempt(w) PROVE RunTypeOK'
  BY <1>7 DEF StartAttempt, Eligible, Goto
<1>8. ASSUME NEW w \in Workers, Revoked(w) PROVE RunTypeOK'
  BY <1>8 DEF Revoked, Decide, Goto
<1>9. ASSUME NEW w \in Workers, Unfit(w) PROVE RunTypeOK'
  BY <1>9 DEF Unfit, Goto
<1>10. ASSUME NEW w \in Workers, Publish(w) PROVE RunTypeOK'
  <2>1. CASE Single
    <3>1. /\ BeginCall(w, 1) /\ 1 \in OwnParts
          /\ UNCHANGED <<length, attempts, current, seen, closing>>
      BY <1>10, <2>1 DEF Publish
    <3> QED BY <3>1 DEF BeginCall
  <2>2. CASE ~Single
    <3>1. /\ Goto(w, "part")
          /\ UNCHANGED <<length, attempts, current, seen, closing>>
      BY <1>10, <2>2 DEF Publish
    <3> QED BY <3>1, GotoType
  <2> QED BY <2>1, <2>2
<1>11. ASSUME NEW w \in Workers, NextCall(w) PROVE RunTypeOK'
  BY <1>11, NextPartLeast DEF NextCall, Announced, Left, Fenced, AllPublished,
    BeginCall
<1>12. ASSUME NEW w \in Workers, EndLoop(w) PROVE RunTypeOK'
  <2>1. CASE Fenced(w)
    <3>1. /\ \E s \in Stages : Goto(w, s)
          /\ UNCHANGED <<length, tried, verdict, recovering, begun, counting,
                         doubting>>
          /\ mine' \subseteq Workers /\ current' \subseteq Workers
      BY <1>12, <2>1 DEF EndLoop
    <3> QED BY <3>1, GotoType
  <2>2. CASE ~(Fenced(w))
    <3>1. /\ Return(w) /\ UNCHANGED <<length, mine>>
          /\ current' \subseteq Workers
      BY <1>12, <2>2 DEF EndLoop
    <3> QED BY <3>1, ReturnType
  <2> QED BY <2>1, <2>2
<1>13. ASSUME NEW w \in Workers, Created(w) PROVE RunTypeOK'
  BY <1>13 DEF Created, Goto
<1>14. ASSUME NEW w \in Workers,
                NEW answer \in Answers \ {"created"}, NotConfirmed(w, answer)
      PROVE  RunTypeOK'
  <2>1. CASE Single \/ Fenced(w)
    <3>1. /\ \E s \in Stages : Goto(w, s)
          /\ UNCHANGED <<length, tried, verdict, recovering, begun, counting,
                         doubting>>
          /\ mine' \subseteq Workers /\ current' \subseteq Workers
      BY <1>14, <2>1 DEF NotConfirmed
    <3> QED BY <3>1, GotoType
  <2>2. CASE ~(Single \/ Fenced(w))
    <3>1. /\ Return(w) /\ UNCHANGED <<length, mine>>
          /\ current' \subseteq Workers
      BY <1>14, <2>2 DEF NotConfirmed
    <3> QED BY <3>1, ReturnType
  <2> QED BY <2>1, <2>2
<1>15. ASSUME NEW w \in Workers, Progress(w) PROVE RunTypeOK'
  <2>1. CASE Fenced(w)
    <3>1. /\ \E s \in Stages : Goto(w, s)
          /\ UNCHANGED <<length, tried, verdict, recovering, begun, counting,
                         doubting>>
          /\ mine' \subseteq Workers /\ current' \subseteq Workers
      BY <1>15, <2>1 DEF Progress
    <3> QED BY <3>1, GotoType
  <2>2. CASE ~(Fenced(w))
    <3>1. /\ Return(w) /\ UNCHANGED <<length, mine>>
          /\ current' \subseteq Workers
      BY <1>15, <2>2 DEF Progress
    <3> QED BY <3>1, ReturnType
  <2> QED BY <2>1, <2>2
<1>16. ASSUME NEW w \in Workers, RecordSuccess(w) PROVE RunTypeOK'
  BY <1>16 DEF RecordSuccess, Decide, Goto
<1>17. ASSUME NEW w \in Workers, RecordFailure(w) PROVE RunTypeOK'
  <2>1. PICK s \in Verdicts, counts \in BOOLEAN, doubts \in BOOLEAN :
          Decide(w, s, counts, doubts)
    BY <1>17 DEF RecordFailure
  <2>2. UNCHANGED <<length, tried, current, recovering, begun>>
    BY <1>17 DEF RecordFailure
  <2>3. mine' \subseteq Workers
    BY <1>17 DEF RecordFailure
  <2> HIDE DEF TypeOK, RowTypeOK, RunTypeOK, ShapeInv, Verdicts
  <2> QED BY <2>1, <2>2, <2>3, DecideType
<1>18. ASSUME NEW w \in Workers, Settle(w) PROVE RunTypeOK'
  BY <1>18 DEF Settle, SettlesAs, Owns, Return
<1>19. ASSUME NEW w \in Workers, ProgressFails(w) PROVE RunTypeOK'
  BY <1>19 DEF ProgressFails, Goto
<1>20. ASSUME NEW w \in Workers, Crash(w) PROVE RunTypeOK'
  <2>1. Return(w) /\ UNCHANGED <<length, mine, current>>
    BY <1>20 DEF Crash
  <2> QED BY <2>1, ReturnType
<1>21. ASSUME NEW w \in Workers, PublishNow(w) PROVE RunTypeOK'
  BY <1>21 DEF PublishNow, Afresh, NothingUnconfirmed, Restable, Goto
<1>22. ASSUME ExpireLease PROVE RunTypeOK'
  BY <1>22 DEF ExpireLease, AtWork
<1>23. ASSUME BecomeDue PROVE RunTypeOK'
  BY <1>23 DEF BecomeDue
<1>24. ASSUME Schedule PROVE RunTypeOK'
  BY <1>24 DEF Schedule, Afresh, NothingUnconfirmed, Restable
<1>25. ASSUME Edit PROVE RunTypeOK'
  BY <1>25 DEF Edit, Afresh, Restable
<1>26. ASSUME Cancel PROVE RunTypeOK'
  BY <1>26 DEF Cancel, Act, Restable
<1>27. ASSUME Resume PROVE RunTypeOK'
  BY <1>27 DEF Resume, Act
<1>28. ASSUME CloseProject PROVE RunTypeOK'
  BY <1>28 DEF CloseProject
<1>29. CASE UNCHANGED vars
  BY <1>29 DEF vars
<1> QED BY <1>1, <1>2, <1>3, <1>4, <1>5, <1>6, <1>7, <1>8, <1>9, <1>10, <1>11,
      <1>12, <1>13, <1>14, <1>15, <1>16, <1>17, <1>18, <1>19, <1>20, <1>21,
      <1>22, <1>23, <1>24, <1>25, <1>26, <1>27, <1>28, <1>29 DEF Next, Work

\* So does what the platform has.
LEMMA HistoryStep == TypeOK /\ ShapeInv /\ [Next]_vars => HistoryTypeOK'
<1> SUFFICES ASSUME TypeOK, ShapeInv, [Next]_vars PROVE HistoryTypeOK'
  OBVIOUS
<1> USE DEF TypeOK, HistoryTypeOK, row, lease, thread, run, attempts, seen,
      closing, bounds, Begin, Note, Record
<1>1. ASSUME NEW w \in Workers, Find(w) PROVE HistoryTypeOK'
  BY <1>1 DEF Find, Stranded
<1>2. ASSUME NEW w \in Workers, Claim(w) PROVE HistoryTypeOK'
  BY <1>2 DEF Claim, SameRow
<1>3. ASSUME NEW w \in Workers, Recover(w) PROVE HistoryTypeOK'
  BY <1>3, VerdictFacts DEF Recover, ThreadGoesOn, CountsOnRecovery, Exhausted,
    DoubtsOnRecovery
<1>4. ASSUME NEW w \in Workers, Ineligible(w) PROVE HistoryTypeOK'
  BY <1>4 DEF Ineligible, Eligible
<1>5. ASSUME NEW w \in Workers, WindowOver(w) PROVE HistoryTypeOK'
  BY <1>5 DEF WindowOver, Eligible
<1>6. ASSUME NEW w \in Workers, Missed(w) PROVE HistoryTypeOK'
  BY <1>6 DEF Missed
<1>7. ASSUME NEW w \in Workers, StartAttempt(w) PROVE HistoryTypeOK'
  BY <1>7 DEF StartAttempt, Eligible
<1>8. ASSUME NEW w \in Workers, Revoked(w) PROVE HistoryTypeOK'
  BY <1>8 DEF Revoked
<1>9. ASSUME NEW w \in Workers, Unfit(w) PROVE HistoryTypeOK'
  BY <1>9 DEF Unfit, Answers
<1>10. ASSUME NEW w \in Workers, Publish(w) PROVE HistoryTypeOK'
  BY <1>10 DEF Publish
<1>11. ASSUME NEW w \in Workers, NextCall(w) PROVE HistoryTypeOK'
  BY <1>11, NextPartLeast DEF NextCall, Announced, Left, Fenced, AllPublished
<1>12. ASSUME NEW w \in Workers, EndLoop(w) PROVE HistoryTypeOK'
  BY <1>12 DEF EndLoop, Fenced, AllPublished
<1>13. ASSUME NEW w \in Workers, Created(w) PROVE HistoryTypeOK'
  BY <1>13, LandedFacts DEF Created
<1>14. ASSUME NEW w \in Workers,
                NEW answer \in Answers \ {"created"}, NotConfirmed(w, answer)
      PROVE  HistoryTypeOK'
  BY <1>14, LandedFacts DEF NotConfirmed, Fenced, KeepsMarker
<1>15. ASSUME NEW w \in Workers, Progress(w) PROVE HistoryTypeOK'
  BY <1>15 DEF Progress, Fenced
<1>16. ASSUME NEW w \in Workers, RecordSuccess(w) PROVE HistoryTypeOK'
  BY <1>16 DEF RecordSuccess
<1>17. ASSUME NEW w \in Workers, RecordFailure(w) PROVE HistoryTypeOK'
  BY <1>17 DEF RecordFailure, RetriesLeft
<1>18. ASSUME NEW w \in Workers, Settle(w) PROVE HistoryTypeOK'
  BY <1>18 DEF Settle, SettlesAs, Owns
<1>19. ASSUME NEW w \in Workers, ProgressFails(w) PROVE HistoryTypeOK'
  BY <1>19, LandedFacts DEF ProgressFails
<1>20. ASSUME NEW w \in Workers, Crash(w) PROVE HistoryTypeOK'
  BY <1>20, LandedFacts DEF Crash, AtWork
<1>21. ASSUME NEW w \in Workers, PublishNow(w) PROVE HistoryTypeOK'
  BY <1>21 DEF PublishNow, Afresh, NothingUnconfirmed, Restable, Act
<1>22. ASSUME ExpireLease PROVE HistoryTypeOK'
  BY <1>22 DEF ExpireLease, AtWork
<1>23. ASSUME BecomeDue PROVE HistoryTypeOK'
  BY <1>23 DEF BecomeDue
<1>24. ASSUME Schedule PROVE HistoryTypeOK'
  BY <1>24 DEF Schedule, Afresh, NothingUnconfirmed, Restable, Act
<1>25. ASSUME Edit PROVE HistoryTypeOK'
  BY <1>25 DEF Edit, Afresh, Restable, Act
<1>26. ASSUME Cancel PROVE HistoryTypeOK'
  BY <1>26 DEF Cancel, Act, Restable
<1>27. ASSUME Resume PROVE HistoryTypeOK'
  BY <1>27 DEF Resume, Act
<1>28. ASSUME CloseProject PROVE HistoryTypeOK'
  BY <1>28 DEF CloseProject
<1>29. CASE UNCHANGED vars
  BY <1>29 DEF vars
<1> QED BY <1>1, <1>2, <1>3, <1>4, <1>5, <1>6, <1>7, <1>8, <1>9, <1>10, <1>11,
      <1>12, <1>13, <1>14, <1>15, <1>16, <1>17, <1>18, <1>19, <1>20, <1>21,
      <1>22, <1>23, <1>24, <1>25, <1>26, <1>27, <1>28, <1>29 DEF Next, Work

\* A row is claimed only while it may be tried again (FoundInv).
LEMMA TriesStep == TypeOK /\ TriesInv /\ FoundInv /\ [Next]_vars => TriesInv'
<1> SUFFICES ASSUME TypeOK, TriesInv, FoundInv, [Next]_vars PROVE TriesInv'
  OBVIOUS
<1> USE DEF TypeOK, RunTypeOK, RowTypeOK, HistoryTypeOK, OwnParts, Parts,
      Single, Stages, Answers, Statuses, Verdicts, Outcomes, TriesInv,
      FoundInv, row, lease, thread, run, attempts, seen, closing, bounds,
      Begin, Note, Record
<1>1. ASSUME NEW w \in Workers, Find(w) PROVE TriesInv'
  <2>1. /\ attemptCount < MaxAttempts /\ UNCHANGED <<row, closing>>
        /\ stage' = [stage EXCEPT ![w] = "found"]
    BY <1>1 DEF Find, Stranded, Goto
  <2>2. ASSUME NEW v \in Workers
        PROVE  /\ tried'[v] < MaxAttempts
               /\ stage'[v] = "settling" /\ verdict'[v] = "SCHEDULED" =>
                    v \in counting' /\ tried'[v] + 1 < MaxAttempts
    <3>1. tried' = [tried EXCEPT ![w] = attemptCount] /\ stage[w] = "idle"
      BY <1>1 DEF Find
    <3>2. CASE v = w
      BY <2>1, <3>1, <3>2
    <3>3. CASE v # w
      BY <2>1, <3>1, <3>3
    <3> QED BY <3>2, <3>3
  <2> QED BY <2>1, <2>2
<1>2. ASSUME NEW w \in Workers, Claim(w) PROVE TriesInv'
  <2>1. status' \in {"DRAFT", "SCHEDULED", "PUBLISHING"} =>
          attemptCount' < MaxAttempts
    BY <1>2 DEF Claim, SameRow
  <2>2. ASSUME NEW v \in Workers
        PROVE  /\ tried'[v] < MaxAttempts
               /\ stage'[v] = "settling" /\ verdict'[v] = "SCHEDULED" =>
                    v \in counting' /\ tried'[v] + 1 < MaxAttempts
    <3>1. CASE Return(w)
      <4>1. CASE v = w
        BY <3>1, <4>1 DEF Return
      <4>2. CASE v # w
        BY <3>1, <4>2 DEF Return
      <4> QED BY <4>1, <4>2
    <3>2. CASE /\ UNCHANGED <<tried, verdict, counting>>
               /\ \E s \in Stages \ {"settling"} : Goto(w, s)
      BY <3>2 DEF Goto
    <3> QED BY <1>2, <3>1, <3>2 DEF Claim
  <2> QED BY <2>1, <2>2
<1>3. ASSUME NEW w \in Workers, Recover(w) PROVE TriesInv'
  BY <1>3, VerdictFacts DEF Recover, ThreadGoesOn, CountsOnRecovery, Exhausted,
    DoubtsOnRecovery, Decide, Goto
<1>4. ASSUME NEW w \in Workers, Ineligible(w) PROVE TriesInv'
  BY <1>4 DEF Ineligible, Eligible, Decide, Goto
<1>5. ASSUME NEW w \in Workers, WindowOver(w) PROVE TriesInv'
  BY <1>5 DEF WindowOver, Eligible, Decide, Goto
<1>6. ASSUME NEW w \in Workers, Missed(w) PROVE TriesInv'
  BY <1>6 DEF Missed, Decide, Goto
<1>7. ASSUME NEW w \in Workers, StartAttempt(w) PROVE TriesInv'
  BY <1>7 DEF StartAttempt, Eligible, Goto
<1>8. ASSUME NEW w \in Workers, Revoked(w) PROVE TriesInv'
  BY <1>8 DEF Revoked, Decide, Goto
<1>9. ASSUME NEW w \in Workers, Unfit(w) PROVE TriesInv'
  BY <1>9 DEF Unfit, Goto
<1>10. ASSUME NEW w \in Workers, Publish(w) PROVE TriesInv'
  BY <1>10 DEF Publish, BeginCall, Goto
<1>11. ASSUME NEW w \in Workers, NextCall(w) PROVE TriesInv'
  BY <1>11, NextPartLeast DEF NextCall, Announced, Left, Fenced, AllPublished,
    BeginCall
<1>12. ASSUME NEW w \in Workers, EndLoop(w) PROVE TriesInv'
  <2>1. status' \in {"DRAFT", "SCHEDULED", "PUBLISHING"} =>
          attemptCount' < MaxAttempts
    BY <1>12 DEF EndLoop
  <2>2. ASSUME NEW v \in Workers
        PROVE  /\ tried'[v] < MaxAttempts
               /\ stage'[v] = "settling" /\ verdict'[v] = "SCHEDULED" =>
                    v \in counting' /\ tried'[v] + 1 < MaxAttempts
    <3>1. CASE Return(w)
      <4>1. CASE v = w
        BY <3>1, <4>1 DEF Return
      <4>2. CASE v # w
        BY <3>1, <4>2 DEF Return
      <4> QED BY <4>1, <4>2
    <3>2. CASE /\ UNCHANGED <<tried, verdict, counting>>
               /\ \E s \in Stages \ {"settling"} : Goto(w, s)
      BY <3>2 DEF Goto
    <3> QED BY <1>12, <3>1, <3>2 DEF EndLoop
  <2> QED BY <2>1, <2>2
<1>13. ASSUME NEW w \in Workers, Created(w) PROVE TriesInv'
  BY <1>13 DEF Created, Goto
<1>14. ASSUME NEW w \in Workers,
                NEW answer \in Answers \ {"created"}, NotConfirmed(w, answer)
      PROVE  TriesInv'
  <2>1. status' \in {"DRAFT", "SCHEDULED", "PUBLISHING"} =>
          attemptCount' < MaxAttempts
    BY <1>14 DEF NotConfirmed
  <2>2. ASSUME NEW v \in Workers
        PROVE  /\ tried'[v] < MaxAttempts
               /\ stage'[v] = "settling" /\ verdict'[v] = "SCHEDULED" =>
                    v \in counting' /\ tried'[v] + 1 < MaxAttempts
    <3>1. CASE Return(w)
      <4>1. CASE v = w
        BY <3>1, <4>1 DEF Return
      <4>2. CASE v # w
        BY <3>1, <4>2 DEF Return
      <4> QED BY <4>1, <4>2
    <3>2. CASE /\ UNCHANGED <<tried, verdict, counting>>
               /\ \E s \in Stages \ {"settling"} : Goto(w, s)
      BY <3>2 DEF Goto
    <3> QED BY <1>14, <3>1, <3>2 DEF NotConfirmed
  <2> QED BY <2>1, <2>2
<1>15. ASSUME NEW w \in Workers, Progress(w) PROVE TriesInv'
  <2>1. status' \in {"DRAFT", "SCHEDULED", "PUBLISHING"} =>
          attemptCount' < MaxAttempts
    BY <1>15 DEF Progress
  <2>2. ASSUME NEW v \in Workers
        PROVE  /\ tried'[v] < MaxAttempts
               /\ stage'[v] = "settling" /\ verdict'[v] = "SCHEDULED" =>
                    v \in counting' /\ tried'[v] + 1 < MaxAttempts
    <3>1. CASE Return(w)
      <4>1. CASE v = w
        BY <3>1, <4>1 DEF Return
      <4>2. CASE v # w
        BY <3>1, <4>2 DEF Return
      <4> QED BY <4>1, <4>2
    <3>2. CASE /\ UNCHANGED <<tried, verdict, counting>>
               /\ \E s \in Stages \ {"settling"} : Goto(w, s)
      BY <3>2 DEF Goto
    <3> QED BY <1>15, <3>1, <3>2 DEF Progress
  <2> QED BY <2>1, <2>2
<1>16. ASSUME NEW w \in Workers, RecordSuccess(w) PROVE TriesInv'
  BY <1>16 DEF RecordSuccess, Decide, Goto
<1>17. ASSUME NEW w \in Workers, RecordFailure(w) PROVE TriesInv'
  BY <1>17 DEF RecordFailure, RetriesLeft, Decide, Goto
<1>18. ASSUME NEW w \in Workers, Settle(w) PROVE TriesInv'
  <2>1. status' \in {"DRAFT", "SCHEDULED", "PUBLISHING"} =>
          attemptCount' < MaxAttempts
    BY <1>18 DEF Settle, SettlesAs
  <2>2. ASSUME NEW v \in Workers
        PROVE  /\ tried'[v] < MaxAttempts
               /\ stage'[v] = "settling" /\ verdict'[v] = "SCHEDULED" =>
                    v \in counting' /\ tried'[v] + 1 < MaxAttempts
    <3>1. CASE Return(w)
      <4>1. CASE v = w
        BY <3>1, <4>1 DEF Return
      <4>2. CASE v # w
        BY <3>1, <4>2 DEF Return
      <4> QED BY <4>1, <4>2
    <3>2. CASE /\ UNCHANGED <<tried, verdict, counting>>
               /\ \E s \in Stages \ {"settling"} : Goto(w, s)
      BY <3>2 DEF Goto
    <3> QED BY <1>18, <3>1, <3>2 DEF Settle
  <2> QED BY <2>1, <2>2
<1>19. ASSUME NEW w \in Workers, ProgressFails(w) PROVE TriesInv'
  BY <1>19 DEF ProgressFails, Goto
<1>20. ASSUME NEW w \in Workers, Crash(w) PROVE TriesInv'
  BY <1>20 DEF Crash, AtWork, Return
<1>21. ASSUME NEW w \in Workers, PublishNow(w) PROVE TriesInv'
  BY <1>21 DEF PublishNow, Afresh, NothingUnconfirmed, Restable, Act, Goto
<1>22. ASSUME ExpireLease PROVE TriesInv'
  BY <1>22 DEF ExpireLease, AtWork
<1>23. ASSUME BecomeDue PROVE TriesInv'
  BY <1>23 DEF BecomeDue
<1>24. ASSUME Schedule PROVE TriesInv'
  BY <1>24 DEF Schedule, Afresh, NothingUnconfirmed, Restable, Act
<1>25. ASSUME Edit PROVE TriesInv'
  BY <1>25 DEF Edit, Afresh, Restable, Act
<1>26. ASSUME Cancel PROVE TriesInv'
  BY <1>26 DEF Cancel, Act, Restable
<1>27. ASSUME Resume PROVE TriesInv'
  BY <1>27 DEF Resume, Act
<1>28. ASSUME CloseProject PROVE TriesInv'
  BY <1>28 DEF CloseProject
<1>29. CASE UNCHANGED vars
  BY <1>29 DEF vars
<1> QED BY <1>1, <1>2, <1>3, <1>4, <1>5, <1>6, <1>7, <1>8, <1>9, <1>10, <1>11,
      <1>12, <1>13, <1>14, <1>15, <1>16, <1>17, <1>18, <1>19, <1>20, <1>21,
      <1>22, <1>23, <1>24, <1>25, <1>26, <1>27, <1>28, <1>29 DEF Next, Work

\* A run calls part 1 of a single post, or the next part of a thread.
LEMMA ShapeStep == TypeOK /\ ShapeInv /\ [Next]_vars => ShapeInv'
<1> SUFFICES ASSUME TypeOK, ShapeInv, [Next]_vars PROVE ShapeInv'
  OBVIOUS
<1> USE DEF ShapeInv, TypeOK, RunTypeOK, RowTypeOK, OwnParts, Single, Stages,
      Answers, row, lease, thread, run, attempts, seen, closing, bounds, Begin,
      Note, Record
<1>1. ASSUME NEW w \in Workers, Find(w) PROVE ShapeInv'
  BY <1>1 DEF Find, Stranded, Goto
<1>2. ASSUME NEW w \in Workers, Claim(w) PROVE ShapeInv'
  BY <1>2 DEF Claim, SameRow, Goto, Return
<1>3. ASSUME NEW w \in Workers, Recover(w) PROVE ShapeInv'
  BY <1>3, VerdictFacts DEF Recover, ThreadGoesOn, CountsOnRecovery, Exhausted,
    DoubtsOnRecovery, Decide, Goto
<1>4. ASSUME NEW w \in Workers, Ineligible(w) PROVE ShapeInv'
  BY <1>4 DEF Ineligible, Eligible, Decide, Goto
<1>5. ASSUME NEW w \in Workers, WindowOver(w) PROVE ShapeInv'
  BY <1>5 DEF WindowOver, Eligible, Decide, Goto
<1>6. ASSUME NEW w \in Workers, Missed(w) PROVE ShapeInv'
  BY <1>6 DEF Missed, Decide, Goto
<1>7. ASSUME NEW w \in Workers, StartAttempt(w) PROVE ShapeInv'
  BY <1>7 DEF StartAttempt, Eligible, Goto
<1>8. ASSUME NEW w \in Workers, Revoked(w) PROVE ShapeInv'
  BY <1>8 DEF Revoked, Decide, Goto
<1>9. ASSUME NEW w \in Workers, Unfit(w) PROVE ShapeInv'
  BY <1>9 DEF Unfit, Goto
<1>10. ASSUME NEW w \in Workers, Publish(w) PROVE ShapeInv'
  BY <1>10 DEF Publish, BeginCall, Goto
<1>11. ASSUME NEW w \in Workers, NextCall(w) PROVE ShapeInv'
  BY <1>11, NextPartLeast DEF NextCall, Announced, Left, Fenced, AllPublished,
    BeginCall
<1>12. ASSUME NEW w \in Workers, EndLoop(w) PROVE ShapeInv'
  BY <1>12 DEF EndLoop, Fenced, AllPublished, Goto, Return
<1>13. ASSUME NEW w \in Workers, Created(w) PROVE ShapeInv'
  BY <1>13 DEF Created, Goto
<1>14. ASSUME NEW w \in Workers,
                NEW answer \in Answers \ {"created"}, NotConfirmed(w, answer)
      PROVE  ShapeInv'
  BY <1>14 DEF NotConfirmed, Fenced, KeepsMarker, Goto, Return
<1>15. ASSUME NEW w \in Workers, Progress(w) PROVE ShapeInv'
  BY <1>15 DEF Progress, Fenced, Goto, Return
<1>16. ASSUME NEW w \in Workers, RecordSuccess(w) PROVE ShapeInv'
  BY <1>16 DEF RecordSuccess, Decide, Goto
<1>17. ASSUME NEW w \in Workers, RecordFailure(w) PROVE ShapeInv'
  BY <1>17 DEF RecordFailure, RetriesLeft, Decide, Goto
<1>18. ASSUME NEW w \in Workers, Settle(w) PROVE ShapeInv'
  BY <1>18 DEF Settle, SettlesAs, Owns, Return
<1>19. ASSUME NEW w \in Workers, ProgressFails(w) PROVE ShapeInv'
  BY <1>19 DEF ProgressFails, Goto
<1>20. ASSUME NEW w \in Workers, Crash(w) PROVE ShapeInv'
  BY <1>20 DEF Crash, AtWork, Return
<1>21. ASSUME NEW w \in Workers, PublishNow(w) PROVE ShapeInv'
  BY <1>21 DEF PublishNow, Afresh, NothingUnconfirmed, Restable, Act, Goto
<1>22. ASSUME ExpireLease PROVE ShapeInv'
  BY <1>22 DEF ExpireLease, AtWork
<1>23. ASSUME BecomeDue PROVE ShapeInv'
  BY <1>23 DEF BecomeDue
<1>24. ASSUME Schedule PROVE ShapeInv'
  BY <1>24 DEF Schedule, Afresh, NothingUnconfirmed, Restable, Act
<1>25. ASSUME Edit PROVE ShapeInv'
  BY <1>25 DEF Edit, Afresh, Restable, Act
<1>26. ASSUME Cancel PROVE ShapeInv'
  BY <1>26 DEF Cancel, Act, Restable
<1>27. ASSUME Resume PROVE ShapeInv'
  BY <1>27 DEF Resume, Act
<1>28. ASSUME CloseProject PROVE ShapeInv'
  BY <1>28 DEF CloseProject
<1>29. CASE UNCHANGED vars
  BY <1>29 DEF vars
<1> QED BY <1>1, <1>2, <1>3, <1>4, <1>5, <1>6, <1>7, <1>8, <1>9, <1>10, <1>11,
      <1>12, <1>13, <1>14, <1>15, <1>16, <1>17, <1>18, <1>19, <1>20, <1>21,
      <1>22, <1>23, <1>24, <1>25, <1>26, <1>27, <1>28, <1>29 DEF Next, Work

\* Only a call that lands adds a part, and it is one of the post's.
LEMMA OwnStep == TypeOK /\ ShapeInv /\ OwnInv /\ [Next]_vars => OwnInv'
<1> SUFFICES ASSUME TypeOK, ShapeInv, OwnInv, [Next]_vars PROVE OwnInv'
  OBVIOUS
<1> USE DEF OwnInv, OwnParts, row, lease, thread, run, attempts, seen, closing,
      bounds, Begin, Note, Record
<1>1. ASSUME NEW w \in Workers, Find(w) PROVE OwnInv'
  BY <1>1 DEF Find, Stranded
<1>2. ASSUME NEW w \in Workers, Claim(w) PROVE OwnInv'
  BY <1>2 DEF Claim, SameRow
<1>3. ASSUME NEW w \in Workers, Recover(w) PROVE OwnInv'
  BY <1>3, VerdictFacts DEF Recover, ThreadGoesOn, CountsOnRecovery, Exhausted,
    DoubtsOnRecovery
<1>4. ASSUME NEW w \in Workers, Ineligible(w) PROVE OwnInv'
  BY <1>4 DEF Ineligible, Eligible
<1>5. ASSUME NEW w \in Workers, WindowOver(w) PROVE OwnInv'
  BY <1>5 DEF WindowOver, Eligible
<1>6. ASSUME NEW w \in Workers, Missed(w) PROVE OwnInv'
  BY <1>6 DEF Missed
<1>7. ASSUME NEW w \in Workers, StartAttempt(w) PROVE OwnInv'
  BY <1>7 DEF StartAttempt, Eligible
<1>8. ASSUME NEW w \in Workers, Revoked(w) PROVE OwnInv'
  BY <1>8 DEF Revoked
<1>9. ASSUME NEW w \in Workers, Unfit(w) PROVE OwnInv'
  BY <1>9 DEF Unfit, Answers
<1>10. ASSUME NEW w \in Workers, Publish(w) PROVE OwnInv'
  BY <1>10 DEF Publish
<1>11. ASSUME NEW w \in Workers, NextCall(w) PROVE OwnInv'
  BY <1>11, NextPartLeast DEF NextCall, Announced, Left, Fenced, AllPublished
<1>12. ASSUME NEW w \in Workers, EndLoop(w) PROVE OwnInv'
  BY <1>12 DEF EndLoop, Fenced, AllPublished
<1>13. ASSUME NEW w \in Workers, Created(w) PROVE OwnInv'
  BY <1>13, LandedFacts DEF Created
<1>14. ASSUME NEW w \in Workers,
                NEW answer \in Answers \ {"created"}, NotConfirmed(w, answer)
      PROVE  OwnInv'
  BY <1>14, LandedFacts DEF NotConfirmed, Fenced, KeepsMarker
<1>15. ASSUME NEW w \in Workers, Progress(w) PROVE OwnInv'
  BY <1>15 DEF Progress, Fenced
<1>16. ASSUME NEW w \in Workers, RecordSuccess(w) PROVE OwnInv'
  BY <1>16 DEF RecordSuccess
<1>17. ASSUME NEW w \in Workers, RecordFailure(w) PROVE OwnInv'
  BY <1>17 DEF RecordFailure, RetriesLeft
<1>18. ASSUME NEW w \in Workers, Settle(w) PROVE OwnInv'
  BY <1>18 DEF Settle, SettlesAs, Owns
<1>19. ASSUME NEW w \in Workers, ProgressFails(w) PROVE OwnInv'
  BY <1>19, LandedFacts DEF ProgressFails
<1>20. ASSUME NEW w \in Workers, Crash(w) PROVE OwnInv'
  BY <1>20, LandedFacts DEF Crash, AtWork
<1>21. ASSUME NEW w \in Workers, PublishNow(w) PROVE OwnInv'
  BY <1>21 DEF PublishNow, Afresh, NothingUnconfirmed, Restable, Act
<1>22. ASSUME ExpireLease PROVE OwnInv'
  BY <1>22 DEF ExpireLease, AtWork
<1>23. ASSUME BecomeDue PROVE OwnInv'
  BY <1>23 DEF BecomeDue
<1>24. ASSUME Schedule PROVE OwnInv'
  BY <1>24 DEF Schedule, Afresh, NothingUnconfirmed, Restable, Act
<1>25. ASSUME Edit PROVE OwnInv'
  BY <1>25 DEF Edit, Afresh, Restable, Act
<1>26. ASSUME Cancel PROVE OwnInv'
  BY <1>26 DEF Cancel, Act, Restable
<1>27. ASSUME Resume PROVE OwnInv'
  BY <1>27 DEF Resume, Act
<1>28. ASSUME CloseProject PROVE OwnInv'
  BY <1>28 DEF CloseProject
<1>29. CASE UNCHANGED vars
  BY <1>29 DEF vars
<1> QED BY <1>1, <1>2, <1>3, <1>4, <1>5, <1>6, <1>7, <1>8, <1>9, <1>10, <1>11,
      <1>12, <1>13, <1>14, <1>15, <1>16, <1>17, <1>18, <1>19, <1>20, <1>21,
      <1>22, <1>23, <1>24, <1>25, <1>26, <1>27, <1>28, <1>29 DEF Next, Work

\* A part gets its id, and a post its PUBLISHED, after a call that landed.
LEMMA LiveStep == TypeOK /\ ShapeInv /\ LiveInv /\ [Next]_vars => LiveInv'
<1> SUFFICES ASSUME TypeOK, ShapeInv, LiveInv, [Next]_vars PROVE LiveInv'
  OBVIOUS
<1> USE DEF LiveInv, AllLive, ShapeInv, TypeOK, RunTypeOK, RowTypeOK,
      HistoryTypeOK, OwnParts, Parts, Single, Stages, Answers, Statuses,
      Verdicts, Outcomes, row, lease, thread, run, attempts, seen, closing,
      bounds, Begin, Note, Record
<1>1. ASSUME NEW w \in Workers, Find(w) PROVE LiveInv'
  BY <1>1 DEF Find, Stranded, Goto
<1>2. ASSUME NEW w \in Workers, Claim(w) PROVE LiveInv'
  <2>1. \A p \in OwnParts : live[p] > 0 => live'[p] > 0
    BY <1>2 DEF Claim
  <2>2. UNCHANGED length
    BY <1>2 DEF Claim
  <2>3. AllLive => AllLive'
    BY <2>1, <2>2
  <2>4. /\ \A p \in ids' : live'[p] > 0
        /\ latest' = "succeeded" => AllLive'
        /\ status' = "PUBLISHED" => AllLive'
    <3> HIDE DEF AllLive
    <3> QED BY <1>2, <2>1, <2>2, <2>3 DEF Claim
  <2>5. ASSUME NEW v \in Workers
        PROVE  /\ stage'[v] = "created" => AllLive'
               /\ verdict'[v] = "PUBLISHED" => AllLive'
               /\ stage'[v] = "progress" => live'[part'[v]] > 0
    <3> HIDE DEF AllLive
    <3>1. CASE v # w
      BY <1>2, <2>1, <2>3, <3>1 DEF Claim, Goto, Return
    <3>2. CASE v = w
      BY <1>2, <2>1, <2>3, <3>2 DEF Claim, Goto, Return
    <3> QED BY <3>1, <3>2
  <2> QED BY <2>4, <2>5
<1>3. ASSUME NEW w \in Workers, Recover(w) PROVE LiveInv'
  BY <1>3, VerdictFacts DEF Recover, ThreadGoesOn, CountsOnRecovery, Exhausted,
    DoubtsOnRecovery, Decide, Goto
<1>4. ASSUME NEW w \in Workers, Ineligible(w) PROVE LiveInv'
  BY <1>4 DEF Ineligible, Eligible, Decide, Goto
<1>5. ASSUME NEW w \in Workers, WindowOver(w) PROVE LiveInv'
  BY <1>5 DEF WindowOver, Eligible, Decide, Goto
<1>6. ASSUME NEW w \in Workers, Missed(w) PROVE LiveInv'
  BY <1>6 DEF Missed, Decide, Goto
<1>7. ASSUME NEW w \in Workers, StartAttempt(w) PROVE LiveInv'
  BY <1>7 DEF StartAttempt, Eligible, Goto
<1>8. ASSUME NEW w \in Workers, Revoked(w) PROVE LiveInv'
  BY <1>8 DEF Revoked, Decide, Goto
<1>9. ASSUME NEW w \in Workers, Unfit(w) PROVE LiveInv'
  BY <1>9 DEF Unfit, Goto
<1>10. ASSUME NEW w \in Workers, Publish(w) PROVE LiveInv'
  BY <1>10 DEF Publish, BeginCall, Goto
<1>11. ASSUME NEW w \in Workers, NextCall(w) PROVE LiveInv'
  BY <1>11, NextPartLeast DEF NextCall, Announced, Left, Fenced, AllPublished,
    BeginCall
<1>12. ASSUME NEW w \in Workers, EndLoop(w) PROVE LiveInv'
  <2>1. \A p \in OwnParts : live[p] > 0 => live'[p] > 0
    BY <1>12 DEF EndLoop
  <2>2. UNCHANGED length
    BY <1>12 DEF EndLoop
  <2>3. AllLive => AllLive'
    BY <2>1, <2>2
  <2>4. /\ \A p \in ids' : live'[p] > 0
        /\ latest' = "succeeded" => AllLive'
        /\ status' = "PUBLISHED" => AllLive'
    <3> HIDE DEF AllLive
    <3> QED BY <1>12, <2>1, <2>2, <2>3 DEF EndLoop
  <2>6. AllPublished => AllLive
    BY DEF AllPublished
  <2>5. ASSUME NEW v \in Workers
        PROVE  /\ stage'[v] = "created" => AllLive'
               /\ verdict'[v] = "PUBLISHED" => AllLive'
               /\ stage'[v] = "progress" => live'[part'[v]] > 0
    <3> HIDE DEF AllLive
    <3>1. CASE v # w
      BY <1>12, <2>1, <2>3, <3>1 DEF EndLoop, Goto, Return
    <3>2. CASE v = w
      BY <1>12, <2>1, <2>3, <3>2, <2>6 DEF EndLoop, Goto, Return
    <3> QED BY <3>1, <3>2
  <2> QED BY <2>4, <2>5
<1>13. ASSUME NEW w \in Workers, Created(w) PROVE LiveInv'
  <2>1. \A p \in OwnParts : live[p] > 0 => live'[p] > 0
    <3>1. CASE Landed(w) /\ stage[w] = "calling"
      <4>1. TypeOK /\ ShapeInv
        OBVIOUS
      <4> HIDE DEF TypeOK, ShapeInv, OwnParts, Parts
      <4> QED BY <3>1, <4>1, LandedGrows
    <3>2. CASE UNCHANGED live
      BY <3>2
    <3> QED BY <1>13, <3>1, <3>2 DEF Created
  <2>2. UNCHANGED length
    BY <1>13 DEF Created
  <2>3. AllLive => AllLive'
    BY <2>1, <2>2
  <2>4. /\ \A p \in ids' : live'[p] > 0
        /\ latest' = "succeeded" => AllLive'
        /\ status' = "PUBLISHED" => AllLive'
    <3> HIDE DEF AllLive
    <3> QED BY <1>13, <2>1, <2>2, <2>3 DEF Created
  <2>5. ASSUME NEW v \in Workers
        PROVE  /\ stage'[v] = "created" => AllLive'
               /\ verdict'[v] = "PUBLISHED" => AllLive'
               /\ stage'[v] = "progress" => live'[part'[v]] > 0
    <3> HIDE DEF AllLive
    <3>1. CASE v # w
      BY <1>13, <2>1, <2>3, <3>1 DEF Created, Goto
    <3>2. CASE v = w
      <4>1. TypeOK /\ ShapeInv /\ stage[w] = "calling" /\ Landed(w)
        BY <1>13 DEF Created
      <4>2. live'[part[w]] > 0
        <5>1. live'[part[w]] = live[part[w]] + 1 /\ part[w] \in Parts
          <6> HIDE DEF TypeOK, ShapeInv, OwnParts, Parts
          <6> QED BY <4>1, LandedFacts
        <5> QED BY <5>1
      <4>3. CASE Single
        <5>2. part[w] = 1
          BY <4>1, <4>3
        <5>1. AllLive'
          BY <4>2, <4>3, <2>2, <5>2 DEF AllLive
        <5> QED BY <1>13, <2>3, <3>2, <4>3, <5>1 DEF Created, Goto
      <4>4. CASE ~Single
        BY <1>13, <2>3, <3>2, <4>2, <4>4 DEF Created, Goto
      <4> QED BY <4>3, <4>4
    <3> QED BY <3>1, <3>2
  <2> QED BY <2>4, <2>5
<1>14. ASSUME NEW w \in Workers,
                NEW answer \in Answers \ {"created"}, NotConfirmed(w, answer)
      PROVE  LiveInv'
  <2>1. \A p \in OwnParts : live[p] > 0 => live'[p] > 0
    <3>1. CASE Landed(w) /\ stage[w] = "calling"
      <4>1. TypeOK /\ ShapeInv
        OBVIOUS
      <4> HIDE DEF TypeOK, ShapeInv, OwnParts, Parts
      <4> QED BY <3>1, <4>1, LandedGrows
    <3>2. CASE UNCHANGED live
      BY <3>2
    <3> QED BY <1>14, <3>1, <3>2 DEF NotConfirmed
  <2>2. UNCHANGED length
    BY <1>14 DEF NotConfirmed
  <2>3. AllLive => AllLive'
    BY <2>1, <2>2
  <2>4. /\ \A p \in ids' : live'[p] > 0
        /\ latest' = "succeeded" => AllLive'
        /\ status' = "PUBLISHED" => AllLive'
    <3> HIDE DEF AllLive
    <3> QED BY <1>14, <2>1, <2>2, <2>3 DEF NotConfirmed
  <2>5. ASSUME NEW v \in Workers
        PROVE  /\ stage'[v] = "created" => AllLive'
               /\ verdict'[v] = "PUBLISHED" => AllLive'
               /\ stage'[v] = "progress" => live'[part'[v]] > 0
    <3> HIDE DEF AllLive
    <3>1. CASE v # w
      BY <1>14, <2>1, <2>3, <3>1 DEF NotConfirmed, Goto, Return
    <3>2. CASE v = w
      BY <1>14, <2>1, <2>3, <3>2 DEF NotConfirmed, Goto, Return
    <3> QED BY <3>1, <3>2
  <2> QED BY <2>4, <2>5
<1>15. ASSUME NEW w \in Workers, Progress(w) PROVE LiveInv'
  <2>1. \A p \in OwnParts : live[p] > 0 => live'[p] > 0
    BY <1>15 DEF Progress
  <2>2. UNCHANGED length
    BY <1>15 DEF Progress
  <2>3. AllLive => AllLive'
    BY <2>1, <2>2
  <2>4. /\ \A p \in ids' : live'[p] > 0
        /\ latest' = "succeeded" => AllLive'
        /\ status' = "PUBLISHED" => AllLive'
    <3> HIDE DEF AllLive
    <3> QED BY <1>15, <2>1, <2>2, <2>3 DEF Progress
  <2>5. ASSUME NEW v \in Workers
        PROVE  /\ stage'[v] = "created" => AllLive'
               /\ verdict'[v] = "PUBLISHED" => AllLive'
               /\ stage'[v] = "progress" => live'[part'[v]] > 0
    <3> HIDE DEF AllLive
    <3>1. CASE v # w
      BY <1>15, <2>1, <2>3, <3>1 DEF Progress, Goto, Return
    <3>2. CASE v = w
      BY <1>15, <2>1, <2>3, <3>2 DEF Progress, Goto, Return
    <3> QED BY <3>1, <3>2
  <2> QED BY <2>4, <2>5
<1>16. ASSUME NEW w \in Workers, RecordSuccess(w) PROVE LiveInv'
  BY <1>16 DEF RecordSuccess, Decide, Goto
<1>17. ASSUME NEW w \in Workers, RecordFailure(w) PROVE LiveInv'
  BY <1>17 DEF RecordFailure, RetriesLeft, Decide, Goto
<1>18. ASSUME NEW w \in Workers, Settle(w) PROVE LiveInv'
  <2>1. \A p \in OwnParts : live[p] > 0 => live'[p] > 0
    BY <1>18 DEF Settle
  <2>2. UNCHANGED length
    BY <1>18 DEF Settle
  <2>3. AllLive => AllLive'
    BY <2>1, <2>2
  <2>4. /\ \A p \in ids' : live'[p] > 0
        /\ latest' = "succeeded" => AllLive'
        /\ status' = "PUBLISHED" => AllLive'
    <3>1. AllLive => live[1] > 0
      BY DEF AllLive
    <3>2. UNCHANGED live /\ UNCHANGED latest
      BY <1>18 DEF Settle
    <3> HIDE DEF AllLive
    <3>3. CASE Owns(w)
      <4>1. /\ status' = SettlesAs(w)
            /\ ids' = (IF verdict[w] = "PUBLISHED" THEN ids \cup {1} ELSE ids)
        BY <1>18, <3>3 DEF Settle
      <4> QED BY <2>3, <3>1, <3>2, <4>1 DEF SettlesAs
    <3>4. CASE ~Owns(w)
      BY <1>18, <2>3, <3>2, <3>4 DEF Settle
    <3> QED BY <3>3, <3>4
  <2>5. ASSUME NEW v \in Workers
        PROVE  /\ stage'[v] = "created" => AllLive'
               /\ verdict'[v] = "PUBLISHED" => AllLive'
               /\ stage'[v] = "progress" => live'[part'[v]] > 0
    <3> HIDE DEF AllLive
    <3>1. CASE v # w
      BY <1>18, <2>1, <2>3, <3>1 DEF Settle, Return
    <3>2. CASE v = w
      BY <1>18, <2>1, <2>3, <3>2 DEF Settle, Return
    <3> QED BY <3>1, <3>2
  <2> QED BY <2>4, <2>5
<1>19. ASSUME NEW w \in Workers, ProgressFails(w) PROVE LiveInv'
  <2>1. \A p \in OwnParts : live[p] > 0 => live'[p] > 0
    <3>1. CASE Landed(w) /\ stage[w] = "calling"
      <4>1. TypeOK /\ ShapeInv
        OBVIOUS
      <4> HIDE DEF TypeOK, ShapeInv, OwnParts, Parts
      <4> QED BY <3>1, <4>1, LandedGrows
    <3>2. CASE UNCHANGED live
      BY <3>2
    <3> QED BY <1>19, <3>1, <3>2 DEF ProgressFails
  <2>2. UNCHANGED length
    BY <1>19 DEF ProgressFails
  <2>3. AllLive => AllLive'
    BY <2>1, <2>2
  <2>4. /\ \A p \in ids' : live'[p] > 0
        /\ latest' = "succeeded" => AllLive'
        /\ status' = "PUBLISHED" => AllLive'
    <3> HIDE DEF AllLive
    <3> QED BY <1>19, <2>1, <2>2, <2>3 DEF ProgressFails
  <2>5. ASSUME NEW v \in Workers
        PROVE  /\ stage'[v] = "created" => AllLive'
               /\ verdict'[v] = "PUBLISHED" => AllLive'
               /\ stage'[v] = "progress" => live'[part'[v]] > 0
    <3> HIDE DEF AllLive
    <3>1. CASE v # w
      BY <1>19, <2>1, <2>3, <3>1 DEF ProgressFails, Goto
    <3>2. CASE v = w
      BY <1>19, <2>1, <2>3, <3>2 DEF ProgressFails, Goto
    <3> QED BY <3>1, <3>2
  <2> QED BY <2>4, <2>5
<1>20. ASSUME NEW w \in Workers, Crash(w) PROVE LiveInv'
  <2>1. \A p \in OwnParts : live[p] > 0 => live'[p] > 0
    <3>1. CASE Landed(w) /\ stage[w] = "calling"
      <4>1. TypeOK /\ ShapeInv
        OBVIOUS
      <4> HIDE DEF TypeOK, ShapeInv, OwnParts, Parts
      <4> QED BY <3>1, <4>1, LandedGrows
    <3>2. CASE UNCHANGED live
      BY <3>2
    <3> QED BY <1>20, <3>1, <3>2 DEF Crash
  <2>2. UNCHANGED length
    BY <1>20 DEF Crash
  <2>3. AllLive => AllLive'
    BY <2>1, <2>2
  <2>4. /\ \A p \in ids' : live'[p] > 0
        /\ latest' = "succeeded" => AllLive'
        /\ status' = "PUBLISHED" => AllLive'
    <3> HIDE DEF AllLive
    <3> QED BY <1>20, <2>1, <2>2, <2>3 DEF Crash
  <2>5. ASSUME NEW v \in Workers
        PROVE  /\ stage'[v] = "created" => AllLive'
               /\ verdict'[v] = "PUBLISHED" => AllLive'
               /\ stage'[v] = "progress" => live'[part'[v]] > 0
    <3> HIDE DEF AllLive
    <3>1. CASE v # w
      BY <1>20, <2>1, <2>3, <3>1 DEF Crash, Return
    <3>2. CASE v = w
      BY <1>20, <2>1, <2>3, <3>2 DEF Crash, Return
    <3> QED BY <3>1, <3>2
  <2> QED BY <2>4, <2>5
<1>21. ASSUME NEW w \in Workers, PublishNow(w) PROVE LiveInv'
  BY <1>21 DEF PublishNow, Afresh, NothingUnconfirmed, Restable, Act, Goto
<1>22. ASSUME ExpireLease PROVE LiveInv'
  BY <1>22 DEF ExpireLease, AtWork
<1>23. ASSUME BecomeDue PROVE LiveInv'
  BY <1>23 DEF BecomeDue
<1>24. ASSUME Schedule PROVE LiveInv'
  BY <1>24 DEF Schedule, Afresh, NothingUnconfirmed, Restable, Act
<1>25. ASSUME Edit PROVE LiveInv'
  BY <1>25 DEF Edit, Afresh, Restable, Act
<1>26. ASSUME Cancel PROVE LiveInv'
  BY <1>26 DEF Cancel, Act, Restable
<1>27. ASSUME Resume PROVE LiveInv'
  BY <1>27 DEF Resume, Act
<1>28. ASSUME CloseProject PROVE LiveInv'
  BY <1>28 DEF CloseProject
<1>29. CASE UNCHANGED vars
  BY <1>29 DEF vars
<1> QED BY <1>1, <1>2, <1>3, <1>4, <1>5, <1>6, <1>7, <1>8, <1>9, <1>10, <1>11,
      <1>12, <1>13, <1>14, <1>15, <1>16, <1>17, <1>18, <1>19, <1>20, <1>21,
      <1>22, <1>23, <1>24, <1>25, <1>26, <1>27, <1>28, <1>29 DEF Next, Work

\* The next part is the least without an id.
LEMMA OrderStep == TypeOK /\ ShapeInv /\ OrderInv /\ [Next]_vars => OrderInv'
<1> SUFFICES ASSUME TypeOK, ShapeInv, OrderInv, [Next]_vars PROVE OrderInv'
  OBVIOUS
<1> USE DEF OrderInv, InOrder, ShapeInv, TypeOK, RunTypeOK, RowTypeOK,
      HistoryTypeOK, OwnParts, Parts, Single, Stages, Answers, Statuses,
      Verdicts, Outcomes, row, lease, thread, run, attempts, seen, closing,
      bounds, Begin, Note, Record
<1>1. ASSUME NEW w \in Workers, Find(w) PROVE OrderInv'
  BY <1>1 DEF Find, Stranded, Goto
<1>2. ASSUME NEW w \in Workers, Claim(w) PROVE OrderInv'
  BY <1>2 DEF Claim, SameRow, Goto, Return
<1>3. ASSUME NEW w \in Workers, Recover(w) PROVE OrderInv'
  BY <1>3 DEF Recover, Decide, Goto
<1>4. ASSUME NEW w \in Workers, Ineligible(w) PROVE OrderInv'
  BY <1>4 DEF Ineligible, Eligible, Decide, Goto
<1>5. ASSUME NEW w \in Workers, WindowOver(w) PROVE OrderInv'
  BY <1>5 DEF WindowOver, Eligible, Decide, Goto
<1>6. ASSUME NEW w \in Workers, Missed(w) PROVE OrderInv'
  BY <1>6 DEF Missed, Decide, Goto
<1>7. ASSUME NEW w \in Workers, StartAttempt(w) PROVE OrderInv'
  BY <1>7 DEF StartAttempt, Eligible, Goto
<1>8. ASSUME NEW w \in Workers, Revoked(w) PROVE OrderInv'
  BY <1>8 DEF Revoked, Decide, Goto
<1>9. ASSUME NEW w \in Workers, Unfit(w) PROVE OrderInv'
  BY <1>9 DEF Unfit, Goto
<1>10. ASSUME NEW w \in Workers, Publish(w) PROVE OrderInv'
  <2>1. UNCHANGED <<ids, live, length>>
    BY <1>10 DEF Publish
  <2>2. ASSUME NEW v \in Workers, stage'[v] \in {"calling", "progress"},
               NEW q \in 1 .. part'[v] - 1
        PROVE  q \in ids
    <3>1. CASE v # w
      BY <1>10, <2>2, <3>1 DEF Publish, BeginCall, Goto
    <3>2. CASE v = w
      BY <1>10, <2>2, <3>2 DEF Publish, BeginCall, Goto
    <3> QED BY <3>1, <3>2
  <2> QED BY <2>1, <2>2
<1>11. ASSUME NEW w \in Workers, NextCall(w) PROVE OrderInv'
  BY <1>11, NextPartLeast DEF NextCall, Announced, Left, Fenced, AllPublished,
    BeginCall
<1>12. ASSUME NEW w \in Workers, EndLoop(w) PROVE OrderInv'
  BY <1>12 DEF EndLoop, Fenced, AllPublished, Goto, Return
<1>13. ASSUME NEW w \in Workers, Created(w) PROVE OrderInv'
  BY <1>13, LandedFacts DEF Created, Goto
<1>14. ASSUME NEW w \in Workers,
                NEW answer \in Answers \ {"created"}, NotConfirmed(w, answer)
      PROVE  OrderInv'
  <2>1. UNCHANGED <<ids, length>>
    BY <1>14 DEF NotConfirmed
  <2>2. ASSUME NEW v \in Workers, stage'[v] \in {"calling", "progress"}
        PROVE  stage[v] = stage'[v] /\ part'[v] = part[v]
    <3>1. CASE v # w
      BY <1>14, <3>1 DEF NotConfirmed, Goto, Return
    <3>2. CASE v = w
      BY <1>14, <2>2, <3>2 DEF NotConfirmed, Goto, Return
    <3> QED BY <3>1, <3>2
  <2>3. CASE UNCHANGED live
    BY <2>1, <2>2, <2>3
  <2>4. CASE Landed(w)
    <3>1. stage[w] = "calling"
      BY <1>14 DEF NotConfirmed
    <3>2. \A p \in Parts \ {part[w]} : live'[p] = live[p]
      <4>1. TypeOK /\ ShapeInv
        OBVIOUS
      <4> HIDE DEF TypeOK, ShapeInv, Parts
      <4> QED BY <2>4, <3>1, <4>1, LandedFacts
    <3>3. \A q \in 1 .. part[w] - 1 : q \in ids
      BY <3>1
    <3>4. InOrder'
      BY <2>1, <3>2, <3>3
    <3> QED BY <2>1, <2>2, <3>4
  <2> QED BY <1>14, <2>3, <2>4 DEF NotConfirmed
<1>15. ASSUME NEW w \in Workers, Progress(w) PROVE OrderInv'
  BY <1>15 DEF Progress, Fenced, Goto, Return
<1>16. ASSUME NEW w \in Workers, RecordSuccess(w) PROVE OrderInv'
  BY <1>16 DEF RecordSuccess, Decide, Goto
<1>17. ASSUME NEW w \in Workers, RecordFailure(w) PROVE OrderInv'
  BY <1>17 DEF RecordFailure, RetriesLeft, Decide, Goto
<1>18. ASSUME NEW w \in Workers, Settle(w) PROVE OrderInv'
  BY <1>18 DEF Settle, SettlesAs, Owns, Return
<1>19. ASSUME NEW w \in Workers, ProgressFails(w) PROVE OrderInv'
  BY <1>19, LandedFacts DEF ProgressFails, Goto
<1>20. ASSUME NEW w \in Workers, Crash(w) PROVE OrderInv'
  BY <1>20, LandedFacts DEF Crash, AtWork, Return
<1>21. ASSUME NEW w \in Workers, PublishNow(w) PROVE OrderInv'
  BY <1>21 DEF PublishNow, Afresh, NothingUnconfirmed, Restable, Act, Goto
<1>22. ASSUME ExpireLease PROVE OrderInv'
  BY <1>22 DEF ExpireLease, AtWork
<1>23. ASSUME BecomeDue PROVE OrderInv'
  BY <1>23 DEF BecomeDue
<1>24. ASSUME Schedule PROVE OrderInv'
  BY <1>24 DEF Schedule, Afresh, NothingUnconfirmed, Restable, Act
<1>25. ASSUME Edit PROVE OrderInv'
  BY <1>25 DEF Edit, Afresh, Restable, Act
<1>26. ASSUME Cancel PROVE OrderInv'
  BY <1>26 DEF Cancel, Act, Restable
<1>27. ASSUME Resume PROVE OrderInv'
  BY <1>27 DEF Resume, Act
<1>28. ASSUME CloseProject PROVE OrderInv'
  BY <1>28 DEF CloseProject
<1>29. CASE UNCHANGED vars
  BY <1>29 DEF vars
<1> QED BY <1>1, <1>2, <1>3, <1>4, <1>5, <1>6, <1>7, <1>8, <1>9, <1>10, <1>11,
      <1>12, <1>13, <1>14, <1>15, <1>16, <1>17, <1>18, <1>19, <1>20, <1>21,
      <1>22, <1>23, <1>24, <1>25, <1>26, <1>27, <1>28, <1>29 DEF Next, Work

\* The marker is set before a call and taken back only when the part has its id
\* or was refused; a person takes it back for a part that is not there.
LEMMA ThreadStep ==
  TypeOK /\ ShapeInv /\ LiveInv /\ ThreadInv /\ [Next]_vars => ThreadInv'
<1> SUFFICES ASSUME TypeOK, ShapeInv, LiveInv, ThreadInv,
                    [Next]_vars
             PROVE  ThreadInv'
  OBVIOUS
<1> USE DEF ThreadInv, ShapeInv, TypeOK, RunTypeOK, RowTypeOK, HistoryTypeOK,
      OwnParts, Parts, Single, Stages, Answers, Statuses, Verdicts, Outcomes,
      row, lease, thread, run, attempts, seen, closing, bounds, Begin, Note,
      Record
<1>1. ASSUME NEW w \in Workers, Find(w) PROVE ThreadInv'
  BY <1>1 DEF Find, Stranded, Goto
<1>2. ASSUME NEW w \in Workers, Claim(w) PROVE ThreadInv'
  <2>1. UNCHANGED <<length, marker, ids, live>>
    BY <1>2 DEF Claim
  <2>2. ASSUME NEW v \in Workers, stage'[v] \in {"calling", "progress"}
        PROVE  stage'[v] = stage[v] /\ part'[v] = part[v]
    <3>1. CASE v # w
      BY <1>2, <3>1 DEF Claim, Goto, Return
    <3>2. CASE v = w
      BY <1>2, <2>2, <3>2 DEF Claim, Goto, Return
    <3> QED BY <3>1, <3>2
  <2> HIDE DEF TypeOK, ThreadInv
  <2> QED BY <2>1, <2>2, ThreadQuiet
<1>3. ASSUME NEW w \in Workers, Recover(w) PROVE ThreadInv'
  <2>1. UNCHANGED <<length, marker, ids, live>>
    BY <1>3 DEF Recover
  <2>2. ASSUME NEW v \in Workers, stage'[v] \in {"calling", "progress"}
        PROVE  stage'[v] = stage[v] /\ part'[v] = part[v]
    <3>1. CASE v # w
      BY <1>3, <3>1 DEF Recover, Decide, Goto
    <3>2. CASE v = w
      BY <1>3, <2>2, <3>2 DEF Recover, Decide, Goto
    <3> QED BY <3>1, <3>2
  <2> HIDE DEF TypeOK, ThreadInv
  <2> QED BY <2>1, <2>2, ThreadQuiet
<1>4. ASSUME NEW w \in Workers, Ineligible(w) PROVE ThreadInv'
  BY <1>4 DEF Ineligible, Eligible, Decide, Goto
<1>5. ASSUME NEW w \in Workers, WindowOver(w) PROVE ThreadInv'
  BY <1>5 DEF WindowOver, Eligible, Decide, Goto
<1>6. ASSUME NEW w \in Workers, Missed(w) PROVE ThreadInv'
  BY <1>6 DEF Missed, Decide, Goto
<1>7. ASSUME NEW w \in Workers, StartAttempt(w) PROVE ThreadInv'
  BY <1>7 DEF StartAttempt, Eligible, Goto
<1>8. ASSUME NEW w \in Workers, Revoked(w) PROVE ThreadInv'
  BY <1>8 DEF Revoked, Decide, Goto
<1>9. ASSUME NEW w \in Workers, Unfit(w) PROVE ThreadInv'
  BY <1>9 DEF Unfit, Goto
<1>10. ASSUME NEW w \in Workers, Publish(w) PROVE ThreadInv'
  BY <1>10 DEF Publish, BeginCall, Goto
<1>11. ASSUME NEW w \in Workers, NextCall(w) PROVE ThreadInv'
  <2>1. /\ stage' = [stage EXCEPT ![w] = "calling"]
        /\ part' = [part EXCEPT ![w] = NextPart]
        /\ marker = 0 /\ marker' = NextPart /\ UNCHANGED <<length, ids, live>>
    BY <1>11 DEF NextCall, BeginCall, Announced
  <2>2. NextPart \in OwnParts /\ NextPart \notin ids
    BY <1>11, NextPartLeast DEF NextCall, Left
  <2> SUFFICES ASSUME ~Single PROVE ThreadInv'
    BY <2>1
  <2>3. \A v \in Workers : stage[v] \notin {"calling", "progress"}
    BY <2>1
  <2>4. \A p \in Parts : live[p] > 0 => p \in ids
    BY <2>1
  <2>5. live[NextPart] = 0
    BY <2>2, <2>4
  <2>6. \A v \in Workers : stage'[v] \in {"calling", "progress"} => v = w
    BY <2>1, <2>3
  <2>7. stage'[w] = "calling" /\ part'[w] = NextPart
    BY <2>1
  <2> QED BY <2>1, <2>4, <2>5, <2>6, <2>7
<1>12. ASSUME NEW w \in Workers, EndLoop(w) PROVE ThreadInv'
  <2>1. UNCHANGED <<length, marker, ids, live>>
    BY <1>12 DEF EndLoop
  <2>2. ASSUME NEW v \in Workers, stage'[v] \in {"calling", "progress"}
        PROVE  stage'[v] = stage[v] /\ part'[v] = part[v]
    <3>1. CASE v # w
      BY <1>12, <3>1 DEF EndLoop, Goto, Return
    <3>2. CASE v = w
      BY <1>12, <2>2, <3>2 DEF EndLoop, Goto, Return
    <3> QED BY <3>1, <3>2
  <2> HIDE DEF TypeOK, ThreadInv
  <2> QED BY <2>1, <2>2, ThreadQuiet
<1>13. ASSUME NEW w \in Workers, Created(w) PROVE ThreadInv'
  <2>1. /\ stage[w] = "calling" /\ Landed(w)
        /\ UNCHANGED <<length, marker, ids>>
    BY <1>13 DEF Created
  <2>2. \A v \in Workers \ {w} : stage'[v] = stage[v] /\ part'[v] = part[v]
    BY <1>13 DEF Created, Goto
  <2>3. stage'[w] # "calling" /\ part'[w] = part[w]
    BY <1>13 DEF Created, Goto
  <2> HIDE DEF TypeOK, ThreadInv, ShapeInv
  <2> QED BY <2>1, <2>2, <2>3, ThreadLands
<1>14. ASSUME NEW w \in Workers,
                NEW answer \in Answers \ {"created"}, NotConfirmed(w, answer)
      PROVE  ThreadInv'
  <2>1. UNCHANGED <<length, ids>>
    BY <1>14 DEF NotConfirmed
  <2>2. \A v \in Workers \ {w} : stage'[v] = stage[v] /\ part'[v] = part[v]
    BY <1>14 DEF NotConfirmed, Goto, Return, Answers
  <2>3. stage'[w] \notin {"calling", "progress"}
    BY <1>14 DEF NotConfirmed, Goto, Return, Answers
  <2>4. CASE stage[w] = "calling" /\ Landed(w) /\ UNCHANGED marker
    <3> HIDE DEF TypeOK, ThreadInv, ShapeInv
    <3> QED BY <2>1, <2>2, <2>3, <2>4, ThreadLands
  <2>5. CASE UNCHANGED <<live, marker>>
    <3> HIDE DEF TypeOK, ThreadInv
    <3> QED BY <2>1, <2>2, <2>3, <2>5, ThreadQuiet
  <2>6. CASE UNCHANGED live /\ marker' = 0 /\ stage[w] = "calling"
    <3>1. \A v \in Workers : stage'[v] \notin {"calling", "progress"} \/ Single
      BY <2>2, <2>3, <2>6
    <3> QED BY <2>1, <2>6, <3>1
  <2> QED BY <1>14, <2>4, <2>5, <2>6 DEF NotConfirmed, KeepsMarker
<1>15. ASSUME NEW w \in Workers, Progress(w) PROVE ThreadInv'
  <2>1. \A v \in Workers \ {w} : stage'[v] = stage[v] /\ part'[v] = part[v]
    BY <1>15 DEF Progress, Goto, Return
  <2>2. /\ stage'[w] \notin {"calling", "progress"} /\ stage[w] = "progress"
        /\ UNCHANGED <<length, live>>
    BY <1>15 DEF Progress, Goto, Return
  <2>3. CASE Fenced(w)
    <3>1. ids' = ids \cup {part[w]} /\ marker' = 0
      BY <1>15, <2>3 DEF Progress
    <3>2. \A v \in Workers : stage'[v] \notin {"calling", "progress"} \/ Single
      BY <2>1, <2>2
    <3> QED BY <2>2, <3>1, <3>2
  <2>4. CASE ~Fenced(w)
    <3>1. UNCHANGED <<marker, ids>>
      BY <1>15, <2>4 DEF Progress
    <3> HIDE DEF TypeOK, ThreadInv
    <3> QED BY <2>1, <2>2, <3>1, ThreadQuiet
  <2> QED BY <2>3, <2>4
<1>16. ASSUME NEW w \in Workers, RecordSuccess(w) PROVE ThreadInv'
  BY <1>16 DEF RecordSuccess, Decide, Goto
<1>17. ASSUME NEW w \in Workers, RecordFailure(w) PROVE ThreadInv'
  <2>1. UNCHANGED <<length, marker, ids, live>>
    BY <1>17 DEF RecordFailure
  <2>2. ASSUME NEW v \in Workers, stage'[v] \in {"calling", "progress"}
        PROVE  stage'[v] = stage[v] /\ part'[v] = part[v]
    <3>1. CASE v # w
      BY <1>17, <3>1 DEF RecordFailure, Decide, Goto
    <3>2. CASE v = w
      BY <1>17, <2>2, <3>2 DEF RecordFailure, Decide, Goto
    <3> QED BY <3>1, <3>2
  <2> HIDE DEF TypeOK, ThreadInv
  <2> QED BY <2>1, <2>2, ThreadQuiet
<1>18. ASSUME NEW w \in Workers, Settle(w) PROVE ThreadInv'
  BY <1>18 DEF Settle, SettlesAs, Owns, Return
<1>19. ASSUME NEW w \in Workers, ProgressFails(w) PROVE ThreadInv'
  <2>1. UNCHANGED <<length, ids>>
    BY <1>19 DEF ProgressFails
  <2>2. \A v \in Workers \ {w} : stage'[v] = stage[v] /\ part'[v] = part[v]
    BY <1>19 DEF ProgressFails, Goto
  <2>3. stage'[w] \notin {"calling", "progress"}
    BY <1>19 DEF ProgressFails, Goto
  <2>4. CASE stage[w] = "calling" /\ Landed(w) /\ UNCHANGED marker
    <3> HIDE DEF TypeOK, ThreadInv, ShapeInv
    <3> QED BY <2>1, <2>2, <2>3, <2>4, ThreadLands
  <2>5. CASE UNCHANGED <<live, marker>>
    <3> HIDE DEF TypeOK, ThreadInv
    <3> QED BY <2>1, <2>2, <2>3, <2>5, ThreadQuiet
  <2> QED BY <1>19, <2>4, <2>5 DEF ProgressFails
<1>20. ASSUME NEW w \in Workers, Crash(w) PROVE ThreadInv'
  <2>1. UNCHANGED <<length, ids>>
    BY <1>20 DEF Crash
  <2>2. \A v \in Workers \ {w} : stage'[v] = stage[v] /\ part'[v] = part[v]
    BY <1>20 DEF Crash, AtWork, Return
  <2>3. stage'[w] \notin {"calling", "progress"}
    BY <1>20 DEF Crash, AtWork, Return
  <2>4. CASE stage[w] = "calling" /\ Landed(w) /\ UNCHANGED marker
    <3> HIDE DEF TypeOK, ThreadInv, ShapeInv
    <3> QED BY <2>1, <2>2, <2>3, <2>4, ThreadLands
  <2>5. CASE UNCHANGED <<live, marker>>
    <3> HIDE DEF TypeOK, ThreadInv
    <3> QED BY <2>1, <2>2, <2>3, <2>5, ThreadQuiet
  <2> QED BY <1>20, <2>4, <2>5 DEF Crash
<1>21. ASSUME NEW w \in Workers, PublishNow(w) PROVE ThreadInv'
  BY <1>21 DEF PublishNow, Afresh, NothingUnconfirmed, Restable, Act, Goto
<1>22. ASSUME ExpireLease PROVE ThreadInv'
  BY <1>22 DEF ExpireLease, AtWork
<1>23. ASSUME BecomeDue PROVE ThreadInv'
  BY <1>23 DEF BecomeDue
<1>24. ASSUME Schedule PROVE ThreadInv'
  BY <1>24 DEF Schedule, Afresh, NothingUnconfirmed, Restable, Act
<1>25. ASSUME Edit PROVE ThreadInv'
  BY <1>25 DEF Edit, Afresh, Restable, Act
<1>26. ASSUME Cancel PROVE ThreadInv'
  BY <1>26 DEF Cancel, Act, Restable
<1>27. ASSUME Resume PROVE ThreadInv'
  <2>1. \A v \in Workers : stage[v] \notin {"calling", "progress"}
    BY <1>27 DEF Resume, LiveInv
  <2> QED BY <1>27, <2>1 DEF Resume
<1>28. ASSUME CloseProject PROVE ThreadInv'
  BY <1>28 DEF CloseProject
<1>29. CASE UNCHANGED vars
  BY <1>29 DEF vars
<1> QED BY <1>1, <1>2, <1>3, <1>4, <1>5, <1>6, <1>7, <1>8, <1>9, <1>10, <1>11,
      <1>12, <1>13, <1>14, <1>15, <1>16, <1>17, <1>18, <1>19, <1>20, <1>21,
      <1>22, <1>23, <1>24, <1>25, <1>26, <1>27, <1>28, <1>29 DEF Next, Work

\* Whatever changes the status also gives the row a new revision.
LEMMA FoundStep == TypeOK /\ FoundInv /\ [Next]_vars => FoundInv'
<1> SUFFICES ASSUME TypeOK, FoundInv, [Next]_vars PROVE FoundInv'
  OBVIOUS
<1> USE DEF FoundInv, TypeOK, RunTypeOK, RowTypeOK, HistoryTypeOK, OwnParts,
      Parts, Single, Stages, Answers, Statuses, Verdicts, Outcomes, row, lease,
      thread, run, attempts, seen, closing, bounds, Begin, Note, Record
<1>1. ASSUME NEW w \in Workers, Find(w) PROVE FoundInv'
  <2>1. ASSUME NEW v \in Workers
        PROVE  /\ stage'[v] = "idle" => v \notin recovering'
               /\ stage'[v] = "found" /\ v \in current' =>
                    IF v \in recovering'
                      THEN status' = "PUBLISHING" /\ expired'
                      ELSE status' = "SCHEDULED"
    <3>1. CASE v # w
      BY <1>1, <3>1 DEF Find, Stranded, Goto
    <3>2. CASE v = w
      BY <1>1, <3>2 DEF Find, Stranded, Goto
    <3> QED BY <3>1, <3>2
  <2> QED BY <2>1
<1>2. ASSUME NEW w \in Workers, Claim(w) PROVE FoundInv'
  <2>1. ASSUME NEW v \in Workers
        PROVE  /\ stage'[v] = "idle" => v \notin recovering'
               /\ stage'[v] = "found" /\ v \in current' =>
                    IF v \in recovering'
                      THEN status' = "PUBLISHING" /\ expired'
                      ELSE status' = "SCHEDULED"
    <3>1. CASE v # w
      BY <1>2, <3>1 DEF Claim, Goto, Return
    <3>2. CASE v = w
      BY <1>2, <3>2 DEF Claim, Goto, Return
    <3> QED BY <3>1, <3>2
  <2> QED BY <2>1
<1>3. ASSUME NEW w \in Workers, Recover(w) PROVE FoundInv'
  BY <1>3, VerdictFacts DEF Recover, ThreadGoesOn, CountsOnRecovery, Exhausted,
    DoubtsOnRecovery, Decide, Goto
<1>4. ASSUME NEW w \in Workers, Ineligible(w) PROVE FoundInv'
  BY <1>4 DEF Ineligible, Eligible, Decide, Goto
<1>5. ASSUME NEW w \in Workers, WindowOver(w) PROVE FoundInv'
  BY <1>5 DEF WindowOver, Eligible, Decide, Goto
<1>6. ASSUME NEW w \in Workers, Missed(w) PROVE FoundInv'
  BY <1>6 DEF Missed, Decide, Goto
<1>7. ASSUME NEW w \in Workers, StartAttempt(w) PROVE FoundInv'
  BY <1>7 DEF StartAttempt, Eligible, Goto
<1>8. ASSUME NEW w \in Workers, Revoked(w) PROVE FoundInv'
  BY <1>8 DEF Revoked, Decide, Goto
<1>9. ASSUME NEW w \in Workers, Unfit(w) PROVE FoundInv'
  BY <1>9 DEF Unfit, Goto
<1>10. ASSUME NEW w \in Workers, Publish(w) PROVE FoundInv'
  BY <1>10 DEF Publish, BeginCall, Goto
<1>11. ASSUME NEW w \in Workers, NextCall(w) PROVE FoundInv'
  BY <1>11, NextPartLeast DEF NextCall, Announced, Left, Fenced, AllPublished,
    BeginCall
<1>12. ASSUME NEW w \in Workers, EndLoop(w) PROVE FoundInv'
  <2>1. ASSUME NEW v \in Workers
        PROVE  /\ stage'[v] = "idle" => v \notin recovering'
               /\ stage'[v] = "found" /\ v \in current' =>
                    IF v \in recovering'
                      THEN status' = "PUBLISHING" /\ expired'
                      ELSE status' = "SCHEDULED"
    <3>1. CASE v # w
      BY <1>12, <3>1 DEF EndLoop, Goto, Return
    <3>2. CASE v = w
      BY <1>12, <3>2 DEF EndLoop, Goto, Return
    <3> QED BY <3>1, <3>2
  <2> QED BY <2>1
<1>13. ASSUME NEW w \in Workers, Created(w) PROVE FoundInv'
  BY <1>13 DEF Created, Goto
<1>14. ASSUME NEW w \in Workers,
                NEW answer \in Answers \ {"created"}, NotConfirmed(w, answer)
      PROVE  FoundInv'
  <2>1. ASSUME NEW v \in Workers
        PROVE  /\ stage'[v] = "idle" => v \notin recovering'
               /\ stage'[v] = "found" /\ v \in current' =>
                    IF v \in recovering'
                      THEN status' = "PUBLISHING" /\ expired'
                      ELSE status' = "SCHEDULED"
    <3>1. CASE v # w
      BY <1>14, <3>1 DEF NotConfirmed, Goto, Return
    <3>2. CASE v = w
      BY <1>14, <3>2 DEF NotConfirmed, Goto, Return
    <3> QED BY <3>1, <3>2
  <2> QED BY <2>1
<1>15. ASSUME NEW w \in Workers, Progress(w) PROVE FoundInv'
  <2>1. ASSUME NEW v \in Workers
        PROVE  /\ stage'[v] = "idle" => v \notin recovering'
               /\ stage'[v] = "found" /\ v \in current' =>
                    IF v \in recovering'
                      THEN status' = "PUBLISHING" /\ expired'
                      ELSE status' = "SCHEDULED"
    <3>1. CASE v # w
      BY <1>15, <3>1 DEF Progress, Goto, Return
    <3>2. CASE v = w
      BY <1>15, <3>2 DEF Progress, Goto, Return
    <3> QED BY <3>1, <3>2
  <2> QED BY <2>1
<1>16. ASSUME NEW w \in Workers, RecordSuccess(w) PROVE FoundInv'
  BY <1>16 DEF RecordSuccess, Decide, Goto
<1>17. ASSUME NEW w \in Workers, RecordFailure(w) PROVE FoundInv'
  BY <1>17 DEF RecordFailure, RetriesLeft, Decide, Goto
<1>18. ASSUME NEW w \in Workers, Settle(w) PROVE FoundInv'
  <2>1. ASSUME NEW v \in Workers
        PROVE  /\ stage'[v] = "idle" => v \notin recovering'
               /\ stage'[v] = "found" /\ v \in current' =>
                    IF v \in recovering'
                      THEN status' = "PUBLISHING" /\ expired'
                      ELSE status' = "SCHEDULED"
    <3>1. CASE v # w
      BY <1>18, <3>1 DEF Settle, Return
    <3>2. CASE v = w
      BY <1>18, <3>2 DEF Settle, Return
    <3> QED BY <3>1, <3>2
  <2> QED BY <2>1
<1>19. ASSUME NEW w \in Workers, ProgressFails(w) PROVE FoundInv'
  BY <1>19 DEF ProgressFails, Goto
<1>20. ASSUME NEW w \in Workers, Crash(w) PROVE FoundInv'
  <2>1. ASSUME NEW v \in Workers
        PROVE  /\ stage'[v] = "idle" => v \notin recovering'
               /\ stage'[v] = "found" /\ v \in current' =>
                    IF v \in recovering'
                      THEN status' = "PUBLISHING" /\ expired'
                      ELSE status' = "SCHEDULED"
    <3>1. CASE v # w
      BY <1>20, <3>1 DEF Crash, Return
    <3>2. CASE v = w
      BY <1>20, <3>2 DEF Crash, Return
    <3> QED BY <3>1, <3>2
  <2> QED BY <2>1
<1>21. ASSUME NEW w \in Workers, PublishNow(w) PROVE FoundInv'
  BY <1>21 DEF PublishNow, Afresh, NothingUnconfirmed, Restable, Act, Goto
<1>22. ASSUME ExpireLease PROVE FoundInv'
  BY <1>22 DEF ExpireLease, AtWork
<1>23. ASSUME BecomeDue PROVE FoundInv'
  BY <1>23 DEF BecomeDue
<1>24. ASSUME Schedule PROVE FoundInv'
  BY <1>24 DEF Schedule, Afresh, NothingUnconfirmed, Restable, Act
<1>25. ASSUME Edit PROVE FoundInv'
  BY <1>25 DEF Edit, Afresh, Restable, Act
<1>26. ASSUME Cancel PROVE FoundInv'
  BY <1>26 DEF Cancel, Act, Restable
<1>27. ASSUME Resume PROVE FoundInv'
  BY <1>27 DEF Resume, Act
<1>28. ASSUME CloseProject PROVE FoundInv'
  BY <1>28 DEF CloseProject
<1>29. CASE UNCHANGED vars
  BY <1>29 DEF vars
<1> QED BY <1>1, <1>2, <1>3, <1>4, <1>5, <1>6, <1>7, <1>8, <1>9, <1>10, <1>11,
      <1>12, <1>13, <1>14, <1>15, <1>16, <1>17, <1>18, <1>19, <1>20, <1>21,
      <1>22, <1>23, <1>24, <1>25, <1>26, <1>27, <1>28, <1>29 DEF Next, Work

\* A claim finds either nobody's row or an expired lease, hence nobody at work.
LEMMA HolderStep ==
  TypeOK /\ FoundInv /\ HolderInv /\ ShapeInv /\ [Next]_vars => HolderInv'
<1> SUFFICES ASSUME TypeOK, FoundInv, HolderInv, ShapeInv,
                    [Next]_vars
             PROVE  HolderInv'
  OBVIOUS
<1> USE DEF HolderInv, AtWork, FoundInv, ShapeInv, TypeOK, RunTypeOK,
      RowTypeOK, HistoryTypeOK, OwnParts, Parts, Single, Stages, Answers,
      Statuses, Verdicts, Outcomes, row, lease, thread, run, attempts, seen,
      closing, bounds, Begin, Note, Record
<1>1. ASSUME NEW w \in Workers, Find(w) PROVE HolderInv'
  BY <1>1 DEF Find, Stranded, Goto
<1>2. ASSUME NEW w \in Workers, Claim(w) PROVE HolderInv'
  <2>1. CASE SameRow(w) /\ (w \in recovering \/ open)
    <3>1. /\ status' = "PUBLISHING" /\ token' = w /\ ~expired'
          /\ Goto(w, IF w \in recovering THEN "recovering" ELSE "eligible")
          /\ stage[w] = "found" /\ w \in current
          /\ UNCHANGED <<recovering, length>>
      BY <1>2, <2>1 DEF Claim, SameRow
    <3>2. Single => \A v \in Workers : ~AtWork(v)
      BY <3>1
    <3>3. \A v \in Workers \ {w} : stage'[v] = stage[v]
      BY <3>1 DEF Goto
    <3>4. stage'[w] = (IF w \in recovering THEN "recovering" ELSE "eligible")
      BY <3>1 DEF Goto
    <3> QED BY <3>1, <3>2, <3>3, <3>4
  <2>2. CASE ~(SameRow(w) /\ (w \in recovering \/ open))
    <3>1. Return(w) /\ UNCHANGED <<status, lease, length>>
      BY <1>2, <2>2 DEF Claim
    <3>2. stage'[w] = "idle"
      BY <3>1 DEF Return
    <3>3. \A v \in Workers \ {w} :
            stage'[v] = stage[v] /\ (v \in recovering' <=> v \in recovering)
      BY <3>1 DEF Return
    <3> QED BY <3>1, <3>2, <3>3
  <2> QED BY <2>1, <2>2
<1>3. ASSUME NEW w \in Workers, Recover(w) PROVE HolderInv'
  BY <1>3 DEF Recover, Decide, Goto
<1>4. ASSUME NEW w \in Workers, Ineligible(w) PROVE HolderInv'
  BY <1>4 DEF Ineligible, Eligible, Decide, Goto
<1>5. ASSUME NEW w \in Workers, WindowOver(w) PROVE HolderInv'
  BY <1>5 DEF WindowOver, Eligible, Decide, Goto
<1>6. ASSUME NEW w \in Workers, Missed(w) PROVE HolderInv'
  BY <1>6 DEF Missed, Decide, Goto
<1>7. ASSUME NEW w \in Workers, StartAttempt(w) PROVE HolderInv'
  BY <1>7 DEF StartAttempt, Eligible, Goto
<1>8. ASSUME NEW w \in Workers, Revoked(w) PROVE HolderInv'
  BY <1>8 DEF Revoked, Decide, Goto
<1>9. ASSUME NEW w \in Workers, Unfit(w) PROVE HolderInv'
  BY <1>9 DEF Unfit, Goto
<1>10. ASSUME NEW w \in Workers, Publish(w) PROVE HolderInv'
  BY <1>10 DEF Publish, BeginCall, Goto
<1>11. ASSUME NEW w \in Workers, NextCall(w) PROVE HolderInv'
  BY <1>11, NextPartLeast DEF NextCall, Announced, Left, Fenced, AllPublished,
    BeginCall
<1>12. ASSUME NEW w \in Workers, EndLoop(w) PROVE HolderInv'
  BY <1>12 DEF EndLoop, Fenced, AllPublished, Goto, Return
<1>13. ASSUME NEW w \in Workers, Created(w) PROVE HolderInv'
  BY <1>13 DEF Created, Goto
<1>14. ASSUME NEW w \in Workers,
                NEW answer \in Answers \ {"created"}, NotConfirmed(w, answer)
      PROVE  HolderInv'
  BY <1>14 DEF NotConfirmed, Fenced, KeepsMarker, Goto, Return
<1>15. ASSUME NEW w \in Workers, Progress(w) PROVE HolderInv'
  BY <1>15 DEF Progress, Fenced, Goto, Return
<1>16. ASSUME NEW w \in Workers, RecordSuccess(w) PROVE HolderInv'
  BY <1>16 DEF RecordSuccess, Decide, Goto
<1>17. ASSUME NEW w \in Workers, RecordFailure(w) PROVE HolderInv'
  BY <1>17 DEF RecordFailure, RetriesLeft, Decide, Goto
<1>18. ASSUME NEW w \in Workers, Settle(w) PROVE HolderInv'
  <2>1. /\ stage[w] = "settling" /\ Return(w) /\ UNCHANGED length
    BY <1>18 DEF Settle
  <2>2. stage'[w] = "idle"
    BY <2>1 DEF Return
  <2>3. \A v \in Workers \ {w} :
          stage'[v] = stage[v] /\ (v \in recovering' <=> v \in recovering)
    BY <2>1 DEF Return
  <2>4. CASE Owns(w)
    <3>1. status' = SettlesAs(w)
      BY <1>18, <2>4 DEF Settle
    <3>2. status' # "PUBLISHING"
      BY <3>1 DEF SettlesAs
    <3>3. Single => \A v \in Workers \ {w} : ~AtWork(v)
      BY <2>4 DEF Owns
    <3> QED BY <2>1, <2>2, <2>3, <3>2, <3>3
  <2>5. CASE ~Owns(w)
    <3>1. UNCHANGED <<status, lease>>
      BY <1>18, <2>5 DEF Settle
    <3> QED BY <2>1, <2>2, <2>3, <3>1
  <2> QED BY <2>4, <2>5
<1>19. ASSUME NEW w \in Workers, ProgressFails(w) PROVE HolderInv'
  BY <1>19 DEF ProgressFails, Goto
<1>20. ASSUME NEW w \in Workers, Crash(w) PROVE HolderInv'
  BY <1>20 DEF Crash, Return
<1>21. ASSUME NEW w \in Workers, PublishNow(w) PROVE HolderInv'
  BY <1>21 DEF PublishNow, Afresh, NothingUnconfirmed, Restable, Act, Goto
<1>22. ASSUME ExpireLease PROVE HolderInv'
  BY <1>22 DEF ExpireLease
<1>23. ASSUME BecomeDue PROVE HolderInv'
  BY <1>23 DEF BecomeDue
<1>24. ASSUME Schedule PROVE HolderInv'
  BY <1>24 DEF Schedule, Afresh, NothingUnconfirmed, Restable, Act
<1>25. ASSUME Edit PROVE HolderInv'
  BY <1>25 DEF Edit, Afresh, Restable, Act
<1>26. ASSUME Cancel PROVE HolderInv'
  BY <1>26 DEF Cancel, Act, Restable
<1>27. ASSUME Resume PROVE HolderInv'
  BY <1>27 DEF Resume, Act
<1>28. ASSUME CloseProject PROVE HolderInv'
  BY <1>28 DEF CloseProject
<1>29. CASE UNCHANGED vars
  BY <1>29 DEF vars
<1> QED BY <1>1, <1>2, <1>3, <1>4, <1>5, <1>6, <1>7, <1>8, <1>9, <1>10, <1>11,
      <1>12, <1>13, <1>14, <1>15, <1>16, <1>17, <1>18, <1>19, <1>20, <1>21,
      <1>22, <1>23, <1>24, <1>25, <1>26, <1>27, <1>28, <1>29 DEF Next, Work

\* An attempt is open until its outcome is recorded; a recovery that finds it
\* open settles the row as in doubt, and people then look before they act.
LEMMA SingleStep ==
  TypeOK /\ ShapeInv /\ LiveInv /\ FoundInv /\ HolderInv /\ SingleInv /\
    [Next]_vars => SingleInv'
<1> SUFFICES ASSUME TypeOK, ShapeInv, LiveInv, FoundInv, HolderInv, SingleInv,
                    [Next]_vars
             PROVE  SingleInv'
  OBVIOUS
<1> USE DEF SingleInv, AccountedFor, ShapeInv, LiveInv, AllLive, FoundInv,
      HolderInv, AtWork, TypeOK, RunTypeOK, RowTypeOK, HistoryTypeOK, OwnParts,
      Parts, Single, Stages, Answers, Statuses, Verdicts, Outcomes, row, lease,
      thread, run, attempts, seen, closing, bounds, Begin, Note, Record
<1>1. ASSUME NEW w \in Workers, Find(w) PROVE SingleInv'
  BY <1>1 DEF Find, Stranded, Goto
<1>2. ASSUME NEW w \in Workers, Claim(w) PROVE SingleInv'
  <2> SUFFICES ASSUME Single PROVE AccountedFor'
    BY <1>2 DEF Claim
  <2>1. CASE SameRow(w) /\ (w \in recovering \/ open)
    <3>1. /\ status' = "PUBLISHING" /\ stage[w] = "found" /\ w \in current
          /\ Goto(w, IF w \in recovering THEN "recovering" ELSE "eligible")
          /\ UNCHANGED <<thread, live, attempts, closing, unsure>>
      BY <1>2, <2>1 DEF Claim, SameRow
    <3>2. \A v \in Workers : stage[v] \in {"idle", "found"}
      BY <3>1
    <3>3. \A v \in Workers \ {w} : stage'[v] = stage[v]
      BY <3>1 DEF Goto
    <3>4. stage'[w] = (IF w \in recovering THEN "recovering" ELSE "eligible")
      BY <3>1 DEF Goto
    <3>5. status \in {"SCHEDULED", "PUBLISHING"}
          /\ (w \in recovering => status = "PUBLISHING")
          /\ (w \notin recovering => status = "SCHEDULED")
      BY <3>1
    <3>6. live[1] > 0 => w \in recovering
      BY <3>5
    <3>7. 1 \notin ids'
      BY <3>1, <3>5
    <3> QED BY <3>1, <3>2, <3>3, <3>4, <3>5, <3>6, <3>7
  <2>2. CASE ~(SameRow(w) /\ (w \in recovering \/ open))
    <3>1. /\ Return(w)
          /\ UNCHANGED <<status, lease, unsure, thread, attempts, live>>
      BY <1>2, <2>2 DEF Claim
    <3>2. stage'[w] = "idle"
      BY <3>1 DEF Return
    <3>3. \A v \in Workers \ {w} :
            /\ stage'[v] = stage[v] /\ verdict'[v] = verdict[v]
            /\ v \in doubting' <=> v \in doubting
      BY <3>1 DEF Return
    <3> QED BY <3>1, <3>2, <3>3
  <2> QED BY <2>1, <2>2
<1>3. ASSUME NEW w \in Workers, Recover(w) PROVE SingleInv'
  <2> SUFFICES ASSUME Single PROVE AccountedFor'
    BY <1>3 DEF Recover
  <2>1. \A v \in Workers \ {w} : stage[v] \in {"idle", "found"}
    BY <1>3 DEF Recover, Eligible
  <2>2. token = w /\ status = "PUBLISHING" /\ 1 \notin ids
    BY <1>3 DEF Recover, Eligible
  <2>3. PICK s, counts, doubts :
          /\ Decide(w, s, counts, doubts)
          /\ s = VerdictOf(latest, tried[w])
          /\ doubts = DoubtsOnRecovery(latest, tried[w])
    BY <1>3 DEF Recover, ThreadGoesOn
  <2>4. /\ stage' = [stage EXCEPT ![w] = "settling"]
        /\ verdict' = [verdict EXCEPT ![w] = s]
        /\ doubting' = IF doubts THEN doubting \cup {w} ELSE doubting \ {w}
    BY <2>3 DEF Decide, Goto
  <2>5. UNCHANGED <<row, thread, attempts, live>>
    BY <1>3 DEF Recover
  <2>6. \A v \in Workers \ {w} : stage'[v] \in {"idle", "found"}
    BY <2>1, <2>4
  <2>7. stage'[w] = "settling" /\ verdict'[w] = s
    BY <2>4
  <2>8. live[1] > 0 => \/ s = "PUBLISHED"
                       \/ s = "FAILED" /\ w \in doubting'
    <3>1. CASE live[1] > 0 /\ latest = "succeeded"
      BY <3>1, <2>3, VerdictFacts
    <3>2. CASE live[1] > 0 /\ latest \in {"open", "unconfirmed"}
      <4>1. s = "FAILED"
        BY <3>2, <2>3, VerdictFacts
      <4>2. doubts
        BY <3>2, <2>3 DEF DoubtsOnRecovery
      <4> QED BY <4>1, <4>2, <2>4
    <3> QED BY <3>1, <3>2, <2>2
  <2>9. /\ status' = "PUBLISHING" /\ 1 \notin ids'
        /\ live'[1] = live[1] /\ latest' = latest
    BY <2>2, <2>5
  <2>10. \A v \in Workers :
           stage'[v] \notin {"eligible", "manual", "attempt", "calling"}
                              \cup Answers
    BY <2>6, <2>7
  <2>11. \A v \in Workers : stage'[v] = "settling" => v = w
    BY <2>6
  <2>12. /\ live'[1] <= 1
         /\ live'[1] > 0 => latest' \in {"open", "succeeded", "unconfirmed"}
    BY <2>2, <2>9
  <2> HIDE DEF TypeOK, ShapeInv, LiveInv, FoundInv, HolderInv, SingleInv
  <2> QED BY <2>7, <2>8, <2>9, <2>10, <2>11, <2>12
<1>4. ASSUME NEW w \in Workers, Ineligible(w) PROVE SingleInv'
  BY <1>4 DEF Ineligible, Eligible, Decide, Goto
<1>5. ASSUME NEW w \in Workers, WindowOver(w) PROVE SingleInv'
  BY <1>5 DEF WindowOver, Eligible, Decide, Goto
<1>6. ASSUME NEW w \in Workers, Missed(w) PROVE SingleInv'
  <2> SUFFICES ASSUME Single PROVE AccountedFor'
    BY <1>6 DEF Missed
  <2>1. \A v \in Workers \ {w} : stage[v] \in {"idle", "found"}
    BY <1>6 DEF Missed, Eligible
  <2>2. token = w /\ status = "PUBLISHING" /\ 1 \notin ids
    BY <1>6 DEF Missed, Eligible
  <2>3. UNCHANGED <<row, thread, live>>
    BY <1>6 DEF Missed
  <2>4. \A v \in Workers \ {w} : stage'[v] \in {"idle", "found"}
    BY <1>6, <2>1 DEF Missed, Decide, Goto
  <2>5. stage'[w] = "settling"
    BY <1>6 DEF Missed, Decide, Goto
  <2>6. live[1] = 0
    BY <1>6 DEF Missed, Eligible
  <2>7. status' = "PUBLISHING" /\ 1 \notin ids' /\ live'[1] = 0
    BY <2>2, <2>3, <2>6
  <2>8. \A v \in Workers :
          stage'[v] \notin {"attempt", "calling"} \cup Answers
    BY <2>4, <2>5
  <2> QED BY <2>7, <2>8
<1>7. ASSUME NEW w \in Workers, StartAttempt(w) PROVE SingleInv'
  <2> SUFFICES ASSUME Single PROVE AccountedFor'
    BY <1>7 DEF StartAttempt
  <2>1. \A v \in Workers \ {w} : stage[v] \in {"idle", "found"}
    BY <1>7 DEF StartAttempt, Eligible
  <2>2. token = w /\ status = "PUBLISHING" /\ 1 \notin ids
    BY <1>7 DEF StartAttempt, Eligible
  <2>3. UNCHANGED <<row, thread, live>>
    BY <1>7 DEF StartAttempt
  <2>4. \A v \in Workers \ {w} : stage'[v] \in {"idle", "found"}
    BY <1>7, <2>1 DEF StartAttempt, Goto
  <2>5. stage'[w] = "attempt"
    BY <1>7 DEF StartAttempt, Goto
  <2>6. live[1] = 0
    BY <1>7 DEF StartAttempt, Eligible
  <2>7. status' = "PUBLISHING" /\ 1 \notin ids' /\ live'[1] = 0
    BY <2>2, <2>3, <2>6
  <2>8. w \in mine' /\ latest' = "open"
    BY <1>7 DEF StartAttempt
  <2>9. \A v \in Workers :
          stage'[v] \in {"attempt", "calling"} \cup Answers => v = w
    BY <2>4, <2>5
  <2> QED BY <2>7, <2>8, <2>9
<1>8. ASSUME NEW w \in Workers, Revoked(w) PROVE SingleInv'
  <2> SUFFICES ASSUME Single PROVE AccountedFor'
    BY <1>8 DEF Revoked
  <2>1. \A v \in Workers \ {w} : stage[v] \in {"idle", "found"}
    BY <1>8 DEF Revoked, Eligible
  <2>2. token = w /\ status = "PUBLISHING" /\ 1 \notin ids
    BY <1>8 DEF Revoked, Eligible
  <2>3. UNCHANGED <<row, thread, live>>
    BY <1>8 DEF Revoked
  <2>4. \A v \in Workers \ {w} : stage'[v] \in {"idle", "found"}
    BY <1>8, <2>1 DEF Revoked, Decide, Goto
  <2>5. stage'[w] = "settling"
    BY <1>8 DEF Revoked, Decide, Goto
  <2>6. live[1] = 0
    BY <1>8 DEF Revoked, Eligible
  <2>7. status' = "PUBLISHING" /\ 1 \notin ids' /\ live'[1] = 0
    BY <2>2, <2>3, <2>6
  <2>8. \A v \in Workers :
          stage'[v] \notin {"attempt", "calling"} \cup Answers
    BY <2>4, <2>5
  <2> QED BY <2>7, <2>8
<1>9. ASSUME NEW w \in Workers, Unfit(w) PROVE SingleInv'
  BY <1>9 DEF Unfit, Goto
<1>10. ASSUME NEW w \in Workers, Publish(w) PROVE SingleInv'
  BY <1>10 DEF Publish, BeginCall, Goto
<1>11. ASSUME NEW w \in Workers, NextCall(w) PROVE SingleInv'
  BY <1>11, NextPartLeast DEF NextCall, Announced, Left, Fenced, AllPublished,
    BeginCall
<1>12. ASSUME NEW w \in Workers, EndLoop(w) PROVE SingleInv'
  BY <1>12 DEF EndLoop, Fenced, AllPublished, Goto, Return
<1>13. ASSUME NEW w \in Workers, Created(w) PROVE SingleInv'
  <2> SUFFICES ASSUME Single PROVE AccountedFor'
    BY <1>13 DEF Created
  <2>1. \A v \in Workers \ {w} : stage[v] \in {"idle", "found"}
    BY <1>13 DEF Created, Eligible
  <2>2. token = w /\ status = "PUBLISHING" /\ 1 \notin ids
    BY <1>13 DEF Created, Eligible
  <2>3. stage' = [stage EXCEPT ![w] = "created"]
        /\ UNCHANGED <<row, thread, attempts, closing>>
    BY <1>13 DEF Created, Goto
  <2>4. part[w] = 1 /\ stage[w] = "calling" /\ Landed(w)
    BY <1>13 DEF Created
  <2>5. live[1] = 0 /\ live'[1] = 1
    <3>1. live[1] = 0
      BY <2>4
    <3> QED BY <3>1, <2>4 DEF Landed
  <2>6. w \in mine /\ latest = "open"
    BY <2>4
  <2>7. \A v \in Workers \ {w} : stage'[v] \in {"idle", "found"}
    BY <2>1, <2>3
  <2>8. stage'[w] = "created"
    BY <2>3
  <2>9. /\ status' = "PUBLISHING" /\ 1 \notin ids'
        /\ latest' = "open" /\ w \in mine'
    BY <2>2, <2>3, <2>6
  <2>10. \A v \in Workers : stage'[v] \in {"idle", "found", "created"}
    BY <2>7, <2>8
  <2>11. \A v \in Workers : stage'[v] = "created" => v = w
    BY <2>7
  <2> QED BY <2>9, <2>5, <2>10, <2>11
<1>14. ASSUME NEW w \in Workers,
                NEW answer \in Answers \ {"created"}, NotConfirmed(w, answer)
      PROVE  SingleInv'
  <2> SUFFICES ASSUME Single PROVE AccountedFor'
    BY <1>14 DEF NotConfirmed
  <2>1. \A v \in Workers \ {w} : stage[v] \in {"idle", "found"}
    BY <1>14 DEF NotConfirmed, Eligible
  <2>2. token = w /\ status = "PUBLISHING" /\ 1 \notin ids
    BY <1>14 DEF NotConfirmed, Eligible
  <2>3. stage' = [stage EXCEPT ![w] = answer]
        /\ UNCHANGED <<row, thread, attempts, closing>>
    BY <1>14 DEF NotConfirmed, Goto
  <2>4. part[w] = 1 /\ stage[w] = "calling" /\ live[1] = 0
    BY <1>14 DEF NotConfirmed
  <2>5. live'[1] = 0 \/ (answer = "unknown" /\ live'[1] = 1)
    BY <1>14, <2>4 DEF NotConfirmed, Landed
  <2>6. w \in mine /\ latest = "open"
    BY <2>4
  <2>7. \A v \in Workers \ {w} : stage'[v] \in {"idle", "found"}
    BY <2>1, <2>3
  <2>8. stage'[w] = answer
    BY <2>3
  <2> QED BY <2>2, <2>3, <2>5, <2>6, <2>7, <2>8
<1>15. ASSUME NEW w \in Workers, Progress(w) PROVE SingleInv'
  BY <1>15 DEF Progress, Fenced, Goto, Return
<1>16. ASSUME NEW w \in Workers, RecordSuccess(w) PROVE SingleInv'
  BY <1>16 DEF RecordSuccess, Decide, Goto
<1>17. ASSUME NEW w \in Workers, RecordFailure(w) PROVE SingleInv'
  <2> SUFFICES ASSUME Single PROVE AccountedFor'
    BY <1>17 DEF RecordFailure
  <2>1. \A v \in Workers \ {w} : stage[v] \in {"idle", "found"}
    BY <1>17 DEF RecordFailure, Eligible
  <2>2. token = w /\ status = "PUBLISHING" /\ 1 \notin ids
    BY <1>17 DEF RecordFailure, Eligible
  <2>3. UNCHANGED <<row, thread, live>>
    BY <1>17 DEF RecordFailure
  <2>4. \A v \in Workers \ {w} : stage'[v] \in {"idle", "found"}
    BY <1>17, <2>1 DEF RecordFailure, Decide, Goto
  <2>5. stage'[w] = "settling"
    BY <1>17 DEF RecordFailure, Decide, Goto
  <2>6. CASE live[1] = 0
    <3>1. status' = "PUBLISHING" /\ 1 \notin ids' /\ live'[1] = 0
      BY <2>2, <2>3, <2>6
    <3>2. \A v \in Workers :
            stage'[v] \notin {"attempt", "calling"} \cup Answers
      BY <2>4, <2>5
    <3> QED BY <3>1, <3>2
  <2>7. CASE live[1] > 0
    <3>1. stage[w] = "unknown" /\ w \in mine
      BY <1>17, <2>7 DEF RecordFailure
    <3>2. /\ Record(w, "unconfirmed")
          /\ Decide(w, "FAILED", TRUE, TRUE)
      BY <1>17, <3>1 DEF RecordFailure
    <3>3. latest' = "unconfirmed"
      BY <3>1, <3>2
    <3>4. verdict'[w] = "FAILED" /\ w \in doubting'
      BY <3>2 DEF Decide
    <3>5. status' = "PUBLISHING" /\ 1 \notin ids' /\ live'[1] = live[1]
      BY <2>2, <2>3
    <3>6. \A v \in Workers : stage'[v] \in {"idle", "found", "settling"}
      BY <2>4, <2>5
    <3>7. \A v \in Workers : stage'[v] = "settling" => v = w
      BY <2>4
    <3> QED BY <3>3, <3>4, <3>5, <3>6, <3>7
  <2> QED BY <2>6, <2>7
<1>18. ASSUME NEW w \in Workers, Settle(w) PROVE SingleInv'
  <2> SUFFICES ASSUME Single PROVE AccountedFor'
    BY <1>18 DEF Settle
  <2>1. \A v \in Workers \ {w} : stage[v] \in {"idle", "found"}
    BY <1>18 DEF Settle, Eligible
  <2>2. token = w /\ status = "PUBLISHING" /\ 1 \notin ids
    BY <1>18 DEF Settle, Eligible
  <2>3. /\ status' = SettlesAs(w)
        /\ unsure' = (w \in doubting)
        /\ ids' = (IF verdict[w] = "PUBLISHED" THEN ids \cup {1} ELSE ids)
        /\ UNCHANGED <<live, attempts>>
    BY <1>18, <2>2 DEF Settle, Owns
  <2>4. \A v \in Workers : stage'[v] \in {"idle", "found"}
    BY <1>18, <2>1 DEF Settle, Return
  <2>5. status' = "PUBLISHED" <=> verdict[w] = "PUBLISHED"
    BY <2>3 DEF SettlesAs
  <2>6. status' # "PUBLISHING"
    BY <2>3 DEF SettlesAs
  <2>7. live[1] > 0 => status' = "PUBLISHED" \/ (status' = "FAILED" /\ unsure')
    BY <1>18, <2>3 DEF Settle, SettlesAs
  <2> QED BY <2>2, <2>3, <2>4, <2>5, <2>6, <2>7
<1>19. ASSUME NEW w \in Workers, ProgressFails(w) PROVE SingleInv'
  BY <1>19 DEF ProgressFails, Goto
<1>20. ASSUME NEW w \in Workers, Crash(w) PROVE SingleInv'
  <2> SUFFICES ASSUME Single PROVE AccountedFor'
    BY <1>20 DEF Crash, AtWork
  <2>1. \A v \in Workers \ {w} : stage[v] \in {"idle", "found"}
    BY <1>20 DEF Crash, AtWork, Eligible
  <2>2. token = w /\ status = "PUBLISHING" /\ 1 \notin ids
    BY <1>20 DEF Crash, AtWork, Eligible
  <2>3. UNCHANGED <<row, thread, attempts>>
    BY <1>20 DEF Crash
  <2>4. \A v \in Workers : stage'[v] \in {"idle", "found"}
    BY <1>20, <2>1 DEF Crash, Return
  <2>5. CASE UNCHANGED live
    BY <2>2, <2>3, <2>4, <2>5
  <2>6. CASE stage[w] = "calling" /\ Landed(w)
    <3>1. part[w] = 1 /\ live[1] = 0 /\ latest = "open"
      BY <2>6
    <3>2. live'[1] = 1
      BY <2>6, <3>1 DEF Landed
    <3>3. status' = "PUBLISHING" /\ 1 \notin ids' /\ latest' = "open"
      BY <2>2, <2>3, <3>1
    <3> QED BY <2>4, <3>2, <3>3
  <2> QED BY <1>20, <2>5, <2>6 DEF Crash
<1>21. ASSUME NEW w \in Workers, PublishNow(w) PROVE SingleInv'
  BY <1>21 DEF PublishNow, Afresh, NothingUnconfirmed, Restable, Act, Advised,
    Goto
<1>22. ASSUME ExpireLease PROVE SingleInv'
  BY <1>22 DEF ExpireLease
<1>23. ASSUME BecomeDue PROVE SingleInv'
  BY <1>23 DEF BecomeDue
<1>24. ASSUME Schedule PROVE SingleInv'
  BY <1>24 DEF Schedule, Afresh, NothingUnconfirmed, Restable, Act, Advised
<1>25. ASSUME Edit PROVE SingleInv'
  BY <1>25 DEF Edit, Afresh, Restable, Act, Advised
<1>26. ASSUME Cancel PROVE SingleInv'
  BY <1>26 DEF Cancel, Act, Restable
<1>27. ASSUME Resume PROVE SingleInv'
  BY <1>27 DEF Resume, Act
<1>28. ASSUME CloseProject PROVE SingleInv'
  BY <1>28 DEF CloseProject
<1>29. CASE UNCHANGED vars
  BY <1>29 DEF vars
<1> QED BY <1>1, <1>2, <1>3, <1>4, <1>5, <1>6, <1>7, <1>8, <1>9, <1>10, <1>11,
      <1>12, <1>13, <1>14, <1>15, <1>16, <1>17, <1>18, <1>19, <1>20, <1>21,
      <1>22, <1>23, <1>24, <1>25, <1>26, <1>27, <1>28, <1>29 DEF Next, Work

-----------------------------------------------------------------------------
LEMMA InitInv == Init => TypeOK /\ Inv
<1> SUFFICES ASSUME Init PROVE TypeOK /\ Inv
  OBVIOUS
<1> USE DEF Init, OwnParts, Parts, Single
<1>1. RowTypeOK
  <2>1. due \in BOOLEAN /\ unsure \in BOOLEAN /\ open \in BOOLEAN
        /\ expired \in BOOLEAN
    BY Zenon
  <2> QED BY <2>1 DEF RowTypeOK, Statuses, Outcomes
<1>2. RunTypeOK
  BY DEF RunTypeOK, Stages, Verdicts
<1>3. HistoryTypeOK
  BY DEF HistoryTypeOK
<1>4. TriesInv /\ ShapeInv /\ OwnInv /\ FoundInv
  BY DEF TriesInv, ShapeInv, OwnInv, FoundInv
<1>5. LiveInv /\ OrderInv
  BY DEF LiveInv, OrderInv, InOrder
<1>6. ThreadInv /\ HolderInv
  BY DEF ThreadInv, HolderInv, AtWork
<1>7. SingleInv
  BY DEF SingleInv, AccountedFor, Answers
<1>8. ClosedIsQuiet
  BY DEF ClosedIsQuiet
<1> QED BY <1>1, <1>2, <1>3, <1>4, <1>5, <1>6, <1>7, <1>8 DEF TypeOK, Inv

LEMMA InvNext == TypeOK /\ Inv /\ [Next]_vars => TypeOK' /\ Inv'
<1> SUFFICES ASSUME TypeOK, Inv, [Next]_vars PROVE TypeOK' /\ Inv'
  OBVIOUS
<1>1. /\ TriesInv /\ ShapeInv /\ OwnInv /\ LiveInv /\ OrderInv /\ ThreadInv
      /\ FoundInv /\ HolderInv /\ SingleInv /\ ClosedIsQuiet
  BY DEF Inv
<1>2. RowTypeOK' /\ RunTypeOK' /\ HistoryTypeOK'
  BY <1>1, RowStep, RunStep, HistoryStep
<1>3. TriesInv' /\ ShapeInv' /\ OwnInv' /\ LiveInv' /\ OrderInv'
  BY <1>1, TriesStep, ShapeStep, OwnStep, LiveStep, OrderStep
<1>4. ThreadInv' /\ FoundInv' /\ HolderInv' /\ SingleInv' /\ ClosedIsQuiet'
  BY <1>1, ThreadStep, FoundStep, HolderStep, SingleStep, QuietStep
<1> QED BY <1>2, <1>3, <1>4 DEF TypeOK, Inv

LEMMA Invariance == Spec => [](TypeOK /\ Inv)
  BY InitInv, InvNext, PTL DEF Spec

-----------------------------------------------------------------------------
\* The row, the runs and the counters keep their types; a run never counts an
\* attempt beyond MAX_ATTEMPTS.
THEOREM TypeCorrect == Spec => []TypeOK
  BY Invariance, PTL

\* A project that is closing has no post waiting, whatever run was about to put
\* one back (settleRetry's check under the row's lock).
THEOREM ClosedIsQuietHolds == Spec => []ClosedIsQuiet
<1>1. Inv => ClosedIsQuiet
  BY DEF Inv
<1> QED BY <1>1, Invariance, PTL

\* A post on record as published is on the platform, with all its parts, though
\* another run than the one that called may have said so.
THEOREM PublishedIsLiveHolds == Spec => []PublishedIsLive
<1>1. Inv => PublishedIsLive
  BY DEF Inv, LiveInv, AllLive, PublishedIsLive
<1> QED BY <1>1, Invariance, PTL

\* The parts of a thread appear in order, whatever runs post them.
THEOREM InOrderHolds == Spec => []InOrder
<1>1. Inv => InOrder
  BY DEF Inv, OrderInv
<1> QED BY <1>1, Invariance, PTL

\* What may be on the platform without an id on record is marked, or the row
\* says that it is in doubt.
THEOREM WarnedHolds == Spec => []Warned
<1>1. TypeOK /\ Inv => Warned
  <2> SUFFICES ASSUME TypeOK, Inv, NEW p \in Parts, live[p] > 0, p \notin ids
               PROVE  IF Single
                        THEN status \in {"PUBLISHING", "CANCELED"} \/ unsure
                        ELSE marker = p
    BY DEF Warned
  <2>1. CASE Single
    <3>1. p = 1
      BY <2>1 DEF Inv, OwnInv, OwnParts, Single
    <3> QED BY <2>1, <3>1 DEF Inv, SingleInv, AccountedFor
  <2>2. CASE ~Single
    BY <2>2 DEF Inv, ThreadInv
  <2> QED BY <2>1, <2>2
<1> QED BY <1>1, Invariance, PTL

\* No part is on the platform twice, for any number of runs, crashes and
\* expired leases, as long as people who are warned look first.
THEOREM PostedOnceHolds == Spec => []PostedOnce
<1>1. TypeOK /\ Inv => PostedOnce
  <2> SUFFICES ASSUME TypeOK, Inv, NEW p \in Parts PROVE live[p] <= 1
    BY DEF PostedOnce
  <2>1. CASE Single
    <3>1. live[1] <= 1 /\ live[p] \in Nat
      BY <2>1 DEF Inv, SingleInv, AccountedFor, TypeOK, HistoryTypeOK
    <3>2. live[p] > 0 => p = 1
      BY <2>1 DEF Inv, OwnInv, OwnParts, Single
    <3> QED BY <3>1, <3>2
  <2>2. CASE ~Single
    BY <2>2 DEF Inv, ThreadInv
  <2> QED BY <2>1, <2>2
<1> QED BY <1>1, Invariance, PTL

\* Only the run that holds the lease takes a post out of PUBLISHING.
THEOREM HolderSettlesHolds == Spec => HolderSettles
<1> DEFINE A ==
  status = "PUBLISHING" /\ status' # "PUBLISHING" =>
    \E w \in Workers : token = w /\ stage[w] = "settling"
                         /\ stage'[w] = "idle"
<1>1. TypeOK /\ [Next]_vars => [A]_vars
  <2> SUFFICES ASSUME TypeOK, Next,
                      status = "PUBLISHING", status' # "PUBLISHING"
               PROVE  \E w \in Workers : Settle(w) /\ Owns(w)
    BY DEF Settle, Owns, Return, TypeOK, RunTypeOK
  <2> USE DEF row
  <2>1. CASE \E w \in Workers : Find(w) \/ Claim(w) \/ Recover(w)
    BY <2>1 DEF Find, Claim, Recover
  <2>2. CASE \E w \in Workers :
               \/ Ineligible(w) \/ WindowOver(w) \/ Missed(w)
               \/ StartAttempt(w) \/ Revoked(w) \/ Unfit(w) \/ Publish(w)
               \/ NextCall(w)
    BY <2>2 DEF Ineligible, WindowOver, Missed, StartAttempt, Revoked, Unfit,
                Publish, NextCall
  <2>3. CASE \E w \in Workers :
               \/ EndLoop(w) \/ Created(w) \/ Progress(w)
               \/ \E answer \in Answers \ {"created"} : NotConfirmed(w, answer)
    BY <2>3 DEF EndLoop, Created, NotConfirmed, Progress
  <2>4. CASE \E w \in Workers :
               \/ RecordSuccess(w) \/ RecordFailure(w) \/ ProgressFails(w)
               \/ Crash(w) \/ PublishNow(w)
    BY <2>4 DEF RecordSuccess, RecordFailure, ProgressFails, Crash, PublishNow
  <2>5. CASE \E w \in Workers : Settle(w)
    BY <2>5 DEF Settle
  <2>6. CASE ExpireLease \/ BecomeDue \/ Schedule \/ Edit \/ Cancel \/ Resume
               \/ CloseProject
    BY <2>6 DEF ExpireLease, BecomeDue, Schedule, Edit, Cancel, Resume,
                CloseProject, Restable
  <2> QED BY <2>1, <2>2, <2>3, <2>4, <2>5, <2>6 DEF Next, Work
<1>2. Spec => [][A]_vars
  BY <1>1, Invariance, PTL DEF Spec
<1> QED BY <1>2 DEF HolderSettles
=============================================================================
