----------------------- MODULE NewsletterSend_proofs -----------------------
(***************************************************************************)
(* Proofs about NewsletterSend, for any number of issues, subscribers and  *)
(* runs, any sizes of batches, caps, and any number of faults: no mail is  *)
(* sent twice, the caps hold, only what was approved goes out, and an      *)
(* issue that is done has forgotten no subscriber.                         *)
(***************************************************************************)
EXTENDS NewsletterSend, FiniteSetTheorems, WellFoundedInduction, TLAPS

\* A run that has not claimed its issue yet, and one that has.
Before == {"idle", "listed", "read", "claimed"}
After ==
  {"claimed", "listing", "paging", "queueing", "sending", "rendered",
   "checked", "reserved", "accepted", "failed", "ending", "settling"}

\* Once an issue is claimed it never goes back to people.
Begun == {"SENDING", "SENT", "FAILED"}

\* What is mailed was reserved, by one run, which has not mailed it before.
MailInv ==
  /\ MailedOnce
  /\ \A p \in Pairs : mails[p] # 0 => on[p] # 0
  /\ \A w \in Workers :
       /\ stage[w] = "reserved" =>
            \A s \in taken[w] : mails[<<job[w], s>>] = 0
                                /\ on[<<job[w], s>>] # 0
       /\ stage[w] = "accepted" =>
            \A s \in taken[w] : mails[<<job[w], s>>] = 1
  /\ \A v, w \in Workers :
       /\ v # w /\ job[v] = job[w]
       /\ stage[v] = "reserved" /\ stage[w] = "reserved"
       => taken[v] \cap taken[w] = {}

\* Only people's approval leads to a schedule, and a run's content is the
\* edition it claimed.
ApprovedInv ==
  /\ \A i \in Issues :
       /\ status[i] \in Begun \cup {"SCHEDULED"} => approved[i] = edition[i]
       /\ status[i] = "NEEDS_APPROVAL" /\ approved[i] # 0 =>
            approved[i] = edition[i]
  /\ \A w \in Workers :
       /\ stage[w] = "read" /\ ~saw[w].moved => content[w] = edition[job[w]]
       /\ stage[w] \in After => /\ status[job[w]] \in Begun
                                /\ content[w] = approved[job[w]]
  /\ \A m \in mailed : status[m[1]] \in Begun /\ approved[m[1]] = m[2]

\* The sends attempted on a day.  The domain's count is that of its day.
Attempts(d) == {p \in Pairs : on[p] = d}

CapInv ==
  /\ \A p \in Pairs : on[p] <= day
  /\ usedOn <= day
  /\ Cardinality(Attempts(day)) = UsedToday
  /\ CapKept

\* Every subscriber who has stayed since the issue was claimed is listed.
Listed(i) == \A s \in loyal[i] : send[<<i, s>>] # "none"

Dealt(i) == \A s \in loyal[i] : send[<<i, s>>] \in {"SENT", "FAILED"}

\* The stages of a run whose list of recipients is complete.
Full == {"queueing", "sending", "rendered", "checked", "reserved", "accepted",
         "failed"}

\* The list of recipients is complete before the first reservation.
IssueListed(i) ==
  /\ loyal[i] \subseteq active
  /\ status[i] \notin Begun => \A s \in Subscribers : on[<<i, s>>] = 0
  /\ (\E s \in Subscribers : on[<<i, s>>] # 0) => Listed(i)
  /\ status[i] = "SENT" => Dealt(i)

\* A run has listed everyone up to its cursor, and knows what it leaves.
RunListed(w) ==
  /\ stage[w] \in Before => cursor[w] = 0
  /\ stage[w] # "idle" => \A s \in loyal[job[w]] :
       s <= cursor[w] => send[<<job[w], s>>] # "none"
  /\ stage[w] \in Full => Listed(job[w])
  /\ stage[w] = "settling" /\ ~left[w][1] /\ left[w][2] => Dealt(job[w])

ListInv ==
  /\ \A i \in Issues : IssueListed(i)
  /\ \A w \in Workers : RunListed(w)

-----------------------------------------------------------------------------
USE SendAssumption

(* Types *)

LEMMA RestType ==
  ASSUME TypeOK, NEW w \in Workers, Rest(w)
  PROVE  RunTypeOK' /\ NoteTypeOK'
<1>1. RunTypeOK'
  BY DEF TypeOK, RunTypeOK, Rest, Goes, Days, LastDay
<1>2. NoteTypeOK'
  BY DEF TypeOK, NoteTypeOK, Rest, Unread
<1> QED BY <1>1, <1>2

LEMMA BreaksType ==
  ASSUME TypeOK, NEW w \in Workers, NEW t \in Days, Breaks(w, t),
         stage[w] # "idle", UNCHANGED <<job, content, cursor, todo>>
  PROVE  RunTypeOK'
BY DEF TypeOK, RunTypeOK, Breaks, Goes

\* A batch is finite, and no more of it is granted than it has.
LEMMA GrantedType ==
  ASSUME TypeOK, NEW S \in SUBSET Subscribers
  PROVE  /\ IsFiniteSet(S) /\ Cardinality(S) \in Nat
         /\ Granted(Cardinality(S)) \in Nat
<1>1. IsFiniteSet(S) /\ Cardinality(S) \in Nat
  BY FS_Subset, FS_CardinalityType
<1>2. UsedToday \in Nat
  BY DEF TypeOK, SendTypeOK, UsedToday
<1>3. day \in 1 .. Len(Caps) => Caps[day] \in Nat
  OBVIOUS
<1>4. day \in 1 .. Len(Caps) + 1
  BY DEF TypeOK, SendTypeOK, LastDay
<1> HIDE DEF UsedToday
<1> QED BY <1>1, <1>2, <1>3, <1>4 DEF Granted

LEMMA IssueType == TypeOK /\ [Next]_vars => IssueTypeOK'
<1> USE DEF TypeOK, IssueTypeOK, Pairs, Days, LastDay
<1> SUFFICES ASSUME TypeOK, [Next]_vars PROVE IssueTypeOK'
  OBVIOUS
<1>1. ASSUME NEW w \in Workers, Claim(w) PROVE IssueTypeOK'
  BY ZenonT(60), <1>1 DEF Claim, Rest, Goes, Unread, Unchanged, Moves, Renews,
    issue, lease
<1>2. ASSUME NEW w \in Workers, RenewForPage(w) PROVE IssueTypeOK'
  BY <1>2 DEF RenewForPage, Goes, HoldsLive, Holds, Renews, issue, lease
<1>3. ASSUME NEW w \in Workers, RenderBatch(w) PROVE IssueTypeOK'
  BY <1>3 DEF RenderBatch, Goes, HoldsLive, Holds, Renews, issue, lease
<1>4. ASSUME NEW w \in Workers, Reserve(w) PROVE IssueTypeOK'
  BY <1>4 DEF Reserve, Goes, HoldsLive, Holds, Renews, Waiting, issue, lease
<1>5. ASSUME NEW w \in Workers, NoCapacity(w) PROVE IssueTypeOK'
  BY <1>5 DEF NoCapacity, Breaks, Goes, HoldsLive, Holds, Renews, issue, lease
<1>6. ASSUME NEW w \in Workers, Sweep(w) PROVE IssueTypeOK'
  BY <1>6 DEF Sweep, Rest, Goes, Unread, HoldsLive, Holds, Renews, Marked,
    Reserved, Waiting, issue, lease
<1>7. ASSUME NEW w \in Workers, Settle(w) PROVE IssueTypeOK'
  BY ZenonT(60), <1>7 DEF Settle, Rest, Goes, Unread, Outcome, HoldsLive,
    Holds, issue, lease
<1>8. ASSUME NEW w \in Workers, NEW i \in Issues, SendNow(w, i) PROVE
  IssueTypeOK'
  BY <1>8 DEF SendNow, Transition, Moves, Goes, Schedulable, issue, lease
<1>9. ASSUME NEW i \in Issues, ExpireLease(i) PROVE IssueTypeOK'
  BY <1>9 DEF ExpireLease, Fault, issue, lease
<1>10. ASSUME NEW i \in Issues, BecomeDue(i) PROVE IssueTypeOK'
  BY <1>10 DEF BecomeDue, issue, lease
<1>11. ASSUME NEW i \in Issues, Patch(i) PROVE IssueTypeOK'
  BY <1>11 DEF Patch, Act, Transition, Moves, issue, lease
<1>12. ASSUME NEW i \in Issues, Submit(i) PROVE IssueTypeOK'
  BY <1>12 DEF Submit, Transition, Moves, issue, lease
<1>13. ASSUME NEW i \in Issues, Approve(i) PROVE IssueTypeOK'
  BY <1>13 DEF Approve, Transition, Moves, issue, lease
<1>14. ASSUME NEW i \in Issues, Schedule(i) PROVE IssueTypeOK'
  BY <1>14 DEF Schedule, Schedulable, Transition, Moves, issue, lease
<1>15. ASSUME NEW i \in Issues, Cancel(i) PROVE IssueTypeOK'
  BY <1>15 DEF Cancel, Transition, Moves, issue, lease
<1>16. ASSUME NewDay PROVE IssueTypeOK'
  BY <1>16 DEF NewDay, issue, lease
<1>17. ASSUME NEW w \in Workers, ReadIssue(w) \/ FailInterrupted(w) \/
  ListPage(w) \/ ReadQueue(w) \/ NoMore(w) \/ Recheck(w) \/ Conflicts(w) \/
  Dispatch(w) \/ RecordSent(w) \/ RecordFailed(w) \/ Throws(w) \/ Crash(w)
  PROVE UNCHANGED <<issue, lease>>
  BY <1>17 DEF ReadIssue, FailInterrupted, ListPage, ReadQueue, NoMore,
    Recheck, Conflicts, Dispatch, RecordSent, RecordFailed, Throws, Crash,
    Breaks, GoesOn, Rest, issue, lease
<1>18. ASSUME NEW w \in Workers, NEW i \in Issues, Find(w, i) PROVE UNCHANGED
  <<issue, lease>>
  BY <1>18 DEF Find, issue, lease
<1>19. ASSUME NEW s \in Subscribers, Leave(s) \/ Join(s) PROVE UNCHANGED
  <<issue, lease>>
  BY <1>19 DEF Leave, Join, issue, lease
<1>20. ASSUME Pause \/ ResumeWarmup PROVE UNCHANGED <<issue, lease>>
  BY <1>20 DEF Pause, ResumeWarmup, issue, lease
<1>21. CASE UNCHANGED vars
  BY <1>21 DEF vars, issue, lease, issue, lease
<1>22. ASSUME UNCHANGED <<issue, lease>> PROVE IssueTypeOK'
  BY <1>22 DEF issue, lease
<1> QED BY <1>1, <1>2, <1>3, <1>4, <1>5, <1>6, <1>7, <1>8, <1>9, <1>10, <1>11,
  <1>12, <1>13, <1>14, <1>15, <1>16, <1>17, <1>18, <1>19, <1>20, <1>21, <1>22
  DEF Next, Work

LEMMA SendType == TypeOK /\ [Next]_vars => SendTypeOK'
<1> USE DEF TypeOK, SendTypeOK, Pairs, Days, LastDay
<1> SUFFICES ASSUME TypeOK, [Next]_vars PROVE SendTypeOK'
  OBVIOUS
<1>1. ASSUME NEW w \in Workers, FailInterrupted(w) PROVE SendTypeOK'
  BY <1>1 DEF FailInterrupted, Goes, Marked, Holds, Reserved, sends, domain
<1>2. ASSUME NEW w \in Workers, ListPage(w) PROVE SendTypeOK'
  BY <1>2 DEF ListPage, Goes, Marked, sends, domain
<1>3. ASSUME NEW w \in Workers, Recheck(w) PROVE SendTypeOK'
  BY <1>3 DEF Recheck, Goes, Marked, Holds, Waiting, sends, domain
<1>4. ASSUME NEW w \in Workers, Reserve(w) PROVE SendTypeOK'
  <2>1. batch[w] \subseteq Subscribers
    BY DEF RunTypeOK
  <2>2. UsedToday \in Nat
    BY DEF UsedToday
  <2>3. used' \in Nat
    <3>1. Granted(Cardinality(batch[w])) \in Nat
      BY <2>1, GrantedType
    <3>2. used' = UsedToday + Granted(Cardinality(batch[w]))
      BY <1>4 DEF Reserve
    <3> QED BY <2>2, <3>1, <3>2
  <2>4. on' \in [Pairs -> Days]
    BY <1>4 DEF Reserve
  <2> QED BY <1>4, <2>3, <2>4 DEF Reserve
<1>5. ASSUME NEW w \in Workers, RecordSent(w) PROVE SendTypeOK'
  BY <1>5 DEF RecordSent, GoesOn, Breaks, Goes, Marked, Holds, Reserved, sends,
    domain
<1>6. ASSUME NEW w \in Workers, RecordFailed(w) PROVE SendTypeOK'
  BY <1>6 DEF RecordFailed, GoesOn, Breaks, Goes, Marked, Holds, sends, domain
<1>7. ASSUME NEW w \in Workers, Sweep(w) PROVE SendTypeOK'
  BY ZenonT(60), <1>7 DEF Sweep, Rest, Goes, Unread, HoldsLive, Holds, Renews,
    Marked, Reserved, Waiting, sends, domain
<1>8. ASSUME NEW s \in Subscribers, Leave(s) PROVE SendTypeOK'
  BY <1>8 DEF Leave, Act, sends, domain
<1>9. ASSUME NEW s \in Subscribers, Join(s) PROVE SendTypeOK'
  BY <1>9 DEF Join, Act, sends, domain
<1>10. ASSUME NewDay PROVE SendTypeOK'
  BY <1>10 DEF NewDay, sends, domain
<1>11. ASSUME Pause PROVE SendTypeOK'
  BY <1>11 DEF Pause, Act, sends, domain
<1>12. ASSUME ResumeWarmup PROVE SendTypeOK'
  BY <1>12 DEF ResumeWarmup, sends, domain
<1>13. ASSUME NEW w \in Workers, ReadIssue(w) \/ Claim(w) \/ RenewForPage(w) \/
  ReadQueue(w) \/ NoMore(w) \/ RenderBatch(w) \/ NoCapacity(w) \/ Conflicts(w)
  \/ Dispatch(w) \/ Settle(w) \/ Throws(w) \/ Crash(w) PROVE UNCHANGED <<sends,
  active, day, domain>>
  BY <1>13 DEF ReadIssue, Claim, RenewForPage, ReadQueue, NoMore, RenderBatch,
    NoCapacity, Conflicts, Dispatch, Settle, Throws, Crash, Breaks, Rest,
    sends, domain
<1>14. ASSUME NEW w \in Workers, NEW i \in Issues, Find(w, i) \/ SendNow(w, i)
  PROVE UNCHANGED <<sends, active, day, domain>>
  BY <1>14 DEF Find, SendNow, Transition, sends, domain
<1>15. ASSUME NEW i \in Issues, ExpireLease(i) \/ BecomeDue(i) \/ Patch(i) \/
  Submit(i) \/ Approve(i) \/ Schedule(i) \/ Cancel(i) PROVE UNCHANGED <<sends,
  active, day, domain>>
  BY <1>15 DEF ExpireLease, BecomeDue, Patch, Submit, Approve, Schedule,
    Cancel, Transition, sends, domain
<1>16. CASE UNCHANGED vars
  BY <1>16 DEF vars, sends, domain, sends, domain
<1>17. ASSUME UNCHANGED <<sends, active, day, domain>> PROVE SendTypeOK'
  BY <1>17 DEF sends, domain
<1> QED BY <1>1, <1>2, <1>3, <1>4, <1>5, <1>6, <1>7, <1>8, <1>9, <1>10, <1>11,
  <1>12, <1>13, <1>14, <1>15, <1>16, <1>17 DEF Next, Work

LEMMA RunType == TypeOK /\ [Next]_vars => RunTypeOK'
<1> USE DEF TypeOK, RunTypeOK, Pairs, Days, LastDay
<1> SUFFICES ASSUME TypeOK, [Next]_vars PROVE RunTypeOK'
  OBVIOUS
<1>1. ASSUME NEW w \in Workers, ReadIssue(w) PROVE RunTypeOK'
  <2>1. CASE Rest(w)
    BY <1>1, <2>1, RestType
  <2>2. CASE ~Rest(w)
    <3>1. edition[job[w]] \in Nat
      BY <1>1 DEF ReadIssue, IssueTypeOK
    <3>2. /\ content' = [content EXCEPT ![w] = edition[job[w]]]
          /\ Goes(w, "read")
          /\ UNCHANGED <<job, cursor, todo, batch, taken, retry>>
      BY <1>1, <2>2 DEF ReadIssue
    <3> QED BY <1>1, <3>1, <3>2 DEF ReadIssue, Goes
  <2> QED BY <2>1, <2>2
<1>2. ASSUME NEW w \in Workers, Claim(w) PROVE RunTypeOK'
  <2>1. CASE Rest(w)
    BY <1>2, <2>1, RestType
  <2>2. CASE ~Rest(w)
    BY <1>2, <2>2 DEF Claim, Goes, Unchanged, Moves, Renews, RunTypeOK,
      IssueTypeOK
  <2> QED BY <2>1, <2>2
<1>3. ASSUME NEW w \in Workers, FailInterrupted(w) PROVE RunTypeOK'
  BY <1>3 DEF FailInterrupted, Goes, Marked, Holds, Reserved, run
<1>4. ASSUME NEW w \in Workers, RenewForPage(w) PROVE RunTypeOK'
  BY <1>4 DEF RenewForPage, Goes, HoldsLive, Holds, Renews, run
<1>5. ASSUME NEW w \in Workers, ListPage(w) PROVE RunTypeOK'
  <2>1. CASE Cardinality(Page(w)) < BatchSize
    BY <1>5, <2>1 DEF ListPage, Goes
  <2>2. CASE ~(Cardinality(Page(w)) < BatchSize)
    <3>1. Page(w) \subseteq Subscribers
      BY DEF Page, SendTypeOK
    <3>2. PICK last \in Page(w) : cursor' = [cursor EXCEPT ![w] = last]
      BY <1>5, <2>2 DEF ListPage
    <3> HIDE DEF Page
    <3> QED BY <1>5, <2>2, <3>1, <3>2 DEF ListPage, Goes
  <2> QED BY <2>1, <2>2
<1>6. ASSUME NEW w \in Workers, ReadQueue(w) PROVE RunTypeOK'
  BY <1>6 DEF ReadQueue, Goes, Holds, Waiting, run
<1>7. ASSUME NEW w \in Workers, NoMore(w) PROVE RunTypeOK'
  BY <1>7 DEF NoMore, Goes, run
<1>8. ASSUME NEW w \in Workers, RenderBatch(w) PROVE RunTypeOK'
  <2>1. CASE HoldsLive(w)
    <3>1. PICK S \in SUBSET todo[w] :
            /\ batch' = [batch EXCEPT ![w] = S]
            /\ todo' = [todo EXCEPT ![w] = @ \ S]
      BY <1>8, <2>1 DEF RenderBatch
    <3> QED BY <1>8, <2>1, <3>1 DEF RenderBatch, Goes
  <2>2. CASE ~HoldsLive(w)
    BY <1>8, <2>2 DEF RenderBatch, Goes
  <2> QED BY <2>1, <2>2
<1>9. ASSUME NEW w \in Workers, Recheck(w) PROVE RunTypeOK'
  BY <1>9 DEF Recheck, Goes, Marked, Holds, Waiting, run
<1>10. ASSUME NEW w \in Workers, Reserve(w) PROVE RunTypeOK'
  BY <1>10 DEF Reserve, Goes, HoldsLive, Holds, Renews, Waiting, run
<1>11. ASSUME NEW w \in Workers, NoCapacity(w) PROVE RunTypeOK'
  <2>1. PICK t \in Days : Breaks(w, t)
    BY <1>11 DEF NoCapacity, SendTypeOK
  <2>2. stage[w] # "idle" /\ UNCHANGED <<job, content, cursor, todo>>
    BY <1>11 DEF NoCapacity
  <2> QED BY <2>1, <2>2, BreaksType
<1>12. ASSUME NEW w \in Workers, Conflicts(w) PROVE RunTypeOK'
  <2>1. /\ Breaks(w, 0) /\ stage[w] # "idle"
        /\ UNCHANGED <<job, content, cursor, todo>>
    BY <1>12 DEF Conflicts
  <2> QED BY <2>1, BreaksType
<1>13. ASSUME NEW w \in Workers, Dispatch(w) PROVE RunTypeOK'
  BY <1>13 DEF Dispatch, Goes, run
<1>14. ASSUME NEW w \in Workers, RecordSent(w) PROVE RunTypeOK'
  <2>1. CASE taken[w] # batch[w]
    <3>1. /\ Breaks(w, day + 1) /\ stage[w] # "idle"
          /\ UNCHANGED <<job, content, cursor, todo>>
      BY <1>14, <2>1 DEF RecordSent, GoesOn
    <3>2. day + 1 \in Days
      BY DEF SendTypeOK
    <3> HIDE DEF Days
    <3> QED BY <3>1, <3>2, BreaksType
  <2>2. CASE taken[w] = batch[w]
    BY <1>14, <2>2 DEF RecordSent, GoesOn, Goes
  <2> QED BY <2>1, <2>2
<1>15. ASSUME NEW w \in Workers, RecordFailed(w) PROVE RunTypeOK'
  <2>1. CASE taken[w] # batch[w]
    <3>1. /\ Breaks(w, day + 1) /\ stage[w] # "idle"
          /\ UNCHANGED <<job, content, cursor, todo>>
      BY <1>15, <2>1 DEF RecordFailed, GoesOn
    <3>2. day + 1 \in Days
      BY DEF SendTypeOK
    <3> HIDE DEF Days
    <3> QED BY <3>1, <3>2, BreaksType
  <2>2. CASE taken[w] = batch[w]
    BY <1>15, <2>2 DEF RecordFailed, GoesOn, Goes
  <2> QED BY <2>1, <2>2
<1>16. ASSUME NEW w \in Workers, Sweep(w) PROVE RunTypeOK'
  <2>1. CASE Rest(w)
    BY <1>16, <2>1, RestType
  <2>2. CASE ~Rest(w)
    BY <1>16, <2>2 DEF Sweep, Goes, HoldsLive, Holds, Renews, Marked, Reserved,
      Waiting, RunTypeOK, IssueTypeOK
  <2> QED BY <2>1, <2>2
<1>17. ASSUME NEW w \in Workers, Settle(w) PROVE RunTypeOK'
  BY <1>17, RestType DEF Settle
<1>18. ASSUME NEW w \in Workers, Throws(w) PROVE RunTypeOK'
  <2>1. /\ Breaks(w, 0) /\ stage[w] # "idle"
        /\ UNCHANGED <<job, content, cursor, todo>>
    BY <1>18 DEF Throws
  <2> QED BY <2>1, BreaksType
<1>19. ASSUME NEW w \in Workers, Crash(w) PROVE RunTypeOK'
  BY <1>19, RestType DEF Crash
<1>20. ASSUME NEW w \in Workers, NEW i \in Issues, Find(w, i) PROVE RunTypeOK'
  BY <1>20 DEF Find, Goes, run
<1>21. ASSUME NEW w \in Workers, NEW i \in Issues, SendNow(w, i) PROVE
  RunTypeOK'
  BY <1>21 DEF SendNow, Transition, Moves, Goes, Schedulable, run
<1>22. ASSUME NEW i \in Issues, ExpireLease(i) \/ BecomeDue(i) \/ Patch(i) \/
  Submit(i) \/ Approve(i) \/ Schedule(i) \/ Cancel(i) PROVE UNCHANGED <<stage,
  job, content, cursor, todo, batch, taken, retry>>
  BY <1>22 DEF ExpireLease, BecomeDue, Patch, Submit, Approve, Schedule,
    Cancel, Transition, run
<1>23. ASSUME NEW s \in Subscribers, Leave(s) \/ Join(s) PROVE UNCHANGED
  <<stage, job, content, cursor, todo, batch, taken, retry>>
  BY <1>23 DEF Leave, Join, run
<1>24. ASSUME NewDay \/ Pause \/ ResumeWarmup PROVE UNCHANGED <<stage, job,
  content, cursor, todo, batch, taken, retry>>
  BY <1>24 DEF NewDay, Pause, ResumeWarmup, run
<1>25. CASE UNCHANGED vars
  BY <1>25 DEF vars, run
<1>26. ASSUME UNCHANGED <<stage, job, content, cursor, todo, batch, taken,
  retry>> PROVE RunTypeOK'
  BY <1>26
<1> QED BY <1>1, <1>2, <1>3, <1>4, <1>5, <1>6, <1>7, <1>8, <1>9, <1>10, <1>11,
  <1>12, <1>13, <1>14, <1>15, <1>16, <1>17, <1>18, <1>19, <1>20, <1>21, <1>22,
  <1>23, <1>24, <1>25, <1>26 DEF Next, Work

LEMMA NoteType == TypeOK /\ [Next]_vars => NoteTypeOK'
<1> USE DEF TypeOK, NoteTypeOK, Pairs, Days, LastDay
<1> SUFFICES ASSUME TypeOK, [Next]_vars PROVE NoteTypeOK'
  OBVIOUS
<1>1. ASSUME NEW w \in Workers, ReadIssue(w) PROVE NoteTypeOK'
  <2>1. CASE Rest(w)
    BY <1>1, <2>1, RestType
  <2>2. CASE ~Rest(w)
    <3>1. status[job[w]] \in {"SCHEDULED", "SENDING"}
      BY <1>1, <2>2 DEF ReadIssue, Recoverable
    <3>2. token[job[w]] \in Workers \cup {NoWorker}
      BY <1>1 DEF ReadIssue, RunTypeOK, IssueTypeOK
    <3>3. /\ saw' = [saw EXCEPT ![w] = [status |-> status[job[w]],
                                       token |-> token[job[w]],
                                       moved |-> FALSE]]
          /\ UNCHANGED left
      BY <1>1, <2>2 DEF ReadIssue
    <3> QED BY <3>1, <3>2, <3>3
  <2> QED BY <2>1, <2>2
<1>2. ASSUME NEW w \in Workers, Claim(w) PROVE NoteTypeOK'
  <2>1. CASE Rest(w)
    BY <1>2, <2>1, RestType
  <2>2. CASE ~Rest(w)
    <3>1. saw' = [Moves(job[w]) EXCEPT ![w] = Unread] /\ UNCHANGED left
      BY <1>2, <2>2 DEF Claim
    <3> QED BY <3>1 DEF Moves, Unread
  <2> QED BY <2>1, <2>2
<1>3. ASSUME NEW w \in Workers, Sweep(w) PROVE NoteTypeOK'
  <2>1. CASE Rest(w)
    BY <1>3, <2>1, RestType
  <2>2. CASE ~Rest(w)
    <3> DEFINE rest == Waiting(job[w]) # {}
               any == \E s \in Subscribers : send[<<job[w], s>>] = "SENT"
    <3>1. /\ left' = [left EXCEPT ![w] = <<rest, any>>]
          /\ UNCHANGED saw
      BY <1>3, <2>2 DEF Sweep
    <3>2. rest \in BOOLEAN /\ any \in BOOLEAN
      OBVIOUS
    <3> HIDE DEF rest, any
    <3> QED BY <3>1, <3>2
  <2> QED BY <2>1, <2>2
<1>4. ASSUME NEW w \in Workers, Settle(w) PROVE NoteTypeOK'
  BY <1>4, RestType DEF Settle
<1>5. ASSUME NEW w \in Workers, Crash(w) PROVE NoteTypeOK'
  BY <1>5, RestType DEF Crash
<1>6. ASSUME NEW w \in Workers, NEW i \in Issues, SendNow(w, i) PROVE
  NoteTypeOK'
  BY <1>6 DEF SendNow, Transition, Moves, Goes, Schedulable, run
<1>7. ASSUME NEW i \in Issues, Patch(i) PROVE NoteTypeOK'
  BY <1>7 DEF Patch, Act, Transition, Moves, run
<1>8. ASSUME NEW i \in Issues, Submit(i) PROVE NoteTypeOK'
  BY <1>8 DEF Submit, Transition, Moves, run
<1>9. ASSUME NEW i \in Issues, Approve(i) PROVE NoteTypeOK'
  BY ZenonT(60), <1>9 DEF Approve, Transition, Moves, run
<1>10. ASSUME NEW i \in Issues, Schedule(i) PROVE NoteTypeOK'
  BY ZenonT(60), <1>10 DEF Schedule, Schedulable, Transition, Moves, run
<1>11. ASSUME NEW i \in Issues, Cancel(i) PROVE NoteTypeOK'
  BY ZenonT(60), <1>11 DEF Cancel, Transition, Moves, run
<1>12. ASSUME NEW w \in Workers, FailInterrupted(w) \/ RenewForPage(w) \/
  ListPage(w) \/ ReadQueue(w) \/ NoMore(w) \/ RenderBatch(w) \/ Recheck(w) \/
  Reserve(w) \/ NoCapacity(w) \/ Conflicts(w) \/ Dispatch(w) \/ RecordSent(w)
  \/ RecordFailed(w) \/ Throws(w) PROVE UNCHANGED <<saw, left>>
  BY <1>12 DEF FailInterrupted, RenewForPage, ListPage, ReadQueue, NoMore,
    RenderBatch, Recheck, Reserve, NoCapacity, Conflicts, Dispatch, RecordSent,
    RecordFailed, Throws, Breaks, GoesOn, run
<1>13. ASSUME NEW w \in Workers, NEW i \in Issues, Find(w, i) PROVE UNCHANGED
  <<saw, left>>
  BY <1>13 DEF Find, run
<1>14. ASSUME NEW i \in Issues, ExpireLease(i) \/ BecomeDue(i) PROVE UNCHANGED
  <<saw, left>>
  BY <1>14 DEF ExpireLease, BecomeDue, run
<1>15. ASSUME NEW s \in Subscribers, Leave(s) \/ Join(s) PROVE UNCHANGED <<saw,
  left>>
  BY <1>15 DEF Leave, Join, run
<1>16. ASSUME NewDay \/ Pause \/ ResumeWarmup PROVE UNCHANGED <<saw, left>>
  BY <1>16 DEF NewDay, Pause, ResumeWarmup, run
<1>17. CASE UNCHANGED vars
  BY <1>17 DEF vars, run
<1>18. ASSUME UNCHANGED <<saw, left>> PROVE NoteTypeOK'
  BY <1>18
<1> QED BY <1>1, <1>2, <1>3, <1>4, <1>5, <1>6, <1>7, <1>8, <1>9, <1>10, <1>11,
  <1>12, <1>13, <1>14, <1>15, <1>16, <1>17, <1>18 DEF Next, Work

LEMMA HistoryType == TypeOK /\ [Next]_vars => HistoryTypeOK'
<1> USE DEF TypeOK, HistoryTypeOK, Pairs, Days, LastDay
<1> SUFFICES ASSUME TypeOK, [Next]_vars PROVE HistoryTypeOK'
  OBVIOUS
<1>1. ASSUME NEW w \in Workers, Claim(w) PROVE HistoryTypeOK'
  <2>1. active \in SUBSET Subscribers
    BY DEF SendTypeOK
  <2>2. loyal' \in [Issues -> SUBSET Subscribers]
    BY <1>1, <2>1 DEF Claim
  <2> QED BY <1>1, <2>2 DEF Claim, history, bounds
<1>2. ASSUME NEW w \in Workers, Dispatch(w) PROVE HistoryTypeOK'
  <2>1. <<job[w], content[w]>> \in Issues \X Nat
    BY <1>2 DEF Dispatch, RunTypeOK
  <2>2. mailed' \subseteq Issues \X Nat
    BY <1>2, <2>1 DEF Dispatch
  <2>3. mails' \in [Pairs -> Nat]
    BY <1>2 DEF Dispatch
  <2> QED BY <1>2, <2>2, <2>3 DEF Dispatch, bounds
<1>3. ASSUME NEW w \in Workers, Throws(w) PROVE HistoryTypeOK'
  BY <1>3 DEF Throws, Breaks, Goes, Fault, history, bounds
<1>4. ASSUME NEW w \in Workers, Crash(w) PROVE HistoryTypeOK'
  BY <1>4 DEF Crash, Rest, Goes, Unread, Fault, history, bounds
<1>5. ASSUME NEW i \in Issues, ExpireLease(i) PROVE HistoryTypeOK'
  BY <1>5 DEF ExpireLease, Fault, history, bounds
<1>6. ASSUME NEW i \in Issues, Patch(i) PROVE HistoryTypeOK'
  BY <1>6 DEF Patch, Act, Transition, Moves, history, bounds
<1>7. ASSUME NEW s \in Subscribers, Leave(s) PROVE HistoryTypeOK'
  BY <1>7 DEF Leave, Act, history, bounds
<1>8. ASSUME NEW s \in Subscribers, Join(s) PROVE HistoryTypeOK'
  BY <1>8 DEF Join, Act, history, bounds
<1>9. ASSUME Pause PROVE HistoryTypeOK'
  BY <1>9 DEF Pause, Act, history, bounds
<1>10. ASSUME NEW w \in Workers, ReadIssue(w) \/ FailInterrupted(w) \/
  RenewForPage(w) \/ ListPage(w) \/ ReadQueue(w) \/ NoMore(w) \/ RenderBatch(w)
  \/ Recheck(w) \/ Reserve(w) \/ NoCapacity(w) \/ Conflicts(w) \/ RecordSent(w)
  \/ RecordFailed(w) \/ Sweep(w) \/ Settle(w) PROVE UNCHANGED <<history, loyal,
  bounds>>
  BY <1>10 DEF ReadIssue, FailInterrupted, RenewForPage, ListPage, ReadQueue,
    NoMore, RenderBatch, Recheck, Reserve, NoCapacity, Conflicts, RecordSent,
    RecordFailed, Sweep, Settle, Breaks, GoesOn, Rest, history, bounds
<1>11. ASSUME NEW w \in Workers, NEW i \in Issues, Find(w, i) \/ SendNow(w, i)
  PROVE UNCHANGED <<history, loyal, bounds>>
  BY <1>11 DEF Find, SendNow, Transition, history, bounds
<1>12. ASSUME NEW i \in Issues, BecomeDue(i) \/ Submit(i) \/ Approve(i) \/
  Schedule(i) \/ Cancel(i) PROVE UNCHANGED <<history, loyal, bounds>>
  BY <1>12 DEF BecomeDue, Submit, Approve, Schedule, Cancel, Transition,
    history, bounds
<1>13. ASSUME NewDay \/ ResumeWarmup PROVE UNCHANGED <<history, loyal, bounds>>
  BY <1>13 DEF NewDay, ResumeWarmup, history, bounds
<1>14. CASE UNCHANGED vars
  BY <1>14 DEF vars, history, bounds, history, bounds
<1>15. ASSUME UNCHANGED <<history, loyal, bounds>> PROVE HistoryTypeOK'
  BY <1>15 DEF history, bounds
<1> QED BY <1>1, <1>2, <1>3, <1>4, <1>5, <1>6, <1>7, <1>8, <1>9, <1>10, <1>11,
  <1>12, <1>13, <1>14, <1>15 DEF Next, Work

\* Every variable keeps its type.
THEOREM TypeCorrect == Spec => []TypeOK
<1>1. Init => TypeOK
  <2> SUFFICES ASSUME Init PROVE TypeOK
    OBVIOUS
  <2>1. IssueTypeOK
    BY DEF Init, IssueTypeOK
  <2>2. SendTypeOK
    <3>1. Len(Caps) \in Nat
      OBVIOUS
    <3>2. paused \in BOOLEAN
      BY DEF Init
    <3> QED BY <3>1, <3>2 DEF Init, SendTypeOK, Pairs, Days, LastDay
  <2>3. RunTypeOK
    BY DEF Init, RunTypeOK, Days, LastDay
  <2>4. NoteTypeOK
    BY DEF Init, NoteTypeOK, Unread
  <2>5. HistoryTypeOK
    BY DEF Init, HistoryTypeOK
  <2> QED BY <2>1, <2>2, <2>3, <2>4, <2>5 DEF TypeOK
<1>2. TypeOK /\ [Next]_vars => TypeOK'
  BY IssueType, SendType, RunType, NoteType, HistoryType DEF TypeOK
<1> QED BY <1>1, <1>2, PTL DEF Spec

-----------------------------------------------------------------------------
\* A step of a run that reserves nothing, sends nothing and marks nothing as
\* sent.
LEMMA MailStill ==
  ASSUME TypeOK, MailInv, NEW w \in Workers, UNCHANGED <<on, mails>>,
         \A p \in Pairs : send'[p] = "SENT" => send[p] = "SENT",
         stage'[w] \notin {"reserved", "accepted"},
         \A v \in Workers : v # w =>
           stage'[v] = stage[v] /\ job'[v] = job[v] /\ taken'[v] = taken[v]
  PROVE  MailInv'
<1>1. MailedOnce' /\ \A p \in Pairs : mails'[p] # 0 => on'[p] # 0
  BY DEF MailInv, MailedOnce
<1>2. ASSUME NEW v \in Workers
      PROVE  /\ stage'[v] = "reserved" =>
                  \A s \in taken'[v] : mails'[<<job'[v], s>>] = 0
                                       /\ on'[<<job'[v], s>>] # 0
             /\ stage'[v] = "accepted" =>
                  \A s \in taken'[v] : mails'[<<job'[v], s>>] = 1
  BY DEF MailInv
<1>3. ASSUME NEW u \in Workers, NEW v \in Workers, u # v, job'[u] = job'[v],
             stage'[u] = "reserved", stage'[v] = "reserved"
      PROVE  taken'[u] \cap taken'[v] = {}
  BY <1>3 DEF MailInv
<1> QED BY <1>1, <1>2, <1>3 DEF MailInv

LEMMA MailInductive ==
  ASSUME TypeOK, MailInv, [Next]_vars
  PROVE  MailInv'
<1> USE DEF Pairs, TypeOK
<1>1. ASSUME NEW w \in Workers, ReadIssue(w) PROVE MailInv'
  <2>1. /\ UNCHANGED <<on, mails>> /\ stage'[w] \notin {"reserved", "accepted"}
        /\ \A v \in Workers : v # w =>
             stage'[v] = stage[v] /\ job'[v] = job[v] /\ taken'[v] = taken[v]
    BY <1>1 DEF ReadIssue, Rest, Goes, RunTypeOK, sends, run, history
  <2>2. ASSUME NEW p \in Pairs, send'[p] = "SENT" PROVE send[p] = "SENT"
    BY <1>1, <2>2 DEF ReadIssue, Rest, Goes, SendTypeOK, sends, run
  <2> QED BY <2>1, <2>2, MailStill
<1>2. ASSUME NEW w \in Workers, Claim(w) PROVE MailInv'
  <2>1. /\ UNCHANGED <<on, mails>> /\ stage'[w] \notin {"reserved", "accepted"}
        /\ \A v \in Workers : v # w =>
             stage'[v] = stage[v] /\ job'[v] = job[v] /\ taken'[v] = taken[v]
    BY ZenonT(60), <1>2 DEF Claim, Rest, Goes, RunTypeOK, sends, run, history
  <2>2. ASSUME NEW p \in Pairs, send'[p] = "SENT" PROVE send[p] = "SENT"
    BY <1>2, <2>2 DEF Claim, Rest, Goes, SendTypeOK, sends, run
  <2> QED BY <2>1, <2>2, MailStill
<1>3. ASSUME NEW w \in Workers, FailInterrupted(w) PROVE MailInv'
  BY <1>3 DEF FailInterrupted, Goes, Marked, Holds, Reserved, sends, run,
    history, MailInv, MailedOnce, RunTypeOK, SendTypeOK, HistoryTypeOK
<1>4. ASSUME NEW w \in Workers, RenewForPage(w) PROVE MailInv'
  <2>1. /\ UNCHANGED <<on, mails>> /\ stage'[w] \notin {"reserved", "accepted"}
        /\ \A v \in Workers : v # w =>
             stage'[v] = stage[v] /\ job'[v] = job[v] /\ taken'[v] = taken[v]
    BY <1>4 DEF RenewForPage, Goes, RunTypeOK, sends, run, history
  <2>2. ASSUME NEW p \in Pairs, send'[p] = "SENT" PROVE send[p] = "SENT"
    BY <1>4, <2>2 DEF RenewForPage, Goes, SendTypeOK, sends, run
  <2> QED BY <2>1, <2>2, MailStill
<1>5. ASSUME NEW w \in Workers, ListPage(w) PROVE MailInv'
  <2>1. /\ UNCHANGED <<on, mails>> /\ stage'[w] \notin {"reserved", "accepted"}
        /\ \A v \in Workers : v # w =>
             stage'[v] = stage[v] /\ job'[v] = job[v] /\ taken'[v] = taken[v]
    BY <1>5 DEF ListPage, Goes, Marked, RunTypeOK, sends, run, history
  <2>2. ASSUME NEW p \in Pairs, send'[p] = "SENT" PROVE send[p] = "SENT"
    BY <1>5, <2>2 DEF ListPage, Goes, Marked, SendTypeOK, sends, run
  <2> QED BY <2>1, <2>2, MailStill
<1>6. ASSUME NEW w \in Workers, ReadQueue(w) PROVE MailInv'
  BY <1>6 DEF ReadQueue, Goes, Holds, Waiting, sends, run, history, MailInv,
    MailedOnce, RunTypeOK, SendTypeOK, HistoryTypeOK
<1>7. ASSUME NEW w \in Workers, NoMore(w) PROVE MailInv'
  BY <1>7 DEF NoMore, Goes, sends, run, history, MailInv, MailedOnce,
    RunTypeOK, SendTypeOK, HistoryTypeOK
<1>8. ASSUME NEW w \in Workers, RenderBatch(w) PROVE MailInv'
  <2>1. /\ UNCHANGED <<on, mails>> /\ stage'[w] \notin {"reserved", "accepted"}
        /\ \A v \in Workers : v # w =>
             stage'[v] = stage[v] /\ job'[v] = job[v] /\ taken'[v] = taken[v]
    BY <1>8 DEF RenderBatch, Goes, RunTypeOK, sends, run, history
  <2>2. ASSUME NEW p \in Pairs, send'[p] = "SENT" PROVE send[p] = "SENT"
    BY <1>8, <2>2 DEF RenderBatch, Goes, SendTypeOK, sends, run
  <2> QED BY <2>1, <2>2, MailStill
<1>9. ASSUME NEW w \in Workers, Recheck(w) PROVE MailInv'
  BY <1>9 DEF Recheck, Goes, Marked, Holds, Waiting, sends, run, history,
    MailInv, MailedOnce, RunTypeOK, SendTypeOK, HistoryTypeOK
<1>10. ASSUME NEW w \in Workers, Reserve(w) PROVE MailInv'
  <2>1. PICK S \in SUBSET batch[w] :
          /\ on' = [p \in Pairs |->
                      IF p[1] = job[w] /\ p[2] \in S THEN day ELSE on[p]]
          /\ taken' = [taken EXCEPT ![w] = S]
    BY <1>10 DEF Reserve
  <2>2. /\ batch[w] \subseteq Waiting(job[w]) /\ job[w] \in Issues
        /\ UNCHANGED <<send, mails, job>>
        /\ stage' = [stage EXCEPT ![w] = "reserved"]
    BY <1>10 DEF Reserve, Goes, RunTypeOK, history
  <2>3. ASSUME NEW s \in S
        PROVE  /\ <<job[w], s>> \in Pairs
               /\ on[<<job[w], s>>] = 0 /\ mails[<<job[w], s>>] = 0
               /\ on'[<<job[w], s>>] = day
    BY <2>1, <2>2 DEF Waiting, MailInv
  <2>4. ASSUME NEW p \in Pairs, on[p] # 0 PROVE on'[p] # 0
    BY <2>1, <2>4 DEF SendTypeOK
  <2>5. MailedOnce' /\ \A p \in Pairs : mails'[p] # 0 => on'[p] # 0
    BY <2>2, <2>4 DEF MailInv, MailedOnce
  <2>6. ASSUME NEW v \in Workers, v # w
        PROVE  stage'[v] = stage[v] /\ taken'[v] = taken[v]
    BY <2>1, <2>2, <2>6 DEF RunTypeOK
  <2>7. taken'[w] = S
    BY <2>1 DEF RunTypeOK
  <2>8. ASSUME NEW v \in Workers, v # w, stage[v] = "reserved"
        PROVE  \A s \in taken[v] : /\ <<job[v], s>> \in Pairs
                                   /\ on[<<job[v], s>>] # 0
    BY <2>8 DEF MailInv, RunTypeOK
  <2>9. ASSUME NEW v \in Workers, stage'[v] = "reserved"
        PROVE  \A s \in taken'[v] : mails'[<<job'[v], s>>] = 0
                                    /\ on'[<<job'[v], s>>] # 0
    <3>1. CASE v = w
      BY <2>2, <2>3, <2>7, <3>1 DEF SendTypeOK
    <3>2. CASE v # w
      BY <2>2, <2>4, <2>6, <2>8, <2>9, <3>2 DEF MailInv
    <3> QED BY <3>1, <3>2
  <2>10. ASSUME NEW v \in Workers, stage'[v] = "accepted"
         PROVE  \A s \in taken'[v] : mails'[<<job'[v], s>>] = 1
    <3>1. v # w
      BY <2>2, <2>10 DEF RunTypeOK
    <3> QED BY <2>2, <2>6, <2>10, <3>1 DEF MailInv
  <2>11. ASSUME NEW v \in Workers, v # w, job[v] = job[w],
                stage[v] = "reserved"
         PROVE  taken[v] \cap S = {}
    BY ZenonT(60), <2>3, <2>8, <2>11
  <2>12. ASSUME NEW u \in Workers, NEW v \in Workers, u # v,
                job'[u] = job'[v],
                stage'[u] = "reserved", stage'[v] = "reserved"
         PROVE  taken'[u] \cap taken'[v] = {}
    BY <2>2, <2>6, <2>7, <2>11, <2>12 DEF MailInv
  <2> QED BY <2>5, <2>9, <2>10, <2>12 DEF MailInv
<1>11. ASSUME NEW w \in Workers, NoCapacity(w) PROVE MailInv'
  BY <1>11 DEF NoCapacity, Breaks, Goes, HoldsLive, Holds, Renews, sends, run,
    history, MailInv, MailedOnce, RunTypeOK, SendTypeOK, HistoryTypeOK
<1>12. ASSUME NEW w \in Workers, Conflicts(w) PROVE MailInv'
  BY <1>12 DEF Conflicts, Breaks, Goes, sends, run, history, MailInv,
    MailedOnce, RunTypeOK, SendTypeOK, HistoryTypeOK
<1>13. ASSUME NEW w \in Workers, Dispatch(w) PROVE MailInv'
  <2>1. PICK out \in BOOLEAN, told \in BOOLEAN :
          /\ told => out
          /\ Goes(w, IF told THEN "accepted" ELSE "failed")
          /\ mails' = [p \in Pairs |->
                        mails[p] + IF out /\ p[1] = job[w] /\ p[2] \in taken[w]
                                   THEN 1 ELSE 0]
    BY <1>13 DEF Dispatch
  <2>2. /\ UNCHANGED <<send, on, job, taken>>
        /\ \A v \in Workers : v # w => stage'[v] = stage[v]
        /\ stage[w] = "reserved" /\ stage'[w] \in {"accepted", "failed"}
    BY <1>13 DEF Dispatch, Goes, RunTypeOK, run, sends
  <2>3. ASSUME NEW s \in taken[w]
        PROVE  /\ <<job[w], s>> \in Pairs /\ mails[<<job[w], s>>] = 0
               /\ on[<<job[w], s>>] # 0
    BY <2>2 DEF MailInv, RunTypeOK
  <2>4. ASSUME NEW p \in Pairs
        PROVE  /\ mails'[p] \in {mails[p], 1}
               /\ mails'[p] # mails[p] =>
                    p[1] = job[w] /\ p[2] \in taken[w] /\ mails[p] = 0
    <3>1. CASE p[1] = job[w] /\ p[2] \in taken[w]
      <4>1. p = <<job[w], p[2]>>
        BY <3>1
      <4> QED BY <2>1, <2>3, <3>1, <4>1
    <3>2. CASE ~(p[1] = job[w] /\ p[2] \in taken[w])
      BY <2>1, <3>2 DEF HistoryTypeOK
    <3> QED BY <3>1, <3>2
  <2>5. ASSUME NEW p \in Pairs
        PROVE  /\ mails'[p] <= 1 /\ (send'[p] = "SENT" => mails'[p] = 1)
               /\ mails'[p] # 0 => on'[p] # 0
    <3>1. CASE mails'[p] = mails[p]
      BY <2>2, <3>1 DEF MailInv, MailedOnce
    <3>2. CASE mails'[p] # mails[p]
      <4>1. p = <<job[w], p[2]>> /\ p[2] \in taken[w]
        BY <2>4, <3>2
      <4> QED BY <2>2, <2>3, <2>4, <3>2, <4>1
    <3> QED BY <3>1, <3>2
  <2>6. ASSUME NEW v \in Workers, stage'[v] = "reserved"
        PROVE  \A s \in taken'[v] : mails'[<<job'[v], s>>] = 0
                                    /\ on'[<<job'[v], s>>] # 0
    <3>1. v # w /\ stage[v] = "reserved"
      BY <2>2, <2>6
    <3>2. ASSUME NEW s \in taken[v]
          PROVE  /\ <<job[v], s>> \in Pairs /\ mails[<<job[v], s>>] = 0
                 /\ on[<<job[v], s>>] # 0
      BY <3>1 DEF MailInv, RunTypeOK
    <3>3. ASSUME NEW s \in taken[v], mails'[<<job[v], s>>] # 0 PROVE FALSE
      <4>1. job[v] = job[w] /\ s \in taken[w]
        BY <2>4, <3>2, <3>3
      <4> QED BY <2>2, <3>1, <4>1 DEF MailInv
    <3> QED BY <2>2, <3>2, <3>3
  <2>7. ASSUME NEW v \in Workers, stage'[v] = "accepted"
        PROVE  \A s \in taken'[v] : mails'[<<job'[v], s>>] = 1
    <3>1. CASE v = w
      <4>1. told /\ out
        BY <2>1, <2>7, <3>1 DEF Goes, RunTypeOK
      <4> QED BY <2>1, <2>2, <2>3, <3>1, <4>1
    <3>2. CASE v # w
      <4>1. ASSUME NEW s \in taken[v]
            PROVE  <<job[v], s>> \in Pairs /\ mails[<<job[v], s>>] = 1
        BY <2>2, <2>7, <3>2 DEF MailInv, RunTypeOK
      <4> QED BY <2>2, <2>4, <3>2, <4>1
    <3> QED BY <3>1, <3>2
  <2>8. ASSUME NEW u \in Workers, NEW v \in Workers, u # v, job'[u] = job'[v],
               stage'[u] = "reserved", stage'[v] = "reserved"
        PROVE  taken'[u] \cap taken'[v] = {}
    BY <2>2, <2>8 DEF MailInv
  <2> QED BY <2>5, <2>6, <2>7, <2>8 DEF MailInv, MailedOnce
<1>14. ASSUME NEW w \in Workers, RecordSent(w) PROVE MailInv'
  <2>1. /\ UNCHANGED <<on, mails, job>>
        /\ stage[w] = "accepted" /\ stage'[w] \notin {"reserved", "accepted"}
        /\ \A v \in Workers : v # w =>
             stage'[v] = stage[v] /\ taken'[v] = taken[v]
    BY <1>14 DEF RecordSent, GoesOn, Breaks, Goes, RunTypeOK, history
  <2>2. ASSUME NEW p \in Pairs, send'[p] = "SENT" PROVE mails[p] = 1
    <3>1. CASE send[p] = "SENT"
      BY <3>1 DEF MailInv, MailedOnce
    <3>2. CASE send[p] # "SENT"
      <4>1. p[1] = job[w] /\ p[2] \in taken[w]
        BY <1>14, <2>2, <3>2 DEF RecordSent, Marked
      <4>2. p = <<job[w], p[2]>>
        BY <4>1
      <4> QED BY <2>1, <4>1, <4>2 DEF MailInv
    <3> QED BY <3>1, <3>2
  <2>3. MailedOnce' /\ \A p \in Pairs : mails'[p] # 0 => on'[p] # 0
    BY <2>1, <2>2 DEF MailInv, MailedOnce
  <2> QED BY <2>1, <2>3 DEF MailInv
<1>15. ASSUME NEW w \in Workers, RecordFailed(w) PROVE MailInv'
  <2>1. /\ UNCHANGED <<on, mails>> /\ stage'[w] \notin {"reserved", "accepted"}
        /\ \A v \in Workers : v # w =>
             stage'[v] = stage[v] /\ job'[v] = job[v] /\ taken'[v] = taken[v]
    BY <1>15 DEF RecordFailed, GoesOn, Breaks, Goes, Marked, RunTypeOK, sends,
      run, history
  <2>2. ASSUME NEW p \in Pairs, send'[p] = "SENT" PROVE send[p] = "SENT"
    BY <1>15, <2>2 DEF RecordFailed, GoesOn, Breaks, Goes, Marked, SendTypeOK,
      sends, run
  <2> QED BY <2>1, <2>2, MailStill
<1>16. ASSUME NEW w \in Workers, Sweep(w) PROVE MailInv'
  <2>1. /\ UNCHANGED <<on, mails>> /\ stage'[w] \notin {"reserved", "accepted"}
        /\ \A v \in Workers : v # w =>
             stage'[v] = stage[v] /\ job'[v] = job[v] /\ taken'[v] = taken[v]
    BY ZenonT(60), <1>16 DEF Sweep, Rest, Goes, Marked, Reserved, RunTypeOK,
      sends, run, history
  <2>2. ASSUME NEW p \in Pairs, send'[p] = "SENT" PROVE send[p] = "SENT"
    BY <1>16, <2>2 DEF Sweep, Rest, Goes, Marked, Reserved, SendTypeOK, sends,
      run
  <2> QED BY <2>1, <2>2, MailStill
<1>17. ASSUME NEW w \in Workers, Settle(w) PROVE MailInv'
  BY <1>17 DEF Settle, Rest, Goes, Unread, Outcome, HoldsLive, Holds, sends,
    run, history, MailInv, MailedOnce, RunTypeOK, SendTypeOK, HistoryTypeOK
<1>18. ASSUME NEW w \in Workers, Throws(w) PROVE MailInv'
  BY <1>18 DEF Throws, Breaks, Goes, Fault, sends, run, history, MailInv,
    MailedOnce, RunTypeOK, SendTypeOK, HistoryTypeOK
<1>19. ASSUME NEW w \in Workers, Crash(w) PROVE MailInv'
  BY <1>19 DEF Crash, Rest, Goes, Unread, Fault, sends, run, history, MailInv,
    MailedOnce, RunTypeOK, SendTypeOK, HistoryTypeOK
<1>20. ASSUME NEW w \in Workers, NEW i \in Issues, Find(w, i) PROVE MailInv'
  BY <1>20 DEF Find, Goes, sends, run, history, MailInv, MailedOnce, RunTypeOK,
    SendTypeOK, HistoryTypeOK
<1>21. ASSUME NEW w \in Workers, NEW i \in Issues, SendNow(w, i) PROVE MailInv'
  BY <1>21 DEF SendNow, Transition, Moves, Goes, Schedulable, sends, run,
    history, MailInv, MailedOnce, RunTypeOK, SendTypeOK, HistoryTypeOK
<1>22. ASSUME NEW i \in Issues, ExpireLease(i) \/ BecomeDue(i) \/ Patch(i) \/
  Submit(i) \/ Approve(i) \/ Schedule(i) \/ Cancel(i) PROVE UNCHANGED <<send,
  on, mails, stage, job, taken>>
  BY <1>22 DEF ExpireLease, BecomeDue, Patch, Submit, Approve, Schedule,
    Cancel, Transition, sends, run, history
<1>23. ASSUME NEW s \in Subscribers, Leave(s) \/ Join(s) PROVE UNCHANGED
  <<send, on, mails, stage, job, taken>>
  BY <1>23 DEF Leave, Join, sends, run, history
<1>24. ASSUME NewDay \/ Pause \/ ResumeWarmup PROVE UNCHANGED <<send, on,
  mails, stage, job, taken>>
  BY <1>24 DEF NewDay, Pause, ResumeWarmup, sends, run, history
<1>25. CASE UNCHANGED vars
  BY <1>25 DEF vars, sends, run, history, MailInv, MailedOnce, RunTypeOK,
    SendTypeOK, HistoryTypeOK
<1>26. ASSUME UNCHANGED <<send, on, mails, stage, job, taken>> PROVE MailInv'
  BY <1>26 DEF MailInv, MailedOnce, RunTypeOK, SendTypeOK, HistoryTypeOK
<1> QED BY <1>1, <1>2, <1>3, <1>4, <1>5, <1>6, <1>7, <1>8, <1>9, <1>10, <1>11,
  <1>12, <1>13, <1>14, <1>15, <1>16, <1>17, <1>18, <1>19, <1>20, <1>21, <1>22,
  <1>23, <1>24, <1>25, <1>26 DEF Next, Work

-----------------------------------------------------------------------------
\* A run that is over leaves what the invariant says of the others.
LEMMA ApprovedRest ==
  ASSUME TypeOK, ApprovedInv, NEW w \in Workers, Rest(w),
         UNCHANGED <<status, edition, approved, mailed>>
  PROVE  ApprovedInv'
<1> USE DEF TypeOK, RunTypeOK, NoteTypeOK
<1>1. ASSUME NEW v \in Workers, v # w
      PROVE  /\ stage'[v] = stage[v] /\ job'[v] = job[v]
             /\ saw'[v] = saw[v] /\ content'[v] = content[v]
  BY <1>1 DEF Rest, Goes
<1>2. stage'[w] = "idle"
  BY DEF Rest, Goes
<1>3. ASSUME NEW v \in Workers
      PROVE  /\ stage'[v] = "read" /\ ~saw'[v].moved =>
                  content'[v] = edition'[job'[v]]
             /\ stage'[v] \in After => /\ status'[job'[v]] \in Begun
                                        /\ content'[v] = approved'[job'[v]]
  BY ZenonT(60), <1>1, <1>2 DEF ApprovedInv, After
<1> QED BY <1>3 DEF ApprovedInv

LEMMA ApprovedInductive ==
  ASSUME TypeOK, ApprovedInv, [Next]_vars
  PROVE  ApprovedInv'
<1> USE DEF TypeOK
<1>1. ASSUME NEW w \in Workers, ReadIssue(w) PROVE ApprovedInv'
  <2>1. UNCHANGED <<status, edition, approved, mailed>>
    BY <1>1 DEF ReadIssue, issue, history
  <2>2. CASE Rest(w)
    BY <2>1, <2>2, ApprovedRest
  <2>3. CASE ~Rest(w)
    <3>1. /\ saw' = [saw EXCEPT ![w] = [status |-> status[job[w]],
                                       token |-> token[job[w]],
                                       moved |-> FALSE]]
          /\ content' = [content EXCEPT ![w] = edition[job[w]]]
          /\ stage' = [stage EXCEPT ![w] = "read"] /\ job' = job
      BY <1>1, <2>3 DEF ReadIssue, Goes
    <3>2. ASSUME NEW v \in Workers
          PROVE  /\ stage'[v] = "read" /\ ~saw'[v].moved =>
                      content'[v] = edition'[job'[v]]
                 /\ stage'[v] \in After => /\ status'[job'[v]] \in Begun
                                          /\ content'[v] = approved'[job'[v]]
      <4>1. CASE v = w
        BY <2>1, <3>1, <4>1 DEF After, RunTypeOK
      <4>2. CASE v # w
        BY <2>1, <3>1, <4>2 DEF ApprovedInv, RunTypeOK, NoteTypeOK
      <4> QED BY <4>1, <4>2
    <3> QED BY <2>1, <3>2 DEF ApprovedInv
  <2> QED BY <2>2, <2>3
<1>2. ASSUME NEW w \in Workers, Claim(w) PROVE ApprovedInv'
  <2>1. UNCHANGED <<edition, approved, mailed>>
    BY <1>2 DEF Claim, history
  <2>2. CASE ~Unchanged(w)
    <3>1. Rest(w) /\ UNCHANGED status
      BY <1>2, <2>2 DEF Claim
    <3> QED BY <2>1, <3>1, ApprovedRest
  <2>3. CASE Unchanged(w)
    <3>1. /\ status' = [status EXCEPT ![job[w]] = "SENDING"]
          /\ saw' = [Moves(job[w]) EXCEPT ![w] = Unread]
          /\ stage' = [stage EXCEPT ![w] = "claimed"]
          /\ UNCHANGED <<job, content>>
      BY <1>2, <2>3 DEF Claim, Goes
    <3>2. /\ stage[w] = "read" /\ ~saw[w].moved /\ job[w] \in Issues
          /\ status[job[w]] \in {"SCHEDULED", "SENDING"}
      BY <1>2, <2>3 DEF Claim, Unchanged, RunTypeOK, NoteTypeOK
    <3>3. content[w] = edition[job[w]] /\ approved[job[w]] = edition[job[w]]
      BY <3>2 DEF ApprovedInv, Begun
    <3>4. ASSUME NEW i \in Issues
          PROVE  /\ status'[i] \in Begun \cup {"SCHEDULED"} =>
                      approved'[i] = edition'[i]
                 /\ status'[i] = "NEEDS_APPROVAL" /\ approved'[i] # 0 =>
                      approved'[i] = edition'[i]
                 /\ status[i] \in Begun => status'[i] \in Begun
      BY <2>1, <3>1, <3>3 DEF ApprovedInv, Begun, IssueTypeOK
    <3>5. ASSUME NEW v \in Workers
          PROVE  /\ stage'[v] = "read" /\ ~saw'[v].moved =>
                      content'[v] = edition'[job'[v]]
                 /\ stage'[v] \in After => /\ status'[job'[v]] \in Begun
                                          /\ content'[v] = approved'[job'[v]]
      <4>1. CASE v = w
        BY <2>1, <3>1, <3>2, <3>3, <4>1 DEF After, Begun, RunTypeOK,
          IssueTypeOK
      <4>2. CASE v # w
        <5>1. /\ stage'[v] = stage[v] /\ job'[v] = job[v]
              /\ content'[v] = content[v]
          BY <3>1, <4>2 DEF RunTypeOK
        <5>2. stage[v] = "read" /\ ~saw'[v].moved => ~saw[v].moved
          BY <3>1, <4>2 DEF Moves, NoteTypeOK
        <5>3. stage[v] \in After => job[v] \in Issues
          BY DEF After, RunTypeOK
        <5> QED BY <2>1, <3>4, <5>1, <5>2, <5>3 DEF ApprovedInv
      <4> QED BY <4>1, <4>2
    <3> QED BY <2>1, <3>4, <3>5 DEF ApprovedInv, HistoryTypeOK
  <2> QED BY <2>2, <2>3
<1>3. ASSUME NEW w \in Workers, FailInterrupted(w) PROVE ApprovedInv'
  BY <1>3 DEF FailInterrupted, Goes, Marked, Holds, Reserved, issue, run,
    history, ApprovedInv, Begun, After, IssueTypeOK, RunTypeOK, NoteTypeOK,
    HistoryTypeOK
<1>4. ASSUME NEW w \in Workers, RenewForPage(w) PROVE ApprovedInv'
  BY <1>4 DEF RenewForPage, Goes, HoldsLive, Holds, Renews, issue, run,
    history, ApprovedInv, Begun, After, IssueTypeOK, RunTypeOK, NoteTypeOK,
    HistoryTypeOK
<1>5. ASSUME NEW w \in Workers, ListPage(w) PROVE ApprovedInv'
  BY <1>5 DEF ListPage, Goes, Marked, issue, run, history, ApprovedInv, Begun,
    After, IssueTypeOK, RunTypeOK, NoteTypeOK, HistoryTypeOK
<1>6. ASSUME NEW w \in Workers, ReadQueue(w) PROVE ApprovedInv'
  BY <1>6 DEF ReadQueue, Goes, Holds, Waiting, issue, run, history,
    ApprovedInv, Begun, After, IssueTypeOK, RunTypeOK, NoteTypeOK,
    HistoryTypeOK
<1>7. ASSUME NEW w \in Workers, NoMore(w) PROVE ApprovedInv'
  BY <1>7 DEF NoMore, Goes, issue, run, history, ApprovedInv, Begun, After,
    IssueTypeOK, RunTypeOK, NoteTypeOK, HistoryTypeOK
<1>8. ASSUME NEW w \in Workers, RenderBatch(w) PROVE ApprovedInv'
  BY <1>8 DEF RenderBatch, Goes, HoldsLive, Holds, Renews, issue, run, history,
    ApprovedInv, Begun, After, IssueTypeOK, RunTypeOK, NoteTypeOK,
    HistoryTypeOK
<1>9. ASSUME NEW w \in Workers, Recheck(w) PROVE ApprovedInv'
  BY <1>9 DEF Recheck, Goes, Marked, Holds, Waiting, issue, run, history,
    ApprovedInv, Begun, After, IssueTypeOK, RunTypeOK, NoteTypeOK,
    HistoryTypeOK
<1>10. ASSUME NEW w \in Workers, Reserve(w) PROVE ApprovedInv'
  BY <1>10 DEF Reserve, Goes, HoldsLive, Holds, Renews, Waiting, issue, run,
    history, ApprovedInv, Begun, After, IssueTypeOK, RunTypeOK, NoteTypeOK,
    HistoryTypeOK
<1>11. ASSUME NEW w \in Workers, NoCapacity(w) PROVE ApprovedInv'
  BY <1>11 DEF NoCapacity, Breaks, Goes, HoldsLive, Holds, Renews, issue, run,
    history, ApprovedInv, Begun, After, IssueTypeOK, RunTypeOK, NoteTypeOK,
    HistoryTypeOK
<1>12. ASSUME NEW w \in Workers, Conflicts(w) PROVE ApprovedInv'
  BY <1>12 DEF Conflicts, Breaks, Goes, issue, run, history, ApprovedInv,
    Begun, After, IssueTypeOK, RunTypeOK, NoteTypeOK, HistoryTypeOK
<1>13. ASSUME NEW w \in Workers, Dispatch(w) PROVE ApprovedInv'
  BY <1>13 DEF Dispatch, Goes, issue, run, history, ApprovedInv, Begun, After,
    IssueTypeOK, RunTypeOK, NoteTypeOK, HistoryTypeOK
<1>14. ASSUME NEW w \in Workers, RecordSent(w) PROVE ApprovedInv'
  BY <1>14 DEF RecordSent, GoesOn, Breaks, Goes, Marked, Holds, Reserved,
    issue, run, history, ApprovedInv, Begun, After, IssueTypeOK, RunTypeOK,
    NoteTypeOK, HistoryTypeOK
<1>15. ASSUME NEW w \in Workers, RecordFailed(w) PROVE ApprovedInv'
  BY <1>15 DEF RecordFailed, GoesOn, Breaks, Goes, Marked, Holds, issue, run,
    history, ApprovedInv, Begun, After, IssueTypeOK, RunTypeOK, NoteTypeOK,
    HistoryTypeOK
<1>16. ASSUME NEW w \in Workers, Sweep(w) PROVE ApprovedInv'
  <2>1. UNCHANGED <<status, edition, approved, mailed>>
    BY <1>16 DEF Sweep, issue, history
  <2>2. CASE Rest(w)
    BY <2>1, <2>2, ApprovedRest
  <2>3. CASE ~Rest(w)
    <3>1. /\ stage' = [stage EXCEPT ![w] = "settling"]
          /\ UNCHANGED <<job, saw, content>>
      BY <1>16, <2>3 DEF Sweep, Goes
    <3>2. stage[w] = "ending"
      BY <1>16 DEF Sweep
    <3> QED BY <2>1, <3>1, <3>2 DEF ApprovedInv, After, RunTypeOK
  <2> QED BY <2>2, <2>3
<1>17. ASSUME NEW w \in Workers, Settle(w) PROVE ApprovedInv'
  <2>1. stage[w] = "settling" /\ stage'[w] = "idle"
    BY <1>17 DEF Settle, Rest, Goes, RunTypeOK
  <2>2. ASSUME NEW v \in Workers, v # w
        PROVE  /\ stage'[v] = stage[v] /\ job'[v] = job[v]
               /\ saw'[v] = saw[v] /\ content'[v] = content[v]
    BY <1>17, <2>2 DEF Settle, Rest, Goes, RunTypeOK, NoteTypeOK
  <2>3. UNCHANGED <<edition, approved, mailed>>
    BY <1>17 DEF Settle, history
  <2>4. ASSUME NEW i \in Issues
        PROVE  status'[i] = status[i]
              \/ {status[i], status'[i]} \subseteq Begun
    BY <1>17, <2>1 DEF Settle, Outcome, ApprovedInv, After, Begun, IssueTypeOK,
      RunTypeOK
  <2>5. ASSUME NEW v \in Workers
        PROVE  /\ stage'[v] = "read" /\ ~saw'[v].moved =>
                    content'[v] = edition'[job'[v]]
               /\ stage'[v] \in After => /\ status'[job'[v]] \in Begun
                                        /\ content'[v] = approved'[job'[v]]
    <3>1. CASE v = w
      BY <2>1, <3>1 DEF After
    <3>2. CASE v # w
      <4>1. stage[v] \in After => job[v] \in Issues
        BY DEF After, RunTypeOK
      <4> QED BY <2>2, <2>3, <2>4, <3>2, <4>1 DEF ApprovedInv
    <3> QED BY <3>1, <3>2
  <2>6. ASSUME NEW i \in Issues
        PROVE  /\ status'[i] \in Begun \cup {"SCHEDULED"} =>
                    approved'[i] = edition'[i]
               /\ status'[i] = "NEEDS_APPROVAL" /\ approved'[i] # 0 =>
                    approved'[i] = edition'[i]
    BY <2>3, <2>4 DEF ApprovedInv
  <2>7. ASSUME NEW m \in mailed
        PROVE  status'[m[1]] \in Begun /\ approved[m[1]] = m[2]
    BY <2>4 DEF ApprovedInv, HistoryTypeOK
  <2> QED BY <2>3, <2>5, <2>6, <2>7 DEF ApprovedInv
<1>18. ASSUME NEW w \in Workers, Throws(w) PROVE ApprovedInv'
  BY <1>18 DEF Throws, Breaks, Goes, Fault, issue, run, history, ApprovedInv,
    Begun, After, IssueTypeOK, RunTypeOK, NoteTypeOK, HistoryTypeOK
<1>19. ASSUME NEW w \in Workers, Crash(w) PROVE ApprovedInv'
  BY <1>19 DEF Crash, Rest, Goes, Unread, Fault, issue, run, history,
    ApprovedInv, Begun, After, IssueTypeOK, RunTypeOK, NoteTypeOK,
    HistoryTypeOK
<1>20. ASSUME NEW w \in Workers, NEW i \in Issues, Find(w, i) PROVE
  ApprovedInv'
  BY <1>20 DEF Find, Goes, issue, run, history, ApprovedInv, Begun, After,
    IssueTypeOK, RunTypeOK, NoteTypeOK, HistoryTypeOK
<1>21. ASSUME NEW w \in Workers, NEW i \in Issues, SendNow(w, i) PROVE
  ApprovedInv'
  BY <1>21 DEF SendNow, Transition, Moves, Goes, Schedulable, issue, run,
    history, ApprovedInv, Begun, After, IssueTypeOK, RunTypeOK, NoteTypeOK,
    HistoryTypeOK
<1>22. ASSUME NEW i \in Issues, Patch(i) PROVE ApprovedInv'
  BY SMTT(30), <1>22 DEF Patch, Act, Transition, Moves, issue, run, history,
    ApprovedInv, Begun, After, IssueTypeOK, RunTypeOK, NoteTypeOK,
    HistoryTypeOK
<1>23. ASSUME NEW i \in Issues, Submit(i) PROVE ApprovedInv'
  BY SMTT(30), <1>23 DEF Submit, Transition, Moves, issue, run, history,
    ApprovedInv, Begun, After, IssueTypeOK, RunTypeOK, NoteTypeOK,
    HistoryTypeOK
<1>24. ASSUME NEW i \in Issues, Approve(i) PROVE ApprovedInv'
  BY SMTT(30), <1>24 DEF Approve, Transition, Moves, issue, run, history,
    ApprovedInv, Begun, After, IssueTypeOK, RunTypeOK, NoteTypeOK,
    HistoryTypeOK
<1>25. ASSUME NEW i \in Issues, Schedule(i) PROVE ApprovedInv'
  BY <1>25 DEF Schedule, Schedulable, Transition, Moves, issue, run, history,
    ApprovedInv, Begun, After, IssueTypeOK, RunTypeOK, NoteTypeOK,
    HistoryTypeOK
<1>26. ASSUME NEW i \in Issues, Cancel(i) PROVE ApprovedInv'
  BY SMTT(30), <1>26 DEF Cancel, Transition, Moves, issue, run, history,
    ApprovedInv, Begun, After, IssueTypeOK, RunTypeOK, NoteTypeOK,
    HistoryTypeOK
<1>27. ASSUME NEW i \in Issues, ExpireLease(i) \/ BecomeDue(i) PROVE UNCHANGED
  <<status, edition, approved, stage, job, saw, content, mailed>>
  BY <1>27 DEF ExpireLease, BecomeDue, issue, run, history
<1>28. ASSUME NEW s \in Subscribers, Leave(s) \/ Join(s) PROVE UNCHANGED
  <<status, edition, approved, stage, job, saw, content, mailed>>
  BY <1>28 DEF Leave, Join, issue, run, history
<1>29. ASSUME NewDay \/ Pause \/ ResumeWarmup PROVE UNCHANGED <<status,
  edition, approved, stage, job, saw, content, mailed>>
  BY <1>29 DEF NewDay, Pause, ResumeWarmup, issue, run, history
<1>30. CASE UNCHANGED vars
  BY <1>30 DEF vars, issue, run, history, ApprovedInv, Begun, After,
    IssueTypeOK, RunTypeOK, NoteTypeOK, HistoryTypeOK
<1>31. ASSUME UNCHANGED <<status, edition, approved, stage, job, saw, content,
  mailed>> PROVE ApprovedInv'
  BY <1>31 DEF ApprovedInv, Begun, After, IssueTypeOK, RunTypeOK, NoteTypeOK,
    HistoryTypeOK
<1> QED BY <1>1, <1>2, <1>3, <1>4, <1>5, <1>6, <1>7, <1>8, <1>9, <1>10, <1>11,
  <1>12, <1>13, <1>14, <1>15, <1>16, <1>17, <1>18, <1>19, <1>20, <1>21, <1>22,
  <1>23, <1>24, <1>25, <1>26, <1>27, <1>28, <1>29, <1>30, <1>31 DEF Next, Work

-----------------------------------------------------------------------------
LEMMA PairsFinite == IsFiniteSet(Pairs)
BY FS_Product DEF Pairs

LEMMA OnePairEach ==
  ASSUME NEW i \in Issues, NEW S \in SUBSET Subscribers
  PROVE  /\ {i} \X S \subseteq Pairs /\ IsFiniteSet({i} \X S)
         /\ Cardinality({i} \X S) = Cardinality(S)
<1>1. IsFiniteSet({i}) /\ Cardinality({i}) = 1
  BY FS_Singleton
<1>2. IsFiniteSet(S) /\ Cardinality(S) \in Nat
  BY FS_Subset, FS_CardinalityType
<1>3. IsFiniteSet({i} \X S) /\ Cardinality({i} \X S) = 1 * Cardinality(S)
  BY <1>1, <1>2, FS_Product
<1>4. {i} \X S \subseteq Pairs
  BY DEF Pairs
<1> QED BY <1>2, <1>3, <1>4

\* What is granted fits under the cap of the day.
LEMMA GrantFits ==
  ASSUME TypeOK, NEW n \in Nat, Granted(n) > 0, day \in 1 .. Len(Caps)
  PROVE  UsedToday + Granted(n) <= Caps[day]
<1>1. UsedToday \in Nat /\ Caps[day] \in Nat /\ ~(day > Len(Caps))
  BY DEF TypeOK, SendTypeOK, UsedToday
<1> HIDE DEF UsedToday
<1> QED BY <1>1 DEF Granted

LEMMA CapInductive ==
  ASSUME TypeOK, CapInv, [Next]_vars
  PROVE  CapInv'
<1> USE DEF TypeOK, Pairs, Days, LastDay
<1>1. ASSUME NEW w \in Workers, Reserve(w) PROVE CapInv'
  <2>1. PICK S \in SUBSET batch[w] :
          /\ Cardinality(S) = Granted(Cardinality(batch[w]))
          /\ on' = [p \in Pairs |->
                      IF p[1] = job[w] /\ p[2] \in S THEN day ELSE on[p]]
    BY <1>1 DEF Reserve
  <2> DEFINE n == Cardinality(batch[w])
             new == {job[w]} \X S
  <2>2. /\ batch[w] \subseteq Waiting(job[w]) /\ job[w] \in Issues
        /\ S \in SUBSET Subscribers /\ batch[w] \in SUBSET Subscribers
        /\ Granted(n) > 0 /\ UNCHANGED day
        /\ usedOn' = day /\ used' = UsedToday + Granted(n)
    BY <1>1 DEF Reserve, RunTypeOK
  <2>3. n \in Nat /\ Granted(n) \in Nat
    BY <2>2, GrantedType DEF TypeOK
  <2>4. /\ new \subseteq Pairs /\ IsFiniteSet(new)
        /\ Cardinality(new) = Granted(n)
    BY <2>1, <2>2, OnePairEach
  <2>5. ASSUME NEW p \in Pairs
        PROVE  /\ p \in new => on[p] = 0
               /\ on'[p] = IF p \in new THEN day ELSE on[p]
    <3>1. p \in new <=> p[1] = job[w] /\ p[2] \in S
      BY DEF Pairs
    <3>2. ASSUME p \in new PROVE on[p] = 0
      <4>1. p = <<job[w], p[2]>> /\ p[2] \in Waiting(job[w])
        BY <2>2, <3>1, <3>2 DEF Pairs
      <4> QED BY <4>1 DEF Waiting
    <3> QED BY <2>1, <3>1, <3>2
  <2>6. Attempts(day)' = Attempts(day) \cup new /\ Attempts(day) \cap new = {}
    BY <2>2, <2>4, <2>5 DEF Attempts, SendTypeOK
  <2>7. IsFiniteSet(Attempts(day)) /\ Cardinality(Attempts(day)) \in Nat
    BY PairsFinite, FS_Subset, FS_CardinalityType DEF Attempts
  <2>8. Cardinality(Attempts(day)') = UsedToday + Granted(n)
    <3>1. Cardinality(Attempts(day) \cup new)
            = Cardinality(Attempts(day)) + Granted(n)
      <4> HIDE DEF new, n
      <4>1. Cardinality(Attempts(day) \cup new)
              = Cardinality(Attempts(day)) + Cardinality(new)
                - Cardinality(Attempts(day) \cap new)
        BY <2>4, <2>7, FS_Union
      <4>2. Cardinality(Attempts(day) \cap new) = 0
        BY <2>6, FS_EmptySet
      <4> QED BY <2>3, <2>4, <2>7, <4>1, <4>2
    <3> QED BY <2>6, <3>1 DEF CapInv
  <2>9. UsedToday' = UsedToday + Granted(n)
    BY <2>2 DEF UsedToday
  <2>10. ASSUME NEW d \in 1 .. Len(Caps)
         PROVE  Cardinality({p \in Pairs : on'[p] = d}) <= Caps[d]
    <3>1. CASE d = day
      <4>1. UsedToday + Granted(n) <= Caps[day]
        <5> HIDE DEF n
        <5> QED BY <2>2, <2>3, <3>1, GrantFits DEF TypeOK
      <4>2. {p \in Pairs : on'[p] = d} = Attempts(day)'
        BY <2>2, <3>1 DEF Attempts
      <4> QED BY <2>8, <3>1, <4>1, <4>2
    <3>2. CASE d # day
      <4>1. {p \in Pairs : on'[p] = d} = {p \in Pairs : on[p] = d}
        BY <2>5, <3>2
      <4> QED BY <4>1 DEF CapInv, CapKept
    <3> QED BY <3>1, <3>2
  <2>11. /\ \A p \in Pairs : on'[p] <= day'
         /\ usedOn' <= day'
    BY <2>2, <2>5 DEF CapInv, SendTypeOK
  <2> QED BY <2>8, <2>9, <2>10, <2>11 DEF CapInv, CapKept
<1>2. ASSUME NewDay PROVE CapInv'
  <2>1. UNCHANGED <<on, usedOn, used>> /\ day' \in {day, day + 1}
    BY <1>2 DEF NewDay, sends, domain
  <2>2. CASE day' = day
    BY <2>1, <2>2 DEF CapInv, CapKept, Attempts, UsedToday
  <2>3. CASE day' = day + 1
    <3>1. /\ \A p \in Pairs : on[p] <= day /\ on[p] \in Nat
          /\ usedOn <= day /\ usedOn \in Nat /\ day \in Nat
      BY DEF CapInv, SendTypeOK
    <3>2. /\ \A p \in Pairs : on[p] <= day + 1 /\ on[p] # day + 1
          /\ usedOn <= day + 1 /\ usedOn # day + 1
      BY <3>1
    <3>3. Attempts(day)' = {}
      BY <2>1, <2>3, <3>2 DEF Attempts
    <3>4. UsedToday' = 0
      BY <2>1, <2>3, <3>2 DEF UsedToday
    <3>5. CapKept'
      BY <2>1 DEF CapInv, CapKept
    <3> QED BY <2>1, <2>3, <3>2, <3>3, <3>4, <3>5, FS_EmptySet DEF CapInv
  <2> QED BY <2>1, <2>2, <2>3
<1>3. ASSUME NEW w \in Workers, ReadIssue(w) \/ Claim(w) \/ FailInterrupted(w)
  \/ RenewForPage(w) \/ ListPage(w) \/ ReadQueue(w) \/ NoMore(w) \/
  RenderBatch(w) \/ Recheck(w) \/ NoCapacity(w) \/ Conflicts(w) \/ Dispatch(w)
  \/ RecordSent(w) \/ RecordFailed(w) \/ Sweep(w) \/ Settle(w) \/ Throws(w) \/
  Crash(w) PROVE UNCHANGED <<on, day, usedOn, used>>
  BY <1>3 DEF ReadIssue, Claim, FailInterrupted, RenewForPage, ListPage,
    ReadQueue, NoMore, RenderBatch, Recheck, NoCapacity, Conflicts, Dispatch,
    RecordSent, RecordFailed, Sweep, Settle, Throws, Crash, Breaks, GoesOn,
    Rest, sends, domain
<1>4. ASSUME NEW w \in Workers, NEW i \in Issues, Find(w, i) \/ SendNow(w, i)
  PROVE UNCHANGED <<on, day, usedOn, used>>
  BY <1>4 DEF Find, SendNow, Transition, sends, domain
<1>5. ASSUME NEW i \in Issues, ExpireLease(i) \/ BecomeDue(i) \/ Patch(i) \/
  Submit(i) \/ Approve(i) \/ Schedule(i) \/ Cancel(i) PROVE UNCHANGED <<on,
  day, usedOn, used>>
  BY <1>5 DEF ExpireLease, BecomeDue, Patch, Submit, Approve, Schedule, Cancel,
    Transition, sends, domain
<1>6. ASSUME NEW s \in Subscribers, Leave(s) \/ Join(s) PROVE UNCHANGED <<on,
  day, usedOn, used>>
  BY <1>6 DEF Leave, Join, sends, domain
<1>7. ASSUME Pause \/ ResumeWarmup PROVE UNCHANGED <<on, day, usedOn, used>>
  BY <1>7 DEF Pause, ResumeWarmup, sends, domain
<1>8. CASE UNCHANGED vars
  BY <1>8 DEF vars, sends, domain, CapInv, CapKept, Attempts, UsedToday
<1>9. ASSUME UNCHANGED <<on, day, usedOn, used>> PROVE CapInv'
  BY <1>9 DEF CapInv, CapKept, Attempts, UsedToday
<1> QED BY <1>1, <1>2, <1>3, <1>4, <1>5, <1>6, <1>7, <1>8, <1>9 DEF Next, Work

-----------------------------------------------------------------------------
\* A page ends where the subscribers do, or holds everyone up to its last.
LEMMA PageClosed ==
  ASSUME TypeOK, NEW w \in Workers, NEW last \in Page(w), NEW s \in active,
         s > cursor[w], s <= last
  PROVE  s \in Page(w)
<1> DEFINE rest == {r \in active : r > cursor[w]}
           Below(t) == {r \in rest : r < t}
<1>1. rest \subseteq Subscribers /\ IsFiniteSet(rest)
  BY FS_Subset DEF TypeOK, SendTypeOK
<1>2. last \in rest /\ Cardinality(Below(last)) < BatchSize
  BY DEF Page
<1>3. last \in Nat /\ s \in Nat /\ rest \subseteq Nat /\ s \in rest
  BY <1>1, <1>2 DEF TypeOK, SendTypeOK
<1>4. Below(s) \subseteq Below(last) /\ Below(last) \subseteq rest
  BY <1>3
<1>5. /\ IsFiniteSet(Below(last)) /\ Cardinality(Below(last)) \in Nat
      /\ IsFiniteSet(Below(s)) /\ Cardinality(Below(s)) \in Nat
      /\ Cardinality(Below(s)) <= Cardinality(Below(last))
  <2> HIDE DEF Below, rest
  <2> QED BY <1>1, <1>4, FS_Subset, FS_CardinalityType
<1>6. Cardinality(Below(s)) < BatchSize
  BY <1>2, <1>5
<1> QED BY <1>3, <1>6 DEF Page

LEMMA PageComplete ==
  ASSUME TypeOK, NEW w \in Workers, Cardinality(Page(w)) < BatchSize,
         NEW s \in active, s > cursor[w]
  PROVE  s \in Page(w)
<1> DEFINE rest == {r \in active : r > cursor[w]}
           Below(t) == {r \in rest : r < t}
           missed == rest \ Page(w)
           Less == {x \in Nat \X Nat : x[1] < x[2]}
<1>1. /\ rest \subseteq Subscribers /\ rest \subseteq Nat
      /\ IsFiniteSet(rest) /\ Page(w) \subseteq rest
  BY FS_Subset DEF TypeOK, SendTypeOK, Page
<1>2. SUFFICES ASSUME missed # {} PROVE FALSE
  BY <1>1 DEF Page
<1>3. PICK m \in missed : \A r \in missed : <<r, m>> \notin Less
  <2>1. IsWellFoundedOn(Less, Nat)
    BY NatLessThanWellFounded DEF OpToRel
  <2>2. missed \subseteq Nat
    BY <1>1
  <2> HIDE DEF Less, missed
  <2> QED BY <1>2, <2>1, <2>2, WFMin
<1>4. Below(m) \subseteq Page(w)
  <2>1. ASSUME NEW r \in Below(m), r \notin Page(w) PROVE FALSE
    <3>1. r \in missed /\ r \in Nat /\ m \in Nat /\ r < m
      BY <1>1, <2>1
    <3>2. <<r, m>> \in Less
      BY <3>1
    <3> QED BY <1>3, <3>1, <3>2
  <2> QED BY <2>1
<1>5. /\ Cardinality(Page(w)) \in Nat /\ Cardinality(Below(m)) \in Nat
      /\ Cardinality(Below(m)) <= Cardinality(Page(w))
  <2>1. IsFiniteSet(Page(w))
    <3> HIDE DEF rest
    <3> QED BY <1>1, FS_Subset
  <2> HIDE DEF Below
  <2> QED BY <1>4, <2>1, FS_Subset, FS_CardinalityType
<1>6. Cardinality(Below(m)) < BatchSize
  BY <1>5
<1>7. m \in Page(w)
  BY <1>6 DEF Page
<1> QED BY <1>7

\* What a step keeps that loses no send, gains no subscriber for an issue,
\* and brings none to its end.
LEMMA ListKept ==
  ASSUME TypeOK, ListInv, UNCHANGED on,
         \A i \in Issues : /\ loyal'[i] \subseteq loyal[i] \cap active'
                           /\ status'[i] = "SENT" => status[i] = "SENT"
                           /\ status'[i] \notin Begun =>
                                status[i] \notin Begun,
         \A p \in Pairs : /\ send[p] # "none" => send'[p] # "none"
                          /\ send[p] \in {"SENT", "FAILED"} =>
                               send'[p] \in {"SENT", "FAILED"}
  PROVE  /\ \A i \in Issues : /\ IssueListed(i)'
                              /\ Listed(i) => Listed(i)'
                              /\ Dealt(i) => Dealt(i)'
         /\ \A v \in Workers :
              /\ stage'[v] = stage[v] /\ job'[v] = job[v]
              /\ cursor'[v] = cursor[v] /\ left'[v] = left[v]
              => RunListed(v)'
<1>1. ASSUME NEW i \in Issues PROVE loyal[i] \subseteq Subscribers
  BY DEF TypeOK, HistoryTypeOK
<1>2. ASSUME NEW i \in Issues
      PROVE  (Listed(i) => Listed(i)') /\ (Dealt(i) => Dealt(i)')
  BY <1>1 DEF Listed, Dealt, Pairs
<1>3. ASSUME NEW i \in Issues PROVE IssueListed(i)'
  BY <1>2 DEF ListInv, IssueListed
<1>4. ASSUME NEW v \in Workers, stage'[v] = stage[v], job'[v] = job[v],
             cursor'[v] = cursor[v], left'[v] = left[v]
      PROVE  RunListed(v)'
  <2>1. CASE stage[v] = "idle"
    BY <1>4, <2>1 DEF ListInv, RunListed, Full
  <2>2. CASE stage[v] # "idle"
    <3>1. job[v] \in Issues
      BY <2>2 DEF TypeOK, RunTypeOK
    <3>2. \A s \in loyal'[job[v]] :
            s <= cursor[v] => send'[<<job[v], s>>] # "none"
      BY <1>1, <2>2, <3>1 DEF ListInv, RunListed, Pairs
    <3> QED BY <1>2, <1>4, <2>2, <3>1, <3>2 DEF ListInv, RunListed
  <2> QED BY <2>1, <2>2
<1> QED BY <1>2, <1>3, <1>4

\* A step of a run that neither begins nor completes its list.
LEMMA ListStep ==
  ASSUME TypeOK, ListInv, NEW w \in Workers,
         UNCHANGED <<on, loyal, active, status>>,
         \A p \in Pairs : /\ send[p] # "none" => send'[p] # "none"
                          /\ send[p] \in {"SENT", "FAILED"} =>
                               send'[p] \in {"SENT", "FAILED"},
         \A v \in Workers : v # w =>
           /\ stage'[v] = stage[v] /\ job'[v] = job[v]
           /\ cursor'[v] = cursor[v] /\ left'[v] = left[v],
         \/ stage'[w] = "idle" /\ cursor'[w] = 0
         \/ /\ stage[w] # "idle" /\ job'[w] = job[w]
            /\ cursor'[w] = cursor[w]
            /\ stage'[w] \notin {"idle", "settling"}
            /\ stage'[w] \in Before => stage[w] \in Before
            /\ stage'[w] \in Full => stage[w] \in Full
  PROVE  ListInv'
<1>1. \A i \in Issues : loyal'[i] \subseteq loyal[i] \cap active'
  BY DEF ListInv, IssueListed
<1>2. /\ \A i \in Issues : IssueListed(i)' /\ (Listed(i) => Listed(i)')
      /\ \A v \in Workers : v # w => RunListed(v)'
  BY <1>1, ListKept
<1>3. RunListed(w)'
  <2>1. CASE stage'[w] = "idle" /\ cursor'[w] = 0
    BY <2>1 DEF RunListed, Full
  <2>2. CASE ~(stage'[w] = "idle" /\ cursor'[w] = 0)
    <3>1. /\ job[w] \in Issues /\ loyal[job[w]] \subseteq Subscribers
          /\ job'[w] = job[w] /\ cursor'[w] = cursor[w]
          /\ stage'[w] \notin {"idle", "settling"} /\ stage[w] # "idle"
      BY <2>2 DEF TypeOK, RunTypeOK, HistoryTypeOK
    <3>2. \A s \in loyal'[job'[w]] :
            s <= cursor'[w] => send'[<<job'[w], s>>] # "none"
      BY <3>1 DEF ListInv, RunListed, Pairs
    <3> QED BY <1>2, <2>2, <3>1, <3>2 DEF ListInv, RunListed
  <2> QED BY <2>1, <2>2
<1> QED BY <1>2, <1>3 DEF ListInv

LEMMA ListInductive ==
  ASSUME TypeOK, MailInv, ApprovedInv, ListInv, [Next]_vars
  PROVE  ListInv'
<1> USE DEF TypeOK, Pairs
<1>1. ASSUME NEW w \in Workers, ReadIssue(w) PROVE ListInv'
  <2>1. /\ UNCHANGED <<on, loyal, active, status>>
        /\ \A v \in Workers : v # w =>
             /\ stage'[v] = stage[v] /\ job'[v] = job[v]
             /\ cursor'[v] = cursor[v] /\ left'[v] = left[v]
    BY ZenonT(60), <1>1 DEF ReadIssue, Rest, Goes, RunTypeOK, NoteTypeOK,
      issue, sends, run
  <2>2. ASSUME NEW p \in Pairs
        PROVE  /\ send[p] # "none" => send'[p] # "none"
               /\ send[p] \in {"SENT", "FAILED"} =>
                    send'[p] \in {"SENT", "FAILED"}
    BY ZenonT(60), <1>1 DEF ReadIssue, Rest, Goes, SendTypeOK, sends, run
  <2>3. \/ stage'[w] = "idle" /\ cursor'[w] = 0
        \/ /\ stage[w] # "idle" /\ job'[w] = job[w]
           /\ cursor'[w] = cursor[w]
           /\ stage'[w] \notin {"idle", "settling"}
           /\ stage'[w] \in Before => stage[w] \in Before
           /\ stage'[w] \in Full => stage[w] \in Full
    BY ZenonT(60), <1>1 DEF ReadIssue, Rest, Goes, RunTypeOK, Before, Full, run
  <2> QED BY <2>1, <2>2, <2>3, ListStep
<1>2. ASSUME NEW w \in Workers, Claim(w) PROVE ListInv'
  <2>1. UNCHANGED <<on, send, active>>
    BY <1>2 DEF Claim, sends
  <2>2. CASE Rest(w) /\ UNCHANGED <<status, token, until, loyal>>
    <3>1. stage'[w] = "idle" /\ cursor'[w] = 0 /\ \A v \in Workers : v # w =>
                 /\ stage'[v] = stage[v] /\ job'[v] = job[v]
                 /\ cursor'[v] = cursor[v] /\ left'[v] = left[v]
      BY <2>2 DEF Rest, Goes, RunTypeOK, NoteTypeOK
    <3> QED BY <2>1, <2>2, <3>1, ListStep
  <2>3. CASE ~(Rest(w) /\ UNCHANGED <<status, token, until, loyal>>)
    <3> DEFINE c == job[w]
    <3>1. /\ status' = [status EXCEPT ![c] = "SENDING"]
          /\ loyal' = [loyal EXCEPT ![c] =
                         IF status[c] = "SCHEDULED" THEN active ELSE @]
          /\ stage' = [stage EXCEPT ![w] = "claimed"] /\ stage[w] = "read"
          /\ UNCHANGED <<job, cursor, left>> /\ c \in Issues
      BY <1>2, <2>3 DEF Claim, Goes, RunTypeOK
    <3>2. CASE status[c] = "SCHEDULED"
      <4>1. \A s \in Subscribers : on[<<c, s>>] = 0
        BY <3>1, <3>2 DEF ListInv, IssueListed, Begun
      <4>2. ASSUME NEW i \in Issues PROVE IssueListed(i)'
        <5>1. CASE i = c
          BY <2>1, <3>1, <3>2, <4>1, <5>1 DEF IssueListed, HistoryTypeOK,
            IssueTypeOK
        <5>2. CASE i # c
          BY <2>1, <3>1, <5>2 DEF ListInv, IssueListed, Listed, Dealt,
            IssueTypeOK, HistoryTypeOK
        <5> QED BY <5>1, <5>2
      <4>3. ASSUME NEW v \in Workers PROVE RunListed(v)'
        <5>1. CASE stage[v] \in Before
          <6>1. cursor'[v] = 0 /\ stage'[v] \notin Full \cup {"settling"}
            BY <3>1, <5>1 DEF ListInv, RunListed, Before, Full, RunTypeOK
          <6>2. stage'[v] # "idle" => job'[v] \in Issues
            BY <3>1, <5>1 DEF RunTypeOK
          <6>3. ASSUME NEW i \in Issues
                PROVE  \A s \in loyal'[i] : ~(s <= 0)
            <7>1. loyal'[i] \subseteq Subscribers
              BY <3>1 DEF HistoryTypeOK, SendTypeOK
            <7>2. ASSUME NEW s \in Subscribers PROVE ~(s <= 0)
              <8>1. s \in Nat \ {0}
                BY SendAssumption
              <8> QED BY <8>1
            <7> QED BY <7>1, <7>2
          <6> QED BY <6>1, <6>2, <6>3 DEF RunListed
        <5>2. CASE stage[v] \notin Before
          <6>1. stage[v] \in After /\ v # w
            BY <3>1, <5>2 DEF Before, After, RunTypeOK
          <6>2. job[v] \in Issues /\ job[v] # c
            BY <3>2, <6>1 DEF ApprovedInv, Begun, RunTypeOK, After
          <6>3. /\ stage'[v] = stage[v] /\ job'[v] = job[v]
                /\ cursor'[v] = cursor[v] /\ left'[v] = left[v]
                /\ loyal'[job[v]] = loyal[job[v]]
            BY <3>1, <6>1, <6>2 DEF RunTypeOK, HistoryTypeOK
          <6> QED BY <2>1, <6>3 DEF ListInv, RunListed, Listed, Dealt
        <5> QED BY <5>1, <5>2
      <4> QED BY <4>2, <4>3 DEF ListInv
    <3>3. CASE status[c] # "SCHEDULED"
      <4>1. UNCHANGED loyal /\ status[c] \in Begun
        <5>1. Unchanged(w)
          BY <1>2, <2>3 DEF Claim
        <5>2. status[c] \in {"SCHEDULED", "SENDING"}
          BY <5>1 DEF Unchanged, NoteTypeOK
        <5>3. loyal' = [loyal EXCEPT ![c] = loyal[c]]
          BY <3>1, <3>3
        <5> QED BY <3>3, <5>2, <5>3 DEF Begun, HistoryTypeOK
      <4>2. \A i \in Issues :
              /\ loyal'[i] \subseteq loyal[i] \cap active'
              /\ status'[i] = "SENT" => status[i] = "SENT"
              /\ status'[i] \notin Begun => status[i] \notin Begun
        BY <2>1, <3>1, <4>1 DEF ListInv, IssueListed, IssueTypeOK, Begun
      <4>3. /\ \A i \in Issues : IssueListed(i)'
            /\ \A v \in Workers : v # w => RunListed(v)'
        BY <2>1, <3>1, <4>2, ListKept DEF RunTypeOK
      <4>4. RunListed(w)'
        <5>1. stage'[w] = "claimed" /\ cursor'[w] = cursor[w] /\ job'[w] = c
          BY <3>1 DEF RunTypeOK
        <5> QED BY <2>1, <3>1, <4>1, <5>1 DEF ListInv, RunListed, Before, Full
      <4> QED BY <4>3, <4>4 DEF ListInv
    <3> QED BY <3>2, <3>3
  <2> QED BY <2>2, <2>3
<1>3. ASSUME NEW w \in Workers, FailInterrupted(w) PROVE ListInv'
  <2>1. /\ UNCHANGED <<on, loyal, active, status>>
        /\ \A v \in Workers : v # w =>
             /\ stage'[v] = stage[v] /\ job'[v] = job[v]
             /\ cursor'[v] = cursor[v] /\ left'[v] = left[v]
    BY <1>3 DEF FailInterrupted, Goes, Marked, RunTypeOK, NoteTypeOK, issue,
      sends, run
  <2>2. ASSUME NEW p \in Pairs
        PROVE  /\ send[p] # "none" => send'[p] # "none"
               /\ send[p] \in {"SENT", "FAILED"} =>
                    send'[p] \in {"SENT", "FAILED"}
    BY <1>3 DEF FailInterrupted, Goes, Marked, Reserved, SendTypeOK, sends, run
  <2>3. \/ stage'[w] = "idle" /\ cursor'[w] = 0
        \/ /\ stage[w] # "idle" /\ job'[w] = job[w]
           /\ cursor'[w] = cursor[w]
           /\ stage'[w] \notin {"idle", "settling"}
           /\ stage'[w] \in Before => stage[w] \in Before
           /\ stage'[w] \in Full => stage[w] \in Full
    BY <1>3 DEF FailInterrupted, Goes, Marked, RunTypeOK, Before, Full, run
  <2> QED BY <2>1, <2>2, <2>3, ListStep
<1>4. ASSUME NEW w \in Workers, RenewForPage(w) PROVE ListInv'
  <2>1. /\ UNCHANGED <<on, loyal, active, status>>
        /\ \A v \in Workers : v # w =>
             /\ stage'[v] = stage[v] /\ job'[v] = job[v]
             /\ cursor'[v] = cursor[v] /\ left'[v] = left[v]
    BY <1>4 DEF RenewForPage, Goes, RunTypeOK, NoteTypeOK, issue, sends, run
  <2>2. ASSUME NEW p \in Pairs
        PROVE  /\ send[p] # "none" => send'[p] # "none"
               /\ send[p] \in {"SENT", "FAILED"} =>
                    send'[p] \in {"SENT", "FAILED"}
    BY <1>4 DEF RenewForPage, Goes, SendTypeOK, sends, run
  <2>3. \/ stage'[w] = "idle" /\ cursor'[w] = 0
        \/ /\ stage[w] # "idle" /\ job'[w] = job[w]
           /\ cursor'[w] = cursor[w]
           /\ stage'[w] \notin {"idle", "settling"}
           /\ stage'[w] \in Before => stage[w] \in Before
           /\ stage'[w] \in Full => stage[w] \in Full
    BY <1>4 DEF RenewForPage, Goes, RunTypeOK, Before, Full, run
  <2> QED BY <2>1, <2>2, <2>3, ListStep
<1>5. ASSUME NEW w \in Workers, ListPage(w) PROVE ListInv'
  <2>1. /\ UNCHANGED <<on, loyal, active, status, job, left>>
        /\ stage[w] = "paging" /\ job[w] \in Issues
        /\ \A v \in Workers : v # w =>
             /\ stage'[v] = stage[v] /\ job'[v] = job[v]
             /\ cursor'[v] = cursor[v] /\ left'[v] = left[v]
    BY <1>5 DEF ListPage, Goes, RunTypeOK, issue
  <2>2. send' = Marked(job[w], {s \in Page(w) : send[<<job[w], s>>] = "none"},
                       "QUEUED")
    BY <1>5 DEF ListPage
  <2>3. \A p \in Pairs : /\ send[p] # "none" => send'[p] # "none"
                         /\ send[p] \in {"SENT", "FAILED"} =>
                              send'[p] \in {"SENT", "FAILED"}
    BY <2>2 DEF Marked
  <2>4. /\ \A i \in Issues : IssueListed(i)'
        /\ \A v \in Workers : v # w => RunListed(v)'
    BY <2>1, <2>3, ListKept DEF ListInv, IssueListed
  <2>5. /\ loyal[job[w]] \subseteq active /\ active \subseteq Subscribers
        /\ active \subseteq Nat /\ cursor[w] \in Nat
        /\ \A s \in loyal[job[w]] :
             s <= cursor[w] => send[<<job[w], s>>] # "none"
    <3>1. IssueListed(job[w]) /\ RunListed(w)
      BY <2>1 DEF ListInv
    <3>2. active \subseteq Subscribers /\ active \subseteq Nat
      BY SendAssumption DEF SendTypeOK
    <3>3. cursor[w] \in Nat
      <4>1. cursor[w] \in Subscribers \cup {0}
        BY DEF RunTypeOK
      <4>2. Subscribers \subseteq Nat
        BY SendAssumption
      <4>3. CASE cursor[w] = 0
        BY <4>3
      <4>4. CASE cursor[w] \in Subscribers
        BY <4>2, <4>4
      <4> QED BY <4>1, <4>3, <4>4
    <3> QED BY <2>1, <3>1, <3>2, <3>3 DEF IssueListed, RunListed
  <2>6. ASSUME NEW s \in loyal[job[w]], s <= cursor[w] \/ s \in Page(w)
        PROVE  send'[<<job[w], s>>] # "none"
    BY <2>1, <2>2, <2>3, <2>5, <2>6 DEF Marked
  <2>7. CASE Cardinality(Page(w)) < BatchSize
    <3>1. ASSUME NEW s \in loyal[job[w]] PROVE send'[<<job[w], s>>] # "none"
      <4>1. s \in active /\ s \in Nat
        BY <2>5
      <4>2. s > cursor[w] => s \in Page(w)
        BY <2>7, <4>1, PageComplete DEF TypeOK
      <4> QED BY <2>5, <2>6, <4>1, <4>2
    <3>2. stage'[w] = "queueing"
      BY <1>5, <2>7 DEF ListPage, Goes, RunTypeOK
    <3>3. RunListed(w)'
      BY <2>1, <3>1, <3>2 DEF RunListed, Listed, Before
    <3> QED BY <2>4, <3>3 DEF ListInv
  <2>8. CASE ~(Cardinality(Page(w)) < BatchSize)
    <3>1. PICK last \in Page(w) : cursor' = [cursor EXCEPT ![w] = last]
      BY <1>5, <2>8 DEF ListPage
    <3>2. stage'[w] = "listing" /\ cursor'[w] = last
      BY <1>5, <2>8, <3>1 DEF ListPage, Goes, RunTypeOK
    <3>3. ASSUME NEW s \in loyal[job[w]], s <= last
          PROVE  send'[<<job[w], s>>] # "none"
      <4>1. s \in active /\ s \in Nat
        BY <2>5
      <4>2. s > cursor[w] => s \in Page(w)
        BY <3>3, <4>1, PageClosed DEF TypeOK
      <4> QED BY <2>5, <2>6, <4>1, <4>2
    <3>4. RunListed(w)'
      BY <2>1, <3>2, <3>3 DEF RunListed, Before, Full
    <3> QED BY <2>4, <3>4 DEF ListInv
  <2> QED BY <2>7, <2>8
<1>6. ASSUME NEW w \in Workers, ReadQueue(w) PROVE ListInv'
  <2>1. /\ UNCHANGED <<on, loyal, active, status>>
        /\ \A v \in Workers : v # w =>
             /\ stage'[v] = stage[v] /\ job'[v] = job[v]
             /\ cursor'[v] = cursor[v] /\ left'[v] = left[v]
    BY <1>6 DEF ReadQueue, Goes, RunTypeOK, NoteTypeOK, issue, sends, run
  <2>2. ASSUME NEW p \in Pairs
        PROVE  /\ send[p] # "none" => send'[p] # "none"
               /\ send[p] \in {"SENT", "FAILED"} =>
                    send'[p] \in {"SENT", "FAILED"}
    BY <1>6 DEF ReadQueue, Goes, Waiting, SendTypeOK, sends, run
  <2>3. \/ stage'[w] = "idle" /\ cursor'[w] = 0
        \/ /\ stage[w] # "idle" /\ job'[w] = job[w]
           /\ cursor'[w] = cursor[w]
           /\ stage'[w] \notin {"idle", "settling"}
           /\ stage'[w] \in Before => stage[w] \in Before
           /\ stage'[w] \in Full => stage[w] \in Full
    BY <1>6 DEF ReadQueue, Goes, RunTypeOK, Before, Full, run
  <2> QED BY <2>1, <2>2, <2>3, ListStep
<1>7. ASSUME NEW w \in Workers, NoMore(w) PROVE ListInv'
  <2>1. /\ UNCHANGED <<on, loyal, active, status>>
        /\ \A v \in Workers : v # w =>
             /\ stage'[v] = stage[v] /\ job'[v] = job[v]
             /\ cursor'[v] = cursor[v] /\ left'[v] = left[v]
    BY <1>7 DEF NoMore, Goes, RunTypeOK, NoteTypeOK, issue, sends, run
  <2>2. ASSUME NEW p \in Pairs
        PROVE  /\ send[p] # "none" => send'[p] # "none"
               /\ send[p] \in {"SENT", "FAILED"} =>
                    send'[p] \in {"SENT", "FAILED"}
    BY <1>7 DEF NoMore, Goes, SendTypeOK, sends, run
  <2>3. \/ stage'[w] = "idle" /\ cursor'[w] = 0
        \/ /\ stage[w] # "idle" /\ job'[w] = job[w]
           /\ cursor'[w] = cursor[w]
           /\ stage'[w] \notin {"idle", "settling"}
           /\ stage'[w] \in Before => stage[w] \in Before
           /\ stage'[w] \in Full => stage[w] \in Full
    BY <1>7 DEF NoMore, Goes, RunTypeOK, Before, Full, run
  <2> QED BY <2>1, <2>2, <2>3, ListStep
<1>8. ASSUME NEW w \in Workers, RenderBatch(w) PROVE ListInv'
  <2>1. /\ UNCHANGED <<on, loyal, active, status>>
        /\ \A v \in Workers : v # w =>
             /\ stage'[v] = stage[v] /\ job'[v] = job[v]
             /\ cursor'[v] = cursor[v] /\ left'[v] = left[v]
    BY <1>8 DEF RenderBatch, Goes, RunTypeOK, NoteTypeOK, issue, sends, run
  <2>2. ASSUME NEW p \in Pairs
        PROVE  /\ send[p] # "none" => send'[p] # "none"
               /\ send[p] \in {"SENT", "FAILED"} =>
                    send'[p] \in {"SENT", "FAILED"}
    BY <1>8 DEF RenderBatch, Goes, SendTypeOK, sends, run
  <2>3. \/ stage'[w] = "idle" /\ cursor'[w] = 0
        \/ /\ stage[w] # "idle" /\ job'[w] = job[w]
           /\ cursor'[w] = cursor[w]
           /\ stage'[w] \notin {"idle", "settling"}
           /\ stage'[w] \in Before => stage[w] \in Before
           /\ stage'[w] \in Full => stage[w] \in Full
    BY <1>8 DEF RenderBatch, Goes, RunTypeOK, Before, Full, run
  <2> QED BY <2>1, <2>2, <2>3, ListStep
<1>9. ASSUME NEW w \in Workers, Recheck(w) PROVE ListInv'
  <2>1. /\ UNCHANGED <<on, loyal, active, status>>
        /\ \A v \in Workers : v # w =>
             /\ stage'[v] = stage[v] /\ job'[v] = job[v]
             /\ cursor'[v] = cursor[v] /\ left'[v] = left[v]
    BY <1>9 DEF Recheck, Goes, Marked, RunTypeOK, NoteTypeOK, issue, sends, run
  <2>2. ASSUME NEW p \in Pairs
        PROVE  /\ send[p] # "none" => send'[p] # "none"
               /\ send[p] \in {"SENT", "FAILED"} =>
                    send'[p] \in {"SENT", "FAILED"}
    BY <1>9 DEF Recheck, Goes, Marked, Waiting, SendTypeOK, sends, run
  <2>3. \/ stage'[w] = "idle" /\ cursor'[w] = 0
        \/ /\ stage[w] # "idle" /\ job'[w] = job[w]
           /\ cursor'[w] = cursor[w]
           /\ stage'[w] \notin {"idle", "settling"}
           /\ stage'[w] \in Before => stage[w] \in Before
           /\ stage'[w] \in Full => stage[w] \in Full
    BY <1>9 DEF Recheck, Goes, Marked, RunTypeOK, Before, Full, run
  <2> QED BY <2>1, <2>2, <2>3, ListStep
<1>10. ASSUME NEW w \in Workers, Reserve(w) PROVE ListInv'
  <2>1. PICK S \in SUBSET batch[w] :
          on' = [p \in Pairs |->
                  IF p[1] = job[w] /\ p[2] \in S THEN day ELSE on[p]]
    BY <1>10 DEF Reserve
  <2>2. /\ UNCHANGED <<send, loyal, active, status, job, cursor, left>>
        /\ stage[w] = "checked" /\ stage' = [stage EXCEPT ![w] = "reserved"]
        /\ job[w] \in Issues /\ status[job[w]] \in Begun
    BY <1>10 DEF Reserve, Goes, HoldsLive, Holds, RunTypeOK, Begun, issue
  <2>3. Listed(job[w])
    BY <2>2 DEF ListInv, RunListed, Full
  <2>4. ASSUME NEW i \in Issues, i # job[w]
        PROVE  \A s \in Subscribers : on'[<<i, s>>] = on[<<i, s>>]
    BY <2>1, <2>4
  <2>5. ASSUME NEW i \in Issues PROVE IssueListed(i)'
    <3>1. CASE i = job[w]
      BY <2>2, <2>3, <3>1 DEF ListInv, IssueListed, Listed, Dealt
    <3>2. CASE i # job[w]
      BY <2>2, <2>4, <3>2 DEF ListInv, IssueListed, Listed, Dealt
    <3> QED BY <3>1, <3>2
  <2>6. ASSUME NEW v \in Workers PROVE RunListed(v)'
    BY <2>2, <2>3 DEF ListInv, RunListed, Listed, Dealt, Before, Full,
      RunTypeOK
  <2> QED BY <2>5, <2>6 DEF ListInv
<1>11. ASSUME NEW w \in Workers, NoCapacity(w) PROVE ListInv'
  <2>1. /\ UNCHANGED <<on, loyal, active, status>>
        /\ \A v \in Workers : v # w =>
             /\ stage'[v] = stage[v] /\ job'[v] = job[v]
             /\ cursor'[v] = cursor[v] /\ left'[v] = left[v]
    BY <1>11 DEF NoCapacity, Breaks, Goes, RunTypeOK, NoteTypeOK, issue, sends,
      run
  <2>2. ASSUME NEW p \in Pairs
        PROVE  /\ send[p] # "none" => send'[p] # "none"
               /\ send[p] \in {"SENT", "FAILED"} =>
                    send'[p] \in {"SENT", "FAILED"}
    BY <1>11 DEF NoCapacity, Breaks, Goes, SendTypeOK, sends, run
  <2>3. \/ stage'[w] = "idle" /\ cursor'[w] = 0
        \/ /\ stage[w] # "idle" /\ job'[w] = job[w]
           /\ cursor'[w] = cursor[w]
           /\ stage'[w] \notin {"idle", "settling"}
           /\ stage'[w] \in Before => stage[w] \in Before
           /\ stage'[w] \in Full => stage[w] \in Full
    BY <1>11 DEF NoCapacity, Breaks, Goes, RunTypeOK, Before, Full, run
  <2> QED BY <2>1, <2>2, <2>3, ListStep
<1>12. ASSUME NEW w \in Workers, Conflicts(w) PROVE ListInv'
  <2>1. /\ UNCHANGED <<on, loyal, active, status>>
        /\ \A v \in Workers : v # w =>
             /\ stage'[v] = stage[v] /\ job'[v] = job[v]
             /\ cursor'[v] = cursor[v] /\ left'[v] = left[v]
    BY <1>12 DEF Conflicts, Breaks, Goes, RunTypeOK, NoteTypeOK, issue, sends,
      run
  <2>2. ASSUME NEW p \in Pairs
        PROVE  /\ send[p] # "none" => send'[p] # "none"
               /\ send[p] \in {"SENT", "FAILED"} =>
                    send'[p] \in {"SENT", "FAILED"}
    BY <1>12 DEF Conflicts, Breaks, Goes, SendTypeOK, sends, run
  <2>3. \/ stage'[w] = "idle" /\ cursor'[w] = 0
        \/ /\ stage[w] # "idle" /\ job'[w] = job[w]
           /\ cursor'[w] = cursor[w]
           /\ stage'[w] \notin {"idle", "settling"}
           /\ stage'[w] \in Before => stage[w] \in Before
           /\ stage'[w] \in Full => stage[w] \in Full
    BY <1>12 DEF Conflicts, Breaks, Goes, RunTypeOK, Before, Full, run
  <2> QED BY <2>1, <2>2, <2>3, ListStep
<1>13. ASSUME NEW w \in Workers, Dispatch(w) PROVE ListInv'
  <2>1. /\ UNCHANGED <<on, loyal, active, status>>
        /\ \A v \in Workers : v # w =>
             /\ stage'[v] = stage[v] /\ job'[v] = job[v]
             /\ cursor'[v] = cursor[v] /\ left'[v] = left[v]
    BY <1>13 DEF Dispatch, Goes, RunTypeOK, NoteTypeOK, issue, sends, run
  <2>2. ASSUME NEW p \in Pairs
        PROVE  /\ send[p] # "none" => send'[p] # "none"
               /\ send[p] \in {"SENT", "FAILED"} =>
                    send'[p] \in {"SENT", "FAILED"}
    BY <1>13 DEF Dispatch, Goes, SendTypeOK, sends, run
  <2>3. \/ stage'[w] = "idle" /\ cursor'[w] = 0
        \/ /\ stage[w] # "idle" /\ job'[w] = job[w]
           /\ cursor'[w] = cursor[w]
           /\ stage'[w] \notin {"idle", "settling"}
           /\ stage'[w] \in Before => stage[w] \in Before
           /\ stage'[w] \in Full => stage[w] \in Full
    BY <1>13 DEF Dispatch, Goes, RunTypeOK, Before, Full, run
  <2> QED BY <2>1, <2>2, <2>3, ListStep
<1>14. ASSUME NEW w \in Workers, RecordSent(w) PROVE ListInv'
  <2>1. /\ UNCHANGED <<on, loyal, active, status>>
        /\ \A v \in Workers : v # w =>
             /\ stage'[v] = stage[v] /\ job'[v] = job[v]
             /\ cursor'[v] = cursor[v] /\ left'[v] = left[v]
    BY <1>14 DEF RecordSent, GoesOn, Breaks, Goes, Marked, RunTypeOK,
      NoteTypeOK,
      issue, sends, run
  <2>2. ASSUME NEW p \in Pairs
        PROVE  /\ send[p] # "none" => send'[p] # "none"
               /\ send[p] \in {"SENT", "FAILED"} =>
                    send'[p] \in {"SENT", "FAILED"}
    BY <1>14 DEF RecordSent, GoesOn, Breaks, Goes, Marked, Reserved,
      SendTypeOK,
      sends, run
  <2>3. \/ stage'[w] = "idle" /\ cursor'[w] = 0
        \/ /\ stage[w] # "idle" /\ job'[w] = job[w]
           /\ cursor'[w] = cursor[w]
           /\ stage'[w] \notin {"idle", "settling"}
           /\ stage'[w] \in Before => stage[w] \in Before
           /\ stage'[w] \in Full => stage[w] \in Full
    BY <1>14 DEF RecordSent, GoesOn, Breaks, Goes, Marked, RunTypeOK, Before,
      Full, run
  <2> QED BY <2>1, <2>2, <2>3, ListStep
<1>15. ASSUME NEW w \in Workers, RecordFailed(w) PROVE ListInv'
  <2>1. /\ UNCHANGED <<on, loyal, active, status>>
        /\ \A v \in Workers : v # w =>
             /\ stage'[v] = stage[v] /\ job'[v] = job[v]
             /\ cursor'[v] = cursor[v] /\ left'[v] = left[v]
    BY <1>15 DEF RecordFailed, GoesOn, Breaks, Goes, Marked, RunTypeOK,
      NoteTypeOK, issue, sends, run
  <2>2. ASSUME NEW p \in Pairs
        PROVE  /\ send[p] # "none" => send'[p] # "none"
               /\ send[p] \in {"SENT", "FAILED"} =>
                    send'[p] \in {"SENT", "FAILED"}
    BY <1>15 DEF RecordFailed, GoesOn, Breaks, Goes, Marked, SendTypeOK, sends,
      run
  <2>3. \/ stage'[w] = "idle" /\ cursor'[w] = 0
        \/ /\ stage[w] # "idle" /\ job'[w] = job[w]
           /\ cursor'[w] = cursor[w]
           /\ stage'[w] \notin {"idle", "settling"}
           /\ stage'[w] \in Before => stage[w] \in Before
           /\ stage'[w] \in Full => stage[w] \in Full
    BY <1>15 DEF RecordFailed, GoesOn, Breaks, Goes, Marked, RunTypeOK, Before,
      Full, run
  <2> QED BY <2>1, <2>2, <2>3, ListStep
<1>16. ASSUME NEW w \in Workers, Sweep(w) PROVE ListInv'
  <2>1. /\ UNCHANGED <<on, loyal, active, status>> /\ stage[w] = "ending"
        /\ \A v \in Workers : v # w =>
             /\ stage'[v] = stage[v] /\ job'[v] = job[v]
             /\ cursor'[v] = cursor[v] /\ left'[v] = left[v]
    BY ZenonT(60), <1>16 DEF Sweep, Rest, Goes, RunTypeOK, NoteTypeOK, issue
  <2>2. CASE Rest(w) /\ UNCHANGED send
    <3>1. stage'[w] = "idle" /\ cursor'[w] = 0
      BY <2>2 DEF Rest, Goes, RunTypeOK
    <3> QED BY <2>1, <2>2, <3>1, ListStep
  <2>3. CASE ~(Rest(w) /\ UNCHANGED send)
    <3> DEFINE c == job[w]
               waits == Waiting(c) # {}
               any == \E s \in Subscribers : send[<<c, s>>] = "SENT"
    <3>1. /\ send' = Marked(c, Reserved(c), "FAILED")
          /\ left' = [left EXCEPT ![w] = <<waits, any>>]
          /\ stage' = [stage EXCEPT ![w] = "settling"]
          /\ UNCHANGED <<job, cursor>> /\ c \in Issues
      BY <1>16, <2>3 DEF Sweep, Goes, RunTypeOK
    <3>2. \A p \in Pairs : /\ send[p] # "none" => send'[p] # "none"
                           /\ send[p] \in {"SENT", "FAILED"} =>
                                send'[p] \in {"SENT", "FAILED"}
      BY <3>1 DEF Marked
    <3>3. /\ \A i \in Issues : IssueListed(i)'
          /\ \A v \in Workers : v # w => RunListed(v)'
      BY <2>1, <3>2, ListKept DEF ListInv, IssueListed
    <3>4. ASSUME ~waits, any
          PROVE  \A s \in loyal[c] : send'[<<c, s>>] \in {"SENT", "FAILED"}
      <4>1. Listed(c)
        <5>1. PICK s \in Subscribers : send[<<c, s>>] = "SENT"
          BY <3>4
        <5>2. on[<<c, s>>] # 0
          BY <3>1, <5>1 DEF MailInv, MailedOnce
        <5> QED BY <3>1, <5>2 DEF ListInv, IssueListed
      <4>2. ASSUME NEW s \in loyal[c]
            PROVE  send'[<<c, s>>] \in {"SENT", "FAILED"}
        <5>1. s \in Subscribers /\ send[<<c, s>>] # "none"
          BY <3>1, <4>1 DEF Listed, HistoryTypeOK
        <5>2. CASE send[<<c, s>>] = "QUEUED"
          <6>1. s \in Reserved(c)
            BY <3>4, <5>1, <5>2 DEF Waiting, Reserved
          <6> QED BY <3>1, <5>1, <6>1 DEF Marked
        <5>3. CASE send[<<c, s>>] # "QUEUED"
          <6>1. send[<<c, s>>] \in {"SENT", "FAILED"}
            BY <3>1, <5>1, <5>3 DEF SendTypeOK
          <6> QED BY <3>1, <3>2, <5>1, <6>1
        <5> QED BY <5>2, <5>3
      <4> QED BY <4>2
    <3>5. /\ stage'[w] = "settling" /\ job'[w] = c /\ cursor'[w] = cursor[w]
          /\ left'[w] = <<waits, any>>
      BY <3>1 DEF RunTypeOK, NoteTypeOK
    <3>6. \A s \in loyal[c] : s <= cursor[w] => send'[<<c, s>>] # "none"
      BY <2>1, <3>1, <3>2 DEF ListInv, RunListed, HistoryTypeOK
    <3>7. left'[w][1] = waits /\ left'[w][2] = any
      BY <3>5
    <3>8. RunListed(w)'
      <4> HIDE DEF waits, any
      <4>1. ~left'[w][1] /\ left'[w][2] =>
              \A s \in loyal[c] : send'[<<c, s>>] \in {"SENT", "FAILED"}
        BY <3>4, <3>7
      <4>2. ~left'[w][1] /\ left'[w][2] => Dealt(job[w])'
        BY <2>1, <3>1, <4>1 DEF Dealt
      <4> QED BY <2>1, <3>5, <3>6, <4>2 DEF RunListed, Before, Full
    <3> QED BY <3>3, <3>8 DEF ListInv
  <2> QED BY <2>2, <2>3
<1>17. ASSUME NEW w \in Workers, Settle(w) PROVE ListInv'
  <2>1. /\ UNCHANGED <<on, send, loyal, active>> /\ stage[w] = "settling"
        /\ job[w] \in Issues /\ stage'[w] = "idle" /\ cursor'[w] = 0
        /\ \A v \in Workers : v # w =>
             /\ stage'[v] = stage[v] /\ job'[v] = job[v]
             /\ cursor'[v] = cursor[v] /\ left'[v] = left[v]
    BY <1>17 DEF Settle, Rest, Goes, RunTypeOK, NoteTypeOK, sends
  <2>2. ASSUME NEW i \in Issues, status'[i] # status[i]
        PROVE  /\ i = job[w] /\ status'[i] \in Begun
               /\ status'[i] = "SENT" => ~left[w][1] /\ left[w][2]
    BY <1>17, <2>2 DEF Settle, Outcome, IssueTypeOK, Begun
  <2>3. ASSUME NEW i \in Issues PROVE IssueListed(i)'
    <3>1. CASE status'[i] = status[i]
      BY <2>1, <3>1 DEF ListInv, IssueListed, Listed, Dealt
    <3>2. CASE status'[i] # status[i]
      <4>1. status'[i] = "SENT" => Dealt(i)
        BY <2>1, <2>2, <3>2 DEF ListInv, RunListed
      <4> QED BY <2>1, <2>2, <3>2, <4>1 DEF ListInv, IssueListed, Listed, Dealt
    <3> QED BY <3>1, <3>2
  <2>4. ASSUME NEW v \in Workers PROVE RunListed(v)'
    <3>1. CASE v = w
      BY <2>1, <3>1 DEF RunListed, Full
    <3>2. CASE v # w
      BY SMTT(30), <2>1, <3>2 DEF ListInv, RunListed, Listed, Dealt
    <3> QED BY <3>1, <3>2
  <2> QED BY <2>3, <2>4 DEF ListInv
<1>18. ASSUME NEW w \in Workers, Throws(w) PROVE ListInv'
  <2>1. /\ UNCHANGED <<on, loyal, active, status>>
        /\ \A v \in Workers : v # w =>
             /\ stage'[v] = stage[v] /\ job'[v] = job[v]
             /\ cursor'[v] = cursor[v] /\ left'[v] = left[v]
    BY <1>18 DEF Throws, Breaks, Goes, Fault, RunTypeOK, NoteTypeOK, issue,
      sends,
      run
  <2>2. ASSUME NEW p \in Pairs
        PROVE  /\ send[p] # "none" => send'[p] # "none"
               /\ send[p] \in {"SENT", "FAILED"} =>
                    send'[p] \in {"SENT", "FAILED"}
    BY <1>18 DEF Throws, Breaks, Goes, Fault, SendTypeOK, sends, run
  <2>3. \/ stage'[w] = "idle" /\ cursor'[w] = 0
        \/ /\ stage[w] # "idle" /\ job'[w] = job[w]
           /\ cursor'[w] = cursor[w]
           /\ stage'[w] \notin {"idle", "settling"}
           /\ stage'[w] \in Before => stage[w] \in Before
           /\ stage'[w] \in Full => stage[w] \in Full
    BY <1>18 DEF Throws, Breaks, Goes, Fault, RunTypeOK, Before, Full, run
  <2> QED BY <2>1, <2>2, <2>3, ListStep
<1>19. ASSUME NEW w \in Workers, Crash(w) PROVE ListInv'
  <2>1. /\ UNCHANGED <<on, loyal, active, status>>
        /\ \A v \in Workers : v # w =>
             /\ stage'[v] = stage[v] /\ job'[v] = job[v]
             /\ cursor'[v] = cursor[v] /\ left'[v] = left[v]
    BY <1>19 DEF Crash, Rest, Goes, Fault, RunTypeOK, NoteTypeOK, issue, sends,
      run
  <2>2. ASSUME NEW p \in Pairs
        PROVE  /\ send[p] # "none" => send'[p] # "none"
               /\ send[p] \in {"SENT", "FAILED"} =>
                    send'[p] \in {"SENT", "FAILED"}
    BY <1>19 DEF Crash, Rest, Goes, Fault, SendTypeOK, sends, run
  <2>3. \/ stage'[w] = "idle" /\ cursor'[w] = 0
        \/ /\ stage[w] # "idle" /\ job'[w] = job[w]
           /\ cursor'[w] = cursor[w]
           /\ stage'[w] \notin {"idle", "settling"}
           /\ stage'[w] \in Before => stage[w] \in Before
           /\ stage'[w] \in Full => stage[w] \in Full
    BY <1>19 DEF Crash, Rest, Goes, Fault, RunTypeOK, Before, Full, run
  <2> QED BY <2>1, <2>2, <2>3, ListStep
<1>20. ASSUME NEW w \in Workers, NEW i \in Issues, Find(w, i) PROVE ListInv'
  <2>1. /\ UNCHANGED <<on, send, loyal, active, cursor, left>>
        /\ \A j \in Issues : /\ status'[j] = "SENT" => status[j] = "SENT"
                             /\ status'[j] \notin Begun =>
                                  status[j] \notin Begun
    BY <1>20 DEF Find, issue, sends
  <2>2. /\ stage[w] = "idle" /\ stage' = [stage EXCEPT ![w] = "listed"]
        /\ job' = [job EXCEPT ![w] = i]
    BY <1>20 DEF Find, Goes
  <2>3. /\ \A j \in Issues : IssueListed(j)'
        /\ \A v \in Workers : v # w => RunListed(v)'
    BY <2>1, <2>2, ListKept DEF ListInv, IssueListed, RunTypeOK
  <2>4. RunListed(w)'
    <3>1. cursor[w] = 0 /\ stage'[w] = "listed" /\ job'[w] = i
      BY <2>2 DEF ListInv, RunListed, Before, RunTypeOK
    <3>2. \A s \in loyal[i] : ~(s <= 0)
      <4>1. loyal[i] \subseteq Nat \ {0}
        BY DEF HistoryTypeOK
      <4> QED BY <4>1
    <3> QED BY <2>1, <3>1, <3>2 DEF RunListed, Full
  <2> QED BY <2>3, <2>4 DEF ListInv
<1>21. ASSUME NEW w \in Workers, NEW i \in Issues, SendNow(w, i) PROVE ListInv'
  <2>1. /\ UNCHANGED <<on, send, loyal, active, cursor, left>>
        /\ \A j \in Issues : /\ status'[j] = "SENT" => status[j] = "SENT"
                             /\ status'[j] \notin Begun =>
                                  status[j] \notin Begun
    BY <1>21 DEF SendNow, Schedulable, Transition, IssueTypeOK, Begun, sends
  <2>2. /\ stage[w] = "idle" /\ stage' = [stage EXCEPT ![w] = "listed"]
        /\ job' = [job EXCEPT ![w] = i]
    BY <1>21 DEF SendNow, Goes
  <2>3. /\ \A j \in Issues : IssueListed(j)'
        /\ \A v \in Workers : v # w => RunListed(v)'
    BY <2>1, <2>2, ListKept DEF ListInv, IssueListed, RunTypeOK
  <2>4. RunListed(w)'
    <3>1. cursor[w] = 0 /\ stage'[w] = "listed" /\ job'[w] = i
      BY <2>2 DEF ListInv, RunListed, Before, RunTypeOK
    <3>2. \A s \in loyal[i] : ~(s <= 0)
      <4>1. loyal[i] \subseteq Nat \ {0}
        BY DEF HistoryTypeOK
      <4> QED BY <4>1
    <3> QED BY <2>1, <3>1, <3>2 DEF RunListed, Full
  <2> QED BY <2>3, <2>4 DEF ListInv
<1>22. ASSUME NEW i \in Issues, Patch(i) PROVE ListInv'
  <2>1. UNCHANGED <<on, send, loyal, active, stage, job, cursor, left>>
    BY <1>22 DEF Patch, Transition, sends
  <2>2. \A j \in Issues : /\ status'[j] = "SENT" => status[j] = "SENT"
                          /\ status'[j] \notin Begun => status[j] \notin Begun
    BY <1>22 DEF Patch, Transition, Begun, IssueTypeOK
  <2> QED BY <2>1, <2>2, ListKept DEF ListInv, IssueListed
<1>23. ASSUME NEW i \in Issues, Submit(i) PROVE ListInv'
  <2>1. UNCHANGED <<on, send, loyal, active, stage, job, cursor, left>>
    BY <1>23 DEF Submit, Transition, sends
  <2>2. \A j \in Issues : /\ status'[j] = "SENT" => status[j] = "SENT"
                          /\ status'[j] \notin Begun => status[j] \notin Begun
    BY <1>23 DEF Submit, Transition, Begun, IssueTypeOK
  <2> QED BY <2>1, <2>2, ListKept DEF ListInv, IssueListed
<1>24. ASSUME NEW i \in Issues, Approve(i) PROVE ListInv'
  <2>1. UNCHANGED <<on, send, loyal, active, stage, job, cursor, left>>
    BY <1>24 DEF Approve, Transition, sends
  <2>2. \A j \in Issues : /\ status'[j] = "SENT" => status[j] = "SENT"
                          /\ status'[j] \notin Begun => status[j] \notin Begun
    BY <1>24 DEF Approve, Transition, Begun, IssueTypeOK
  <2> QED BY <2>1, <2>2, ListKept DEF ListInv, IssueListed
<1>25. ASSUME NEW i \in Issues, Schedule(i) PROVE ListInv'
  <2>1. UNCHANGED <<on, send, loyal, active, stage, job, cursor, left>>
    BY <1>25 DEF Schedule, Transition, sends
  <2>2. \A j \in Issues : /\ status'[j] = "SENT" => status[j] = "SENT"
                          /\ status'[j] \notin Begun => status[j] \notin Begun
    BY <1>25 DEF Schedule, Transition, Begun, IssueTypeOK, Schedulable
  <2> QED BY <2>1, <2>2, ListKept DEF ListInv, IssueListed
<1>26. ASSUME NEW i \in Issues, Cancel(i) PROVE ListInv'
  <2>1. UNCHANGED <<on, send, loyal, active, stage, job, cursor, left>>
    BY <1>26 DEF Cancel, Transition, sends
  <2>2. \A j \in Issues : /\ status'[j] = "SENT" => status[j] = "SENT"
                          /\ status'[j] \notin Begun => status[j] \notin Begun
    BY <1>26 DEF Cancel, Transition, Begun, IssueTypeOK
  <2> QED BY <2>1, <2>2, ListKept DEF ListInv, IssueListed
<1>27. ASSUME NEW s \in Subscribers, Leave(s) PROVE ListInv'
  <2>1. UNCHANGED <<on, send, status, stage, job, cursor, left>>
    BY <1>27 DEF Leave, issue, sends, run
  <2>2. \A i \in Issues : loyal'[i] \subseteq loyal[i] \cap active'
    BY <1>27 DEF Leave, ListInv, IssueListed
  <2> QED BY <2>1, <2>2, ListKept DEF ListInv
<1>28. ASSUME NEW s \in Subscribers, Join(s) PROVE ListInv'
  <2>1. UNCHANGED <<on, send, status, stage, job, cursor, left>>
    BY <1>28 DEF Join, issue, sends, run
  <2>2. \A i \in Issues : loyal'[i] \subseteq loyal[i] \cap active'
    BY <1>28 DEF Join, ListInv, IssueListed
  <2> QED BY <2>1, <2>2, ListKept DEF ListInv
<1>29. ASSUME NEW i \in Issues, ExpireLease(i) \/ BecomeDue(i) PROVE UNCHANGED
  <<on, send, loyal, active, status, stage, job, cursor, left>>
  BY <1>29 DEF ExpireLease, BecomeDue, issue, sends, run
<1>30. ASSUME NewDay \/ Pause \/ ResumeWarmup PROVE UNCHANGED <<on, send,
  loyal, active, status, stage, job, cursor, left>>
  BY <1>30 DEF NewDay, Pause, ResumeWarmup, issue, sends, run
<1>31. CASE UNCHANGED vars
  BY <1>31 DEF vars, issue, sends, run, ListInv, IssueListed, RunListed,
    Listed, Dealt
<1>32. ASSUME UNCHANGED <<on, send, loyal, active, status, stage, job, cursor,
  left>> PROVE ListInv'
  BY ZenonT(60), <1>32 DEF ListInv, IssueListed, RunListed, Listed, Dealt
<1> QED BY <1>1, <1>2, <1>3, <1>4, <1>5, <1>6, <1>7, <1>8, <1>9, <1>10, <1>11,
  <1>12, <1>13, <1>14, <1>15, <1>16, <1>17, <1>18, <1>19, <1>20, <1>21, <1>22,
  <1>23, <1>24, <1>25, <1>26, <1>27, <1>28, <1>29, <1>30, <1>31, <1>32 DEF
  Next, Work

-----------------------------------------------------------------------------
\* What the runs of a newsletter promise, from the invariants above.
LEMMA MailHolds == Spec => []MailInv
<1>1. Init => MailInv
  BY DEF Init, MailInv, MailedOnce, Pairs
<1>2. TypeOK /\ MailInv /\ [Next]_vars => MailInv'
  BY MailInductive
<1> QED BY <1>1, <1>2, TypeCorrect, PTL DEF Spec

LEMMA ApprovedHolds == Spec => []ApprovedInv
<1>1. Init => ApprovedInv
  BY DEF Init, ApprovedInv, Begun, After
<1>2. TypeOK /\ ApprovedInv /\ [Next]_vars => ApprovedInv'
  BY ApprovedInductive
<1> QED BY <1>1, <1>2, TypeCorrect, PTL DEF Spec

\* A run that dies or stalls between its reservation and the answer of the
\* mail provider, and the runs that take its issue over, mail no subscriber
\* twice: what is reserved is never reserved again, whatever became of it.
THEOREM MailedOnceHolds == Spec => []MailedOnce
<1>1. MailInv => MailedOnce
  BY DEF MailInv
<1> QED BY <1>1, MailHolds, PTL

\* However people edit, withdraw and approve an issue between the moment a run
\* reads it and the moment it claims it, what is mailed is the edition that
\* was approved: the claim compares the revision.
THEOREM ApprovedOnlyHolds == Spec => []ApprovedOnly
<1>1. ApprovedInv => ApprovedOnly
  BY DEF ApprovedInv, ApprovedOnly
<1> QED BY <1>1, ApprovedHolds, PTL

\* All issues of a project share their domain's count of the day, and however
\* their runs interleave no day of the warm-up sees more attempts than its
\* cap: the reservation reads and counts in one serializable transaction.
THEOREM CapKeptHolds == Spec => []CapKept
<1>1. Init => CapInv
  <2> SUFFICES ASSUME Init PROVE CapInv
    OBVIOUS
  <2>1. /\ \A p \in Pairs : on[p] = 0
        /\ day = 1 /\ usedOn = 0 /\ used = 0
    BY DEF Init
  <2>2. \A d \in Nat \ {0} : Attempts(d) = {}
    BY <2>1 DEF Attempts
  <2>3. Cardinality({}) = 0
    BY FS_EmptySet
  <2>4. Cardinality(Attempts(day)) = UsedToday
    <3>1. Attempts(day) = {} /\ UsedToday = 0
      BY <2>1, <2>2 DEF UsedToday
    <3> QED BY <2>3, <3>1
  <2>5. ASSUME NEW d \in 1 .. Len(Caps)
        PROVE  Cardinality({p \in Pairs : on[p] = d}) <= Caps[d]
    <3>1. d \in Nat \ {0} /\ Caps[d] \in Nat
      BY SendAssumption
    <3>2. {p \in Pairs : on[p] = d} = {}
      BY <2>1, <3>1
    <3>3. Cardinality({p \in Pairs : on[p] = d}) = 0
      BY <2>3, <3>2
    <3> QED BY <3>1, <3>3
  <2>6. CapKept
    BY <2>5 DEF CapKept
  <2> QED BY <2>1, <2>4, <2>6 DEF CapInv
<1>2. TypeOK /\ CapInv /\ [Next]_vars => CapInv'
  BY CapInductive
<1>3. CapInv => CapKept
  BY DEF CapInv
<1> QED BY <1>1, <1>2, <1>3, TypeCorrect, PTL DEF Spec

\* An issue that is closed as sent has tried every subscriber who stayed since
\* it was claimed, although its list is written page by page, by runs that may
\* lose their lease, and its batches may stop at the cap or at an error.
THEOREM NobodyForgottenHolds == Spec => []NobodyForgotten
<1>1. Init => ListInv
  <2> SUFFICES ASSUME Init PROVE ListInv
    OBVIOUS
  <2>1. ASSUME NEW i \in Issues PROVE IssueListed(i)
    BY DEF Init, IssueListed, Begun, Pairs
  <2>2. ASSUME NEW w \in Workers PROVE RunListed(w)
    BY DEF Init, RunListed, Full
  <2> QED BY <2>1, <2>2 DEF ListInv
<1>2. TypeOK /\ MailInv /\ ApprovedInv /\ ListInv /\ [Next]_vars => ListInv'
  BY ListInductive
<1>3. ListInv => NobodyForgotten
  BY DEF ListInv, IssueListed, Dealt, NobodyForgotten
<1> QED BY <1>1, <1>2, <1>3, TypeCorrect, MailHolds, ApprovedHolds, PTL
  DEF Spec
-----------------------------------------------------------------------------
(* What the finding on early sends takes.                                  *)

\* Nobody takes back an issue that a run has on its list of due ones.
Stays ==
  \A w \in Workers :
    stage[w] = "listed" /\ status[job[w]] = "SCHEDULED"
      => status'[job[w]] # "DRAFT"
NoneWithdrawnWhileListed == [][Stays]_vars

\* An issue that a run has found is due, or begun; or its revision has moved
\* since the run read it.
DueOrBegun(i) == status[i] \in Begun \/ (status[i] = "SCHEDULED" /\ due[i])

FoundInv ==
  \A w \in Workers :
    /\ stage[w] = "listed" => DueOrBegun(job[w])
    /\ stage[w] = "read" => DueOrBegun(job[w]) \/ saw[w].moved

\* A step that takes no issue from due or begun back, and by which no run
\* comes to find or read one, or forgets that it has moved.
LEMMA FoundKept ==
  ASSUME TypeOK, FoundInv,
         \A i \in Issues : DueOrBegun(i) => DueOrBegun(i)',
         \A w \in Workers :
           \/ stage'[w] \notin {"listed", "read"}
           \/ /\ stage'[w] = stage[w] /\ job'[w] = job[w]
              /\ saw[w].moved => saw'[w].moved
  PROVE  FoundInv'
<1> SUFFICES ASSUME NEW w \in Workers, stage'[w] \in {"listed", "read"}
             PROVE  /\ stage'[w] = "listed" => DueOrBegun(job[w])'
                    /\ stage'[w] = "read" =>
                         DueOrBegun(job[w])' \/ saw'[w].moved
  BY DEF FoundInv
<1>1. /\ stage'[w] = stage[w] /\ job'[w] = job[w] /\ job[w] \in Issues
      /\ saw[w].moved => saw'[w].moved
  BY DEF TypeOK, RunTypeOK
<1> QED BY <1>1 DEF FoundInv, DueOrBegun

\* The revision of an issue moves, by the hand of a person.
LEMMA FoundMoved ==
  ASSUME TypeOK, FoundInv, NEW i \in Issues, NEW s, Transition(i, s),
         UNCHANGED <<stage, job>>,
         \A j \in Issues \ {i} : due'[j] = due[j],
         \A w \in Workers : stage[w] = "listed" => job[w] # i
  PROVE  FoundInv'
<1> USE DEF TypeOK, IssueTypeOK, RunTypeOK, NoteTypeOK
<1>1. ASSUME NEW w \in Workers, job[w] = i, stage[w] = "read"
      PROVE  saw'[w].moved
  BY <1>1 DEF Transition, Moves
<1>2. ASSUME NEW j \in Issues \ {i} PROVE status'[j] = status[j]
  BY <1>2 DEF Transition
<1>3. ASSUME NEW w \in Workers, saw[w].moved PROVE saw'[w].moved
  BY <1>3 DEF Transition, Moves
<1>4. ASSUME NEW w \in Workers
      PROVE  /\ stage'[w] = "listed" => DueOrBegun(job[w])'
             /\ stage'[w] = "read" => DueOrBegun(job[w])' \/ saw'[w].moved
  <2>1. CASE job[w] = i
    BY <1>1, <2>1
  <2>2. CASE job[w] # i
    BY <1>2, <1>3, <2>2 DEF FoundInv, DueOrBegun
  <2> QED BY <2>1, <2>2
<1> QED BY <1>4 DEF FoundInv

\* A run that is over leaves the others alone.
LEMMA OthersGoOn ==
  ASSUME TypeOK, NEW w \in Workers, Rest(w), NEW v \in Workers \ {w}
  PROVE  stage'[v] = stage[v] /\ job'[v] = job[v] /\ saw'[v] = saw[v]
BY DEF TypeOK, RunTypeOK, NoteTypeOK, Rest, Goes

LEMMA FoundInductive ==
  ASSUME TypeOK, ApprovedInv, FoundInv, Stays, [Next]_vars
  PROVE  FoundInv'
<1> USE DEF TypeOK
<1>1. ASSUME NEW w \in Workers, ReadIssue(w) PROVE FoundInv'
  <2>1. UNCHANGED <<status, due>> /\ stage[w] = "listed"
    BY <1>1 DEF ReadIssue, issue
  <2>2. ASSUME NEW v \in Workers, v # w
        PROVE  stage'[v] = stage[v] /\ job'[v] = job[v] /\ saw'[v] = saw[v]
    <3>1. CASE Rest(w)
      BY <2>2, <3>1, OthersGoOn
    <3>2. CASE ~Rest(w)
      BY <1>1, <2>2, <3>2 DEF ReadIssue, Goes, RunTypeOK, NoteTypeOK
    <3> QED BY <3>1, <3>2
  <2>3. stage'[w] \in {"idle", "read"} /\ (stage'[w] = "read" => job' = job)
    BY <1>1 DEF ReadIssue, Rest, Goes, RunTypeOK
  <2> QED BY <2>1, <2>2, <2>3 DEF FoundInv, DueOrBegun
<1>2. ASSUME NEW w \in Workers, Claim(w) PROVE FoundInv'
  <2>1. /\ stage[w] = "read" /\ job[w] \in Issues /\ due' = due
        /\ stage'[w] \in {"idle", "claimed"}
    BY <1>2 DEF Claim, Rest, Goes, RunTypeOK
  <2>2. ASSUME NEW v \in Workers, v # w
        PROVE  /\ stage'[v] = stage[v] /\ job'[v] = job[v]
               /\ saw[v].moved => saw'[v].moved
    <3>1. CASE Rest(w)
      BY <2>2, <3>1, OthersGoOn
    <3>2. CASE ~Rest(w)
      <4>1. /\ stage' = [stage EXCEPT ![w] = "claimed"] /\ job' = job
            /\ saw' = [Moves(job[w]) EXCEPT ![w] = Unread]
        BY <1>2, <3>2 DEF Claim, Goes
      <4>2. saw'[v] = Moves(job[w])[v]
        BY <2>2, <4>1 DEF Moves
      <4> QED BY <2>2, <4>1, <4>2 DEF Moves, RunTypeOK, NoteTypeOK
    <3> QED BY <3>1, <3>2
  <2>3. ASSUME NEW i \in Issues, DueOrBegun(i) PROVE DueOrBegun(i)'
    BY <1>2, <2>1, <2>3 DEF Claim, DueOrBegun, Begun, IssueTypeOK
  <2> QED BY <2>1, <2>2, <2>3, FoundKept
<1>3. ASSUME NEW w \in Workers, Settle(w) PROVE FoundInv'
  <2>1. stage'[w] = "idle" /\ due' = due
    BY <1>3 DEF Settle, Rest, Goes, RunTypeOK
  <2>2. ASSUME NEW v \in Workers, v # w
        PROVE  stage'[v] = stage[v] /\ job'[v] = job[v] /\ saw'[v] = saw[v]
    BY <1>3, <2>2 DEF Settle, Rest, Goes, RunTypeOK, NoteTypeOK
  <2>3. ASSUME NEW i \in Issues, DueOrBegun(i) PROVE DueOrBegun(i)'
    BY <1>3, <2>1, <2>3 DEF Settle, Outcome, DueOrBegun, Begun, IssueTypeOK
  <2> QED BY <2>1, <2>2, <2>3, FoundKept
<1>4. ASSUME NEW w \in Workers,
             Sweep(w) \/ Throws(w) \/ Crash(w)
      PROVE  FoundInv'
  <2>1. /\ UNCHANGED <<status, due>>
        /\ stage'[w] \notin {"listed", "read"}
    BY <1>4 DEF Sweep, Throws, Crash, Rest, Breaks, Goes, issue, RunTypeOK
  <2>2. ASSUME NEW v \in Workers, v # w
        PROVE  stage'[v] = stage[v] /\ job'[v] = job[v] /\ saw'[v] = saw[v]
    BY <1>4, <2>2 DEF Sweep, Throws, Crash, Rest, Breaks, Goes, RunTypeOK,
      NoteTypeOK
  <2> QED BY <2>1, <2>2, FoundKept DEF DueOrBegun
<1>5. ASSUME NEW w \in Workers,
             \/ FailInterrupted(w) \/ RenewForPage(w) \/ ListPage(w)
             \/ ReadQueue(w) \/ NoMore(w) \/ RenderBatch(w) \/ Recheck(w)
             \/ Reserve(w) \/ NoCapacity(w) \/ Conflicts(w) \/ Dispatch(w)
             \/ RecordSent(w) \/ RecordFailed(w)
      PROVE  FoundInv'
  <2>1. UNCHANGED <<status, due, job, saw>>
    BY <1>5 DEF FailInterrupted, RenewForPage, ListPage, ReadQueue, NoMore,
      RenderBatch, Recheck, Reserve, NoCapacity, Conflicts, Dispatch,
      RecordSent, RecordFailed, issue, run
  <2>2. /\ stage'[w] \notin {"listed", "read"}
        /\ \A v \in Workers : v # w => stage'[v] = stage[v]
    BY <1>5 DEF FailInterrupted, RenewForPage, ListPage, ReadQueue, NoMore,
      RenderBatch, Recheck, Reserve, NoCapacity, Conflicts, Dispatch,
      RecordSent, RecordFailed, GoesOn, Breaks, Goes, RunTypeOK
  <2> QED BY <2>1, <2>2, FoundKept DEF DueOrBegun
<1>6. ASSUME NEW w \in Workers, NEW i \in Issues, Find(w, i)
      PROVE  FoundInv'
  BY <1>6 DEF Find, Goes, Recoverable, issue, FoundInv, DueOrBegun, Begun,
    RunTypeOK
<1>7. ASSUME NEW w \in Workers, NEW i \in Issues, SendNow(w, i)
      PROVE  FoundInv'
  <2>1. /\ status[i] = "NEEDS_APPROVAL" /\ status'[i] = "SCHEDULED" /\ due'[i]
        /\ stage'[w] = "listed" /\ job'[w] = i
    BY <1>7 DEF SendNow, Schedulable, Transition, Goes, IssueTypeOK, RunTypeOK
  <2>2. ASSUME NEW j \in Issues, j # i
        PROVE  status'[j] = status[j] /\ due'[j] = due[j]
    BY <1>7, <2>2 DEF SendNow, Transition, IssueTypeOK
  <2>3. ASSUME NEW v \in Workers, v # w
        PROVE  /\ stage'[v] = stage[v] /\ job'[v] = job[v]
               /\ saw[v].moved => saw'[v].moved
    BY <1>7, <2>3 DEF SendNow, Transition, Moves, Goes, RunTypeOK, NoteTypeOK
  <2>4. ASSUME NEW v \in Workers
        PROVE  /\ stage'[v] = "listed" => DueOrBegun(job[v])'
               /\ stage'[v] = "read" => DueOrBegun(job[v])' \/ saw'[v].moved
    <3>1. CASE v = w
      BY <2>1, <3>1 DEF DueOrBegun
    <3>2. CASE v # w
      <4>1. stage'[v] \in {"listed", "read"} => job[v] \in Issues
        BY <2>3, <3>2 DEF RunTypeOK
      <4> QED BY <2>1, <2>2, <2>3, <3>2, <4>1 DEF FoundInv, DueOrBegun
    <3> QED BY <3>1, <3>2
  <2> QED BY <2>4 DEF FoundInv
<1>8. ASSUME NEW i \in Issues, Cancel(i) PROVE FoundInv'
  <2>1. /\ Transition(i, "DRAFT") /\ UNCHANGED <<stage, job>>
        /\ \A j \in Issues \ {i} : due'[j] = due[j]
        /\ status[i] = "SCHEDULED" /\ status'[i] = "DRAFT"
    BY <1>8 DEF Cancel, Transition, IssueTypeOK
  <2>2. \A w \in Workers : stage[w] = "listed" => job[w] # i
    BY <2>1 DEF Stays
  <2> QED BY <2>1, <2>2, FoundMoved
<1>9. ASSUME NEW i \in Issues,
             Patch(i) \/ Submit(i) \/ Approve(i) \/ Schedule(i)
      PROVE  FoundInv'
  <2>1. /\ \E s : Transition(i, s)
        /\ UNCHANGED <<stage, job>>
        /\ \A j \in Issues \ {i} : due'[j] = due[j]
        /\ status[i] \in {"DRAFT", "NEEDS_APPROVAL"}
    BY <1>9 DEF Patch, Submit, Approve, Schedule, Schedulable, IssueTypeOK
  <2>2. \A w \in Workers : stage[w] = "listed" => job[w] # i
    BY <2>1 DEF FoundInv, DueOrBegun, Begun
  <2> QED BY <2>1, <2>2, FoundMoved
<1>10. ASSUME NEW i \in Issues, BecomeDue(i) PROVE FoundInv'
  BY <1>10, FoundKept DEF BecomeDue, run, DueOrBegun, IssueTypeOK
<1>11. ASSUME \/ \E i \in Issues : ExpireLease(i)
              \/ \E s \in Subscribers : Leave(s) \/ Join(s)
              \/ NewDay \/ Pause \/ ResumeWarmup
              \/ UNCHANGED vars
       PROVE  FoundInv'
  <2>1. UNCHANGED <<status, due, stage, job, saw>>
    BY <1>11 DEF ExpireLease, Leave, Join, NewDay, Pause, ResumeWarmup, vars,
      issue, run
  <2> QED BY <2>1 DEF FoundInv, DueOrBegun
<1> QED BY <1>1, <1>2, <1>3, <1>4, <1>5, <1>6, <1>7, <1>8, <1>9, <1>10, <1>11
  DEF Next, Work

\* Only a claim begins to send an issue, and it has found the issue due.
LEMMA BegunWhenDue ==
  ASSUME TypeOK, FoundInv, [Next]_vars, NEW i \in Issues,
         status[i] = "SCHEDULED", status'[i] = "SENDING"
  PROVE  due[i]
<1> USE DEF TypeOK
<1>1. PICK w \in Workers : Claim(w) \/ Settle(w)
  <2>1. ASSUME NEW j \in Issues, NEW s, s # "SENDING", Transition(j, s)
        PROVE  FALSE
    BY <2>1 DEF Transition, IssueTypeOK
  <2>2. ASSUME NEW w \in Workers,
               \/ ReadIssue(w) \/ FailInterrupted(w) \/ RenewForPage(w)
               \/ ListPage(w) \/ ReadQueue(w) \/ NoMore(w) \/ RenderBatch(w)
               \/ Recheck(w) \/ Reserve(w) \/ NoCapacity(w) \/ Conflicts(w)
               \/ Dispatch(w) \/ RecordSent(w) \/ RecordFailed(w) \/ Sweep(w)
               \/ Throws(w) \/ Crash(w) \/ \E j \in Issues : Find(w, j)
        PROVE  FALSE
    <3>1. UNCHANGED status
      BY <2>2 DEF ReadIssue, FailInterrupted, RenewForPage, ListPage,
        ReadQueue, NoMore, RenderBatch, Recheck, Reserve, NoCapacity,
        Conflicts, Dispatch, RecordSent, RecordFailed, Sweep, Throws, Crash,
        Find, issue
    <3> QED BY <3>1
  <2>3. ASSUME \/ \E j \in Issues : ExpireLease(j) \/ BecomeDue(j)
               \/ \E s \in Subscribers : Leave(s) \/ Join(s)
               \/ NewDay \/ Pause \/ ResumeWarmup \/ UNCHANGED vars
        PROVE  FALSE
    <3>1. UNCHANGED status
      BY <2>3 DEF ExpireLease, BecomeDue, Leave, Join, NewDay, Pause,
        ResumeWarmup, vars, issue
    <3> QED BY <3>1
  <2>4. ASSUME NEW j \in Issues,
               \/ Patch(j) \/ Submit(j) \/ Approve(j) \/ Schedule(j)
               \/ Cancel(j) \/ \E w \in Workers : SendNow(w, j)
        PROVE  FALSE
    <3>1. \E s : s # "SENDING" /\ Transition(j, s)
      BY <2>4 DEF Patch, Submit, Approve, Schedule, Cancel, SendNow
    <3> QED BY <2>1, <3>1
  <2> QED BY <2>2, <2>3, <2>4 DEF Next, Work
<1>2. CASE Settle(w)
  <2>1. status'[i] # status[i] =>
          i = job[w] /\ status[job[w]] = "SENDING"
    BY <1>2 DEF Settle, HoldsLive, Holds, IssueTypeOK
  <2> QED BY <2>1
<1>3. CASE Claim(w)
  <2>1. i = job[w] /\ stage[w] = "read" /\ ~saw[w].moved
    BY <1>3 DEF Claim, Unchanged, IssueTypeOK
  <2> QED BY <2>1 DEF FoundInv, DueOrBegun, Begun
<1> QED BY <1>1, <1>2, <1>3

\* An issue goes out before its time only if somebody took it back while a run
\* had it on its list of due ones: finding newsletter_early needs that, and
\* no lease, crash or other run can bring it about.
THEOREM OnlyWithdrawnGoesEarly ==
  Spec /\ NoneWithdrawnWhileListed => NeverEarly
<1>1. Init => FoundInv
  BY DEF Init, FoundInv
<1>2. TypeOK /\ ApprovedInv /\ FoundInv /\ [Next]_vars /\ [Stays]_vars
        => FoundInv'
  <2>1. CASE UNCHANGED vars
    BY <2>1 DEF vars, issue, run, FoundInv, DueOrBegun
  <2> QED BY <2>1, FoundInductive
<1>. DEFINE A == \A i \in Issues :
              status[i] = "SCHEDULED" /\ status'[i] = "SENDING" => due[i]
<1>3. TypeOK /\ FoundInv /\ [Next]_vars => [A]_vars
  BY BegunWhenDue
<1>4. Spec /\ NoneWithdrawnWhileListed => []FoundInv
  BY <1>1, <1>2, TypeCorrect, ApprovedHolds, PTL
  DEF Spec, NoneWithdrawnWhileListed
<1>5. Spec /\ NoneWithdrawnWhileListed => [][A]_vars
  BY <1>3, <1>4, TypeCorrect, PTL DEF Spec
<1> QED BY <1>5 DEF NeverEarly
=============================================================================
