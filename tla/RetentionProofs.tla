---------------------------- MODULE RetentionProofs ----------------------------
(***************************************************************************)
(* The sweep never deletes too early and never loses sight of an upload,   *)
(* for every number of sweepers, requests, uploads and days.               *)
(***************************************************************************)
EXTENDS Retention, TLAPS

\* What a sweep that goes through the uploads has read: uploads that were past their
\* time then, with the objects of those it has done gone.
UploadsSafe(s) ==
    sweep[s].at = "uploads" =>
        /\ sweep[s].todo \subseteq sweep[s].old
        /\ \A a \in sweep[s].old :
              /\ uploads[a] # Never
              /\ uploads[a] \in Day => uploads[a] < sweep[s].day - UploadsDays
              /\ a \notin sweep[s].todo => a \notin objects

SweepSafe == \A s \in Sweeper :
    /\ sweep[s] # Idle => sweep[s].day <= now
    /\ UploadsSafe(s)

Inv == TypeOK /\ SweepSafe /\ NoOrphanObject /\ OnlyOldUploadsMissing

\* A sweeper that is not idle has a day, and in its first phase what it has read.
LEMMA SweepFields ==
    ASSUME TypeOK, NEW s \in Sweeper
    PROVE  /\ sweep[s] # Idle => sweep[s].day \in Day
           /\ sweep[s].at # "idle" => sweep[s] # Idle
           /\ sweep[s].at = "uploads" => /\ sweep[s].old \subseteq Attachment
                                         /\ sweep[s].todo \subseteq Attachment
<1>1. sweep[s] \in SweepState
  BY DEF TypeOK
<1> QED
  BY <1>1 DEF SweepState, Idle

\* The types are kept by every step: what a sweep carries from phase to phase, and
\* the markers that stand for a missing date.
THEOREM TypeCorrect == Spec => []TypeOK
<1>1. Init => TypeOK
  BY DaysAssumption DEF Init, TypeOK, Row, NoRow, Date, Day, Never, Gone, Idle, SweepState
<1>2. TypeOK /\ [Next]_vars => TypeOK'
  <2> SUFFICES ASSUME TypeOK, [Next]_vars PROVE TypeOK'
    OBVIOUS
  <2> USE DEF TypeOK
  <2>1. CASE NextDay
    BY <2>1, DaysAssumption DEF NextDay, written, Day
  <2>2. CASE Services
    <3>1. ASSUME NEW r \in Request, Ask(r) PROVE TypeOK'
      BY <3>1 DEF Ask, Row, Date
    <3>2. ASSUME NEW r \in Request, Escalate(r) PROVE TypeOK'
      BY <3>2 DEF Escalate, Row, Date
    <3>3. ASSUME NEW r \in Request, ExpertAnswers(r) PROVE TypeOK'
      BY <3>3 DEF ExpertAnswers, Row
    <3>4. ASSUME NEW a \in Attachment, Upload(a) PROVE TypeOK'
      BY <3>4 DEF Upload, Date
    <3>5. ASSUME NEW i \in IngestionRun, Stage(i) PROVE TypeOK'
      BY <3>5 DEF Stage, Date
    <3> QED
      BY <2>2, <3>1, <3>2, <3>3, <3>4, <3>5 DEF Services
  <2>3. ASSUME NEW s \in Sweeper, SweepStep(s) PROVE TypeOK'
    <3>1. CASE Start(s)
      BY <3>1 DEF Start, Goto, written, Expired, SweepState
    <3>2. CASE DeleteObject(s)
      <4> PICK a \in sweep[s].todo : /\ objects' = objects \ {a}
                                     /\ Goto(s, [sweep[s] EXCEPT !.todo = @ \ {a}])
        BY <3>2 DEF DeleteObject
      <4>1. [sweep[s] EXCEPT !.todo = @ \ {a}] \in SweepState
        BY <3>2, sweep[s] \in SweepState DEF DeleteObject, SweepState, Idle
      <4> QED
        BY <3>2, <4>1 DEF DeleteObject, Goto
    <3>3. CASE DeleteRows(s)
      <4>1. [at |-> "text", day |-> sweep[s].day] \in SweepState
        BY <3>3, sweep[s] \in SweepState DEF DeleteRows, SweepState, Idle
      <4> QED
        BY <3>3, <4>1 DEF DeleteRows, Goto, Date
    <3>4. CASE BlankText(s)
      <4>1. [at |-> "ops", day |-> sweep[s].day] \in SweepState
        BY <3>4, sweep[s] \in SweepState DEF BlankText, SweepState, Idle
      <4>2. \A row \in Row, day \in Day : Blanked(row, day) \in Row
        BY DEF Blanked, Row
      <4>3. sweep[s].day \in Day
        BY <3>4, SweepFields DEF BlankText
      <4> QED
        BY <3>4, <4>1, <4>2, <4>3 DEF BlankText, Goto
    <3>5. CASE ExpireOps(s)
      <4>1. [at |-> "staging", day |-> sweep[s].day] \in SweepState
        BY <3>5, sweep[s] \in SweepState DEF ExpireOps, SweepState, Idle
      <4>2. children' \in [{"citations", "tool_calls"} -> SUBSET Request]
        BY <3>5 DEF ExpireOps, ChildrenKept
      <4>3. Deleted \in Row
        BY DEF Deleted, Row, Date
      <4>4. interactions' \in [Request -> Row] /\ tickets' \in [Request -> Row]
        BY <3>5, <4>3 DEF ExpireOps
      <4>5. facts' \in [Request -> Date]
        BY <3>5 DEF ExpireOps, Date
      <4> QED
        BY <3>5, <4>1, <4>2, <4>4, <4>5 DEF ExpireOps, Goto
    <3>6. CASE ExpireStaging(s)
      <4>1. staged' \in [IngestionRun -> Date]
        BY <3>6 DEF ExpireStaging, Date
      <4> QED
        BY <3>6, <4>1 DEF ExpireStaging, Goto, SweepState
    <3> QED
      BY <2>3, <3>1, <3>2, <3>3, <3>4, <3>5, <3>6 DEF SweepStep
  <2>4. ASSUME NEW s \in Sweeper, Stop(s) PROVE TypeOK'
    BY <2>4, DaysAssumption DEF Stop, Goto, written, SweepState
  <2>5. CASE UNCHANGED vars
    BY <2>5 DEF vars, written
  <2> QED
    BY <2>1, <2>2, <2>3, <2>4, <2>5 DEF Next
<1> QED
  BY <1>1, <1>2, PTL DEF Spec

-----------------------------------------------------------------------------
(* Safety.  A sweep may hold a list of uploads for days, while another one *)
(* deletes the same objects and rows; the invariant says what its list is  *)
(* still worth.                                                            *)

LEMMA InvInit == Init => SweepSafe /\ NoOrphanObject /\ OnlyOldUploadsMissing
BY DEF Init, SweepSafe, UploadsSafe, NoOrphanObject, OnlyOldUploadsMissing, Idle, Day, Never

\* Steps that touch neither uploads nor objects nor a sweep's list.
LEMMA InvAside ==
    ASSUME Inv, TypeOK', uploads' = uploads, objects' = objects, now <= now',
           \A s \in Sweeper : \/ sweep'[s] = sweep[s]
                              \/ sweep'[s] = Idle
                              \/ sweep'[s].at # "uploads" /\ sweep'[s].day <= now'
    PROVE  SweepSafe' /\ NoOrphanObject' /\ OnlyOldUploadsMissing'
<1>1. now \in Int /\ now' \in Int /\ \A s \in Sweeper : sweep[s] # Idle => sweep[s].day \in Int
  BY SweepFields, DaysAssumption DEF Inv, TypeOK, Day
<1>2. SweepSafe'
  BY <1>1 DEF Inv, SweepSafe, UploadsSafe, Idle
<1>3. NoOrphanObject'
  BY DEF Inv, NoOrphanObject
<1>4. OnlyOldUploadsMissing'
  BY <1>1, DaysAssumption DEF Inv, TypeOK, OnlyOldUploadsMissing, PastDue, Day
<1> QED
  BY <1>2, <1>3, <1>4

\* Each step of a sweep.
LEMMA InvSweep ==
    ASSUME Inv, TypeOK', NEW s \in Sweeper, SweepStep(s)
    PROVE  SweepSafe' /\ NoOrphanObject' /\ OnlyOldUploadsMissing'
<1> USE DaysAssumption
<1>1. /\ now \in Nat /\ \A a \in Attachment : uploads[a] \in Date
      /\ sweep[s] # Idle => sweep[s].day \in Day /\ sweep[s].day <= now
      /\ \A t \in Sweeper : UploadsSafe(t)
  BY SweepFields DEF Inv, TypeOK, SweepSafe, Day
<1>2. CASE Start(s)
  <2>1. UploadsSafe(s)'
    BY <1>1, <1>2 DEF Start, Goto, written, UploadsSafe, Expired, Older, Never, Inv, TypeOK
  <2>2. SweepSafe'
    BY <1>1, <1>2, <2>1 DEF Start, Goto, written, Inv, SweepSafe, UploadsSafe, TypeOK
  <2> QED
    BY <1>2, <2>2 DEF Start, written, Inv, NoOrphanObject, OnlyOldUploadsMissing, PastDue
<1>3. CASE DeleteObject(s)
  <2> PICK a \in sweep[s].todo : /\ objects' = objects \ {a}
                                 /\ Goto(s, [sweep[s] EXCEPT !.todo = @ \ {a}])
    BY <1>3 DEF DeleteObject
  <2>1. /\ sweep[s].at = "uploads" /\ sweep[s] # Idle /\ a \in Attachment
        /\ uploads' = uploads /\ now' = now
        /\ sweep'[s].at = "uploads" /\ sweep'[s].day = sweep[s].day
        /\ sweep'[s].old = sweep[s].old /\ sweep'[s].todo = sweep[s].todo \ {a}
        /\ \A t \in Sweeper \ {s} : sweep'[t] = sweep[t]
    <3>1. /\ sweep[s].at = "uploads" /\ sweep[s] # Idle
          /\ sweep[s].todo \subseteq Attachment /\ sweep[s] \in SweepState
      BY <1>3, SweepFields DEF DeleteObject, Inv, TypeOK
    <3>2. sweep' = [sweep EXCEPT ![s] = [sweep[s] EXCEPT !.todo = @ \ {a}]]
      BY DEF Goto
    <3> QED
      BY <1>3, <3>1, <3>2 DEF DeleteObject, Inv, TypeOK, SweepState, Idle
  <2>2. SweepSafe'
    BY <1>1, <2>1 DEF Inv, SweepSafe, UploadsSafe
  <2>3. NoOrphanObject'
    BY <2>1 DEF Inv, NoOrphanObject
  <2>4. uploads[a] \in Day => PastDue(uploads[a], UploadsDays)
    BY <1>1, <2>1 DEF UploadsSafe, PastDue, Day
  <2>5. OnlyOldUploadsMissing'
    BY <2>1, <2>4 DEF Inv, OnlyOldUploadsMissing, PastDue
  <2> QED
    BY <2>2, <2>3, <2>5
<1>4. CASE DeleteRows(s)
  <2>1. /\ sweep[s].at = "uploads" /\ sweep[s] # Idle
        /\ uploads' = [a \in Attachment |-> IF a \in sweep[s].old THEN Gone ELSE uploads[a]]
        /\ sweep' = [sweep EXCEPT ![s] = [at |-> "text", day |-> sweep[s].day]]
        /\ now' = now /\ objects' = objects
    BY <1>4, SweepFields DEF DeleteRows, Goto, Inv
  <2>2. SweepSafe'
    <3> SUFFICES ASSUME NEW t \in Sweeper
                 PROVE  /\ sweep'[t] # Idle => sweep'[t].day <= now'
                        /\ UploadsSafe(t)'
      BY DEF SweepSafe
    <3>1. sweep \in [Sweeper -> SweepState] /\ uploads \in [Attachment -> Date]
      BY DEF Inv, TypeOK
    <3>2. CASE t = s
      <4>1. sweep'[t] = [at |-> "text", day |-> sweep[s].day]
        BY <2>1, <3>1, <3>2
      <4> QED
        BY <1>1, <2>1, <4>1 DEF UploadsSafe
    <3>3. CASE t # s
      <4>1. sweep'[t] = sweep[t]
        BY <2>1, <3>1, <3>3
      <4>2. sweep[t].at = "uploads" => sweep[t].old \subseteq Attachment
        BY SweepFields DEF Inv
      <4>3. \A a \in Attachment : uploads'[a] = uploads[a] \/ uploads'[a] = Gone
        BY <2>1
      <4>4. UploadsSafe(t)'
        BY <1>1, <2>1, <4>1, <4>2, <4>3 DEF UploadsSafe, Gone, Never, Day
      <4> QED
        BY <2>1, <4>1, <4>4 DEF Inv, SweepSafe
    <3> QED
      BY <3>2, <3>3
  <2>3. NoOrphanObject'
    BY <1>1, <1>4, <2>1 DEF DeleteRows, Inv, TypeOK, NoOrphanObject, UploadsSafe
  <2>4. OnlyOldUploadsMissing'
    BY <2>1 DEF Inv, OnlyOldUploadsMissing, PastDue, Day, Gone
  <2> QED
    BY <2>2, <2>3, <2>4
<1>5. CASE BlankText(s)
  <2>1. /\ sweep' = [sweep EXCEPT ![s] = [at |-> "ops", day |-> sweep[s].day]]
        /\ now' = now /\ uploads' = uploads /\ objects' = objects /\ sweep[s] # Idle
    BY <1>5, SweepFields DEF BlankText, Goto, Inv
  <2> HIDE DaysAssumption
  <2>2. \A t \in Sweeper : \/ sweep'[t] = sweep[t]
                           \/ sweep'[t].at # "uploads" /\ sweep'[t].day <= now'
    BY <1>1, <2>1 DEF Inv, TypeOK
  <2> QED
    BY <1>1, <2>1, <2>2, InvAside
<1>6. CASE ExpireOps(s)
  <2>1. /\ sweep' = [sweep EXCEPT ![s] = [at |-> "staging", day |-> sweep[s].day]]
        /\ now' = now /\ uploads' = uploads /\ objects' = objects /\ sweep[s] # Idle
    BY <1>6, SweepFields DEF ExpireOps, Goto, Inv
  <2> HIDE DaysAssumption
  <2>2. \A t \in Sweeper : \/ sweep'[t] = sweep[t]
                           \/ sweep'[t].at # "uploads" /\ sweep'[t].day <= now'
    BY <1>1, <2>1 DEF Inv, TypeOK
  <2> QED
    BY <1>1, <2>1, <2>2, InvAside
<1>7. CASE ExpireStaging(s)
  <2>1. /\ sweep' = [sweep EXCEPT ![s] = Idle]
        /\ now' = now /\ uploads' = uploads /\ objects' = objects
    BY <1>7 DEF ExpireStaging, Goto
  <2>2. \A t \in Sweeper : sweep'[t] = sweep[t] \/ sweep'[t] = Idle
    BY <2>1 DEF Inv, TypeOK
  <2> QED
    BY <1>1, <2>1, <2>2, InvAside
<1> QED
  BY <1>2, <1>3, <1>4, <1>5, <1>6, <1>7 DEF SweepStep

LEMMA InvNext == Inv /\ TypeOK' /\ [Next]_vars => Inv'
<1> SUFFICES ASSUME Inv, TypeOK', [Next]_vars
             PROVE  SweepSafe' /\ NoOrphanObject' /\ OnlyOldUploadsMissing'
  BY DEF Inv
<1>1. CASE NextDay
  <2>1. /\ uploads' = uploads /\ objects' = objects /\ sweep' = sweep
        /\ now' = now + 1 /\ now \in Int
    BY <1>1, DaysAssumption DEF NextDay, written, Inv, TypeOK, Day
  <2> QED
    BY <2>1, InvAside
<1>2. CASE Services
  <2>1. ASSUME NEW a \in Attachment, Upload(a)
        PROVE  SweepSafe' /\ NoOrphanObject' /\ OnlyOldUploadsMissing'
    BY <2>1, DaysAssumption
    DEF Upload, Inv, TypeOK, SweepSafe, UploadsSafe, NoOrphanObject, OnlyOldUploadsMissing, PastDue
  <2>2. ASSUME UNCHANGED <<now, uploads, objects, sweep>>
        PROVE  SweepSafe' /\ NoOrphanObject' /\ OnlyOldUploadsMissing'
    BY <2>2 DEF Inv, SweepSafe, UploadsSafe, NoOrphanObject, OnlyOldUploadsMissing, PastDue
  <2> QED
    BY <1>2, <2>1, <2>2 DEF Services, Ask, Escalate, ExpertAnswers, Stage
<1>3. ASSUME NEW s \in Sweeper, SweepStep(s)
      PROVE  SweepSafe' /\ NoOrphanObject' /\ OnlyOldUploadsMissing'
  BY <1>3, InvSweep
<1>4. ASSUME NEW s \in Sweeper, Stop(s)
      PROVE  SweepSafe' /\ NoOrphanObject' /\ OnlyOldUploadsMissing'
  <2>1. /\ sweep' = [sweep EXCEPT ![s] = Idle]
        /\ now' = now /\ uploads' = uploads /\ objects' = objects
    BY <1>4 DEF Stop, Goto, written
  <2>2. /\ \A t \in Sweeper : sweep'[t] = sweep[t] \/ sweep'[t] = Idle
        /\ now \in Int
    BY <2>1, DaysAssumption DEF Inv, TypeOK, Day
  <2> QED
    BY <2>1, <2>2, InvAside
<1>5. CASE UNCHANGED vars
  BY <1>5 DEF vars, Inv, SweepSafe, UploadsSafe, NoOrphanObject, OnlyOldUploadsMissing, PastDue
<1> QED
  BY <1>1, <1>2, <1>3, <1>4, <1>5 DEF Next

LEMMA Invariant == Spec => []Inv
<1>1. Init /\ TypeOK => Inv
  BY InvInit DEF Inv
<1> QED
  BY <1>1, InvNext, TypeCorrect, PTL DEF Spec

\* Every stored upload has its row, however many sweeps run and die.
THEOREM UploadsKeepTheirRow == Spec => []NoOrphanObject
BY Invariant, PTL DEF Inv

\* An upload that can still be read by its row is missing only after its time.
THEOREM UploadsStayTheirTime == Spec => []OnlyOldUploadsMissing
BY Invariant, PTL DEF Inv

\* Rows, text and uploads are kept until their own limits: what a sweep deletes was
\* past its time when the sweep looked at the clock, which is not ahead.
THEOREM NothingGoesEarly == Spec => KeptUntilItsTime
<1> DEFINE Kept ==
      /\ \A r \in Request :
            /\ interactions[r].born \in Day /\ interactions'[r].born = Gone =>
                   PastDue(interactions[r].born, OpsDays)
            /\ interactions[r].question /\ ~interactions'[r].question =>
                   TextMayGo(interactions[r].born)
            /\ tickets[r].answer /\ ~tickets'[r].answer => TextMayGo(tickets[r].born)
      /\ \A a \in objects \ objects' : PastDue(uploads[a], UploadsDays)
<1>1. Inv /\ [Next]_vars => [Kept]_vars
  <2> SUFFICES ASSUME Inv, Next PROVE Kept
    OBVIOUS
  <2> USE DaysAssumption
  <2>1. \A r \in Request : /\ interactions[r] \in Row /\ interactions[r].born \in Date
                           /\ tickets[r] \in Row /\ tickets[r].born \in Date
    BY DEF Inv, TypeOK, Row
  <2>2. now \in Int /\ Day \subseteq Nat
    BY DEF Inv, TypeOK, Day
  <2>3. \A date \in Date, day \in Day, limit \in Nat :
          Older(date, day, limit) /\ day <= now => PastDue(date, limit)
    BY <2>2 DEF Older, PastDue, Date, Day, Never, Gone, Inv, TypeOK
  <2>4. ASSUME NEW s \in Sweeper, SweepStep(s) PROVE Kept
    <3>1. sweep[s] # Idle => sweep[s].day \in Day /\ sweep[s].day <= now
      BY SweepFields DEF Inv, SweepSafe
    <3>2. CASE Start(s)
      BY <3>2, <2>1 DEF Start, written, Date, Day, Gone
    <3>3. CASE DeleteObject(s)
      <4>1. /\ sweep[s].at = "uploads" /\ sweep[s] # Idle
            /\ UNCHANGED <<interactions, tickets>>
            /\ \E a \in sweep[s].todo : objects' = objects \ {a}
        BY <3>3, SweepFields DEF DeleteObject, Inv
      <4>2. \A a \in objects \ objects' : PastDue(uploads[a], UploadsDays)
        <5>1. /\ sweep[s].todo \subseteq sweep[s].old
              /\ \A a \in sweep[s].old :
                    uploads[a] \in Day => uploads[a] < sweep[s].day - UploadsDays
          BY <4>1 DEF Inv, SweepSafe, UploadsSafe
        <5>2. \A a \in objects \ objects' : a \in sweep[s].old /\ uploads[a] \in Day
          BY <4>1, <5>1 DEF Inv, NoOrphanObject
        <5>3. sweep[s].day \in Int /\ sweep[s].day <= now
          BY <3>1, <4>1 DEF Day
        <5> QED
          BY <5>1, <5>2, <5>3, <2>2 DEF PastDue, Day
      <4> QED
        BY <4>1, <4>2, <2>1 DEF Day, Gone
    <3>4. CASE DeleteRows(s)
      BY <3>4, <2>1 DEF DeleteRows, Date, Day, Gone
    <3>5. CASE BlankText(s)
      <4>1. sweep[s] # Idle /\ objects' = objects
        BY <3>5, SweepFields DEF BlankText, Inv
      <4>2. /\ interactions' = [r \in Request |-> Blanked(interactions[r], sweep[s].day)]
            /\ tickets' = [r \in Request |-> Blanked(tickets[r], sweep[s].day)]
        BY <3>5 DEF BlankText
      <4>3. \A r \in Request, row \in Row :
              /\ Blanked(row, sweep[s].day).born = row.born
              /\ \/ Blanked(row, sweep[s].day) = row
                 \/ Older(row.born, sweep[s].day, TextDays)
        BY DEF Blanked, Row
      <4> QED
        BY <3>1, <4>1, <4>2, <4>3, <2>1, <2>3 DEF Day, Gone, TextMayGo
    <3>6. CASE ExpireOps(s)
      <4>1. sweep[s] # Idle /\ objects' = objects
        BY <3>6, SweepFields DEF ExpireOps, Inv
      <4>2. \A r \in Request :
              /\ \/ interactions'[r] = interactions[r]
                 \/ Older(interactions[r].born, sweep[s].day, OpsDays)
              /\ \/ tickets'[r] = tickets[r]
                 \/ Older(tickets[r].born, sweep[s].day, OpsDays)
        BY <3>6 DEF ExpireOps, OldRequests
      <4> QED
        BY <3>1, <4>1, <4>2, <2>1, <2>3 DEF Day, Gone, TextMayGo
    <3>7. CASE ExpireStaging(s)
      BY <3>7, <2>1 DEF ExpireStaging, Date, Day, Gone
    <3> QED
      BY <2>4, <3>2, <3>3, <3>4, <3>5, <3>6, <3>7 DEF SweepStep
  <2>5. CASE NextDay \/ \E s \in Sweeper : Stop(s)
    BY <2>5, <2>1 DEF NextDay, Stop, written, Day, Gone
  <2>6. CASE Services
    <3>1. ASSUME NEW r \in Request, Ask(r) PROVE Kept
      BY <3>1, <2>1, <2>2 DEF Ask, NoRow, Never, Gone, Day, Inv, TypeOK
    <3>2. ASSUME NEW r \in Request, Escalate(r) PROVE Kept
      BY <3>2, <2>1, <2>2 DEF Escalate, NoRow, Never, Gone, Day, Inv, TypeOK
    <3>3. ASSUME NEW r \in Request, ExpertAnswers(r) PROVE Kept
      BY <3>3, <2>1, <2>2 DEF ExpertAnswers, Gone, Day, Inv, TypeOK
    <3>4. ASSUME NEW a \in Attachment, Upload(a) PROVE Kept
      BY <3>4, <2>1 DEF Upload, Gone, Day
    <3>5. ASSUME NEW i \in IngestionRun, Stage(i) PROVE Kept
      BY <3>5, <2>1 DEF Stage, Gone, Day
    <3> QED
      BY <2>6, <3>1, <3>2, <3>3, <3>4, <3>5 DEF Services
  <2> QED
    BY <2>4, <2>5, <2>6 DEF Next
<1> QED
  BY <1>1, Invariant, PTL DEF Spec, KeptUntilItsTime

-----------------------------------------------------------------------------
(* What a sweep has passed stays swept: rows that come in behind it are of *)
(* its day or later, and text that is gone is not written again.           *)

UploadsSwept(k) == Expired(k) = {}

TextSwept(k) ==
    \A r \in Request : \A row \in {interactions[r], tickets[r]} :
        Older(row.born, k, TextDays) => ~row.question /\ ~row.answer

OpsSwept(k) ==
    /\ OldRequests(k) = {}
    /\ \A r \in Request : ~Older(tickets[r].born, k, OpsDays) /\ ~Older(facts[r], k, OpsDays)

\* How far the sweep of s has come, the uploads it has read included.
SweptSoFar(s) == sweep[s] # Idle =>
    /\ IF sweep[s].at = "uploads" THEN Expired(sweep[s].day) \subseteq sweep[s].old
       ELSE UploadsSwept(sweep[s].day)
    /\ sweep[s].at \in {"ops", "staging"} => TextSwept(sweep[s].day)
    /\ sweep[s].at = "staging" => OpsSwept(sweep[s].day)

\* Where the question is gone, so is the answer: blank_text finds rows by the question.
Quiet == \A r \in Request : \A row \in {interactions[r], tickets[r]} : ~row.question => ~row.answer

SweptInv == Quiet /\ \A s \in Sweeper : SweptSoFar(s)

\* What a step may make of a date, and of a row: it is written today, goes, or stays,
\* and a row that stays gets no text it has lost.
DateMoves(old, new) == new = old \/ new \in {now, Gone}
RowMoves(old, new) ==
    \/ new = old
    \/ new.born \in {now, Gone}
    \/ /\ new.born = old.born
       /\ old.question \/ (~new.question /\ ~new.answer)

RowsMove ==
    /\ \A a \in Attachment : DateMoves(uploads[a], uploads'[a])
    /\ \A r \in Request : /\ DateMoves(facts[r], facts'[r])
                          /\ RowMoves(interactions[r], interactions'[r])
                          /\ RowMoves(tickets[r], tickets'[r])

\* What is written today, or gone, is not older than a limit of a day that is past.
LEMMA TodayIsNotOld ==
    ASSUME NEW k \in Nat, NEW n \in Nat, k <= n, NEW limit \in Nat, NEW date \in {n, Gone}
    PROVE  ~Older(date, k, limit)
BY DEF Older, Gone

LEMMA SweptKept ==
    ASSUME TypeOK, RowsMove, NEW k \in Nat, k <= now
    PROVE  /\ Expired(k)' \subseteq Expired(k)
           /\ TextSwept(k) => TextSwept(k)'
           /\ OpsSwept(k) => OpsSwept(k)'
<1>1. now \in Nat /\ UploadsDays \in Nat /\ TextDays \in Nat /\ OpsDays \in Nat
  BY DaysAssumption DEF TypeOK, Day
<1>2. \A date, limit : date \in {now, Gone} /\ limit \in Nat => ~Older(date, k, limit)
  BY <1>1, TodayIsNotOld
<1>3. Expired(k)' \subseteq Expired(k)
  <2>1. \A a \in Attachment : Older(uploads'[a], k, UploadsDays) => Older(uploads[a], k, UploadsDays)
    BY <1>1, <1>2 DEF RowsMove, DateMoves
  <2>2. QED
    BY <2>1 DEF Expired
<1>4. ASSUME TextSwept(k), NEW old, NEW new, RowMoves(old, new),
             Older(old.born, k, TextDays) => ~old.question /\ ~old.answer,
             Older(new.born, k, TextDays)
      PROVE  ~new.question /\ ~new.answer
  BY <1>1, <1>2, <1>4 DEF RowMoves
<1>5. ASSUME TextSwept(k)
      PROVE  TextSwept(k)'
  <2>1. ASSUME NEW r \in Request
        PROVE  /\ Older(interactions'[r].born, k, TextDays) =>
                      ~interactions'[r].question /\ ~interactions'[r].answer
               /\ Older(tickets'[r].born, k, TextDays) =>
                      ~tickets'[r].question /\ ~tickets'[r].answer
    <3>1. RowMoves(interactions[r], interactions'[r]) /\ RowMoves(tickets[r], tickets'[r])
      BY DEF RowsMove
    <3>2. /\ Older(interactions[r].born, k, TextDays) =>
                 ~interactions[r].question /\ ~interactions[r].answer
          /\ Older(tickets[r].born, k, TextDays) => ~tickets[r].question /\ ~tickets[r].answer
      BY <1>5 DEF TextSwept
    <3>3. PICK row, row2, tic, tic2 : /\ row = interactions[r] /\ row2 = interactions'[r]
                                      /\ tic = tickets[r] /\ tic2 = tickets'[r]
      OBVIOUS
    <3>4. Older(row2.born, k, TextDays) => ~row2.question /\ ~row2.answer
      BY <1>4, <1>5, <3>1, <3>2, <3>3
    <3>5. Older(tic2.born, k, TextDays) => ~tic2.question /\ ~tic2.answer
      BY <1>4, <1>5, <3>1, <3>2, <3>3
    <3>6. QED
      BY <3>3, <3>4, <3>5
  <2>2. QED
    BY <2>1 DEF TextSwept
<1>6. ASSUME OpsSwept(k)
      PROVE  OpsSwept(k)'
  <2>1. ASSUME NEW r \in Request
        PROVE  /\ ~Older(interactions'[r].born, k, OpsDays)
               /\ ~Older(tickets'[r].born, k, OpsDays) /\ ~Older(facts'[r], k, OpsDays)
    <3>1. /\ ~Older(interactions[r].born, k, OpsDays)
          /\ ~Older(tickets[r].born, k, OpsDays) /\ ~Older(facts[r], k, OpsDays)
      BY <1>6 DEF OpsSwept, OldRequests
    <3>2. QED
      BY <1>1, <1>2, <3>1 DEF RowsMove, DateMoves, RowMoves
  <2>2. QED
    BY <2>1 DEF OpsSwept, OldRequests
<1>7. QED
  BY <1>3, <1>5, <1>6

\* Every step moves rows so, and leaves no answer without its question.
LEMMA EachStepMoves ==
    ASSUME TypeOK, Quiet, [Next]_vars
    PROVE  RowsMove /\ Quiet'
<1>1. CASE UNCHANGED written
  BY <1>1 DEF written, RowsMove, DateMoves, RowMoves, Quiet
<1>2. CASE Services
  <2>1. ASSUME NEW r \in Request, Ask(r)
        PROVE  RowsMove /\ Quiet'
    BY <2>1 DEF Ask, TypeOK, RowsMove, DateMoves, RowMoves, Quiet
  <2>2. ASSUME NEW r \in Request, Escalate(r)
        PROVE  RowsMove /\ Quiet'
    BY <2>2 DEF Escalate, TypeOK, RowsMove, DateMoves, RowMoves, Quiet
  <2>3. ASSUME NEW r \in Request, ExpertAnswers(r)
        PROVE  RowsMove /\ Quiet'
    BY <2>3 DEF ExpertAnswers, TypeOK, Row, RowsMove, DateMoves, RowMoves, Quiet
  <2>4. ASSUME NEW a \in Attachment, Upload(a)
        PROVE  RowsMove /\ Quiet'
    BY <2>4 DEF Upload, TypeOK, RowsMove, DateMoves, RowMoves, Quiet
  <2>5. ASSUME NEW i \in IngestionRun, Stage(i)
        PROVE  RowsMove /\ Quiet'
    BY <2>5 DEF Stage, RowsMove, DateMoves, RowMoves, Quiet
  <2>6. QED
    BY <1>2, <2>1, <2>2, <2>3, <2>4, <2>5 DEF Services
<1>3. ASSUME NEW s \in Sweeper, SweepStep(s)
      PROVE  RowsMove /\ Quiet'
  <2>1. CASE DeleteRows(s)
    BY <2>1 DEF DeleteRows, RowsMove, DateMoves, RowMoves, Quiet
  <2>2. CASE BlankText(s)
    <3>1. ASSUME NEW row \in Row, NEW k
          PROVE  /\ Blanked(row, k).born = row.born
                 /\ \/ Blanked(row, k) = row
                    \/ ~Blanked(row, k).question /\ ~Blanked(row, k).answer
      BY DEF Row, Blanked
    <3>2. PICK k : k = sweep[s].day
      OBVIOUS
    <3>3. \A r \in Request : /\ interactions'[r] = Blanked(interactions[r], k)
                             /\ tickets'[r] = Blanked(tickets[r], k)
                             /\ interactions[r] \in Row /\ tickets[r] \in Row
      BY <2>2, <3>2 DEF BlankText, TypeOK
    <3>4. Quiet'
      BY <3>1, <3>3 DEF Quiet
    <3>5. \A r \in Request : /\ RowMoves(interactions[r], interactions'[r])
                             /\ RowMoves(tickets[r], tickets'[r])
      BY <3>1, <3>3 DEF RowMoves
    <3>6. QED
      BY <2>2, <3>4, <3>5 DEF BlankText, RowsMove, DateMoves
  <2>3. CASE ExpireOps(s)
    BY <2>3 DEF ExpireOps, Deleted, RowsMove, DateMoves, RowMoves, Quiet
  <2>4. CASE UNCHANGED <<interactions, tickets, facts, uploads>>
    BY <2>4 DEF RowsMove, DateMoves, RowMoves, Quiet
  <2>5. QED
    BY <1>3, <2>1, <2>2, <2>3, <2>4 DEF SweepStep, Start, DeleteObject, ExpireStaging, written
<1>4. QED
  BY <1>1, <1>2, <1>3 DEF Next, NextDay, Stop, vars, written

\* A sweep that rests keeps what it has swept.
LEMMA RestingKeeps ==
    ASSUME Inv, RowsMove, NEW s \in Sweeper, SweptSoFar(s), sweep'[s] = sweep[s]
    PROVE  SweptSoFar(s)'
<1>1. CASE sweep[s] = Idle
  BY <1>1 DEF SweptSoFar
<1>2. CASE sweep[s] # Idle
  <2>1. PICK k : k = sweep[s].day
    OBVIOUS
  <2>2. TypeOK /\ k \in Nat /\ k <= now
    BY <1>2, <2>1, SweepFields DEF Inv, SweepSafe, Day
  <2>3. /\ Expired(k)' \subseteq Expired(k)
        /\ TextSwept(k) => TextSwept(k)'
        /\ OpsSwept(k) => OpsSwept(k)'
    BY <2>2, SweptKept
  <2>4. /\ IF sweep[s].at = "uploads" THEN Expired(k) \subseteq sweep[s].old ELSE UploadsSwept(k)
        /\ sweep[s].at \in {"ops", "staging"} => TextSwept(k)
        /\ sweep[s].at = "staging" => OpsSwept(k)
    BY <1>2, <2>1 DEF SweptSoFar
  <2>5. UploadsSwept(k) => UploadsSwept(k)'
    BY <2>3 DEF UploadsSwept
  <2>6. sweep'[s].day = k
    BY <2>1
  <2>7. /\ IF sweep'[s].at = "uploads" THEN Expired(k)' \subseteq sweep'[s].old
           ELSE UploadsSwept(k)'
        /\ sweep'[s].at \in {"ops", "staging"} => TextSwept(k)'
        /\ sweep'[s].at = "staging" => OpsSwept(k)'
    BY <2>3, <2>4, <2>5
  <2>8. QED
    BY <2>6, <2>7 DEF SweptSoFar
<1>3. QED
  BY <1>1, <1>2

\* A sweep that goes on has swept what it leaves behind.
LEMMA GoingOnSweeps ==
    ASSUME Inv, RowsMove, Quiet, NEW s \in Sweeper, SweptSoFar(s), SweepStep(s)
    PROVE  SweptSoFar(s)'
<1>1. sweep \in [Sweeper -> SweepState] /\ TypeOK
  BY DEF Inv, TypeOK
<1>2. CASE Start(s)
  <2>1. sweep'[s] = [at |-> "uploads", day |-> now, old |-> Expired(now), todo |-> Expired(now)]
    BY <1>1, <1>2 DEF Start, Goto
  <2>2. Expired(now)' = Expired(now) /\ now' = now
    BY <1>2 DEF Start, written, Expired
  <2>3. QED
    BY <2>1, <2>2 DEF SweptSoFar
<1>3. CASE DeleteObject(s)
  <2>1. PICK a \in sweep[s].todo : sweep' = [sweep EXCEPT ![s] = [sweep[s] EXCEPT !.todo = @ \ {a}]]
    BY <1>3 DEF DeleteObject, Goto
  <2>2. sweep[s].at = "uploads" /\ uploads' = uploads /\ sweep[s] \in SweepState
    BY <1>1, <1>3 DEF DeleteObject
  <2>3. /\ sweep'[s].at = "uploads" /\ sweep'[s].day = sweep[s].day
        /\ sweep'[s].old = sweep[s].old
    BY <1>1, <2>1, <2>2 DEF SweepState, Idle
  <2>4. PICK k : k = sweep[s].day
    OBVIOUS
  <2>5. Expired(k) \subseteq sweep[s].old
    BY <2>2, <2>4 DEF SweptSoFar, Idle
  <2>6. Expired(k)' \subseteq sweep'[s].old
    BY <2>2, <2>3, <2>5 DEF Expired
  <2>7. QED
    BY <2>3, <2>4, <2>6 DEF SweptSoFar
<1>4. CASE DeleteRows(s) \/ BlankText(s) \/ ExpireOps(s)
  <2>1. /\ sweep[s] # Idle
        /\ sweep[s].at \in {"uploads", "text", "ops"}
    BY <1>4 DEF DeleteRows, BlankText, ExpireOps, Idle
  <2>2. PICK k : k = sweep[s].day
    OBVIOUS
  <2>3. k \in Nat /\ k <= now
    BY <1>1, <2>1, <2>2, SweepFields DEF Inv, SweepSafe, Day
  <2>4. /\ Expired(k)' \subseteq Expired(k)
        /\ TextSwept(k) => TextSwept(k)'
    BY <1>1, <2>3, SweptKept
  <2>5. CASE DeleteRows(s)
    <3>1. sweep'[s] = [at |-> "text", day |-> k]
      BY <1>1, <2>2, <2>5 DEF DeleteRows, Goto
    <3>2. /\ Expired(k) \subseteq sweep[s].old
          /\ \A a \in sweep[s].old \cap Attachment : uploads'[a] = Gone
      BY <2>1, <2>2, <2>5 DEF DeleteRows, SweptSoFar
    <3>3. \A a \in Attachment : ~Older(uploads'[a], k, UploadsDays)
      BY <2>4, <3>2 DEF Expired, Older, Gone
    <3>4. UploadsSwept(k)'
      BY <3>3 DEF UploadsSwept, Expired
    <3>5. QED
      BY <3>1, <3>4 DEF SweptSoFar
  <2>6. CASE BlankText(s)
    <3>1. sweep'[s] = [at |-> "ops", day |-> k]
      BY <1>1, <2>2, <2>6 DEF BlankText, Goto
    <3>2. UploadsSwept(k)'
      BY <2>1, <2>2, <2>4, <2>6 DEF BlankText, SweptSoFar, UploadsSwept
    <3>3. \A r \in Request : /\ interactions'[r] = Blanked(interactions[r], k)
                             /\ tickets'[r] = Blanked(tickets[r], k)
                             /\ interactions[r] \in Row /\ tickets[r] \in Row
      BY <1>1, <2>2, <2>6 DEF BlankText, TypeOK
    <3>4. ASSUME NEW row \in Row, ~row.question => ~row.answer,
                 Older(Blanked(row, k).born, k, TextDays)
          PROVE  ~Blanked(row, k).question /\ ~Blanked(row, k).answer
      BY <3>4 DEF Row, Blanked
    <3>5. TextSwept(k)'
      BY <3>3, <3>4 DEF TextSwept, Quiet
    <3>6. QED
      BY <3>1, <3>2, <3>5 DEF SweptSoFar
  <2>7. CASE ExpireOps(s)
    <3>1. sweep'[s] = [at |-> "staging", day |-> k]
      BY <1>1, <2>2, <2>7 DEF ExpireOps, Goto
    <3>2. UploadsSwept(k)' /\ TextSwept(k)'
      BY <2>1, <2>2, <2>4, <2>7 DEF ExpireOps, SweptSoFar, UploadsSwept
    <3>3. OpsSwept(k)'
      BY <2>2, <2>7 DEF ExpireOps, OpsSwept, OldRequests, Older, Deleted, Gone
    <3>4. QED
      BY <3>1, <3>2, <3>3 DEF SweptSoFar
  <2>8. QED
    BY <1>4, <2>5, <2>6, <2>7
<1>5. CASE ExpireStaging(s)
  <2>1. sweep'[s] = Idle
    BY <1>1, <1>5 DEF ExpireStaging, Goto
  <2>2. QED
    BY <2>1 DEF SweptSoFar
<1>6. QED
  BY <1>2, <1>3, <1>4, <1>5 DEF SweepStep

LEMMA SweptInvNext == Inv /\ SweptInv /\ [Next]_vars => SweptInv'
<1> SUFFICES ASSUME Inv, SweptInv, [Next]_vars
             PROVE  SweptInv'
  OBVIOUS
<1>1. RowsMove /\ Quiet'
  BY EachStepMoves DEF Inv, SweptInv
<1>2. ASSUME NEW t \in Sweeper
      PROVE  SweptSoFar(t)'
  <2>1. SweptSoFar(t) /\ sweep \in [Sweeper -> SweepState]
    BY DEF SweptInv, Inv, TypeOK
  <2>2. CASE sweep'[t] = sweep[t]
    BY <1>1, <2>1, <2>2, RestingKeeps
  <2>3. CASE SweepStep(t)
    BY <1>1, <2>1, <2>3, GoingOnSweeps DEF SweptInv
  <2>4. CASE Stop(t)
    <3>1. sweep'[t] = Idle
      BY <2>1, <2>4 DEF Stop, Goto
    <3>2. QED
      BY <3>1 DEF SweptSoFar
  <2>5. CASE NextDay \/ Services \/ UNCHANGED vars
    <3>1. sweep' = sweep
      BY <2>5 DEF NextDay, Services, Ask, Escalate, ExpertAnswers, Upload, Stage, vars
    <3>2. QED
      BY <2>2, <3>1
  <2>6. CASE \E s \in Sweeper : s # t /\ (SweepStep(s) \/ Stop(s))
    <3>1. PICK s \in Sweeper : s # t /\ (SweepStep(s) \/ Stop(s))
      BY <2>6
    <3>2. PICK state : sweep' = [sweep EXCEPT ![s] = state]
      BY <3>1 DEF SweepStep, Stop, Start, DeleteObject, DeleteRows, BlankText, ExpireOps,
                  ExpireStaging, Goto
    <3>3. sweep'[t] = sweep[t]
      BY <2>1, <3>1, <3>2
    <3>4. QED
      BY <2>2, <3>3
  <2>7. QED
    BY <2>3, <2>4, <2>5, <2>6 DEF Next
<1>3. QED
  BY <1>1, <1>2 DEF SweptInv

\* A sweep may rest for days between two steps, next to any number of others: what
\* it has passed is swept all the same, and stays so.
THEOREM SweepsLeaveNothing == Spec => []NothingLeftBehind
<1>1. Init => SweptInv
  BY DEF Init, SweptInv, Quiet, SweptSoFar, NoRow
<1>2. TypeOK /\ SweptInv => NothingLeftBehind
  <2>1. SUFFICES ASSUME TypeOK, SweptInv, NEW s \in Sweeper, sweep[s] # Idle
                 PROVE  LET day == sweep[s].day
                        IN  /\ sweep[s].at # "uploads" => Expired(day) = {}
                            /\ sweep[s].at \in {"ops", "staging"} => TextSwept(day)
                            /\ sweep[s].at = "staging" => OpsSwept(day)
    BY DEF NothingLeftBehind, TextSwept, OpsSwept
  <2>2. SweptSoFar(s)
    BY <2>1 DEF SweptInv
  <2>3. QED
    BY <2>1, <2>2 DEF SweptSoFar, UploadsSwept
<1>3. QED
  BY <1>1, <1>2, SweptInvNext, Invariant, TypeCorrect, PTL DEF Spec
=============================================================================
