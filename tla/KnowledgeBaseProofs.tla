------------------------- MODULE KnowledgeBaseProofs -------------------------
(***************************************************************************)
(* Nothing reaches readers without the gate, for every number of jobs,     *)
(* documents, versions and crashes; and what the statements on the         *)
(* validity table do to readers, for any table.                            *)
(***************************************************************************)
EXTENDS KnowledgeBase, SequenceTheorems, TLAPS

-----------------------------------------------------------------------------
(* The validity table: what its statements do to what readers see.         *)

\* Both statements keep rows rows.
LEMMA OpenKeepsRows ==
    ASSUME NEW C, NEW rows \in SUBSET ValidityRows(C), NEW cs \in SUBSET C, NEW v \in Nat
    PROVE  OpenIntervals(rows, cs, v) \in SUBSET ValidityRows(C)
BY DEF OpenIntervals, ValidityRows

LEMMA CloseKeepsRows ==
    ASSUME NEW C, NEW rows \in SUBSET ValidityRows(C), NEW cs, NEW v \in Nat
    PROVE  CloseIntervals(rows, cs, v) \in SUBSET ValidityRows(C)
BY DEF CloseIntervals, ValidityRows

\* A new interval starts at its version, so readers of earlier versions do
\* not see it (open_intervals: "visible from version onward").
THEOREM OpenLeavesEarlier ==
    ASSUME NEW C, NEW rows \in SUBSET ValidityRows(C), NEW cs \in SUBSET C,
           NEW v \in Nat, NEW u \in Nat, u < v
    PROVE  ActiveChunks(OpenIntervals(rows, cs, v), u) = ActiveChunks(rows, u)
<1>1. ASSUME NEW r \in OpenIntervals(rows, cs, v), VisibleAt(r, u)
      PROVE  r \in rows
  BY <1>1 DEF OpenIntervals, VisibleAt
<1>2. rows \subseteq OpenIntervals(rows, cs, v)
  BY DEF OpenIntervals
<1>3. {r \in OpenIntervals(rows, cs, v) : VisibleAt(r, u)} = {r \in rows : VisibleAt(r, u)}
  BY <1>1, <1>2
<1>4. QED
  BY <1>3 DEF ActiveChunks

\* An interval closed at a version above u ends above u, so readers of u see
\* it as before (close_intervals: "hide the chunks from version onward").
THEOREM CloseLeavesEarlier ==
    ASSUME NEW C, NEW rows \in SUBSET ValidityRows(C), NEW cs,
           NEW v \in Nat, NEW u \in Nat, u < v
    PROVE  ActiveChunks(CloseIntervals(rows, cs, v), u) = ActiveChunks(rows, u)
<1>1. ASSUME NEW r \in rows, Closing(r, cs, v)
      PROVE  /\ VisibleAt(r, u) <=> VisibleAt([r EXCEPT !.to = v], u)
             /\ [r EXCEPT !.to = v].chunk = r.chunk
             /\ [r EXCEPT !.to = v] \in CloseIntervals(rows, cs, v)
  BY <1>1, OpenAssumption DEF Closing, VisibleAt, ValidityRows, CloseIntervals
<1>2. ASSUME NEW c \in ActiveChunks(CloseIntervals(rows, cs, v), u)
      PROVE  c \in ActiveChunks(rows, u)
  <2>1. PICK q \in CloseIntervals(rows, cs, v) : VisibleAt(q, u) /\ c = q.chunk
    BY DEF ActiveChunks
  <2>2. CASE q \in rows
    BY <2>1, <2>2 DEF ActiveChunks
  <2>3. CASE q \notin rows
    <3>1. PICK r \in rows : Closing(r, cs, v) /\ q = [r EXCEPT !.to = v]
      BY <2>3 DEF CloseIntervals
    <3>2. VisibleAt(r, u) /\ c = r.chunk
      BY <1>1, <2>1, <3>1
    <3>3. QED
      BY <3>2 DEF ActiveChunks
  <2>4. QED
    BY <2>2, <2>3
<1>3. ASSUME NEW c \in ActiveChunks(rows, u)
      PROVE  c \in ActiveChunks(CloseIntervals(rows, cs, v), u)
  <2>1. PICK r \in rows : VisibleAt(r, u) /\ c = r.chunk
    BY DEF ActiveChunks
  <2>2. CASE Closing(r, cs, v)
    BY <1>1, <2>1, <2>2 DEF ActiveChunks
  <2>3. CASE ~ Closing(r, cs, v)
    BY <2>1, <2>3 DEF ActiveChunks, CloseIntervals
  <2>4. QED
    BY <2>2, <2>3
<1>4. QED
  BY <1>2, <1>3

\* Running a statement again changes nothing ("Safe to repeat").
THEOREM OpenTwice ==
    ASSUME NEW rows, NEW cs, NEW v
    PROVE  LET once == OpenIntervals(rows, cs, v)
           IN  OpenIntervals(once, cs, v) = once
BY DEF OpenIntervals

THEOREM CloseTwice ==
    ASSUME NEW C, NEW rows \in SUBSET ValidityRows(C), NEW cs, NEW v \in Nat
    PROVE  LET once == CloseIntervals(rows, cs, v)
           IN  CloseIntervals(once, cs, v) = once
<1> DEFINE once == CloseIntervals(rows, cs, v)
<1>1. ASSUME NEW r \in once
      PROVE  ~ Closing(r, cs, v)
  BY OpenAssumption DEF CloseIntervals, Closing, ValidityRows
<1>2. QED
  BY <1>1 DEF CloseIntervals

-----------------------------------------------------------------------------
(* Intervals of one chunk that do not meet.                                *)

Apart(r, q) ==
    \/ r.to # Open /\ r.to <= q.from
    \/ q.to # Open /\ q.to <= r.from

Tidy(rows) == \A r, q \in rows : r # q /\ r.chunk = q.chunk => Apart(r, q)

\* No search can return a chunk of a tidy table twice (PgServingIndex._visible_at).
THEOREM TidyShowsOnce ==
    ASSUME NEW C, NEW rows \in SUBSET ValidityRows(C), Tidy(rows), NEW v \in Nat
    PROVE  ~ ShownTwice(rows, v)
<1>1. ASSUME NEW r \in rows, NEW q \in rows, r # q, r.chunk = q.chunk,
             VisibleAt(r, v), VisibleAt(q, v)
      PROVE  FALSE
  BY <1>1, OpenAssumption DEF Tidy, Apart, VisibleAt, ValidityRows
<1>2. QED
  BY <1>1 DEF ShownTwice

\* What was open ends, so what did not meet before does not meet now.
LEMMA CloseKeepsTidy ==
    ASSUME NEW C, NEW rows \in SUBSET ValidityRows(C), Tidy(rows), NEW cs, NEW v \in Nat
    PROVE  Tidy(CloseIntervals(rows, cs, v))
<1>1. ASSUME NEW r \in CloseIntervals(rows, cs, v)
      PROVE  \E p \in rows :
                 /\ p.chunk = r.chunk /\ p.from = r.from
                 /\ IF Closing(p, cs, v) THEN r = [p EXCEPT !.to = v] ELSE r = p
  BY DEF CloseIntervals, ValidityRows
<1>2. ASSUME NEW r \in CloseIntervals(rows, cs, v), NEW q \in CloseIntervals(rows, cs, v),
             r # q, r.chunk = q.chunk
      PROVE  Apart(r, q)
  <2>1. PICK p \in rows :
            /\ p.chunk = r.chunk /\ p.from = r.from
            /\ IF Closing(p, cs, v) THEN r = [p EXCEPT !.to = v] ELSE r = p
    BY <1>1
  <2>2. PICK o \in rows :
            /\ o.chunk = q.chunk /\ o.from = q.from
            /\ IF Closing(o, cs, v) THEN q = [o EXCEPT !.to = v] ELSE q = o
    BY <1>1
  <2>3. p # o /\ p.chunk = o.chunk
    BY <1>2, <2>1, <2>2
  <2>4. Apart(p, o)
    BY <2>3 DEF Tidy
  <2>5. /\ p.to # Open => r.to = p.to
        /\ o.to # Open => q.to = o.to
    BY <2>1, <2>2 DEF Closing
  <2>6. QED
    BY <2>1, <2>2, <2>4, <2>5 DEF Apart
<1>3. QED
  BY <1>2 DEF Tidy

\* A chunk is opened at v only where it is not open and none of its intervals
\* reaches beyond v.
LEMMA OpenKeepsTidy ==
    ASSUME NEW C, NEW rows \in SUBSET ValidityRows(C), Tidy(rows),
           NEW cs \in SUBSET C, NEW v \in Nat,
           \A r \in rows : r.chunk \in cs => r.from = v \/ (r.to # Open /\ r.to <= v)
    PROVE  Tidy(OpenIntervals(rows, cs, v))
<1>1. ASSUME NEW r \in OpenIntervals(rows, cs, v), r \notin rows
      PROVE  /\ r = [chunk |-> r.chunk, from |-> v, to |-> Open]
             /\ r.chunk \in cs
             /\ \A q \in rows : q.chunk = r.chunk => q.to # Open /\ q.to <= v
  BY <1>1 DEF OpenIntervals
<1>2. ASSUME NEW r \in OpenIntervals(rows, cs, v), NEW q \in OpenIntervals(rows, cs, v),
             r # q, r.chunk = q.chunk
      PROVE  Apart(r, q)
  <2>1. CASE r \in rows /\ q \in rows
    BY <1>2, <2>1 DEF Tidy
  <2>2. CASE r \in rows /\ q \notin rows
    BY <1>1, <1>2, <2>2 DEF Apart
  <2>3. CASE r \notin rows /\ q \in rows
    BY <1>1, <1>2, <2>3 DEF Apart
  <2>4. CASE r \notin rows /\ q \notin rows
    BY <1>1, <1>2, <2>4
  <2>5. QED
    BY <2>1, <2>2, <2>3, <2>4
<1>3. QED
  BY <1>2 DEF Tidy

-----------------------------------------------------------------------------
(* A table on its way from what version u shows to what version v will.    *)

\* Nothing happens to the row after u.
Settled(row, u) == row.from <= u /\ (row.to = Open \/ row.to <= u)

\* Some of the chunks in gone have been closed at v, some in come opened.
Between(rows, u, v, gone, come) ==
    \A r \in rows :
        \/ Settled(r, u)
        \/ r.chunk \in gone /\ r.from <= u /\ r.to = v
        \/ r.chunk \in come /\ r.from = v /\ r.to = Open

AllClosed(rows, cs) == \A r \in rows : r.chunk \in cs => r.to # Open
AllOpened(rows, cs, v) == \A c \in cs : \E r \in rows : r.chunk = c /\ r.from = v

\* Closing goes on from wherever an earlier try stopped, and ends it.
LEMMA BetweenClose ==
    ASSUME NEW C, NEW rows \in SUBSET ValidityRows(C), NEW gone, NEW come,
           NEW u \in Nat, NEW v \in Nat, u < v, gone \cap come = {},
           Between(rows, u, v, gone, come)
    PROVE  LET after == CloseIntervals(rows, gone, v)
           IN  /\ Between(after, u, v, gone, come)
               /\ AllClosed(after, gone)
               /\ AllOpened(rows, come, v) => AllOpened(after, come, v)
<1> DEFINE after == CloseIntervals(rows, gone, v)
<1>1. ASSUME NEW r \in after
      PROVE  \/ r \in rows /\ ~ Closing(r, gone, v)
             \/ r.chunk \in gone /\ r.from <= u /\ r.to = v
  <2>1. CASE r \in rows /\ ~ Closing(r, gone, v)
    BY <2>1
  <2>2. CASE \E q \in rows : Closing(q, gone, v) /\ r = [q EXCEPT !.to = v]
    <3>1. PICK q \in rows : Closing(q, gone, v) /\ r = [q EXCEPT !.to = v]
      BY <2>2
    <3>2. q.chunk \in gone /\ q.from < v
      BY <3>1 DEF Closing
    <3>3. q.from <= u
      BY <3>2 DEF Between, Settled, ValidityRows
    <3>4. QED
      BY <3>1, <3>2, <3>3 DEF ValidityRows
  <2>3. QED
    BY <2>1, <2>2 DEF CloseIntervals
<1>2. Between(after, u, v, gone, come)
  BY <1>1 DEF Between
<1>3. ASSUME NEW r \in after, r.chunk \in gone
      PROVE  r.to # Open
  <2>1. CASE r \in rows /\ ~ Closing(r, gone, v)
    <3>1. r.to = Open => ~ (r.from < v)
      BY <1>3, <2>1 DEF Closing
    <3>2. r.to = Open => r.from <= u
      BY <1>3, <2>1, OpenAssumption DEF Between, Settled
    <3>3. QED
      BY <2>1, <3>1, <3>2 DEF ValidityRows
  <2>2. CASE r.to = v
    BY <2>2, OpenAssumption
  <2>3. QED
    BY <1>1, <2>1, <2>2
<1>4. ASSUME NEW c \in come, NEW r \in rows, r.chunk = c, r.from = v
      PROVE  r \in after
  BY <1>4 DEF CloseIntervals, Closing
<1>5. QED
  BY <1>2, <1>3, <1>4 DEF AllClosed, AllOpened

\* Opening goes on from wherever an earlier try stopped, and ends it.
LEMMA BetweenOpen ==
    ASSUME NEW C, NEW rows \in SUBSET ValidityRows(C), NEW gone, NEW come \in SUBSET C,
           NEW u \in Nat, NEW v \in Nat, gone \cap come = {},
           Between(rows, u, v, gone, come)
    PROVE  LET after == OpenIntervals(rows, come, v)
           IN  /\ Between(after, u, v, gone, come)
               /\ AllOpened(after, come, v)
               /\ AllClosed(rows, gone) => AllClosed(after, gone)
<1> DEFINE after == OpenIntervals(rows, come, v)
<1>1. ASSUME NEW r \in after
      PROVE  r \in rows \/ (r.chunk \in come /\ r.from = v /\ r.to = Open)
  BY DEF OpenIntervals
<1>2. Between(after, u, v, gone, come)
  BY <1>1 DEF Between
<1>3. AllOpened(after, come, v)
  <2>1. ASSUME NEW c \in come
        PROVE  \E r \in after : r.chunk = c /\ r.from = v
    <3>1. CASE \E r \in rows : r.chunk = c /\ r.from = v
      BY <3>1 DEF OpenIntervals
    <3>2. CASE ~ \E r \in rows : r.chunk = c /\ r.from = v
      <4>1. [chunk |-> c, from |-> v, to |-> Open] \in after
        BY <3>2 DEF OpenIntervals
      <4>2. QED
        BY <4>1
    <3>3. QED
      BY <3>1, <3>2
  <2>2. QED
    BY <2>1 DEF AllOpened
<1>4. AllClosed(rows, gone) => AllClosed(after, gone)
  BY <1>1 DEF AllClosed
<1>5. QED
  BY <1>2, <1>3, <1>4

\* The chunks that come are shown by nobody up to u, so opening them keeps a
\* table tidy, wherever an earlier try stopped.
LEMMA BetweenOpenTidy ==
    ASSUME NEW C, NEW rows \in SUBSET ValidityRows(C), NEW gone, NEW come \in SUBSET C,
           NEW u \in Nat, NEW v \in Nat, u < v, gone \cap come = {},
           come \cap ActiveChunks(rows, u) = {},
           Between(rows, u, v, gone, come), Tidy(rows)
    PROVE  Tidy(OpenIntervals(rows, come, v))
<1>1. ASSUME NEW r \in rows, r.chunk \in come, r.from # v
      PROVE  r.to # Open /\ r.to <= v
  <2>1. ~ VisibleAt(r, u)
    BY <1>1 DEF ActiveChunks
  <2>2. Settled(r, u)
    BY <1>1 DEF Between
  <2>3. r.to # Open /\ r.to <= u
    BY <2>1, <2>2 DEF VisibleAt, Settled
  <2>4. QED
    BY <2>3, OpenAssumption DEF ValidityRows
<1>2. QED
  BY <1>1, OpenKeepsTidy

\* When all is closed and opened, v shows what u shows with what is gone hidden
\* and what comes added (close_intervals, open_intervals).
THEOREM BetweenEnds ==
    ASSUME NEW C, NEW rows \in SUBSET ValidityRows(C), NEW gone, NEW come \in SUBSET C,
           NEW u \in Nat, NEW v \in Nat, u < v,
           Between(rows, u, v, gone, come), AllClosed(rows, gone), AllOpened(rows, come, v)
    PROVE  ActiveChunks(rows, v) = (ActiveChunks(rows, u) \ gone) \cup come
<1>1. ASSUME NEW r \in rows, VisibleAt(r, v)
      PROVE  r.chunk \in (ActiveChunks(rows, u) \ gone) \cup come
  <2>1. CASE Settled(r, u)
    <3>1. r.to = Open
      BY <1>1, <2>1 DEF Settled, VisibleAt, ValidityRows
    <3>2. VisibleAt(r, u)
      BY <2>1, <3>1 DEF Settled, VisibleAt
    <3>3. QED
      BY <3>1, <3>2 DEF AllClosed, ActiveChunks
  <2>2. CASE r.to = v
    BY <1>1, <2>2, OpenAssumption DEF VisibleAt
  <2>3. QED
    BY <2>1, <2>2 DEF Between
<1>2. ASSUME NEW c \in ActiveChunks(rows, u), c \notin gone
      PROVE  c \in ActiveChunks(rows, v)
  <2>1. PICK r \in rows : VisibleAt(r, u) /\ c = r.chunk
    BY DEF ActiveChunks
  <2>2. r.from <= u /\ r.from # v
    BY <2>1 DEF VisibleAt, ValidityRows
  <2>3. Settled(r, u)
    BY <1>2, <2>1, <2>2 DEF Between
  <2>4. r.to = Open
    BY <2>1, <2>3 DEF Settled, VisibleAt, ValidityRows
  <2>5. VisibleAt(r, v)
    BY <2>2, <2>4 DEF VisibleAt, ValidityRows
  <2>6. QED
    BY <2>1, <2>5 DEF ActiveChunks
<1>3. ASSUME NEW c \in come
      PROVE  c \in ActiveChunks(rows, v)
  <2>1. PICK r \in rows : r.chunk = c /\ r.from = v
    BY DEF AllOpened
  <2>2. r.to = Open
    BY <2>1 DEF Between, Settled, ValidityRows
  <2>3. VisibleAt(r, v)
    BY <2>1, <2>2 DEF VisibleAt
  <2>4. QED
    BY <2>1, <2>3 DEF ActiveChunks
<1>4. QED
  BY <1>1, <1>2, <1>3 DEF ActiveChunks

\* When v takes the place of u, nothing is under way.
LEMMA BetweenSettles ==
    ASSUME NEW C, NEW rows \in SUBSET ValidityRows(C), NEW gone, NEW come,
           NEW u \in Nat, NEW v \in Nat, u < v, Between(rows, u, v, gone, come)
    PROVE  \A r \in rows : Settled(r, v)
BY OpenAssumption DEF Between, Settled, ValidityRows

\* A statement that finds its work done leaves the table alone.
LEMMA NothingToClose ==
    ASSUME NEW rows, NEW cs, NEW v, AllClosed(rows, cs)
    PROVE  CloseIntervals(rows, cs, v) = rows
BY DEF AllClosed, CloseIntervals, Closing

LEMMA NothingToOpen ==
    ASSUME NEW rows, NEW cs, NEW v, AllOpened(rows, cs, v)
    PROVE  OpenIntervals(rows, cs, v) = rows
BY DEF AllOpened, OpenIntervals

-----------------------------------------------------------------------------
(* The inductive invariant of the platform calls.                          *)

\* What one row of the registry refers to exists.
JobRefers(state) ==
    /\ state.at \in {"number", "insert"} => state.parent \in 0..Len(kb)
    /\ state.at \notin {"idle", "number", "insert"} => state.version \in 1..Len(kb)
    /\ state.at = "link" =>
         /\ state.report \in 1..Len(reports)
         /\ reports[state.report].version = state.version
    /\ state.at = "check" =>
         /\ state.gate \in 1..Len(reports)
         /\ reports[state.gate].version = state.version

RowRefers(v) ==
    /\ kb[v].parent \in 0..Len(kb)
    /\ kb[v].gate # 0 => /\ kb[v].gate \in 1..Len(reports)
                         /\ reports[kb[v].gate].version = v

References ==
    /\ \A name \in {"serving", "candidate"} : alias[name] \in 0..Len(kb)
    /\ \A v \in 1..Len(kb) : RowRefers(v)
    /\ \A r \in 1..Len(reports) : reports[r].version \in 1..Len(kb)
    /\ \A j \in Job : JobRefers(job[j])

\* What is cleared stays cleared: it rests on reports and approvals, which are
\* never taken back.
Cleared(v) ==
    /\ \E r \in 1..Len(reports) : reports[r].version = v /\ reports[r].passed
    /\ kb[v].docs \subseteq vetted

\* The base a candidate is being made from was served; a publish that is past
\* its check, or a rollback, is at a version that may be.
JobCleared(state) ==
    /\ state.at \in {"number", "insert"} /\ state.parent # 0 =>
         kb[state.parent].docs \subseteq vetted
    /\ state.at \in {"plan", "store", "open", "serve", "finish", "rollback"} =>
         Cleared(state.version)

\* A version without a parent, or with a document its parent does not hold,
\* needs an approval; every other version holds documents of its parent only.
ReportCleared(r) ==
    ~ reports[r].sme \/ reports[r].decision = "approved" =>
        kb[reports[r].version].docs \subseteq vetted

Clearance ==
    /\ \A v \in Readable : Cleared(v)
    /\ \A v \in 1..Len(kb) : kb[v].parent # 0 => kb[kb[v].parent].docs \subseteq vetted
    /\ \A r \in 1..Len(reports) : ReportCleared(r)
    /\ \A j \in Job : JobCleared(job[j])

IndInv == TypeOK /\ References /\ Clearance

-----------------------------------------------------------------------------
(* Types.                                                                  *)

LEMMA ChunksTyped ==
    ASSUME NEW sets \in SUBSET ChunkSet
    PROVE  NewChunks(sets) \subseteq Chunk
BY RenditionAssumption DEF NewChunks, ChunksOf, ChunkSet, Chunk

LEMMA ActiveTyped ==
    ASSUME TypeOK, NEW v
    PROVE  Active(v) \subseteq Chunk
BY DEF TypeOK, Active, ActiveChunks, ValidityRows

LEMMA TargetTyped ==
    ASSUME TypeOK, NEW v, NEW sets \in SUBSET ChunkSet
    PROVE  Target(v, sets) \subseteq Chunk
<1>1. Reusable(v) \subseteq Chunk
  BY ActiveTyped DEF Reusable
<1>2. QED
  BY <1>1, ChunksTyped DEF Target, Retained

LEMMA RowTyped ==
    ASSUME TypeOK, NEW v \in 1..Len(kb)
    PROVE  /\ kb[v] \in KbRow
           /\ kb[v].docs \in SUBSET DocVersion
           /\ kb[v].parent \in Nat
           /\ kb[v].gate \in Nat
<1>1. kb[v] \in KbRow
  BY ElementOfSeq DEF TypeOK
<1>2. QED
  BY <1>1 DEF KbRow

\* The fields of a job's state, by where the job is.
LEMMA JobFields ==
    ASSUME NEW state \in JobState
    PROVE  /\ state.at \in {"number", "insert"} =>
                /\ state.docs \in SUBSET DocVersion
                /\ state.parent \in Nat
                /\ state.enc \in Encoding
           /\ state.at \notin {"idle", "number"} => state.version \in Nat
           /\ state.at = "link" => state.report \in Nat
           /\ state.at = "check" => state.gate \in Nat
           /\ state.at \in Publishing \cup {"interrupted"} => state.sets \in SUBSET ChunkSet
           /\ state.at \in {"store", "open", "serve", "finish"} =>
                /\ state.todo \in SUBSET ChunkSet
                /\ state.closing \in SUBSET Chunk
                /\ state.opening \in SUBSET Chunk
                /\ state = [at |-> state.at, version |-> state.version, sets |-> state.sets,
                            todo |-> state.todo, closing |-> state.closing,
                            opening |-> state.opening]
           /\ state.at = "idle" => state = Idle
BY DEF JobState, Idle, Publishing

-----------------------------------------------------------------------------
(* What a step may do to the tables.                                       *)

\* Rows and reports are never dropped; a row keeps its documents and parent, a
\* report its version and what the checks came to; approvals are remembered.
Grows ==
    /\ kb' \in Seq(KbRow) /\ reports' \in Seq(Report)
    /\ Len(kb) <= Len(kb')
    /\ \A v \in 1..Len(kb) : kb'[v].docs = kb[v].docs /\ kb'[v].parent = kb[v].parent
    /\ Len(reports) <= Len(reports')
    /\ \A r \in 1..Len(reports) : /\ reports'[r].version = reports[r].version
                                   /\ reports'[r].passed = reports[r].passed
                                   /\ reports'[r].sme = reports[r].sme
    /\ vetted \subseteq vetted'

LEMMA KbRowUpdate ==
    ASSUME TypeOK, NEW v \in 1..Len(kb), NEW row \in KbRow,
           kb' = [kb EXCEPT ![v] = row]
    PROVE  /\ kb' \in Seq(KbRow)
           /\ Len(kb') = Len(kb)
           /\ \A u \in 1..Len(kb) : kb'[u] = IF u = v THEN row ELSE kb[u]
BY ExceptSeq DEF TypeOK

LEMMA KbAppend ==
    ASSUME TypeOK, NEW row \in KbRow, kb' = Append(kb, row)
    PROVE  /\ kb' \in Seq(KbRow)
           /\ Len(kb') = Len(kb) + 1
           /\ \A u \in 1..Len(kb) : kb'[u] = kb[u]
           /\ kb'[Len(kb) + 1] = row
BY DEF TypeOK

LEMMA ReportUpdate ==
    ASSUME TypeOK, NEW r \in 1..Len(reports), NEW report \in Report,
           reports' = [reports EXCEPT ![r] = report]
    PROVE  /\ reports' \in Seq(Report)
           /\ Len(reports') = Len(reports)
           /\ \A q \in 1..Len(reports) : reports'[q] = IF q = r THEN report ELSE reports[q]
BY ExceptSeq DEF TypeOK

LEMMA ReportAppend ==
    ASSUME TypeOK, NEW report \in Report, reports' = Append(reports, report)
    PROVE  /\ reports' \in Seq(Report)
           /\ Len(reports') = Len(reports) + 1
           /\ \A r \in 1..Len(reports) : reports'[r] = reports[r]
           /\ reports'[Len(reports) + 1] = report
BY DEF TypeOK

\* The registry's set_kb_status, with and without a report.
LEMMA StatusStep ==
    ASSUME TypeOK, NEW v \in 1..Len(kb),
           NEW status \in {"candidate", "published", "rejected"}, SetStatus(v, status)
    PROVE  /\ kb' \in Seq(KbRow)
           /\ Len(kb') = Len(kb)
           /\ \A u \in 1..Len(kb) : kb'[u] = IF u = v THEN [kb[u] EXCEPT !.status = status]
                                                     ELSE kb[u]
<1> DEFINE row == [kb[v] EXCEPT !.status = status]
<1>1. kb[v] \in KbRow
  BY ElementOfSeq DEF TypeOK
<1>2. row \in KbRow
  BY <1>1 DEF KbRow
<1>3. kb' = [kb EXCEPT ![v] = row]
  BY DEF SetStatus
<1> HIDE DEF row
<1>4. /\ kb' \in Seq(KbRow)
      /\ Len(kb') = Len(kb)
      /\ \A u \in 1..Len(kb) : kb'[u] = IF u = v THEN row ELSE kb[u]
  BY <1>2, <1>3, KbRowUpdate
<1>5. QED
  BY <1>4 DEF row

-----------------------------------------------------------------------------
(* What stays true as the registry grows.                                  *)

LEMMA ClearedKept ==
    ASSUME TypeOK, Grows, NEW v \in 1..Len(kb), Cleared(v)
    PROVE  Cleared(v)'
BY DEF TypeOK, Grows, Cleared

LEMMA JobRefersKept ==
    ASSUME TypeOK, Grows, NEW state, JobRefers(state)
    PROVE  /\ state.at \in {"number", "insert"} => state.parent \in 0..Len(kb')
           /\ state.at \notin {"idle", "number", "insert"} => state.version \in 1..Len(kb')
           /\ state.at = "link" =>
                /\ state.report \in 1..Len(reports')
                /\ reports'[state.report].version = state.version
           /\ state.at = "check" =>
                /\ state.gate \in 1..Len(reports')
                /\ reports'[state.gate].version = state.version
BY DEF TypeOK, Grows, JobRefers

LEMMA JobClearedKept ==
    ASSUME TypeOK, Grows, NEW state \in JobState, JobRefers(state), JobCleared(state)
    PROVE  /\ state.at \in {"number", "insert"} /\ state.parent # 0 =>
                kb'[state.parent].docs \subseteq vetted'
           /\ state.at \in {"plan", "store", "open", "serve", "finish", "rollback"} =>
                /\ \E r \in 1..Len(reports') :
                     reports'[r].version = state.version /\ reports'[r].passed
                /\ kb'[state.version].docs \subseteq vetted'
<1>1. CASE state.at \in {"number", "insert"}
  <2>1. ASSUME state.parent # 0
        PROVE  kb'[state.parent].docs \subseteq vetted'
    <3>1. state.parent \in 1..Len(kb)
      BY <1>1, <2>1 DEF TypeOK, JobRefers
    <3>2. kb[state.parent].docs \subseteq vetted
      BY <1>1, <2>1 DEF JobCleared
    <3>3. QED
      BY <3>1, <3>2 DEF Grows
  <2>2. QED
    BY <1>1, <2>1
<1>2. CASE state.at \in {"plan", "store", "open", "serve", "finish", "rollback"}
  <2>1. state.version \in 1..Len(kb) /\ Cleared(state.version)
    BY <1>2 DEF JobRefers, JobCleared
  <2>2. /\ \E r \in 1..Len(reports') :
             reports'[r].version = state.version /\ reports'[r].passed
        /\ kb'[state.version].docs \subseteq vetted'
    BY <2>1, ClearedKept DEF Cleared
  <2>3. state.at \notin {"number", "insert"}
    BY <1>2
  <2>4. QED
    BY <2>2, <2>3
<1>3. QED
  BY <1>1, <1>2

\* One job moves to a state that refers to what exists, and is cleared.
LEMMA JobsKept ==
    ASSUME IndInv, Grows, NEW j \in Job, NEW state \in JobState, Goto(j, state),
           JobRefers(state), JobCleared(state)
    PROVE  /\ job' \in [Job -> JobState]
           /\ \A k \in Job : JobRefers(job[k])'
           /\ \A k \in Job : JobCleared(job[k])'
<1>1. job' = [job EXCEPT ![j] = state]
  BY DEF Goto
<1>2. job' \in [Job -> JobState]
  BY <1>1 DEF IndInv, TypeOK
<1>3. ASSUME NEW k \in Job
      PROVE  /\ job'[k] \in JobState
             /\ JobRefers(job'[k])
             /\ JobCleared(job'[k])
  BY <1>1 DEF IndInv, TypeOK, References, Clearance
<1>4. ASSUME NEW k \in Job
      PROVE  JobRefers(job[k])'
  BY <1>3, JobRefersKept DEF IndInv, JobRefers
<1>5. ASSUME NEW k \in Job
      PROVE  JobCleared(job[k])'
  BY <1>3, JobClearedKept DEF IndInv, JobCleared, Cleared
<1>6. QED
  BY <1>2, <1>4, <1>5

\* Steps that leave the registry alone: a job reads, or writes to the index.
LEMMA RegistryUnread ==
    ASSUME IndInv, NEW j \in Job, NEW state \in JobState, Goto(j, state),
           JobRefers(state), JobCleared(state),
           UNCHANGED <<kb, reports, alias, retracted, vetted>>,
           stored' \subseteq Chunk, validity' \subseteq ValidityRows(Chunk)
    PROVE  IndInv'
<1>1. Grows
  BY DEF IndInv, TypeOK, Grows
<1>2. /\ job' \in [Job -> JobState]
      /\ \A k \in Job : JobRefers(job[k])'
      /\ \A k \in Job : JobCleared(job[k])'
  BY <1>1, JobsKept
<1>3. TypeOK'
  BY <1>2 DEF IndInv, TypeOK
<1>4. References'
  BY <1>2 DEF IndInv, References, RowRefers
<1>5. Clearance'
  BY <1>2 DEF IndInv, Clearance, Cleared, ReportCleared, Readable, PublishedVersions, Status
<1>6. QED
  BY <1>3, <1>4, <1>5 DEF IndInv

LEMMA CandidateDocsTyped ==
    ASSUME IndInv, NEW add, NEW remove, add \subseteq DocVersion
    PROVE  CandidateDocs(DocsOf(alias["serving"]), add, remove) \in SUBSET DocVersion
<1>1. CASE alias["serving"] = 0
  BY <1>1, DocAssumption DEF CandidateDocs, DocsOf
<1>2. CASE alias["serving"] # 0
  <2>1. alias["serving"] \in 1..Len(kb)
    BY <1>2 DEF IndInv, TypeOK, References
  <2>2. kb[alias["serving"]].docs \subseteq DocVersion
    BY <2>1, RowTyped DEF IndInv
  <2>3. QED
    BY <1>2, <2>2 DEF CandidateDocs, DocsOf
<1>3. QED
  BY <1>1, <1>2

\* The serving version was readable, so its documents are vetted.
LEMMA ServingCleared ==
    ASSUME IndInv, alias["serving"] # 0
    PROVE  kb[alias["serving"]].docs \subseteq vetted
BY DEF IndInv, Clearance, Cleared, Readable

LEMMA CreateStartKeeps ==
    ASSUME IndInv, NEW j \in Job, NEW add \in Batches, NEW remove \in Batches,
           NEW enc \in Encoding, CreateStart(j, add, remove, enc)
    PROVE  IndInv'
<1> DEFINE state == [at |-> "number", parent |-> alias["serving"], enc |-> enc,
                     docs |-> CandidateDocs(DocsOf(alias["serving"]), add, remove)]
<1>1. alias["serving"] \in 0..Len(kb) /\ alias["serving"] \in Nat
  BY DEF IndInv, TypeOK, References
<1>2. state \in JobState
  BY <1>1, CandidateDocsTyped DEF Batches, JobState
<1>3. JobRefers(state)
  BY <1>1 DEF JobRefers
<1>4. JobCleared(state)
  BY ServingCleared DEF JobCleared
<1>5. Goto(j, state) /\ UNCHANGED <<kb, reports, alias, retracted, vetted, stored, validity>>
  BY DEF CreateStart
<1> HIDE DEF state
<1>6. stored' \subseteq Chunk /\ validity' \subseteq ValidityRows(Chunk)
  BY <1>5 DEF IndInv, TypeOK
<1>7. QED
  BY <1>2, <1>3, <1>4, <1>5, <1>6, RegistryUnread

LEMMA CreateNumberKeeps ==
    ASSUME IndInv, NEW j \in Job, CreateNumber(j)
    PROVE  IndInv'
<1> DEFINE state == [at |-> "insert", docs |-> job[j].docs, parent |-> job[j].parent,
                     enc |-> job[j].enc, version |-> Len(kb) + 1]
<1>1. job[j] \in JobState /\ job[j].at = "number" /\ Len(kb) \in Nat
  BY DEF IndInv, TypeOK, CreateNumber
<1>2. state \in JobState
  BY <1>1, JobFields DEF JobState
<1>3. JobRefers(state)
  BY <1>1 DEF IndInv, References, JobRefers
<1>4. JobCleared(state)
  BY <1>1 DEF IndInv, Clearance, JobCleared
<1>5. Goto(j, state) /\ UNCHANGED <<kb, reports, alias, retracted, vetted, stored, validity>>
  BY DEF CreateNumber
<1> HIDE DEF state
<1>6. stored' \subseteq Chunk /\ validity' \subseteq ValidityRows(Chunk)
  BY <1>5 DEF IndInv, TypeOK
<1>7. QED
  BY <1>2, <1>3, <1>4, <1>5, <1>6, RegistryUnread

\* A call that ends, or is given up.
LEMMA IdleKeeps ==
    ASSUME IndInv, NEW j \in Job, Goto(j, Idle),
           UNCHANGED <<kb, reports, alias, retracted, vetted, stored, validity>>
    PROVE  IndInv'
<1>1. Idle \in JobState /\ JobRefers(Idle) /\ JobCleared(Idle)
  BY DEF Idle, JobState, JobRefers, JobCleared
<1>2. stored' \subseteq Chunk /\ validity' \subseteq ValidityRows(Chunk)
  BY DEF IndInv, TypeOK
<1>3. QED
  BY <1>1, <1>2, RegistryUnread

LEMMA GateStartKeeps ==
    ASSUME IndInv, NEW j \in Job, NEW v \in DOMAIN kb, GateStart(j, v)
    PROVE  IndInv'
<1> DEFINE state == [at |-> "gate", version |-> v]
<1>1. v \in 1..Len(kb) /\ v \in Nat
  BY DEF IndInv, TypeOK
<1>2. state \in JobState /\ JobRefers(state) /\ JobCleared(state)
  BY <1>1 DEF JobState, JobRefers, JobCleared
<1>3. Goto(j, state) /\ UNCHANGED <<kb, reports, alias, retracted, vetted, stored, validity>>
  BY DEF GateStart
<1> HIDE DEF state
<1>4. stored' \subseteq Chunk /\ validity' \subseteq ValidityRows(Chunk)
  BY <1>3 DEF IndInv, TypeOK
<1>5. QED
  BY <1>2, <1>3, <1>4, RegistryUnread

LEMMA RejectStartKeeps ==
    ASSUME IndInv, NEW j \in Job, NEW v \in DOMAIN kb, RejectStart(j, v)
    PROVE  IndInv'
<1> DEFINE state == [at |-> "reject", version |-> v]
<1>1. v \in 1..Len(kb) /\ v \in Nat
  BY DEF IndInv, TypeOK
<1>2. state \in JobState /\ JobRefers(state) /\ JobCleared(state)
  BY <1>1 DEF JobState, JobRefers, JobCleared
<1>3. Goto(j, state) /\ UNCHANGED <<kb, reports, alias, retracted, vetted, stored, validity>>
  BY DEF RejectStart
<1> HIDE DEF state
<1>4. stored' \subseteq Chunk /\ validity' \subseteq ValidityRows(Chunk)
  BY <1>3 DEF IndInv, TypeOK
<1>5. QED
  BY <1>2, <1>3, <1>4, RegistryUnread

\* Only a published version is rolled back to, and those are cleared.
LEMMA RollbackStartKeeps ==
    ASSUME IndInv, NEW j \in Job, NEW v \in DOMAIN kb, RollbackStart(j, v)
    PROVE  IndInv'
<1> DEFINE state == [at |-> "rollback", version |-> v]
<1>1. v \in 1..Len(kb) /\ v \in Nat
  BY DEF IndInv, TypeOK
<1>2. state \in JobState /\ JobRefers(state)
  BY <1>1 DEF JobState, JobRefers
<1>3. JobCleared(state)
  BY DEF IndInv, Clearance, Readable, PublishedVersions, RollbackStart, JobCleared
<1>4. Goto(j, state) /\ UNCHANGED <<kb, reports, alias, retracted, vetted, stored, validity>>
  BY DEF RollbackStart
<1> HIDE DEF state
<1>5. stored' \subseteq Chunk /\ validity' \subseteq ValidityRows(Chunk)
  BY <1>4 DEF IndInv, TypeOK
<1>6. QED
  BY <1>2, <1>3, <1>4, <1>5, RegistryUnread

LEMMA PublishStartKeeps ==
    ASSUME IndInv, NEW j \in Job, NEW v \in DOMAIN kb, NEW sets \in MatchingSets(v),
           PublishStart(j, v, sets)
    PROVE  IndInv'
<1> DEFINE state == [at |-> "check", version |-> v, gate |-> kb[v].gate, sets |-> sets]
<1>1. v \in 1..Len(kb) /\ v \in Nat
  BY DEF IndInv, TypeOK
<1>2. kb[v].gate \in Nat /\ sets \in SUBSET ChunkSet
  BY <1>1, RowTyped DEF IndInv, MatchingSets
<1>3. kb[v].gate \in 1..Len(reports) /\ reports[kb[v].gate].version = v
  BY <1>1 DEF IndInv, References, RowRefers, PublishStart, HasReport
<1>4. state \in JobState /\ JobRefers(state) /\ JobCleared(state)
  BY <1>1, <1>2, <1>3 DEF JobState, JobRefers, JobCleared
<1>5. Goto(j, state) /\ UNCHANGED <<kb, reports, alias, retracted, vetted, stored, validity>>
  BY DEF PublishStart
<1> HIDE DEF state
<1>6. stored' \subseteq Chunk /\ validity' \subseteq ValidityRows(Chunk)
  BY <1>5 DEF IndInv, TypeOK
<1>7. QED
  BY <1>4, <1>5, <1>6, RegistryUnread

\* The report publish checks is of the version it publishes, also when it was
\* read from the manifest before others changed the manifest.
LEMMA PublishCheckKeeps ==
    ASSUME IndInv, NEW j \in Job, PublishCheck(j)
    PROVE  IndInv'
<1> DEFINE state == [at |-> "plan", version |-> job[j].version, sets |-> job[j].sets]
<1>1. job[j] \in JobState /\ job[j].at = "check"
  BY DEF IndInv, TypeOK, PublishCheck
<1>2. job[j].version \in Nat /\ job[j].sets \in SUBSET ChunkSet
  BY <1>1, JobFields DEF Publishing
<1>3. /\ job[j].version \in 1..Len(kb)
      /\ job[j].gate \in 1..Len(reports)
      /\ reports[job[j].gate].version = job[j].version
  BY <1>1 DEF IndInv, References, JobRefers
<1>4. Cleared(job[j].version)
  <2>1. Approved(reports[job[j].gate])
    BY DEF PublishCheck, Publishable
  <2>2. kb[job[j].version].docs \subseteq vetted
    BY <1>3, <2>1 DEF IndInv, Clearance, ReportCleared, Approved
  <2>3. QED
    BY <1>3, <2>1, <2>2 DEF Cleared, Approved
<1>5. state \in JobState /\ JobRefers(state) /\ JobCleared(state)
  BY <1>2, <1>3, <1>4 DEF JobState, JobRefers, JobCleared
<1>6. Goto(j, state) /\ UNCHANGED <<kb, reports, alias, retracted, vetted, stored, validity>>
  BY DEF PublishCheck
<1> HIDE DEF state
<1>7. stored' \subseteq Chunk /\ validity' \subseteq ValidityRows(Chunk)
  BY <1>6 DEF IndInv, TypeOK
<1>8. QED
  BY <1>5, <1>6, <1>7, RegistryUnread

\* What the states of a publish past its check have in common.
LEMMA PublishingCleared ==
    ASSUME IndInv, NEW j \in Job, job[j].at \in {"plan", "store", "open", "serve", "finish"}
    PROVE  /\ job[j] \in JobState
           /\ job[j].version \in 1..Len(kb)
           /\ job[j].version \in Nat
           /\ job[j].sets \in SUBSET ChunkSet
           /\ Cleared(job[j].version)
<1>1. job[j] \in JobState
  BY DEF IndInv, TypeOK
<1>2. job[j].version \in 1..Len(kb) /\ Cleared(job[j].version)
  BY DEF IndInv, References, Clearance, JobRefers, JobCleared
<1>3. job[j].version \in Nat /\ job[j].sets \in SUBSET ChunkSet
  BY <1>1, JobFields DEF Publishing
<1>4. QED
  BY <1>1, <1>2, <1>3

LEMMA PublishPlanKeeps ==
    ASSUME IndInv, NEW j \in Job, PublishPlan(j)
    PROVE  IndInv'
<1> DEFINE v == job[j].version
           sets == job[j].sets
           active == Active(LatestPublished)
           state == [at |-> "store", version |-> v, sets |-> sets, todo |-> sets,
                     closing |-> active \ Target(v, sets),
                     opening |-> Target(v, sets) \ active]
<1>1. job[j].at = "plan"
  BY DEF PublishPlan
<1>2. v \in 1..Len(kb) /\ v \in Nat /\ sets \in SUBSET ChunkSet /\ Cleared(v)
  BY <1>1, PublishingCleared
<1>3. active \subseteq Chunk /\ Target(v, sets) \subseteq Chunk
  BY <1>2, ActiveTyped, TargetTyped DEF IndInv
<1>4. UNCHANGED <<kb, reports, alias, retracted, vetted, stored, validity>>
  BY DEF PublishPlan
<1>5. CASE Missing(v, sets) # {}
  <2>1. Goto(j, Idle)
    BY <1>5 DEF PublishPlan
  <2>2. QED
    BY <1>4, <2>1, IdleKeeps
<1>6. CASE Missing(v, sets) = {}
  <2>1. Goto(j, state)
    BY <1>6 DEF PublishPlan
  <2>2. state \in JobState
    BY <1>2, <1>3 DEF JobState
  <2>3. JobRefers(state) /\ JobCleared(state)
    BY <1>2 DEF JobRefers, JobCleared
  <2>4. stored' \subseteq Chunk /\ validity' \subseteq ValidityRows(Chunk)
    BY <1>4 DEF IndInv, TypeOK
  <2> HIDE DEF state
  <2>5. QED
    BY <1>4, <2>1, <2>2, <2>3, <2>4, RegistryUnread
<1>7. QED
  BY <1>5, <1>6

\* The next phase of a publish is at the same version.
LEMMA PhaseKept ==
    ASSUME IndInv, NEW j \in Job, job[j].at \in {"store", "open", "serve"},
           NEW phase \in {"store", "open", "serve", "finish"}, NEW todo \in SUBSET ChunkSet
    PROVE  LET state == [at |-> phase, version |-> job[j].version, sets |-> job[j].sets,
                         todo |-> todo, closing |-> job[j].closing,
                         opening |-> job[j].opening]
           IN  state \in JobState /\ JobRefers(state) /\ JobCleared(state)
<1>1. /\ job[j] \in JobState /\ job[j].version \in 1..Len(kb) /\ job[j].version \in Nat
      /\ job[j].sets \in SUBSET ChunkSet /\ Cleared(job[j].version)
  BY PublishingCleared
<1>2. job[j].closing \in SUBSET Chunk /\ job[j].opening \in SUBSET Chunk
  BY <1>1, JobFields
<1>3. QED
  BY <1>1, <1>2 DEF JobState, JobRefers, JobCleared

LEMMA PublishStoreKeeps ==
    ASSUME IndInv, NEW j \in Job, NEW set \in ChunkSet, PublishStore(j, set)
    PROVE  IndInv'
<1> DEFINE state == [at |-> "store", version |-> job[j].version, sets |-> job[j].sets,
                     todo |-> job[j].todo \ {set}, closing |-> job[j].closing,
                     opening |-> job[j].opening]
<1>1. job[j] \in JobState /\ job[j].at = "store"
  BY DEF IndInv, TypeOK, PublishStore
<1>2. job[j].todo \in SUBSET ChunkSet
  BY <1>1, JobFields
<1>3. state \in JobState /\ JobRefers(state) /\ JobCleared(state)
  BY <1>1, <1>2, PhaseKept
<1>4. [job[j] EXCEPT !.todo = @ \ {set}] = state
  <2> DEFINE rest == job[j].todo \ {set}
  <2> HIDE DEF rest
  <2>1. [job[j] EXCEPT !.todo = rest] =
          [at |-> "store", version |-> job[j].version, sets |-> job[j].sets,
           todo |-> rest, closing |-> job[j].closing, opening |-> job[j].opening]
    BY <1>1, JobFields
  <2>2. QED
    BY <2>1 DEF rest
<1>5. Goto(j, state) /\ UNCHANGED <<kb, reports, alias, retracted, vetted, validity>>
  BY <1>4 DEF PublishStore
<1> HIDE DEF state
<1>6. stored' \subseteq Chunk /\ validity' \subseteq ValidityRows(Chunk)
  <2>1. ChunksOf(set) \subseteq Chunk
    BY RenditionAssumption DEF ChunksOf, ChunkSet, Chunk
  <2>2. QED
    BY <1>5, <2>1 DEF IndInv, TypeOK, PublishStore
<1>7. QED
  BY <1>3, <1>5, <1>6, RegistryUnread

LEMMA PublishCloseKeeps ==
    ASSUME IndInv, NEW j \in Job, PublishClose(j)
    PROVE  IndInv'
<1> DEFINE state == [at |-> "open", version |-> job[j].version, sets |-> job[j].sets,
                     todo |-> job[j].todo, closing |-> job[j].closing,
                     opening |-> job[j].opening]
<1>1. job[j] \in JobState /\ job[j].at = "store"
  BY DEF IndInv, TypeOK, PublishClose
<1>2. job[j].todo \in SUBSET ChunkSet /\ job[j].version \in Nat
  BY <1>1, JobFields
<1>3. state \in JobState /\ JobRefers(state) /\ JobCleared(state)
  BY <1>1, <1>2, PhaseKept
<1>4. [job[j] EXCEPT !.at = "open"] = state
  BY <1>1, JobFields
<1>5. Goto(j, state) /\ UNCHANGED <<kb, reports, alias, retracted, vetted, stored>>
  BY <1>4 DEF PublishClose
<1> HIDE DEF state
<1>6. validity' \subseteq ValidityRows(Chunk)
  BY <1>2, CloseKeepsRows DEF IndInv, TypeOK, PublishClose
<1>7. stored' \subseteq Chunk
  BY <1>5 DEF IndInv, TypeOK
<1>8. QED
  BY <1>3, <1>5, <1>6, <1>7, RegistryUnread

LEMMA PublishOpenKeeps ==
    ASSUME IndInv, NEW j \in Job, PublishOpen(j)
    PROVE  IndInv'
<1> DEFINE state == [at |-> "serve", version |-> job[j].version, sets |-> job[j].sets,
                     todo |-> job[j].todo, closing |-> job[j].closing,
                     opening |-> job[j].opening]
<1>1. job[j] \in JobState /\ job[j].at = "open"
  BY DEF IndInv, TypeOK, PublishOpen
<1>2. /\ job[j].todo \in SUBSET ChunkSet /\ job[j].version \in Nat
      /\ job[j].opening \in SUBSET Chunk
  BY <1>1, JobFields
<1>3. state \in JobState /\ JobRefers(state) /\ JobCleared(state)
  BY <1>1, <1>2, PhaseKept
<1>4. [job[j] EXCEPT !.at = "serve"] = state
  BY <1>1, JobFields
<1>5. Goto(j, state) /\ UNCHANGED <<kb, reports, alias, retracted, vetted, stored>>
  BY <1>4 DEF PublishOpen
<1> HIDE DEF state
<1>6. validity' \subseteq ValidityRows(Chunk)
  BY <1>2, OpenKeepsRows DEF IndInv, TypeOK, PublishOpen
<1>7. stored' \subseteq Chunk
  BY <1>5 DEF IndInv, TypeOK
<1>8. QED
  BY <1>3, <1>5, <1>6, <1>7, RegistryUnread

\* A publish that is run again starts from its first check, so it need not be
\* cleared any more.
LEMMA CrashKeeps ==
    ASSUME IndInv, NEW j \in Job, Crash(j)
    PROVE  IndInv'
<1> DEFINE state == [at |-> "interrupted", version |-> job[j].version, sets |-> job[j].sets]
<1>1. UNCHANGED <<kb, reports, alias, retracted, vetted, stored, validity>>
  BY DEF Crash
<1>2. CASE Reruns /\ job[j].at \in Publishing
  <2>1. job[j] \in JobState /\ JobRefers(job[j])
    BY DEF IndInv, TypeOK, References
  <2>2. /\ job[j].version \in 1..Len(kb) /\ job[j].version \in Nat
        /\ job[j].sets \in SUBSET ChunkSet
    BY <1>2, <2>1, JobFields DEF JobRefers, Publishing
  <2>3. state \in JobState /\ JobRefers(state) /\ JobCleared(state)
    BY <2>2 DEF JobState, JobRefers, JobCleared
  <2>4. Goto(j, state)
    BY <1>2 DEF Crash
  <2>5. stored' \subseteq Chunk /\ validity' \subseteq ValidityRows(Chunk)
    BY <1>1 DEF IndInv, TypeOK
  <2> HIDE DEF state
  <2>6. QED
    BY <1>1, <2>3, <2>4, <2>5, RegistryUnread
<1>3. CASE ~ (Reruns /\ job[j].at \in Publishing)
  <2>1. Goto(j, Idle)
    BY <1>3 DEF Crash
  <2>2. QED
    BY <1>1, <2>1, IdleKeeps
<1>4. QED
  BY <1>2, <1>3

-----------------------------------------------------------------------------
(* Steps that write to the registry.                                       *)

LEMMA ReadableKept ==
    ASSUME IndInv, Grows
    PROVE  \A v \in Readable : v \in 1..Len(kb) /\ Cleared(v)'
<1>1. ASSUME NEW v \in Readable
      PROVE  v \in 1..Len(kb) /\ Cleared(v)
  BY DEF IndInv, TypeOK, References, Clearance, Readable, PublishedVersions
<1>2. QED
  BY <1>1, ClearedKept DEF IndInv

LEMMA RowsKept ==
    ASSUME IndInv, Grows, NEW v \in 1..Len(kb)
    PROVE  /\ kb'[v].parent \in 0..Len(kb')
           /\ kb'[v].parent # 0 => kb'[kb'[v].parent].docs \subseteq vetted'
           /\ kb'[v].gate = kb[v].gate => RowRefers(v)'
<1>1. /\ RowRefers(v) /\ kb[v].parent \in 0..Len(kb)
      /\ kb[v].parent # 0 => kb[kb[v].parent].docs \subseteq vetted
  BY DEF IndInv, References, Clearance, RowRefers
<1>2. /\ kb'[v].parent = kb[v].parent
      /\ Len(kb) \in Nat /\ Len(kb) <= Len(kb') /\ Len(kb') \in Int
      /\ Len(reports) \in Nat /\ Len(reports) <= Len(reports') /\ Len(reports') \in Int
  BY DEF IndInv, TypeOK, Grows
<1>3. kb'[v].parent \in 0..Len(kb')
  BY <1>1, <1>2
<1>4. ASSUME kb'[v].parent # 0
      PROVE  kb'[kb'[v].parent].docs \subseteq vetted'
  <2>1. kb[v].parent \in 1..Len(kb)
    BY <1>1, <1>2, <1>4
  <2>2. kb'[kb[v].parent].docs = kb[kb[v].parent].docs /\ vetted \subseteq vetted'
    BY <2>1 DEF Grows
  <2>3. QED
    BY <1>1, <1>2, <1>4, <2>2
<1>5. ASSUME kb'[v].gate = kb[v].gate
      PROVE  RowRefers(v)'
  BY <1>1, <1>2, <1>3, <1>5 DEF Grows, RowRefers
<1>6. QED
  BY <1>3, <1>4, <1>5

LEMMA ReportsKept ==
    ASSUME IndInv, Grows, NEW r \in 1..Len(reports)
    PROVE  /\ reports'[r].version \in 1..Len(kb')
           /\ kb'[reports[r].version].docs = kb[reports[r].version].docs
           /\ reports'[r].decision = reports[r].decision => ReportCleared(r)'
<1>1. reports[r].version \in 1..Len(kb) /\ ReportCleared(r)
  BY DEF IndInv, References, Clearance
<1>2. QED
  BY <1>1 DEF IndInv, TypeOK, Grows, ReportCleared

\* The new row has no report yet, and its parent was served.
LEMMA CreateInsertKeeps ==
    ASSUME IndInv, NEW j \in Job, CreateInsert(j)
    PROVE  IndInv'
<1>0. PICK v : v = Len(kb) + 1
  OBVIOUS
<1> DEFINE row == [docs |-> job[j].docs, parent |-> job[j].parent, enc |-> job[j].enc,
                   status |-> "candidate", gate |-> 0]
           state == [at |-> "candidate", version |-> job[j].version]
<1>1. job[j] \in JobState /\ job[j].at = "insert" /\ job[j].version = v
  BY <1>0 DEF IndInv, TypeOK, CreateInsert
<1>2. row \in KbRow
  BY <1>1, JobFields DEF KbRow
<1>3. /\ row.parent \in 0..Len(kb)
      /\ row.parent # 0 => kb[row.parent].docs \subseteq vetted
      /\ row.status = "candidate" /\ row.gate = 0
  BY <1>1 DEF IndInv, References, Clearance, JobRefers, JobCleared
<1>4. kb' = Append(kb, row) /\ Goto(j, state)
  BY DEF CreateInsert
<1>5. UNCHANGED <<reports, alias, retracted, stored, validity, vetted>>
  BY DEF CreateInsert
<1>6. Len(kb) \in Nat
  BY DEF IndInv, TypeOK
<1>7. state \in JobState
  BY <1>0, <1>1, <1>6 DEF JobState
<1>8. /\ state.at = "candidate" /\ state.version = v
  BY <1>1
<1> HIDE DEF row, state
<1>9. /\ kb' \in Seq(KbRow)
      /\ Len(kb') = Len(kb) + 1
      /\ \A u \in 1..Len(kb) : kb'[u] = kb[u]
      /\ kb'[v] = row
  BY <1>0, <1>2, <1>4, KbAppend DEF IndInv
<1>10. Grows
  BY <1>0, <1>5, <1>6, <1>9 DEF IndInv, TypeOK, Grows
<1>11. job' \in [Job -> JobState] /\ job' = [job EXCEPT ![j] = state]
  BY <1>4, <1>7 DEF Goto, IndInv, TypeOK
<1>12. \A k \in Job : JobRefers(job[k])'
  <2>1. ASSUME NEW k \in Job, k # j
        PROVE  JobRefers(job[k])'
    BY <1>10, <1>11, <2>1, JobRefersKept DEF IndInv, TypeOK, References, JobRefers
  <2>2. JobRefers(job[j])'
    BY <1>0, <1>6, <1>8, <1>9, <1>11 DEF IndInv, TypeOK, JobRefers
  <2>3. QED
    BY <2>1, <2>2
<1>13. \A k \in Job : JobCleared(job[k])'
  <2>1. ASSUME NEW k \in Job, k # j
        PROVE  JobCleared(job[k])'
    <3>1. job'[k] = job[k] /\ job[k] \in JobState /\ JobRefers(job[k]) /\ JobCleared(job[k])
      BY <1>11, <2>1 DEF IndInv, TypeOK, References, Clearance
    <3>2. QED
      BY <1>10, <3>1, JobClearedKept DEF IndInv, JobCleared, Cleared
  <2>2. JobCleared(job[j])'
    BY <1>8, <1>11 DEF IndInv, TypeOK, JobCleared
  <2>3. QED
    BY <2>1, <2>2
<1>14. TypeOK'
  BY <1>5, <1>9, <1>11 DEF IndInv, TypeOK
<1>15. \A u \in 1..Len(kb') : /\ RowRefers(u)'
                              /\ kb'[u].parent # 0 =>
                                   kb'[kb'[u].parent].docs \subseteq vetted'
  <2>1. ASSUME NEW u \in 1..Len(kb)
        PROVE  RowRefers(u)' /\ (kb'[u].parent # 0 =>
                                   kb'[kb'[u].parent].docs \subseteq vetted')
    BY <1>9, <1>10, RowsKept
  <2>2. RowRefers(v)' /\ (kb'[v].parent # 0 => kb'[kb'[v].parent].docs \subseteq vetted')
    BY <1>0, <1>3, <1>5, <1>6, <1>9 DEF RowRefers
  <2>3. \A u \in 1..Len(kb') : u \in 1..Len(kb) \/ u = v
    BY <1>0, <1>6, <1>9
  <2>4. QED
    BY <2>1, <2>2, <2>3
<1>16. References'
  <2>1. \A name \in {"serving", "candidate"} : alias'[name] \in 0..Len(kb')
    BY <1>5, <1>6, <1>9 DEF IndInv, References
  <2>2. \A r \in 1..Len(reports') : reports'[r].version \in 1..Len(kb')
    BY <1>5, <1>10, ReportsKept
  <2>3. QED
    BY <1>12, <1>15, <2>1, <2>2 DEF References
<1>17. Clearance'
  <2>1. ASSUME NEW u \in PublishedVersions'
        PROVE  u \in PublishedVersions
    <3>1. u \in 1..Len(kb') /\ kb'[u].status = "published"
      BY <1>9 DEF PublishedVersions, Status
    <3>2. u # v
      BY <1>0, <1>3, <1>9, <3>1
    <3>3. u \in 1..Len(kb) /\ kb[u].status = "published"
      BY <1>0, <1>6, <1>9, <3>1, <3>2
    <3>4. QED
      BY <3>3 DEF IndInv, TypeOK, PublishedVersions, Status
  <2>2. \A u \in Readable' : Cleared(u)'
    <3>1. \A u \in Readable' : u \in Readable
      BY <1>5, <2>1 DEF Readable
    <3>2. QED
      BY <1>10, <3>1, ReadableKept
  <2>3. \A r \in 1..Len(reports') : ReportCleared(r)'
    BY <1>5, <1>10, ReportsKept
  <2>4. QED
    BY <1>13, <1>15, <2>2, <2>3 DEF Clearance
<1>18. QED
  BY <1>14, <1>16, <1>17 DEF IndInv

\* The registry keeps its versions; one job ends; an alias may move to a
\* version that exists, serving to a cleared one.
LEMMA AliasStep ==
    ASSUME IndInv, NEW j \in Job, NEW name \in {"serving", "candidate"},
           NEW v \in 1..Len(kb), SetAlias(name, v), name = "serving" => Cleared(v),
           NEW state \in JobState, Goto(j, state), JobRefers(state), JobCleared(state),
           UNCHANGED <<kb, reports, retracted, stored, validity, vetted>>
    PROVE  IndInv'
<1>1. Grows
  BY DEF IndInv, TypeOK, Grows
<1>2. /\ job' \in [Job -> JobState]
      /\ \A k \in Job : JobRefers(job[k])'
      /\ \A k \in Job : JobCleared(job[k])'
  BY <1>1, JobsKept
<1>3. alias' = [alias EXCEPT ![name] = v]
  BY DEF SetAlias
<1>4. TypeOK'
  BY <1>2, <1>3 DEF IndInv, TypeOK
<1>5. References'
  <2>1. \A other \in {"serving", "candidate"} : alias'[other] \in 0..Len(kb')
    BY <1>3 DEF IndInv, TypeOK, References
  <2>2. QED
    BY <1>2, <2>1 DEF IndInv, References, RowRefers
<1>6. \A u \in Readable' : Cleared(u)
  <2>1. \A u \in Readable' : u \in Readable \/ (name = "serving" /\ u = v)
    BY <1>3 DEF IndInv, TypeOK, Readable, PublishedVersions, Status
  <2>2. QED
    BY <2>1 DEF IndInv, Clearance
<1>7. Clearance'
  BY <1>2, <1>6 DEF IndInv, Clearance, Cleared, ReportCleared
<1>8. QED
  BY <1>4, <1>5, <1>7 DEF IndInv

LEMMA IdleOK ==
    Idle \in JobState /\ JobRefers(Idle) /\ JobCleared(Idle)
BY DEF Idle, JobState, JobRefers, JobCleared

LEMMA CreateAliasKeeps ==
    ASSUME IndInv, NEW j \in Job, CreateAlias(j)
    PROVE  IndInv'
<1>1. job[j].version \in 1..Len(kb)
  BY DEF IndInv, References, JobRefers, CreateAlias
<1>2. PICK v \in 1..Len(kb) : v = job[j].version
  BY <1>1
<1>3. SetAlias("candidate", v) /\ Goto(j, Idle)
  BY <1>2 DEF CreateAlias
<1>4. UNCHANGED <<kb, reports, retracted, stored, validity, vetted>>
  BY DEF CreateAlias
<1>5. QED
  BY <1>3, <1>4, IdleOK, AliasStep

LEMMA RollbackFinishKeeps ==
    ASSUME IndInv, NEW j \in Job, RollbackFinish(j)
    PROVE  IndInv'
<1>1. job[j].version \in 1..Len(kb) /\ Cleared(job[j].version)
  BY DEF IndInv, References, Clearance, JobRefers, JobCleared, RollbackFinish
<1>2. PICK v \in 1..Len(kb) : v = job[j].version /\ Cleared(v)
  BY <1>1
<1>3. SetAlias("serving", v) /\ Goto(j, Idle)
  BY <1>2 DEF RollbackFinish
<1>4. UNCHANGED <<kb, reports, retracted, stored, validity, vetted>>
  BY DEF RollbackFinish
<1>5. QED
  BY <1>2, <1>3, <1>4, IdleOK, AliasStep

LEMMA PublishServeKeeps ==
    ASSUME IndInv, NEW j \in Job, PublishServe(j)
    PROVE  IndInv'
<1> DEFINE state == [at |-> "finish", version |-> job[j].version, sets |-> job[j].sets,
                     todo |-> job[j].todo, closing |-> job[j].closing,
                     opening |-> job[j].opening]
<1>1. job[j].at = "serve"
  BY DEF PublishServe
<1>2. job[j] \in JobState /\ job[j].version \in 1..Len(kb) /\ Cleared(job[j].version)
  BY <1>1, PublishingCleared
<1>3. PICK v \in 1..Len(kb) : v = job[j].version /\ Cleared(v)
  BY <1>2
<1>4. job[j].todo \in SUBSET ChunkSet
  BY <1>1, <1>2, JobFields
<1>5. state \in JobState /\ JobRefers(state) /\ JobCleared(state)
  BY <1>1, <1>4, PhaseKept
<1>6. [job[j] EXCEPT !.at = "finish"] = state
  BY <1>1, <1>2, JobFields
<1>7. SetAlias("serving", v) /\ Goto(j, state)
  BY <1>3, <1>6 DEF PublishServe
<1>8. UNCHANGED <<kb, reports, retracted, stored, validity, vetted>>
  BY DEF PublishServe
<1> HIDE DEF state
<1>9. QED
  BY <1>3, <1>5, <1>7, <1>8, AliasStep

\* set_kb_status: only a cleared version is published.
LEMMA FinishStep ==
    ASSUME IndInv, NEW j \in Job, NEW v \in 1..Len(kb),
           NEW status \in {"published", "rejected"}, SetStatus(v, status),
           status = "published" => Cleared(v), Goto(j, Idle),
           UNCHANGED <<reports, alias, retracted, stored, validity, vetted>>
    PROVE  IndInv'
<1>1. /\ kb' \in Seq(KbRow)
      /\ Len(kb') = Len(kb)
      /\ \A u \in 1..Len(kb) :
           kb'[u] = IF u = v THEN [kb[u] EXCEPT !.status = status] ELSE kb[u]
  BY StatusStep DEF IndInv
<1>2. \A u \in 1..Len(kb) : /\ kb'[u].docs = kb[u].docs
                            /\ kb'[u].parent = kb[u].parent
                            /\ kb'[u].gate = kb[u].gate
                            /\ kb'[u].status = IF u = v THEN status ELSE kb[u].status
  BY <1>1, RowTyped DEF IndInv, KbRow
<1>3. Grows
  BY <1>1, <1>2 DEF IndInv, TypeOK, Grows
<1>4. /\ job' \in [Job -> JobState]
      /\ \A k \in Job : JobRefers(job[k])'
      /\ \A k \in Job : JobCleared(job[k])'
  BY <1>3, IdleOK, JobsKept
<1>5. TypeOK'
  BY <1>1, <1>4 DEF IndInv, TypeOK
<1>6. References'
  <2>1. \A u \in 1..Len(kb') : RowRefers(u)'
    BY <1>1, <1>2, <1>3, RowsKept
  <2>2. \A r \in 1..Len(reports') : reports'[r].version \in 1..Len(kb')
    BY <1>3, ReportsKept
  <2>3. \A name \in {"serving", "candidate"} : alias'[name] \in 0..Len(kb')
    BY <1>1 DEF IndInv, References
  <2>4. QED
    BY <1>4, <2>1, <2>2, <2>3 DEF References
<1>7. \A u \in Readable' : Cleared(u)'
  <2>1. \A u \in Readable' : u \in Readable \/ (status = "published" /\ u = v)
    BY <1>1, <1>2 DEF IndInv, TypeOK, Readable, PublishedVersions, Status
  <2>2. status = "published" => Cleared(v)'
    BY <1>3, ClearedKept DEF IndInv
  <2>3. QED
    BY <1>3, <2>1, <2>2, ReadableKept
<1>8. Clearance'
  <2>1. \A u \in 1..Len(kb') :
          kb'[u].parent # 0 => kb'[kb'[u].parent].docs \subseteq vetted'
    BY <1>1, <1>3, RowsKept
  <2>2. \A r \in 1..Len(reports') : ReportCleared(r)'
    BY <1>3, ReportsKept
  <2>3. QED
    BY <1>4, <1>7, <2>1, <2>2 DEF Clearance
<1>9. QED
  BY <1>5, <1>6, <1>8 DEF IndInv

LEMMA PublishFinishKeeps ==
    ASSUME IndInv, NEW j \in Job, PublishFinish(j)
    PROVE  IndInv'
<1>1. job[j].version \in 1..Len(kb) /\ Cleared(job[j].version)
  BY PublishingCleared DEF PublishFinish
<1>2. PICK v \in 1..Len(kb) : v = job[j].version /\ Cleared(v)
  BY <1>1
<1>3. SetStatus(v, "published") /\ Goto(j, Idle)
  BY <1>2 DEF PublishFinish
<1>4. UNCHANGED <<reports, alias, retracted, stored, validity, vetted>>
  BY DEF PublishFinish
<1>5. QED
  BY <1>2, <1>3, <1>4, FinishStep

LEMMA RejectFinishKeeps ==
    ASSUME IndInv, NEW j \in Job, RejectFinish(j)
    PROVE  IndInv'
<1>1. job[j].version \in 1..Len(kb)
  BY DEF IndInv, References, JobRefers, RejectFinish
<1>2. PICK v \in 1..Len(kb) : v = job[j].version
  BY <1>1
<1>3. SetStatus(v, "rejected") /\ Goto(j, Idle)
  BY <1>2 DEF RejectFinish
<1>4. UNCHANGED <<reports, alias, retracted, stored, validity, vetted>>
  BY DEF RejectFinish
<1>5. QED
  BY <1>3, <1>4, FinishStep

\* Linking a report takes a version out of the published ones, never in.
LEMMA GateLinkKeeps ==
    ASSUME IndInv, NEW j \in Job, GateLink(j)
    PROVE  IndInv'
<1>1. /\ job[j].version \in 1..Len(kb)
      /\ job[j].report \in 1..Len(reports)
      /\ reports[job[j].report].version = job[j].version
  BY DEF IndInv, References, JobRefers, GateLink
<1>2. PICK v \in 1..Len(kb) : v = job[j].version
  BY <1>1
<1>3. PICK g \in 1..Len(reports) : g = job[j].report /\ reports[g].version = v
  BY <1>1, <1>2
<1> DEFINE row == [kb[v] EXCEPT !.status = "candidate", !.gate = g]
<1>4. row \in KbRow /\ row.docs = kb[v].docs /\ row.parent = kb[v].parent
      /\ row.gate = g /\ row.status = "candidate"
  <2>1. kb[v] \in KbRow /\ g \in Nat
    BY RowTyped DEF IndInv, TypeOK
  <2>2. QED
    BY <2>1 DEF KbRow
<1>5. kb' = [kb EXCEPT ![v] = row]
  BY <1>2, <1>3 DEF GateLink
<1>6. Goto(j, Idle) /\ UNCHANGED <<reports, alias, retracted, stored, validity, vetted>>
  BY DEF GateLink
<1> HIDE DEF row
<1>7. /\ kb' \in Seq(KbRow)
      /\ Len(kb') = Len(kb)
      /\ \A u \in 1..Len(kb) : kb'[u] = IF u = v THEN row ELSE kb[u]
  BY <1>4, <1>5, KbRowUpdate DEF IndInv
<1>8. Grows
  BY <1>4, <1>6, <1>7 DEF IndInv, TypeOK, Grows
<1>9. /\ job' \in [Job -> JobState]
      /\ \A k \in Job : JobRefers(job[k])'
      /\ \A k \in Job : JobCleared(job[k])'
  BY <1>6, <1>8, IdleOK, JobsKept
<1>10. TypeOK'
  BY <1>6, <1>7, <1>9 DEF IndInv, TypeOK
<1>11. References'
  <2>1. ASSUME NEW u \in 1..Len(kb), u # v
        PROVE  RowRefers(u)'
    BY <1>7, <1>8, <2>1, RowsKept
  <2>2. RowRefers(v)'
    <3>1. kb'[v].parent \in 0..Len(kb')
      BY <1>8, RowsKept
    <3>2. QED
      BY <1>3, <1>4, <1>6, <1>7, <3>1 DEF RowRefers
  <2>3. \A u \in 1..Len(kb') : RowRefers(u)'
    BY <1>7, <2>1, <2>2
  <2>4. \A r \in 1..Len(reports') : reports'[r].version \in 1..Len(kb')
    BY <1>6, <1>8, ReportsKept
  <2>5. \A name \in {"serving", "candidate"} : alias'[name] \in 0..Len(kb')
    BY <1>6, <1>7 DEF IndInv, References
  <2>6. QED
    BY <1>9, <2>3, <2>4, <2>5 DEF References
<1>12. Clearance'
  <2>1. \A u \in Readable' : u \in Readable
    BY <1>4, <1>6, <1>7 DEF IndInv, TypeOK, Readable, PublishedVersions, Status
  <2>2. \A u \in Readable' : Cleared(u)'
    BY <1>8, <2>1, ReadableKept
  <2>3. \A u \in 1..Len(kb') :
          kb'[u].parent # 0 => kb'[kb'[u].parent].docs \subseteq vetted'
    BY <1>7, <1>8, RowsKept
  <2>4. \A r \in 1..Len(reports') : ReportCleared(r)'
    BY <1>6, <1>8, ReportsKept
  <2>5. QED
    BY <1>9, <2>2, <2>3, <2>4 DEF Clearance
<1>13. QED
  BY <1>10, <1>11, <1>12 DEF IndInv

\* A report without an SME is of a version whose documents its parent holds,
\* and the parent was served.
LEMMA GateReportKeeps ==
    ASSUME IndInv, NEW j \in Job, NEW passed \in Outcome, GateReport(j, passed)
    PROVE  IndInv'
<1>0. PICK r : r = Len(reports) + 1
  OBVIOUS
<1>1. job[j].at = "gate" /\ job[j].version \in 1..Len(kb) /\ Len(reports) \in Nat
  BY DEF IndInv, TypeOK, References, JobRefers, GateReport
<1>2. PICK v \in 1..Len(kb) : v = job[j].version
  BY <1>1
<1> DEFINE report == [version |-> v, passed |-> passed, sme |-> SmeRequired(v),
                      decision |-> "none"]
           state == [at |-> "link", version |-> v, report |-> r]
<1>3. report \in Report
  <2>1. SmeRequired(v) \in BOOLEAN
    BY DEF SmeRequired
  <2>2. v \in Nat
    BY DEF IndInv, TypeOK
  <2>3. QED
    BY <2>1, <2>2, BoundAssumption DEF Report
<1>4. report.version = v /\ report.sme = SmeRequired(v) /\ report.decision = "none"
  OBVIOUS
<1>5. reports' = Append(reports, report) /\ Goto(j, state)
  BY <1>0, <1>2 DEF GateReport
<1>6. UNCHANGED <<kb, alias, retracted, stored, validity, vetted>>
  BY DEF GateReport
<1>7. state \in JobState /\ state.at = "link" /\ state.version = v /\ state.report = r
  BY <1>0, <1>1 DEF IndInv, TypeOK, JobState
<1> HIDE DEF report, state
<1>8. /\ reports' \in Seq(Report)
      /\ Len(reports') = r
      /\ \A q \in 1..Len(reports) : reports'[q] = reports[q]
      /\ reports'[r] = report
  BY <1>0, <1>3, <1>5, ReportAppend DEF IndInv
<1>9. Grows
  BY <1>0, <1>1, <1>6, <1>8 DEF IndInv, TypeOK, Grows
<1>10. job' \in [Job -> JobState] /\ job' = [job EXCEPT ![j] = state]
  BY <1>5, <1>7 DEF Goto, IndInv, TypeOK
<1>11. \A k \in Job : JobRefers(job[k])'
  <2>1. ASSUME NEW k \in Job, k # j
        PROVE  JobRefers(job[k])'
    BY <1>9, <1>10, <2>1, JobRefersKept DEF IndInv, TypeOK, References, JobRefers
  <2>2. JobRefers(job[j])'
    <3>1. job'[j] = state
      BY <1>10 DEF IndInv, TypeOK
    <3>2. r \in 1..Len(reports') /\ reports'[r].version = v /\ v \in 1..Len(kb')
      BY <1>0, <1>1, <1>4, <1>6, <1>8
    <3>3. QED
      BY <1>7, <3>1, <3>2 DEF JobRefers
  <2>3. QED
    BY <2>1, <2>2
<1>12. \A k \in Job : JobCleared(job[k])'
  <2>1. ASSUME NEW k \in Job, k # j
        PROVE  JobCleared(job[k])'
    <3>1. job'[k] = job[k] /\ job[k] \in JobState /\ JobRefers(job[k]) /\ JobCleared(job[k])
      BY <1>10, <2>1 DEF IndInv, TypeOK, References, Clearance
    <3>2. QED
      BY <1>9, <3>1, JobClearedKept DEF IndInv, JobCleared, Cleared
  <2>2. JobCleared(job[j])'
    BY <1>7, <1>10 DEF IndInv, TypeOK, JobCleared
  <2>3. QED
    BY <2>1, <2>2
<1>13. TypeOK'
  BY <1>6, <1>8, <1>10 DEF IndInv, TypeOK
<1>14. References'
  <2>1. \A u \in 1..Len(kb') : RowRefers(u)'
    BY <1>6, <1>9, RowsKept
  <2>2. \A q \in 1..Len(reports') : reports'[q].version \in 1..Len(kb')
    <3>1. \A q \in 1..Len(reports') : q \in 1..Len(reports) \/ q = r
      BY <1>0, <1>1, <1>8
    <3>2. QED
      BY <1>4, <1>6, <1>8, <1>9, <3>1, ReportsKept
  <2>3. \A name \in {"serving", "candidate"} : alias'[name] \in 0..Len(kb')
    BY <1>6 DEF IndInv, References
  <2>4. QED
    BY <1>11, <2>1, <2>2, <2>3 DEF References
<1>15. Clearance'
  <2>1. \A u \in Readable' : u \in Readable
    BY <1>6 DEF Readable, PublishedVersions, Status
  <2>2. \A u \in Readable' : Cleared(u)'
    BY <1>9, <2>1, ReadableKept
  <2>3. \A u \in 1..Len(kb') :
          kb'[u].parent # 0 => kb'[kb'[u].parent].docs \subseteq vetted'
    BY <1>6, <1>9, RowsKept
  <2>4. ReportCleared(r)'
    <3>1. ~ SmeRequired(v) => kb[v].docs \subseteq vetted
      BY DEF IndInv, Clearance, SmeRequired
    <3>2. QED
      BY <1>4, <1>6, <1>8, <3>1 DEF ReportCleared
  <2>5. \A q \in 1..Len(reports) : ReportCleared(q)'
    BY <1>8, <1>9, ReportsKept
  <2>6. \A q \in 1..Len(reports') : ReportCleared(q)'
    <3>1. \A q \in 1..Len(reports') : q \in 1..Len(reports) \/ q = r
      BY <1>0, <1>1, <1>8
    <3>2. QED
      BY <2>4, <2>5, <3>1
  <2>7. QED
    BY <1>12, <2>2, <2>3, <2>6 DEF Clearance
<1>16. QED
  BY <1>13, <1>14, <1>15 DEF IndInv

\* An approval clears the documents of its version; a rejection takes nothing
\* back, because the version may already be read.
LEMMA SmeDecideKeeps ==
    ASSUME IndInv, NEW r \in 1..Len(reports), NEW decision \in Decision,
           SmeDecide(r, decision)
    PROVE  IndInv'
<1> DEFINE report == [reports[r] EXCEPT !.decision = decision]
<1>1. reports[r] \in Report
  BY ElementOfSeq DEF IndInv, TypeOK
<1>2. /\ report \in Report /\ report.version = reports[r].version
      /\ report.passed = reports[r].passed /\ report.sme = reports[r].sme
      /\ report.decision = decision
  BY <1>1, BoundAssumption DEF Report
<1>3. reports' = [reports EXCEPT ![r] = report]
  BY DEF SmeDecide
<1>4. UNCHANGED <<kb, alias, retracted, stored, validity, job>>
  BY DEF SmeDecide
<1> HIDE DEF report
<1>5. /\ reports' \in Seq(Report)
      /\ Len(reports') = Len(reports)
      /\ \A q \in 1..Len(reports) : reports'[q] = IF q = r THEN report ELSE reports[q]
  BY <1>2, <1>3, ReportUpdate DEF IndInv
<1>6. reports[r].version \in 1..Len(kb)
  BY DEF IndInv, References
<1>7. /\ vetted \subseteq vetted' /\ vetted' \subseteq DocVersion
      /\ decision = "approved" => kb[reports[r].version].docs \subseteq vetted'
  BY <1>6, RowTyped DEF IndInv, TypeOK, SmeDecide
<1>8. Grows
  BY <1>2, <1>4, <1>5, <1>7 DEF IndInv, TypeOK, Grows
<1>9. \A k \in Job : JobRefers(job[k])'
  BY <1>4, <1>8, JobRefersKept DEF IndInv, References, JobRefers
<1>10. \A k \in Job : JobCleared(job[k])'
  BY <1>4, <1>8, JobClearedKept
     DEF IndInv, TypeOK, References, Clearance, JobCleared, Cleared
<1>11. TypeOK'
  BY <1>4, <1>5, <1>7 DEF IndInv, TypeOK
<1>12. References'
  <2>1. \A u \in 1..Len(kb') : RowRefers(u)'
    BY <1>4, <1>8, RowsKept
  <2>2. \A q \in 1..Len(reports') : reports'[q].version \in 1..Len(kb')
    BY <1>5, <1>8, ReportsKept
  <2>3. \A name \in {"serving", "candidate"} : alias'[name] \in 0..Len(kb')
    BY <1>4 DEF IndInv, References
  <2>4. QED
    BY <1>9, <2>1, <2>2, <2>3 DEF References
<1>13. Clearance'
  <2>1. \A u \in Readable' : u \in Readable
    BY <1>4 DEF Readable, PublishedVersions, Status
  <2>2. \A u \in Readable' : Cleared(u)'
    BY <1>8, <2>1, ReadableKept
  <2>3. \A u \in 1..Len(kb') :
          kb'[u].parent # 0 => kb'[kb'[u].parent].docs \subseteq vetted'
    BY <1>4, <1>8, RowsKept
  <2>4. ASSUME NEW q \in 1..Len(reports), q # r
        PROVE  ReportCleared(q)'
    BY <1>5, <1>8, <2>4, ReportsKept
  <2>5. ReportCleared(r)'
    <3>1. ~ reports[r].sme => kb[reports[r].version].docs \subseteq vetted
      BY DEF IndInv, Clearance, ReportCleared
    <3>2. QED
      BY <1>2, <1>4, <1>5, <1>7, <3>1 DEF ReportCleared
  <2>6. \A q \in 1..Len(reports') : ReportCleared(q)'
    BY <1>5, <2>4, <2>5
  <2>7. QED
    BY <1>10, <2>2, <2>3, <2>6 DEF Clearance
<1>14. QED
  BY <1>11, <1>12, <1>13 DEF IndInv

LEMMA RetractKeeps ==
    ASSUME IndInv, NEW d \in Withdrawable, Retract(d)
    PROVE  IndInv'
BY BoundAssumption
   DEF Retract, IndInv, TypeOK, References, Clearance, JobRefers, RowRefers, JobCleared,
       ReportCleared, Cleared, Readable, PublishedVersions, Status

LEMMA StutterKeeps ==
    ASSUME IndInv, UNCHANGED vars
    PROVE  IndInv'
BY DEF vars, IndInv, TypeOK, References, Clearance, JobRefers, RowRefers, JobCleared,
       ReportCleared, Cleared, Readable, PublishedVersions, Status

-----------------------------------------------------------------------------
(* The theorems.                                                           *)

LEMMA JobStepKeeps ==
    ASSUME IndInv, NEW j \in Job, JobNext(j)
    PROVE  IndInv'
<1>1. CASE \E add, remove \in Batches, enc \in Encoding : CreateStart(j, add, remove, enc)
  BY <1>1, CreateStartKeeps
<1>2. CASE CreateNumber(j)
  BY <1>2, CreateNumberKeeps
<1>3. CASE CreateInsert(j)
  BY <1>3, CreateInsertKeeps
<1>4. CASE CreateConflict(j)
  BY <1>4, IdleKeeps DEF CreateConflict
<1>5. CASE CreateAlias(j)
  BY <1>5, CreateAliasKeeps
<1>6. CASE \E v \in DOMAIN kb : GateStart(j, v)
  BY <1>6, GateStartKeeps
<1>7. CASE \E passed \in Outcome : GateReport(j, passed)
  BY <1>7, GateReportKeeps
<1>8. CASE GateLink(j)
  BY <1>8, GateLinkKeeps
<1>9. CASE \E v \in DOMAIN kb : \E sets \in MatchingSets(v) : PublishStart(j, v, sets)
  BY <1>9, PublishStartKeeps
<1>10. CASE PublishCheck(j)
  BY <1>10, PublishCheckKeeps
<1>11. CASE PublishPlan(j)
  BY <1>11, PublishPlanKeeps
<1>12. CASE \E set \in ChunkSet : PublishStore(j, set)
  BY <1>12, PublishStoreKeeps
<1>13. CASE PublishClose(j)
  BY <1>13, PublishCloseKeeps
<1>14. CASE PublishOpen(j)
  BY <1>14, PublishOpenKeeps
<1>15. CASE PublishServe(j)
  BY <1>15, PublishServeKeeps
<1>16. CASE PublishFinish(j)
  BY <1>16, PublishFinishKeeps
<1>17. CASE \E v \in DOMAIN kb : RejectStart(j, v)
  BY <1>17, RejectStartKeeps
<1>18. CASE RejectFinish(j)
  BY <1>18, RejectFinishKeeps
<1>19. CASE \E v \in DOMAIN kb : RollbackStart(j, v)
  BY <1>19, RollbackStartKeeps
<1>20. CASE RollbackFinish(j)
  BY <1>20, RollbackFinishKeeps
<1>21. CASE Crash(j)
  BY <1>21, CrashKeeps
<1>22. QED
  BY <1>1, <1>2, <1>3, <1>4, <1>5, <1>6, <1>7, <1>8, <1>9, <1>10, <1>11, <1>12,
     <1>13, <1>14, <1>15, <1>16, <1>17, <1>18, <1>19, <1>20, <1>21
     DEF JobNext

\* The inductive invariant of the platform calls: references exist, and every
\* version a reader, a rollback, a new candidate or a publish past its check
\* relies on is cleared.
THEOREM Inductive == Spec => []IndInv
<1>1. Init => IndInv
  <2> SUFFICES ASSUME Init
               PROVE  IndInv
    OBVIOUS
  <2>1. TypeOK
    BY IdleOK DEF Init, TypeOK
  <2>2. References
    BY IdleOK DEF Init, References, JobRefers, Idle
  <2>3. Clearance
    BY DEF Init, Clearance, Readable, PublishedVersions, JobCleared, Idle
  <2>4. QED
    BY <2>1, <2>2, <2>3 DEF IndInv
<1>2. IndInv /\ [Next]_vars => IndInv'
  <2> SUFFICES ASSUME IndInv, [Next]_vars
               PROVE  IndInv'
    OBVIOUS
  <2>1. CASE \E j \in Job : JobNext(j)
    BY <2>1, JobStepKeeps
  <2>2. CASE \E r \in DOMAIN reports, decision \in Decision : SmeDecide(r, decision)
    <3>1. DOMAIN reports = 1..Len(reports)
      BY DEF IndInv, TypeOK
    <3>2. QED
      BY <2>2, <3>1, SmeDecideKeeps
  <2>3. CASE \E d \in Withdrawable : Retract(d)
    BY <2>3, RetractKeeps
  <2>4. CASE UNCHANGED vars
    BY <2>4, StutterKeeps
  <2>5. QED
    BY <2>1, <2>2, <2>3, <2>4 DEF Next
<1>3. QED
  BY <1>1, <1>2, PTL DEF Spec

\* Rows, reports, intervals and jobs keep their types, whatever the jobs do.
THEOREM TypeCorrect == Spec => []TypeOK
<1>1. IndInv => TypeOK
  BY DEF IndInv
<1>2. QED
  BY <1>1, Inductive, PTL

\* However platform calls interleave, crash and are repeated, with stale
\* copies of manifests too, a version that can be read passed the automated
\* checks and holds documents an SME has approved (publish, run_gate).
THEOREM GateHolds == Spec => []OnlyThroughTheGate
<1>1. IndInv => OnlyThroughTheGate
  <2>1. IndInv => DOMAIN reports = 1..Len(reports)
    BY DEF IndInv, TypeOK
  <2>2. QED
    BY <2>1 DEF IndInv, Clearance, Cleared, OnlyThroughTheGate
<1>2. QED
  BY <1>1, Inductive, PTL

-----------------------------------------------------------------------------
(* What publish opens is stored.                                          *)

\* What a publish is about to open is stored, or is in a set it still stores.
JobBacked(state) ==
    /\ state.at = "store" => state.opening \subseteq stored \cup NewChunks(state.todo)
    /\ state.at = "open" => state.opening \subseteq stored

Backed ==
    /\ \A row \in validity : row.chunk \in stored
    /\ \A j \in Job : JobBacked(job[j])

\* Where a step of the gate leaves its job.
LEMMA GateMoves ==
    ASSUME IndInv, NEW j \in Job,
           \/ \E v \in DOMAIN kb : GateStart(j, v)
           \/ \E passed \in Outcome : GateReport(j, passed)
           \/ GateLink(j)
    PROVE  /\ \A k \in Job \ {j} : job'[k] = job[k]
           /\ job'[j].at \in {"gate", "link", "idle"}
           /\ UNCHANGED <<stored, validity>>
<1>1. PICK state : Goto(j, state) /\ state.at \in {"gate", "link", "idle"}
  <2>1. CASE \E v \in DOMAIN kb : GateStart(j, v)
    BY <2>1 DEF GateStart
  <2>2. CASE \E passed \in Outcome : GateReport(j, passed)
    <3>1. Goto(j, [at |-> "link", version |-> job[j].version, report |-> Len(reports) + 1])
      BY <2>2 DEF GateReport
    <3>2. QED
      BY <3>1
  <2>3. CASE GateLink(j)
    <3>1. Goto(j, Idle) /\ Idle.at = "idle"
      BY <2>3 DEF GateLink, Idle
    <3>2. QED
      BY <3>1
  <2>4. QED
    BY <2>1, <2>2, <2>3
<1>2. job' = [job EXCEPT ![j] = state]
  BY <1>1 DEF Goto
<1>3. UNCHANGED <<stored, validity>>
  BY DEF GateStart, GateReport, GateLink
<1>4. QED
  BY <1>1, <1>2, <1>3 DEF IndInv, TypeOK

\* A step of j to a phase that opens nothing.
LEMMA ElsewhereBacked ==
    ASSUME IndInv, Backed, NEW j \in Job, \A k \in Job \ {j} : job'[k] = job[k],
           job'[j].at \notin {"store", "open"}, UNCHANGED <<stored, validity>>
    PROVE  Backed'
<1>1. \A k \in Job \ {j} : JobBacked(job[k])'
  BY DEF Backed, JobBacked
<1>2. JobBacked(job[j])'
  BY DEF JobBacked
<1>3. QED
  BY <1>1, <1>2 DEF Backed

\* Reused chunks are in an interval already, the others are in a set.
LEMMA PlanBacked ==
    ASSUME IndInv, Backed, NEW j \in Job, PublishPlan(j)
    PROVE  Backed'
<1> DEFINE v == job[j].version
           sets == job[j].sets
<1>1. job' \in [Job -> JobState] /\ \A k \in Job \ {j} : job'[k] = job[k]
  BY PublishPlanKeeps DEF IndInv, TypeOK, PublishPlan, Goto
<1>2. UNCHANGED <<stored, validity>>
  BY DEF PublishPlan
<1>3. CASE Missing(v, sets) # {}
  BY <1>1, <1>2, <1>3, ElsewhereBacked DEF IndInv, TypeOK, PublishPlan, Goto, Idle
<1>4. CASE Missing(v, sets) = {}
  <2>1. Target(v, sets) \subseteq stored \cup NewChunks(sets)
    <3>1. \A u : Active(u) \subseteq stored
      BY DEF Backed, Active, ActiveChunks
    <3>2. Retained(v, sets) \subseteq stored
      BY <3>1 DEF Retained, Reusable
    <3>3. QED
      BY <3>2 DEF Target
  <2>2. /\ job'[j].at = "store" /\ job'[j].todo = sets
        /\ job'[j].opening = Target(v, sets) \ Active(LatestPublished)
    BY <1>4 DEF IndInv, TypeOK, PublishPlan, Goto
  <2>3. JobBacked(job[j])'
    BY <1>2, <2>1, <2>2 DEF JobBacked, NewChunks, ChunksOf
  <2>4. \A k \in Job \ {j} : JobBacked(job[k])'
    BY <1>1, <1>2 DEF Backed, JobBacked, NewChunks, ChunksOf
  <2>5. QED
    BY <1>2, <2>3, <2>4 DEF Backed
<1>5. QED
  BY <1>3, <1>4

LEMMA StoreBacked ==
    ASSUME IndInv, Backed, NEW j \in Job, NEW set \in ChunkSet, PublishStore(j, set)
    PROVE  Backed'
<1>1. job[j] \in JobState /\ job[j].at = "store" /\ JobBacked(job[j])
  BY DEF IndInv, TypeOK, PublishStore, Backed
<1>2. /\ job'[j].at = "store" /\ job'[j].todo = job[j].todo \ {set}
      /\ job'[j].opening = job[j].opening
      /\ \A k \in Job \ {j} : job'[k] = job[k]
  BY <1>1, JobFields DEF IndInv, TypeOK, PublishStore, Goto
<1>3. stored' = stored \cup ChunksOf(set) /\ validity' = validity
  BY DEF PublishStore
<1>4. NewChunks(job[j].todo) \subseteq ChunksOf(set) \cup NewChunks(job[j].todo \ {set})
  BY DEF NewChunks
<1>5. JobBacked(job[j])'
  BY <1>1, <1>2, <1>3, <1>4 DEF JobBacked, NewChunks, ChunksOf
<1>6. \A k \in Job \ {j} : JobBacked(job[k])'
  BY <1>2, <1>3 DEF Backed, JobBacked, NewChunks, ChunksOf
<1>7. QED
  BY <1>3, <1>5, <1>6 DEF Backed

\* Every set has been stored, so all that is to be opened is there.
LEMMA CloseBacked ==
    ASSUME IndInv, Backed, NEW j \in Job, PublishClose(j)
    PROVE  Backed'
<1>1. /\ job[j] \in JobState /\ job[j].at = "store" /\ job[j].todo = {}
      /\ JobBacked(job[j]) /\ job[j].version \in Nat
  BY JobFields DEF IndInv, TypeOK, PublishClose, Backed
<1>2. /\ job'[j].at = "open" /\ job'[j].opening = job[j].opening
      /\ \A k \in Job \ {j} : job'[k] = job[k]
  BY <1>1, JobFields DEF IndInv, TypeOK, PublishClose, Goto
<1>3. stored' = stored
  BY DEF PublishClose
<1>4. NewChunks({}) = {}
  BY DEF NewChunks
<1>5. JobBacked(job[j])'
  BY <1>1, <1>2, <1>3, <1>4 DEF JobBacked
<1>6. \A k \in Job \ {j} : JobBacked(job[k])'
  BY <1>2, <1>3 DEF Backed, JobBacked, NewChunks, ChunksOf
<1>7. \A row \in validity' : row.chunk \in stored'
  <2>1. ASSUME NEW row \in validity'
        PROVE  \E r \in validity : row.chunk = r.chunk
    <3>1. \/ row \in validity
          \/ \E r \in validity : row = [r EXCEPT !.to = job[j].version]
      BY DEF PublishClose, CloseIntervals
    <3>2. QED
      BY <3>1 DEF IndInv, TypeOK, ValidityRows
  <2>2. QED
    BY <1>3, <2>1 DEF Backed
<1>8. QED
  BY <1>5, <1>6, <1>7 DEF Backed

LEMMA OpenBacked ==
    ASSUME IndInv, Backed, NEW j \in Job, PublishOpen(j)
    PROVE  Backed'
<1>1. job[j] \in JobState /\ job[j].at = "open" /\ job[j].opening \subseteq stored
  BY DEF IndInv, TypeOK, PublishOpen, Backed, JobBacked
<1>2. job'[j].at = "serve" /\ \A k \in Job \ {j} : job'[k] = job[k]
  BY <1>1, JobFields DEF IndInv, TypeOK, PublishOpen, Goto
<1>3. stored' = stored
  BY DEF PublishOpen
<1>4. \A row \in validity' : row.chunk \in stored'
  BY <1>1, <1>3 DEF Backed, PublishOpen, OpenIntervals
<1>5. \A k \in Job : JobBacked(job[k])'
  BY <1>2, <1>3 DEF Backed, JobBacked, NewChunks, ChunksOf
<1>6. QED
  BY <1>4, <1>5 DEF Backed

LEMMA JobStepBacked ==
    ASSUME IndInv, Backed, NEW j \in Job, JobNext(j)
    PROVE  Backed'
<1>1. CASE PublishPlan(j)
  BY <1>1, PlanBacked
<1>2. CASE \E set \in ChunkSet : PublishStore(j, set)
  BY <1>2, StoreBacked
<1>3. CASE PublishClose(j)
  BY <1>3, CloseBacked
<1>4. CASE PublishOpen(j)
  BY <1>4, OpenBacked
<1>5. CASE \/ \E add, remove \in Batches, enc \in Encoding : CreateStart(j, add, remove, enc)
           \/ CreateNumber(j) \/ CreateInsert(j) \/ CreateConflict(j) \/ CreateAlias(j)
  <2>1. /\ \A k \in Job \ {j} : job'[k] = job[k]
        /\ job'[j].at \notin {"store", "open"}
        /\ UNCHANGED <<stored, validity>>
    BY <1>5 DEF IndInv, TypeOK, CreateStart, CreateNumber, CreateInsert, CreateConflict,
                CreateAlias, Goto, Idle
  <2>2. QED
    BY <2>1, ElsewhereBacked
<1>6. CASE \/ \E v \in DOMAIN kb : GateStart(j, v)
           \/ \E passed \in Outcome : GateReport(j, passed)
           \/ GateLink(j)
  BY <1>6, GateMoves, ElsewhereBacked
<1>7. CASE PublishServe(j)
  <2>1. job[j] \in JobState /\ job[j].at = "serve"
    BY <1>7 DEF IndInv, TypeOK, PublishServe
  <2>2. job'[j].at = "finish" /\ \A k \in Job \ {j} : job'[k] = job[k]
    BY <1>7, <2>1, JobFields DEF IndInv, TypeOK, PublishServe, Goto
  <2>3. UNCHANGED <<stored, validity>>
    BY <1>7 DEF PublishServe
  <2>4. QED
    BY <2>2, <2>3, ElsewhereBacked
<1>8. CASE \/ PublishFinish(j)
           \/ \E v \in DOMAIN kb : RejectStart(j, v)
           \/ RejectFinish(j)
           \/ \E v \in DOMAIN kb : RollbackStart(j, v)
           \/ RollbackFinish(j)
  <2>1. /\ \A k \in Job \ {j} : job'[k] = job[k]
        /\ job'[j].at \notin {"store", "open"}
        /\ UNCHANGED <<stored, validity>>
    BY <1>8 DEF IndInv, TypeOK, PublishFinish, RejectStart, RejectFinish, RollbackStart,
                RollbackFinish, Goto, Idle
  <2>2. QED
    BY <2>1, ElsewhereBacked
<1>9. CASE Crash(j)
  <2>1. /\ \A k \in Job \ {j} : job'[k] = job[k]
        /\ job'[j].at \notin {"store", "open"}
        /\ UNCHANGED <<stored, validity>>
    BY <1>9 DEF IndInv, TypeOK, Crash, Goto, Idle
  <2>2. QED
    BY <2>1, ElsewhereBacked
<1>10. CASE \/ \E v \in DOMAIN kb : \E sets \in MatchingSets(v) : PublishStart(j, v, sets)
            \/ PublishCheck(j)
  <2>1. /\ \A k \in Job \ {j} : job'[k] = job[k]
        /\ job'[j].at \notin {"store", "open"}
        /\ UNCHANGED <<stored, validity>>
    BY <1>10 DEF IndInv, TypeOK, PublishStart, PublishCheck, Goto
  <2>2. QED
    BY <2>1, ElsewhereBacked
<1>11. QED
  BY <1>1, <1>2, <1>3, <1>4, <1>5, <1>6, <1>7, <1>8, <1>9, <1>10 DEF JobNext

\* However publishes interleave and wherever they die, an interval names a
\* chunk that is stored (add_chunk_set before open_intervals).
THEOREM NothingDangles == Spec => []NoDanglingInterval
<1>1. Init => Backed
  BY DEF Init, Backed, JobBacked, Idle
<1>2. IndInv /\ Backed /\ [Next]_vars => Backed'
  <2> SUFFICES ASSUME IndInv, Backed, [Next]_vars
               PROVE  Backed'
    OBVIOUS
  <2>1. CASE \E j \in Job : JobNext(j)
    BY <2>1, JobStepBacked
  <2>2. CASE UNCHANGED <<stored, validity, job>>
    BY <2>2 DEF Backed, JobBacked, NewChunks, ChunksOf
  <2>3. QED
    BY <2>1, <2>2 DEF Next, SmeDecide, Retract, vars
<1>3. Backed => NoDanglingInterval
  BY DEF Backed, NoDanglingInterval
<1>4. QED
  BY <1>1, <1>2, <1>3, Inductive, PTL DEF Spec


-----------------------------------------------------------------------------
(* What an interleaved publish may reach.                                 *)

\* The interval statements move their job on.
LEMMA IntervalsMoveOn ==
    ASSUME IndInv, NEW j \in Job, PublishClose(j) \/ PublishOpen(j)
    PROVE  job'[j] # job[j]
<1>1. job \in [Job -> JobState] /\ job[j] \in JobState
  BY DEF IndInv, TypeOK
<1>2. CASE PublishClose(j)
  <2>1. job'[j].at = "open" /\ job[j].at = "store"
    BY <1>1, <1>2, JobFields DEF PublishClose, Goto
  <2>2. QED
    BY <2>1
<1>3. CASE PublishOpen(j)
  <2>1. job'[j].at = "serve" /\ job[j].at = "open"
    BY <1>1, <1>3, JobFields DEF PublishOpen, Goto
  <2>2. QED
    BY <2>1
<1>4. QED
  BY <1>2, <1>3

\* A step that changes what a version shows works on it or on one below.
LEMMA ChangeFromBelow ==
    ASSUME IndInv, NEW j \in Job, JobNext(j), NEW v \in DOMAIN kb, Active(v)' # Active(v)
    PROVE  /\ job[j].at \in {"store", "open"}
           /\ job[j].version <= v
           /\ job'[j] # job[j]
<1>1. /\ v \in Nat /\ validity \in SUBSET ValidityRows(Chunk)
      /\ job[j] \in JobState
  BY DEF IndInv, TypeOK
<1>2. CASE PublishClose(j)
  <2>1. job[j].version \in Nat /\ job[j].at = "store"
    BY <1>1, <1>2, JobFields DEF PublishClose
  <2>2. validity' = CloseIntervals(validity, job[j].closing, job[j].version)
    BY <1>2 DEF PublishClose
  <2>3. ~ (v < job[j].version)
    BY <1>1, <2>1, <2>2, CloseLeavesEarlier DEF Active
  <2>4. QED
    BY <1>1, <1>2, <2>1, <2>3, IntervalsMoveOn
<1>3. CASE PublishOpen(j)
  <2>1. job[j].version \in Nat /\ job[j].at = "open" /\ job[j].opening \in SUBSET Chunk
    BY <1>1, <1>3, JobFields DEF PublishOpen
  <2>2. validity' = OpenIntervals(validity, job[j].opening, job[j].version)
    BY <1>3 DEF PublishOpen
  <2>3. ~ (v < job[j].version)
    BY <1>1, <2>1, <2>2, OpenLeavesEarlier DEF Active
  <2>4. QED
    BY <1>1, <1>3, <2>1, <2>3, IntervalsMoveOn
<1>4. CASE ~ PublishClose(j) /\ ~ PublishOpen(j)
  <2>1. validity' = validity
    BY <1>4 DEF JobNext, CreateStart, CreateNumber, CreateInsert, CreateConflict, CreateAlias,
                GateStart, GateReport, GateLink, PublishStart, PublishCheck, PublishPlan,
                PublishStore, PublishServe, PublishFinish, RejectStart, RejectFinish,
                RollbackStart, RollbackFinish, Crash
  <2>2. QED
    BY <2>1 DEF Active
<1>5. QED
  BY <1>2, <1>3, <1>4

\* With any number of publishes that interleave, die and are given up, a version
\* changes only by a publish of itself or of a lower version (publish: the
\* intervals it ends and begins do so at its own version).
THEOREM NewerPublishesStayAway == Spec => ChangedFromBelow
<1> DEFINE FromBelow ==
        \A v \in DOMAIN kb : Active(v)' # Active(v) =>
            \E j \in Job : /\ job[j].at \in {"store", "open"}
                           /\ job[j].version <= v
                           /\ job'[j] # job[j]
<1>1. IndInv /\ [Next]_vars => [FromBelow]_vars
  <2> SUFFICES ASSUME IndInv, [Next]_vars
               PROVE  [FromBelow]_vars
    OBVIOUS
  <2>1. CASE \E j \in Job : JobNext(j)
    BY <2>1, ChangeFromBelow
  <2>2. CASE UNCHANGED validity
    BY <2>2 DEF Active
  <2>3. QED
    BY <2>1, <2>2 DEF Next, SmeDecide, Retract, vars
<1>2. QED
  BY <1>1, Inductive, PTL DEF Spec, ChangedFromBelow
=============================================================================
