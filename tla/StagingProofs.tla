---------------------------- MODULE StagingProofs ----------------------------
(***************************************************************************)
(* Why what is published was checked, and is whole, though the gate and    *)
(* publish read the staging tables at different times and rows are deleted *)
(* and written again in between.                                           *)
(***************************************************************************)
EXTENDS Staging, TLAPS

\* A run that has a row has one document and has left "none"; W6 makes one thing of
\* it, and nothing before its turn.
RunRow ==
    [doc : SUBSET Doc, status : {"none", "running", "succeeded", "failed"},
     next : {"none", "layout", "clean", "chunk", "finish", "lost"},
     made : SUBSET ChunkOutput]

RunsTyped ==
    /\ runs \in [Run -> RunRow]
    /\ \A r \in Run : /\ \A d, e \in runs[r].doc : d = e
                      /\ runs[r].status = "none" <=> runs[r].doc = {}
                      /\ \A output, other \in runs[r].made : output = other
                      /\ runs[r].next \in {"none", "layout", "clean", "chunk"} =>
                            runs[r].made = {}

\* A row belongs to the run and the document its key names.
OfRun(row) ==
    /\ row.run \in Run /\ row.key[1] = row.run
    /\ runs[row.run].doc = {row.doc}

\* A row of ingest.chunks.
Shaped(c) ==
    c = [key |-> c.key, run |-> c.run, doc |-> c.doc, enc |-> c.enc, schema |-> c.schema,
         day |-> c.day, of |-> c.of, text |-> c.text, vector |-> c.vector]

RowsTyped ==
    /\ day \in 0..LastDay /\ counted \subseteq Doc /\ retracted \subseteq Doc
    /\ \A p \in pages : OfRun(p)
    /\ \A c \in chunks : /\ OfRun(c) /\ Shaped(c)
                         /\ c.day \in 0..day /\ runs[c.run].made # {}

\* What W6 wrote for r, under the date of one day.
Dated(rows, k) == {[row EXCEPT !.day = k] : row \in rows}

Whole(rows, r) ==
    \/ rows = {}
    \/ \E d \in runs[r].doc, output \in runs[r].made, k \in 0..LastDay :
          rows = Dated(ChunkRows(r, d, output), k)

Staged == \A r \in Run : Whole(RowsOf(chunks, {r}), r)

\* What the gate asks of a chunk, and of the pages of its document.
RowChecked(c) ==
    /\ c.of = c.text /\ c.vector = "fine" /\ c.enc = Enc
    /\ \A n \in 1..Pages :
          \E p \in pages : /\ p.run = c.run /\ p.doc = c.doc /\ p.page = n
                           /\ p.pii = 0 /\ (p.ocr = NoOcr \/ p.ocr >= MinOcr)

\* A row that may be shown: checked, unless steps are executed after the end of its run.
Sound(c) == c.run \notin LateRuns => RowChecked(c)

\* Runs that have succeeded, one for a document.
Finished(rs) ==
    /\ rs \subseteq Run
    /\ \A r \in rs : runs[r].status = "succeeded"
    /\ \A r, q \in rs : runs[r].doc = runs[q].doc => r = q

\* Rows of a run that has ended are as the gate saw them, or gone, if none of its steps
\* is executed any more.
CandidateChecked ==
    /\ candidate \in [runs : SUBSET Run, approved : BOOLEAN]
    /\ Finished(candidate.runs)
    /\ candidate.approved =>
         \A c \in chunks : c.run \in candidate.runs => Sound(c)

VersionChecked(v) ==
    /\ Finished(v.runs)
    /\ \A c \in v.chunks : c.run \in v.runs /\ runs[c.run].doc = {c.doc} /\ Sound(c)
    /\ \A r \in v.runs : /\ {c \in v.chunks : c.run = r} # {}
                         /\ Whole({c \in v.chunks : c.run = r}, r)

IndInv ==
    /\ RunsTyped
    /\ RowsTyped
    /\ Staged
    /\ CandidateChecked
    /\ \A v \in published : VersionChecked(v)

-----------------------------------------------------------------------------
(* The tables.                                                             *)

\* Chunk sets are the rows they are read from, grouped.
LEMMA SetsCover ==
    ASSUME NEW table, NEW rs
    PROVE  /\ \A row \in RowsOf(table, rs) :
                 \E set \in ChunkSets(table, rs) : row \in set.chunks
           /\ \A set \in ChunkSets(table, rs) :
                 /\ set.chunks \subseteq RowsOf(table, rs)
                 /\ \A row \in set.chunks : row.doc = set.doc
                 /\ \E row \in set.chunks : row.doc = set.doc
<1> DEFINE rows == RowsOf(table, rs)
           group(run, doc) == {row \in rows : row.run = run /\ row.doc = doc}
           first(g) == CHOOSE row \in g : TRUE
           headed(g) == [run |-> first(g).run, doc |-> first(g).doc, enc |-> first(g).enc,
                         schema |-> first(g).schema, chunks |-> g]
<1>1. ChunkSets(table, rs) = {headed(group(row.run, row.doc)) : row \in rows}
  BY DEF ChunkSets
<1>2. ASSUME NEW row \in rows
      PROVE  /\ row \in group(row.run, row.doc)
             /\ first(group(row.run, row.doc)) \in group(row.run, row.doc)
  BY <1>2
<1>3. ASSUME NEW row \in rows
      PROVE  /\ headed(group(row.run, row.doc)).chunks = group(row.run, row.doc)
             /\ headed(group(row.run, row.doc)).doc = row.doc
  BY <1>2
<1> HIDE DEF headed
<1>4. ASSUME NEW row \in rows
      PROVE  \E set \in ChunkSets(table, rs) : row \in set.chunks
  <2>1. headed(group(row.run, row.doc)) \in ChunkSets(table, rs)
    BY <1>1
  <2>2. row \in headed(group(row.run, row.doc)).chunks
    BY <1>2, <1>3
  <2>3. QED
    BY <2>1, <2>2
<1>5. ASSUME NEW set \in ChunkSets(table, rs)
      PROVE  /\ set.chunks \subseteq rows
             /\ \A row \in set.chunks : row.doc = set.doc
             /\ \E row \in set.chunks : row.doc = set.doc
  <2>1. PICK row \in rows : set = headed(group(row.run, row.doc))
    BY <1>1
  <2>2. set.chunks = group(row.run, row.doc) /\ set.doc = row.doc
    BY <1>3, <2>1
  <2>3. QED
    BY <1>2, <2>2
<1>6. QED
  BY <1>4, <1>5

\* The new rows are of r, and name the key of every row r has.
Replaces(table, new, r) ==
    /\ \A row \in table : row.key[1] = row.run
    /\ \A row \in new : row.run = r /\ row.key[1] = r
    /\ \A old \in table : old.run = r => \E row \in new : row.key = old.key

\* The rows of r have become the new ones, and other runs have theirs.
Replaced(table, after, new, r) ==
    /\ RowsOf(after, {r}) = new
    /\ \A q : q # r => RowsOf(after, {q}) = RowsOf(table, {q})
    /\ \A row \in after : row \in new \/ (row \in table /\ row.run # r)

\* A write of all rows of a run replaces those rows and leaves other runs alone.
LEMMA WriteRun ==
    ASSUME NEW table, NEW rows, NEW k, NEW r, Replaces(table, Dated(rows, k), r)
    PROVE  Replaced(table, Write(table, rows, k), Dated(rows, k), r)
<1> DEFINE new == Dated(rows, k)
           after == Write(table, rows, k)
<1>1. after = {old \in table : \A row \in new : row.key # old.key} \cup new
  BY DEF Write, Dated
<1> HIDE DEF new, after
<1>2. Replaces(table, new, r)
  BY DEF new
<1>3. ASSUME NEW old \in table, old.run # r
      PROVE  old \in after
  BY <1>1, <1>2, <1>3 DEF Replaces
<1>4. ASSUME NEW row \in after
      PROVE  row \in new \/ (row \in table /\ row.run # r)
  BY <1>1, <1>2, <1>4 DEF Replaces
<1>5. new \subseteq after
  BY <1>1
<1>6. RowsOf(after, {r}) = new
  BY <1>2, <1>4, <1>5 DEF Replaces, RowsOf
<1>7. ASSUME NEW q, q # r
      PROVE  RowsOf(after, {q}) = RowsOf(table, {q})
  BY <1>2, <1>3, <1>4, <1>7 DEF Replaces, RowsOf
<1>8. Replaced(table, after, new, r)
  BY <1>4, <1>6, <1>7 DEF Replaced
<1>9. QED
  BY <1>8 DEF new, after

\* What a step of a run writes is of that run and its document.
LEMMA ChunkRowsDated ==
    ASSUME NEW r, NEW d, NEW output, NEW k
    PROVE  \A row \in Dated(ChunkRows(r, d, output), k) :
               /\ row.run = r /\ row.doc = d /\ row.key[1] = r /\ row.day = k /\ Shaped(row)
BY DEF Dated, ChunkRows, Shaped

LEMMA PageRowsDated ==
    ASSUME NEW r, NEW d, NEW output, NEW k
    PROVE  \A row \in Dated(PageRows(r, d, output), k) :
               row.run = r /\ row.doc = d /\ row.key[1] = r
BY DEF Dated, PageRows

\* Rows that are dated again are the same rows under another date.
LEMMA Redated ==
    ASSUME NEW row, Shaped(row), NEW k
    PROVE  LET again == [row EXCEPT !.day = k]
           IN  /\ Shaped(again) /\ again.day = k
               /\ again.key = row.key /\ again.run = row.run /\ again.doc = row.doc
               /\ \A l : [again EXCEPT !.day = l] = [row EXCEPT !.day = l]
<1>1. PICK key, run, doc, enc, schema, date, of, text, vector :
          row = [key |-> key, run |-> run, doc |-> doc, enc |-> enc, schema |-> schema,
                 day |-> date, of |-> of, text |-> text, vector |-> vector]
  BY DEF Shaped
<1> DEFINE on(l) == [key |-> key, run |-> run, doc |-> doc, enc |-> enc, schema |-> schema,
                     day |-> l, of |-> of, text |-> text, vector |-> vector]
<1>2. \A l : [row EXCEPT !.day = l] = on(l)
  BY <1>1
<1>3. \A l : [on(k) EXCEPT !.day = l] = on(l)
  OBVIOUS
<1>4. Shaped(on(k)) /\ on(k).day = k /\ on(k).key = row.key /\ on(k).run = row.run
      /\ on(k).doc = row.doc
  BY <1>1 DEF Shaped
<1> HIDE DEF on
<1>5. [row EXCEPT !.day = k] = on(k)
  BY <1>2
<1>6. QED
  BY <1>2, <1>3, <1>4, <1>5

LEMMA RowsDated ==
    ASSUME NEW rows, NEW k, \A row \in rows : Shaped(row)
    PROVE  /\ \A row \in Dated(rows, k) : Shaped(row) /\ row.day = k
           /\ \A row \in Dated(rows, k) :
                 \E old \in rows : row.key = old.key /\ row.run = old.run /\ row.doc = old.doc
           /\ \A old \in rows : \E row \in Dated(rows, k) : row.key = old.key
<1>1. ASSUME NEW row \in rows
      PROVE  LET again == [row EXCEPT !.day = k]
             IN  /\ Shaped(again) /\ again.day = k
                 /\ again.key = row.key /\ again.run = row.run /\ again.doc = row.doc
  BY Redated
<1>2. QED
  BY <1>1 DEF Dated

-----------------------------------------------------------------------------
(* What a step keeps.                                                      *)

\* A run keeps its document, its end, and what W6 has made.
RunsGrow ==
    /\ RunsTyped'
    /\ \A q \in Run : /\ runs[q].doc # {} => runs'[q].doc = runs[q].doc
                      /\ runs[q].status = "succeeded" => runs'[q].status = "succeeded"
                      /\ runs[q].made \subseteq runs'[q].made

\* The pages of a run that has succeeded are never deleted or replaced.
PagesKept == \A p \in pages : runs[p.run].status = "succeeded" => p \in pages'

LEMMA RunsStill ==
    ASSUME RunsTyped, UNCHANGED runs
    PROVE  RunsGrow
BY DEF RunsTyped, RunsGrow

\* A run goes on to its next step, or its job is lost, with the document it has.
LEMMA RunGoesOn ==
    ASSUME RunsTyped, NEW r \in Run, NEW then \in {"clean", "chunk", "lost"},
           runs[r].status = "running", then # "lost" => runs[r].next \in {"layout", "clean"},
           runs' = [runs EXCEPT ![r].next = then]
    PROVE  RunsGrow
<1>1. runs[r] \in RunRow
  BY DEF RunsTyped
<1>2. [runs[r] EXCEPT !.next = then] \in RunRow
  BY <1>1 DEF RunRow
<1>3. /\ [runs[r] EXCEPT !.next = then].doc = runs[r].doc
      /\ [runs[r] EXCEPT !.next = then].status = "running"
      /\ [runs[r] EXCEPT !.next = then].next = then
      /\ [runs[r] EXCEPT !.next = then].made = runs[r].made
  BY <1>1 DEF RunRow
<1>4. QED
  BY <1>2, <1>3 DEF RunsTyped, RunsGrow

\* W6 makes its output.
LEMMA RunMakes ==
    ASSUME RunsTyped, NEW r \in Run, NEW output \in ChunkOutput,
           runs[r].status = "running", runs[r].next = "chunk",
           runs' = [runs EXCEPT ![r].next = "finish", ![r].made = {output}]
    PROVE  RunsGrow /\ runs'[r].made = {output}
<1>1. runs[r] \in RunRow /\ runs[r].made = {} /\ DOMAIN runs = Run
  BY DEF RunsTyped
<1>2. PICK row : row = [doc |-> runs[r].doc, status |-> "running", next |-> "finish",
                        made |-> {output}]
  OBVIOUS
<1>3. row \in RunRow
  BY <1>1, <1>2 DEF RunRow
<1>4. runs' = [runs EXCEPT ![r] = row]
  BY <1>1, <1>2 DEF RunRow
<1>5. runs' \in [Run -> RunRow] /\ runs'[r] = row /\ \A q \in Run : q # r => runs'[q] = runs[q]
  <2>1. runs \in [Run -> RunRow]
    BY DEF RunsTyped
  <2> HIDE DEF RunRow
  <2>2. QED
    BY <1>3, <1>4, <2>1
<1>6. QED
  BY <1>1, <1>2, <1>5 DEF RunsTyped, RunsGrow

LEMMA RunEnds ==
    ASSUME RunsTyped, NEW r \in Run, NEW end \in {"succeeded", "failed"},
           runs[r].status = "running", runs' = [runs EXCEPT ![r].status = end]
    PROVE  RunsGrow
<1>1. runs[r] \in RunRow
  BY DEF RunsTyped
<1>2. [runs[r] EXCEPT !.status = end] \in RunRow
  BY <1>1 DEF RunRow
<1>3. /\ [runs[r] EXCEPT !.status = end].doc = runs[r].doc
      /\ [runs[r] EXCEPT !.status = end].next = runs[r].next
      /\ [runs[r] EXCEPT !.status = end].made = runs[r].made
      /\ [runs[r] EXCEPT !.status = end].status = end
  BY <1>1 DEF RunRow
<1>4. QED
  BY <1>2, <1>3 DEF RunsTyped, RunsGrow

LEMMA RunStarts ==
    ASSUME RunsTyped, NEW r \in Run, NEW d \in Doc, runs[r] = NoRun,
           runs' = [runs EXCEPT ![r] = Begun(d)]
    PROVE  RunsGrow
<1>1. Begun(d) \in RunRow
  BY DEF RunRow, Begun
<1>2. runs[r].doc = {} /\ runs[r].status = "none" /\ runs[r].made = {}
  BY DEF NoRun
<1>3. Begun(d).doc = {d} /\ Begun(d).status = "running" /\ Begun(d).made = {}
  BY DEF Begun
<1>4. QED
  BY <1>1, <1>2, <1>3 DEF RunsTyped, RunsGrow

LEMMA OfRunKept ==
    ASSUME RunsTyped, RunsGrow, NEW row, OfRun(row)
    PROVE  row.run \in Run /\ row.key[1] = row.run /\ runs'[row.run].doc = {row.doc}
BY DEF OfRun, RunsGrow

LEMMA WholeKept ==
    ASSUME RunsTyped, RunsGrow, NEW r \in Run, NEW rows, Whole(rows, r)
    PROVE  Whole(rows, r)'
<1>1. CASE rows = {}
  BY <1>1 DEF Whole
<1>2. CASE rows # {}
  <2>1. runs'[r].doc = runs[r].doc /\ runs[r].made \subseteq runs'[r].made
    BY <1>2 DEF Whole, RunsGrow
  <2>2. QED
    BY <1>2, <2>1 DEF Whole
<1>3. QED
  BY <1>1, <1>2

LEMMA FinishedKept ==
    ASSUME RunsTyped, RunsGrow, NEW rs, Finished(rs)
    PROVE  Finished(rs)'
<1>1. \A r \in rs : runs'[r].doc = runs[r].doc /\ runs'[r].status = "succeeded"
  BY DEF Finished, RunsTyped, RunsGrow
<1>2. QED
  BY <1>1 DEF Finished

LEMMA CheckedKept ==
    ASSUME PagesKept, NEW c, runs[c.run].status = "succeeded", Sound(c)
    PROVE  Sound(c)'
BY DEF PagesKept, RowChecked, Sound

LEMMA VersionKept ==
    ASSUME RunsTyped, RunsGrow, PagesKept, NEW v, VersionChecked(v)
    PROVE  VersionChecked(v)'
<1>1. Finished(v.runs)'
  BY FinishedKept DEF VersionChecked
<1>2. ASSUME NEW c \in v.chunks
      PROVE  c.run \in v.runs /\ runs'[c.run].doc = {c.doc} /\ Sound(c)'
  <2>1. /\ c.run \in v.runs /\ runs[c.run].doc = {c.doc} /\ Sound(c)
        /\ c.run \in Run /\ runs[c.run].status = "succeeded"
    BY DEF VersionChecked, Finished
  <2>2. QED
    BY <2>1, CheckedKept DEF RunsGrow
<1>3. ASSUME NEW r \in v.runs
      PROVE  Whole({c \in v.chunks : c.run = r}, r)'
  BY WholeKept DEF VersionChecked, Finished
<1>4. QED
  BY <1>1, <1>2, <1>3 DEF VersionChecked

\* Most steps keep the candidate, or drop it, and write no row of its runs, unless a
\* step is executed after the end of its run.
LEMMA StepKeeps ==
    ASSUME IndInv, RunsGrow, PagesKept, RowsTyped', Staged',
           candidate' \in {candidate, NoCandidate}, published' = published,
           \A c \in chunks' :
               c \in chunks \/ c.run \in LateRuns \/ runs[c.run].status # "succeeded"
    PROVE  IndInv'
<1>1. RunsTyped /\ RunsTyped' /\ CandidateChecked
  BY DEF IndInv, RunsGrow
<1>2. CASE candidate' = candidate
  <2>1. Finished(candidate.runs)'
    <3>1. PICK rs : rs = candidate.runs
      OBVIOUS
    <3>2. Finished(rs)'
      BY <1>1, <3>1, FinishedKept DEF CandidateChecked
    <3>3. QED
      BY <1>2, <3>1, <3>2
  <2>2. ASSUME candidate.approved, NEW c \in chunks', c.run \in candidate.runs
        PROVE  Sound(c)'
    <3>1. CASE c.run \in LateRuns
      BY <3>1 DEF Sound
    <3>2. CASE c.run \notin LateRuns
      BY <1>1, <2>2, <3>2, CheckedKept DEF CandidateChecked, Finished
    <3>3. QED
      BY <3>1, <3>2
  <2>3. CandidateChecked'
    BY <1>1, <1>2, <2>1, <2>2 DEF CandidateChecked, Finished
  <2>4. QED
    BY <1>1, <2>3, VersionKept DEF IndInv
<1>3. CASE candidate' = NoCandidate
  <2>1. CandidateChecked'
    BY <1>3 DEF CandidateChecked, Finished, NoCandidate
  <2>2. QED
    BY <1>1, <2>1, VersionKept DEF IndInv
<1>4. QED
  BY <1>2, <1>3

\* A step that writes no rows of chunks or pages and lets no day pass.
LEMMA RowsKept ==
    ASSUME IndInv, RunsGrow, UNCHANGED <<day, pages, chunks, published>>,
           counted' \subseteq Doc, retracted' \subseteq Doc,
           candidate' \in {candidate, NoCandidate}
    PROVE  IndInv'
<1>1. RunsTyped /\ PagesKept
  BY DEF IndInv, PagesKept
<1>2. ASSUME NEW row \in pages \cup chunks
      PROVE  OfRun(row)'
  BY <1>1, OfRunKept DEF IndInv, RowsTyped, OfRun
<1>3. RowsTyped'
  BY <1>2 DEF IndInv, RowsTyped, OfRun, RunsGrow
<1>4. Staged'
  BY <1>1, WholeKept DEF IndInv, Staged
<1>5. QED
  BY <1>1, <1>3, <1>4, StepKeeps

-----------------------------------------------------------------------------
(* The steps.                                                              *)

LEMMA RunStepKeeps ==
    ASSUME IndInv, NEW r \in Run,
           \/ \E d \in Doc : StartRun(r, d) \/ StartAgain(r, d)
           \/ Layout(r) \/ Succeed(r) \/ Fail(r) \/ Die(r)
    PROVE  IndInv'
<1>1. RunsTyped /\ counted \subseteq Doc /\ retracted \subseteq Doc
  BY DEF IndInv, RowsTyped
<1>2. UNCHANGED <<day, pages, chunks, candidate, published, retracted>>
  BY DEF StartRun, StartAgain, Layout, Succeed, Fail, Die
<1>3. RunsGrow
  <2>1. CASE \E d \in Doc : StartRun(r, d) \/ StartAgain(r, d)
    BY <1>1, <2>1, RunStarts DEF StartRun, StartAgain
  <2>2. CASE Layout(r)
    BY <1>1, <2>2, RunGoesOn DEF Layout, Step
  <2>3. CASE Succeed(r)
    BY <1>1, <2>3, RunEnds DEF Succeed
  <2>4. CASE Fail(r)
    BY <1>1, <2>4, RunEnds DEF Fail
  <2>5. CASE Die(r)
    BY <1>1, <2>5, RunGoesOn DEF Die
  <2>6. QED
    BY <2>1, <2>2, <2>3, <2>4, <2>5
<1>4. counted' \subseteq Doc
  BY <1>1 DEF StartRun, StartAgain, Layout, Succeed, Fail, Die, RunsTyped, RunRow
<1>5. QED
  BY <1>1, <1>2, <1>3, <1>4, RowsKept

\* A run cleans once, and its pages are its own.
LEMMA CleanKeeps ==
    ASSUME IndInv, NEW r \in Run, NEW output \in CleanOutput, Clean(r, output)
    PROVE  IndInv'
<1>1. RunsTyped /\ RowsTyped
  BY DEF IndInv
<1>2. /\ runs[r].status = "running" /\ runs[r].next = "clean"
      /\ runs' = [runs EXCEPT ![r].next = "chunk"]
      /\ UNCHANGED <<day, counted, chunks, candidate, published, retracted>>
  BY DEF Clean, Step
<1>3. RunsGrow
  BY <1>1, <1>2, RunGoesOn
<1>4. PICK d \in runs[r].doc : pages' = Write(pages, PageRows(r, d, output), 0)
  BY DEF Clean
<1>5. runs[r].doc = {d}
  BY <1>1 DEF RunsTyped
<1> DEFINE new == Dated(PageRows(r, d, output), 0)
<1>6. \A row \in new : row.run = r /\ row.doc = d /\ row.key[1] = r
  BY PageRowsDated
<1>7. pages' = {old \in pages : \A row \in new : row.key # old.key} \cup new
  BY <1>4 DEF Write, Dated
<1> HIDE DEF new
<1>8. \A p \in pages : p.run # r => p \in pages'
  BY <1>1, <1>6, <1>7 DEF RowsTyped, OfRun
<1>9. PagesKept
  BY <1>2, <1>8 DEF PagesKept
<1>10. ASSUME NEW p \in pages'
       PROVE  OfRun(p)'
  <2>1. CASE p \in pages
    BY <1>1, <1>3, <2>1, OfRunKept DEF RowsTyped, OfRun
  <2>2. CASE p \in new
    BY <1>1, <1>2, <1>5, <1>6, <2>2 DEF OfRun, RunsTyped
  <2>3. QED
    BY <1>7, <2>1, <2>2
<1>11. RowsTyped'
  <2>1. \A c \in chunks : OfRun(c)'
    BY <1>1, <1>3, OfRunKept DEF RowsTyped, OfRun
  <2>2. \A c \in chunks : runs'[c.run].made # {}
    BY <1>1, <1>3 DEF RowsTyped, OfRun, RunsGrow
  <2>3. QED
    BY <1>1, <1>2, <1>10, <2>1, <2>2 DEF RowsTyped
<1>12. Staged'
  BY <1>1, <1>2, <1>3, WholeKept DEF IndInv, Staged
<1>13. QED
  BY <1>2, <1>3, <1>9, <1>11, <1>12, StepKeeps

\* W6 writes what it has made of the document of r, over whatever r has: for the first
\* time, or again.
LEMMA ChunksWritten ==
    ASSUME IndInv, RunsGrow, NEW r \in Run, r \in LateRuns \/ runs[r].status = "running",
           NEW d, runs[r].doc = {d}, NEW output, output \in runs'[r].made,
           chunks' = Write(chunks, ChunkRows(r, d, output), day),
           \A old \in chunks : old.run = r =>
               \E row \in Dated(ChunkRows(r, d, output), day) : row.key = old.key,
           UNCHANGED <<day, counted, pages, candidate, published, retracted>>
    PROVE  IndInv'
<1>1. RunsTyped /\ RowsTyped /\ Staged /\ PagesKept
  BY DEF IndInv, PagesKept
<1> DEFINE new == Dated(ChunkRows(r, d, output), day)
<1>2. \A row \in new : /\ row.run = r /\ row.doc = d /\ row.key[1] = r
                       /\ row.day = day /\ Shaped(row)
  BY ChunkRowsDated
<1>3. /\ RowsOf(chunks', {r}) = new
      /\ \A q : q # r => RowsOf(chunks', {q}) = RowsOf(chunks, {q})
      /\ \A row \in chunks' : row \in new \/ (row \in chunks /\ row.run # r)
  <2>1. PICK table, rows, k : table = chunks /\ rows = ChunkRows(r, d, output) /\ k = day
    OBVIOUS
  <2>2. Replaces(table, Dated(rows, k), r)
    BY <1>1, <1>2, <2>1 DEF Replaces, RowsTyped, OfRun
  <2>3. Replaced(table, Write(table, rows, k), Dated(rows, k), r)
    BY <2>2, WriteRun
  <2>4. QED
    BY <2>1, <2>3 DEF Replaced
<1>4. runs'[r].doc = {d} /\ day \in 0..LastDay /\ day \in 0..day
  BY <1>1, BoundAssumption DEF RowsTyped, RunsGrow
<1>5. Whole(new, r)'
  BY <1>4 DEF Whole
<1> HIDE DEF new
<1>6. ASSUME NEW c \in chunks'
      PROVE  OfRun(c)' /\ Shaped(c) /\ c.day \in 0..day /\ runs'[c.run].made # {}
  <2>1. CASE c \in chunks
    <3>1. OfRun(c) /\ Shaped(c) /\ c.day \in 0..day /\ runs[c.run].made # {}
      BY <1>1, <2>1 DEF RowsTyped
    <3>2. OfRun(c)'
      BY <1>1, <3>1, OfRunKept DEF OfRun
    <3>3. QED
      BY <3>1, <3>2 DEF RunsGrow, OfRun
  <2>2. CASE c \in new
    BY <1>2, <1>4, <2>2 DEF OfRun
  <2>3. QED
    BY <1>3, <2>1, <2>2
<1>7. RowsTyped'
  <2>1. \A p \in pages : OfRun(p)'
    BY <1>1, OfRunKept DEF RowsTyped, OfRun
  <2>2. QED
    BY <1>1, <1>6, <2>1 DEF RowsTyped, Shaped
<1>8. ASSUME NEW q \in Run
      PROVE  Whole(RowsOf(chunks, {q}), q)'
  <2>1. CASE q = r
    BY <1>3, <1>5, <2>1 DEF new
  <2>2. CASE q # r
    <3>1. PICK some : some = RowsOf(chunks', {q})
      OBVIOUS
    <3>2. Whole(some, q)
      BY <1>1, <1>3, <2>2, <3>1 DEF Staged
    <3>3. Whole(some, q)'
      BY <1>1, <3>2, WholeKept
    <3>4. QED
      BY <3>1, <3>3
  <2>3. QED
    BY <2>1, <2>2
<1>9. Staged'
  BY <1>8 DEF Staged
<1>10. \A c \in chunks' :
           c \in chunks \/ c.run \in LateRuns \/ runs[c.run].status # "succeeded"
  BY <1>2, <1>3
<1>11. QED
  BY <1>1, <1>7, <1>9, <1>10, StepKeeps

LEMMA WriteChunksKeeps ==
    ASSUME IndInv, NEW r \in Run, NEW output \in ChunkOutput, WriteChunks(r, output)
    PROVE  IndInv'
<1>1. RunsTyped /\ RowsTyped
  BY DEF IndInv
<1>2. /\ runs[r].status = "running" /\ runs[r].next = "chunk"
      /\ runs' = [runs EXCEPT ![r].next = "finish", ![r].made = {output}]
      /\ UNCHANGED <<day, counted, pages, candidate, published, retracted>>
  BY DEF WriteChunks
<1>3. RunsGrow /\ output \in runs'[r].made
  BY <1>1, <1>2, RunMakes
<1>4. PICK d \in runs[r].doc : chunks' = Write(chunks, ChunkRows(r, d, output), day)
  BY DEF WriteChunks
<1>5. runs[r].doc = {d}
  BY <1>1 DEF RunsTyped
<1>6. \A old \in chunks : old.run # r
  BY <1>1, <1>2 DEF RowsTyped, RunsTyped
<1>7. QED
  BY <1>2, <1>3, <1>4, <1>5, <1>6, ChunksWritten

\* W6 executed again makes the same, so it writes over every row that is left.
LEMMA WriteAgainKeeps ==
    ASSUME IndInv, NEW r \in Run, WriteChunksAgain(r)
    PROVE  IndInv'
<1>1. RunsTyped /\ Staged
  BY DEF IndInv
<1>2. /\ r \in LateRuns \/ runs[r].status = "running"
      /\ UNCHANGED <<day, runs, counted, pages, candidate, published, retracted>>
  BY DEF WriteChunksAgain
<1>3. PICK d \in runs[r].doc, output \in runs[r].made :
          chunks' = Write(chunks, ChunkRows(r, d, output), day)
  BY DEF WriteChunksAgain
<1>4. RunsGrow /\ runs[r].doc = {d} /\ output \in runs'[r].made
  BY <1>1, <1>2, <1>3, RunsStill DEF RunsTyped
<1>5. ASSUME NEW old \in chunks, old.run = r
      PROVE  \E row \in Dated(ChunkRows(r, d, output), day) : row.key = old.key
  <2>1. PICK rows : rows = ChunkRows(r, d, output)
    OBVIOUS
  <2>2. old \in RowsOf(chunks, {r})
    BY <1>5 DEF RowsOf
  <2>3. PICK e \in runs[r].doc, other \in runs[r].made, k \in 0..LastDay :
            RowsOf(chunks, {r}) = Dated(ChunkRows(r, e, other), k)
    BY <1>1, <2>2 DEF Staged, Whole
  <2>4. e = d /\ other = output
    BY <1>1, <1>3, <2>3 DEF RunsTyped
  <2>5. old \in Dated(rows, k)
    BY <2>1, <2>2, <2>3, <2>4
  <2>6. \A row \in rows : Shaped(row)
    BY <2>1 DEF ChunkRows, Shaped
  <2>7. \E row \in Dated(rows, day) : row.key = old.key
    BY <2>5, <2>6, RowsDated
  <2>8. QED
    BY <2>1, <2>7
<1>6. QED
  BY <1>2, <1>3, <1>4, <1>5, ChunksWritten

\* The rows of a run have one date: they expire together or not at all.
LEMMA ExpireKeeps ==
    ASSUME IndInv, ExpireStaging
    PROVE  IndInv'
<1>1. RunsTyped /\ RowsTyped /\ Staged
  BY DEF IndInv
<1>2. UNCHANGED <<day, runs, counted, pages, candidate, published, retracted>>
  BY DEF ExpireStaging
<1> DEFINE stays(k) == k >= day - StagingDays
<1>3. chunks' = {row \in chunks : stays(row.day)}
  BY DEF ExpireStaging, Unexpired
<1> HIDE DEF stays
<1>4. RunsGrow
  BY <1>1, <1>2, RunsStill
<1>5. PagesKept
  BY <1>2 DEF PagesKept
<1>6. ASSUME NEW row \in pages \cup chunks
      PROVE  OfRun(row)'
  BY <1>1, <1>4, OfRunKept DEF RowsTyped, OfRun
<1>7. RowsTyped'
  BY <1>1, <1>2, <1>3, <1>6 DEF RowsTyped, Shaped
<1>8. ASSUME NEW r \in Run
      PROVE  Whole(RowsOf(chunks, {r}), r)'
  <2>1. PICK rows, left : rows = RowsOf(chunks, {r}) /\ left = RowsOf(chunks', {r})
    OBVIOUS
  <2>2. left = {row \in rows : stays(row.day)}
    BY <1>3, <2>1 DEF RowsOf
  <2>3. left = {} \/ left = rows
    <3>1. CASE rows = {}
      BY <2>2, <3>1
    <3>2. CASE \E d \in runs[r].doc, output \in runs[r].made, k \in 0..LastDay :
                   rows = Dated(ChunkRows(r, d, output), k)
      <4>1. PICK k : \A row \in rows : row.day = k
        BY <3>2, ChunkRowsDated
      <4>2. QED
        BY <2>2, <4>1
    <3>3. QED
      BY <1>1, <2>1, <3>1, <3>2 DEF Staged, Whole
  <2>4. Whole(left, r)
    BY <1>1, <2>1, <2>3 DEF Staged, Whole
  <2>5. Whole(left, r)'
    BY <1>1, <1>4, <2>4, WholeKept
  <2>6. QED
    BY <2>1, <2>5
<1>9. Staged'
  BY <1>8 DEF Staged
<1>10. QED
  BY <1>2, <1>3, <1>4, <1>5, <1>7, <1>9, StepKeeps

LEMMA NextDayKeeps ==
    ASSUME IndInv, NextDay
    PROVE  IndInv'
<1>1. RunsTyped /\ RowsTyped /\ Staged
  BY DEF IndInv
<1>2. /\ UNCHANGED <<runs, counted, pages, chunks, candidate, published, retracted>>
      /\ day' = day + 1 /\ day < LastDay
  BY DEF NextDay
<1>3. RunsGrow
  BY <1>1, <1>2, RunsStill
<1>4. PagesKept
  BY <1>2 DEF PagesKept
<1>5. day' \in 0..LastDay /\ \A k \in 0..day : k \in 0..day'
  BY <1>1, <1>2, BoundAssumption DEF RowsTyped
<1>6. ASSUME NEW row \in pages \cup chunks
      PROVE  OfRun(row)'
  BY <1>1, <1>3, OfRunKept DEF RowsTyped, OfRun
<1>7. RowsTyped'
  BY <1>1, <1>2, <1>5, <1>6 DEF RowsTyped, Shaped
<1>8. Staged'
  BY <1>1, <1>2, <1>3, WholeKept DEF Staged
<1>9. QED
  BY <1>2, <1>3, <1>4, <1>7, <1>8, StepKeeps

\* Retraction and giving a candidate up touch no row.
LEMMA OtherStepKeeps ==
    ASSUME IndInv, (\E d \in Doc : Retract(d)) \/ GiveUp \/ UNCHANGED vars
    PROVE  IndInv'
<1>1. RunsTyped /\ RowsTyped
  BY DEF IndInv
<1>2. UNCHANGED <<day, runs, counted, pages, chunks, published>>
  BY DEF Retract, GiveUp, vars
<1>3. RunsGrow
  BY <1>1, <1>2, RunsStill
<1>4. counted' \subseteq Doc /\ retracted' \subseteq Doc
  BY <1>1 DEF Retract, GiveUp, vars, RowsTyped
<1>5. candidate' \in {candidate, NoCandidate}
  BY DEF Retract, GiveUp, vars
<1>6. QED
  BY <1>2, <1>3, <1>4, <1>5, RowsKept

\* The gate passes only chunks that are as RowChecked says.
LEMMA GateChecksRows ==
    ASSUME RowsTyped, NEW rs, Finished(rs), AutoPassed(Context(rs)),
           NEW c \in chunks, c.run \in rs
    PROVE  RowChecked(c)
<1> DEFINE ctx == Context(rs)
<1>1. /\ ctx.enc = Enc /\ ctx.sets = ChunkSets(chunks, rs) /\ ctx.pages = RowsOf(pages, rs)
      /\ \A d \in DOMAIN ctx.documents :
            ctx.documents[d].pages = IF d \in counted THEN Pages ELSE 0
  BY DEF Context
<1> HIDE DEF ctx
<1>2. /\ CheckChunkIds(ctx) /\ CheckPageCoverage(ctx) /\ CheckOcrConfidence(ctx)
      /\ CheckPii(ctx) /\ CheckEmbeddings(ctx)
  BY DEF AutoPassed, ctx
<1>3. PICK set \in ChunkSets(chunks, rs) : c \in set.chunks
  <2>1. c \in RowsOf(chunks, rs)
    BY DEF RowsOf
  <2>2. QED
    BY <2>1, SetsCover
<1>4. c.of = c.text /\ c.enc = set.enc /\ c.doc = set.doc
  BY <1>1, <1>2, <1>3 DEF CheckChunkIds
<1>5. set.enc = Enc /\ c.vector = "fine"
  BY <1>1, <1>2, <1>3 DEF CheckEmbeddings
<1>6. ctx.documents[set.doc].pages = Pages
  BY <1>1, <1>2, <1>3 DEF CheckPageCoverage
<1>7. ASSUME NEW n \in 1..Pages
      PROVE  \E p \in pages : /\ p.run = c.run /\ p.doc = c.doc /\ p.page = n
                              /\ p.pii = 0 /\ (p.ocr = NoOcr \/ p.ocr >= MinOcr)
  <2>1. PICK p \in RowsOf(pages, rs) : p.doc = c.doc /\ p.page = n
    BY <1>1, <1>2, <1>3, <1>4, <1>6 DEF CheckPageCoverage
  <2>2. p \in pages /\ p.run \in rs
    BY DEF RowsOf
  <2>3. runs[p.run].doc = runs[c.run].doc
    BY <2>1, <2>2 DEF RowsTyped, OfRun
  <2>4. p.run = c.run
    BY <2>2, <2>3 DEF Finished
  <2>5. p.pii = 0 /\ (p.ocr = NoOcr \/ p.ocr >= MinOcr)
    BY <1>1, <1>2, <2>1 DEF CheckPii, CheckOcrConfidence
  <2>6. QED
    BY <2>1, <2>2, <2>4, <2>5
<1>8. QED
  BY <1>4, <1>5, <1>7 DEF RowChecked

LEMMA BuildKeeps ==
    ASSUME IndInv, NEW rs \in SUBSET RunsWith("succeeded"), NEW sme \in BOOLEAN,
           BuildAndGate(rs, sme)
    PROVE  IndInv'
<1>1. RunsTyped /\ RowsTyped /\ Staged
  BY DEF IndInv
<1>2. /\ candidate' = [runs |-> rs, approved |-> AutoPassed(Context(rs)) /\ sme]
      /\ UNCHANGED <<day, runs, counted, pages, chunks, published, retracted>>
  BY DEF BuildAndGate
<1>3. Finished(rs)
  BY DEF Finished, BuildAndGate, RunsWith
<1>4. candidate' \in [runs : SUBSET Run, approved : BOOLEAN]
  <2>1. (AutoPassed(Context(rs)) /\ sme) \in BOOLEAN
    BY Zenon
  <2>2. QED
    BY <1>2, <1>3, <2>1 DEF Finished
<1>5. candidate'.runs = rs /\ (candidate'.approved => AutoPassed(Context(rs)))
  <2>1. PICK verdict : verdict = (AutoPassed(Context(rs)) /\ sme)
    OBVIOUS
  <2>2. candidate'.runs = rs /\ candidate'.approved = verdict
    BY <1>2, <2>1
  <2>3. QED
    BY <2>1, <2>2
<1>6. RunsGrow /\ PagesKept
  BY <1>1, <1>2, RunsStill DEF PagesKept
<1>7. Finished(rs)' /\ RowsTyped' /\ Staged'
  <2>1. Finished(rs)'
    BY <1>1, <1>3, <1>6, FinishedKept
  <2>2. ASSUME NEW row \in pages \cup chunks
        PROVE  OfRun(row)'
    BY <1>1, <1>6, OfRunKept DEF RowsTyped, OfRun
  <2>3. RowsTyped'
    BY <1>1, <1>2, <2>2 DEF RowsTyped, Shaped
  <2>4. Staged'
    BY <1>1, <1>2, <1>6, WholeKept DEF Staged
  <2>5. QED
    BY <2>1, <2>3, <2>4
<1>8. CandidateChecked'
  <2>1. ASSUME candidate'.approved, NEW c \in chunks, c.run \in rs
        PROVE  Sound(c)'
    <3>1. RowChecked(c)
      BY <1>1, <1>3, <1>5, <2>1, GateChecksRows
    <3>2. QED
      BY <1>2, <3>1 DEF Sound, RowChecked
  <2>2. Finished(candidate.runs)'
    BY <1>5, <1>7 DEF Finished
  <2>3. QED
    BY <1>2, <1>4, <1>5, <1>7, <2>1 DEF CandidateChecked, Finished
<1>9. \A v \in published' : VersionChecked(v)'
  BY <1>1, <1>2, <1>6, VersionKept DEF IndInv
<1>10. QED
  BY <1>6, <1>7, <1>8, <1>9 DEF IndInv, RunsGrow

\* What publish reads again is what the gate passed, or less, and whole where a
\* document has any.
LEMMA PublishKeeps ==
    ASSUME IndInv, Publish
    PROVE  IndInv'
<1>1. RunsTyped /\ RowsTyped /\ Staged /\ CandidateChecked
  BY DEF IndInv
<1>2. UNCHANGED <<day, runs, counted, pages, chunks, retracted>> /\ candidate' = NoCandidate
  BY DEF Publish
<1>3. PICK rs, sets : rs = candidate.runs /\ sets = ChunkSets(chunks, rs)
  OBVIOUS
<1>4. Finished(rs) /\ \A c \in chunks : c.run \in rs => Sound(c)
  BY <1>1, <1>3 DEF CandidateChecked, Publish
<1>5. PICK shown : shown = UNION {set.chunks : set \in sets}
  OBVIOUS
<1>6. PICK v : v = [runs |-> rs, chunks |-> shown]
  OBVIOUS
<1>7. Complete(sets, Docs(rs)) /\ published' = published \cup {v}
  BY <1>3, <1>5, <1>6 DEF Publish
<1>8. \A row : row \in shown <=> row \in chunks /\ row.run \in rs
  <2>1. \A row \in RowsOf(chunks, rs) : \E set \in sets : row \in set.chunks
    BY <1>3, SetsCover
  <2>2. \A set \in sets : set.chunks \subseteq RowsOf(chunks, rs)
    BY <1>3, SetsCover
  <2>3. shown = RowsOf(chunks, rs)
    BY <1>5, <2>1, <2>2
  <2>4. QED
    BY <2>3 DEF RowsOf
<1>9. ASSUME NEW r \in rs
      PROVE  {c \in shown : c.run = r} # {} /\ Whole({c \in shown : c.run = r}, r)
  <2>1. {c \in shown : c.run = r} = RowsOf(chunks, {r})
    BY <1>8 DEF RowsOf
  <2>2. Whole(RowsOf(chunks, {r}), r)
    BY <1>1, <1>4 DEF Staged, Finished
  <2>3. PICK d : d \in runs[r].doc
    BY <1>1, <1>4 DEF RunsTyped, Finished
  <2>4. PICK set \in sets : set.doc = d
    BY <1>7, <2>3 DEF Complete, Docs
  <2>5. PICK row \in RowsOf(chunks, rs) : row.doc = d
    BY <1>3, <2>4, SetsCover
  <2>6. row \in chunks /\ row.run \in rs /\ runs[row.run].doc = {d}
    BY <1>1, <2>5 DEF RowsOf, RowsTyped, OfRun
  <2>7. runs[r].doc = {d}
    BY <1>1, <1>4, <2>3 DEF RunsTyped, Finished
  <2>8. row.run = r
    BY <1>4, <2>6, <2>7 DEF Finished
  <2>9. QED
    BY <1>8, <2>1, <2>2, <2>6, <2>8
<1>10. ASSUME NEW c \in shown
       PROVE  c.run \in rs /\ runs[c.run].doc = {c.doc} /\ Sound(c)
  BY <1>1, <1>4, <1>8 DEF RowsTyped, OfRun
<1>11. VersionChecked(v)
  <2>1. v.runs = rs /\ v.chunks = shown
    BY <1>6
  <2>2. QED
    BY <1>4, <1>9, <1>10, <2>1 DEF VersionChecked
<1>12. RunsGrow /\ PagesKept
  BY <1>1, <1>2, RunsStill DEF PagesKept
<1>13. \A w \in published' : VersionChecked(w)'
  BY <1>1, <1>7, <1>11, <1>12, VersionKept DEF IndInv
<1>14. RowsTyped' /\ Staged'
  <2>1. ASSUME NEW row \in pages \cup chunks
        PROVE  OfRun(row)'
    BY <1>1, <1>12, OfRunKept DEF RowsTyped, OfRun
  <2>2. RowsTyped'
    BY <1>1, <1>2, <2>1 DEF RowsTyped, Shaped
  <2>3. Staged'
    BY <1>1, <1>2, <1>12, WholeKept DEF Staged
  <2>4. QED
    BY <2>2, <2>3
<1>15. CandidateChecked'
  BY <1>2 DEF CandidateChecked, Finished, NoCandidate
<1>16. QED
  BY <1>12, <1>13, <1>14, <1>15 DEF IndInv, RunsGrow

-----------------------------------------------------------------------------
(* The invariant, and what it says of what is published.                   *)

LEMMA InitInvariant ==
    ASSUME Init
    PROVE  IndInv
<1>1. RunsTyped
  BY DEF Init, RunsTyped, RunRow, NoRun
<1>2. RowsTyped /\ Staged
  BY BoundAssumption DEF Init, RowsTyped, Staged, Whole, RowsOf
<1>3. CandidateChecked
  BY DEF Init, CandidateChecked, Finished, NoCandidate
<1>4. QED
  BY <1>1, <1>2, <1>3 DEF Init, IndInv

LEMMA NextKeeps ==
    ASSUME IndInv, [Next]_vars
    PROVE  IndInv'
<1>1. CASE \E r \in Run : Advance(r)
  <2>1. PICK r \in Run : Advance(r)
    BY <1>1
  <2>2. QED
    BY <2>1, RunStepKeeps, CleanKeeps, WriteChunksKeeps DEF Advance
<1>2. CASE Sensor \/ \E r \in Run, d \in Doc : StartAgain(r, d)
  BY <1>2, RunStepKeeps DEF Sensor
<1>3. CASE \E r \in Run : WriteChunksAgain(r) \/ Fail(r) \/ Die(r)
  BY <1>3, RunStepKeeps, WriteAgainKeeps
<1>4. CASE (\E d \in Doc : Retract(d)) \/ GiveUp \/ UNCHANGED vars
  BY <1>4, OtherStepKeeps
<1>5. CASE \E rs \in SUBSET RunsWith("succeeded"), sme \in BOOLEAN : BuildAndGate(rs, sme)
  BY <1>5, BuildKeeps
<1>6. CASE Publish
  BY <1>6, PublishKeeps
<1>7. CASE NextDay
  BY <1>7, NextDayKeeps
<1>8. CASE ExpireStaging
  BY <1>8, ExpireKeeps
<1>9. QED
  BY <1>1, <1>2, <1>3, <1>4, <1>5, <1>6, <1>7, <1>8 DEF Next

\* Each row belongs to a run and its document, the chunks of a run are all there
\* under one date or all gone, an approved candidate has only checked chunks in the
\* staging table, and so has each version, but for runs that have steps executed after
\* their end: whatever runs and deletions come between the gate and publish.
THEOREM StagingInvariant == Spec => []IndInv
<1>1. Init => IndInv
  BY InitInvariant
<1>2. IndInv /\ [Next]_vars => IndInv'
  BY NextKeeps
<1>3. QED
  BY <1>1, <1>2, PTL DEF Spec

\* The ingest tables are well formed, and a chunk row is of the document of its run.
THEOREM StagingTyped == Spec => []TypeOK
<1>1. IndInv => TypeOK
  BY DEF IndInv, TypeOK, RunsTyped, RunRow, RowsTyped, OfRun, CandidateChecked, Finished
<1>2. QED
  BY <1>1, StagingInvariant, PTL

\* publish_chunk_sets takes only chunks run_gate has checked, although it reads the
\* tables a second time and they may have expired between the reads, of every run none
\* of whose steps is executed after its end.
THEOREM OnlyCheckedPublished == Spec => []PublishedWasChecked
<1>1. IndInv => PublishedWasChecked
  BY DEF IndInv, VersionChecked, Sound, RowChecked, PublishedWasChecked
<1>2. QED
  BY <1>1, StagingInvariant, PTL

\* What W6 made of a document, read back from the rows of its run.
LEMMA OutputReadBack ==
    ASSUME NEW r, NEW d, NEW output \in ChunkOutput, NEW k
    PROVE  {[of |-> c.of, text |-> c.text, vector |-> c.vector] :
               c \in Dated(ChunkRows(r, d, output), k)} = output.chunks
<1> DEFINE row(c, l) == [key |-> <<r, d, c.of, output.enc>>, run |-> r, doc |-> d,
                         enc |-> output.enc, schema |-> output.schema, day |-> l,
                         of |-> c.of, text |-> c.text, vector |-> c.vector]
           back(c) == [of |-> c.of, text |-> c.text, vector |-> c.vector]
           dated(c) == [c EXCEPT !.day = k]
<1>1. ChunkRows(r, d, output) = {row(c, Unwritten) : c \in output.chunks}
  BY DEF ChunkRows
<1>2. \A c : dated(row(c, Unwritten)) = row(c, k)
  OBVIOUS
<1>3. \A c \in output.chunks : back(row(c, k)) = c
  BY OutputAssumption
<1>4. \A rows : Dated(rows, k) = {dated(c) : c \in rows}
  BY DEF Dated
<1>5. \A rows : {[of |-> c.of, text |-> c.text, vector |-> c.vector] : c \in rows}
                    = {back(c) : c \in rows}
  OBVIOUS
<1> HIDE DEF row, back, dated
<1>6. Dated(ChunkRows(r, d, output), k) = {row(c, k) : c \in output.chunks}
  <2>1. PICK rows : rows = ChunkRows(r, d, output)
    OBVIOUS
  <2>2. rows = {row(c, Unwritten) : c \in output.chunks}
    BY <1>1, <2>1
  <2>3. Dated(rows, k) = {dated(c) : c \in rows}
    BY <1>4
  <2>4. {dated(c) : c \in rows} = {row(c, k) : c \in output.chunks}
    BY <1>2, <2>2
  <2>5. QED
    BY <2>1, <2>3, <2>4
<1>7. {back(c) : c \in {row(c, k) : c \in output.chunks}} = output.chunks
  BY <1>3
<1>8. QED
  BY <1>5, <1>6, <1>7

\* publish_chunk_sets shows a document in full and from one run: staged rows expire
\* and are written again as a whole, before the end of their run or after it, and
\* Complete refuses a set that is missing.
THEOREM WholePublished == Spec => []PublishedWhole
<1>1. IndInv => PublishedWhole
  <2>1. SUFFICES ASSUME IndInv, NEW v \in published,
                        NEW d \in UNION {runs[r].doc : r \in v.runs}
                 PROVE  LET shown == {c \in v.chunks : c.doc = d}
                        IN  \E r \in v.runs, output \in ChunkOutput :
                                {[of |-> c.of, text |-> c.text, vector |-> c.vector] :
                                    c \in shown} = output.chunks
                                /\ \A c \in shown : c.run = r
    BY DEF PublishedWhole
  <2>2. RunsTyped /\ VersionChecked(v)
    BY <2>1 DEF IndInv
  <2>3. PICK r \in v.runs : d \in runs[r].doc
    BY <2>1
  <2>4. r \in Run /\ runs[r].doc = {d}
    BY <2>2, <2>3 DEF RunsTyped, VersionChecked, Finished
  <2>5. PICK shown : shown = {c \in v.chunks : c.doc = d}
    OBVIOUS
  <2>6. ASSUME NEW c \in v.chunks
        PROVE  c.run = r <=> c.doc = d
    <3>1. c.run \in v.runs /\ runs[c.run].doc = {c.doc}
      BY <2>2 DEF VersionChecked
    <3>2. c.run = r => c.doc = d
      BY <2>4, <3>1
    <3>3. c.doc = d => c.run = r
      BY <2>2, <2>4, <3>1 DEF VersionChecked, Finished
    <3>4. QED
      BY <3>2, <3>3
  <2>7. shown = {c \in v.chunks : c.run = r}
    BY <2>5, <2>6
  <2>8. shown # {} /\ Whole(shown, r)
    BY <2>2, <2>7 DEF VersionChecked
  <2>9. PICK e \in runs[r].doc, output \in ChunkOutput, k \in 0..LastDay :
            shown = Dated(ChunkRows(r, e, output), k)
    <3>1. runs[r].made \subseteq ChunkOutput
      BY <2>2, <2>4 DEF RunsTyped, RunRow
    <3>2. QED
      BY <2>8, <3>1 DEF Whole
  <2>10. {[of |-> c.of, text |-> c.text, vector |-> c.vector] : c \in shown} = output.chunks
    BY <2>9, OutputReadBack
  <2>11. \A c \in shown : c.run = r
    BY <2>7
  <2>12. QED
    BY <2>5, <2>10, <2>11
<1>2. QED
  BY <1>1, StagingInvariant, PTL


-----------------------------------------------------------------------------
(* What the ingest tier promises of any table, and not only of Staging's.  *)

\* A step that is executed again, at once or days later, leaves the table as if it
\* had been executed the second time only (_write: "a step that Dagster repeats
\* after a failure is safe").
THEOREM WriteTwice ==
    ASSUME NEW table, NEW rows, \A row \in rows : Shaped(row), NEW k, NEW l
    PROVE  Write(Write(table, rows, k), rows, l) = Write(table, rows, l)
<1> DEFINE new(m) == Dated(rows, m)
           beside(rest, m) == {old \in rest : \A row \in new(m) : row.key # old.key}
<1>1. \A rest, m : Write(rest, rows, m) = beside(rest, m) \cup new(m)
  BY DEF Write, Dated
<1>2. \A m : /\ \A row \in new(m) : \E old \in rows : row.key = old.key
             /\ \A old \in rows : \E row \in new(m) : row.key = old.key
  BY RowsDated
<1> HIDE DEF new
<1>3. \A rest : beside(rest, k) = beside(rest, l)
  BY <1>2
<1>4. beside(beside(table, k) \cup new(k), l) = beside(table, l)
  <2>1. \A old \in new(k) : \E row \in new(l) : row.key = old.key
    BY <1>2
  <2>2. beside(beside(table, k) \cup new(k), l) = beside(beside(table, k), l)
    BY <2>1
  <2>3. beside(beside(table, k), l) = beside(beside(table, l), l)
    BY <1>3
  <2>4. QED
    BY <2>2, <2>3
<1> HIDE DEF beside
<1>5. QED
  BY <1>1, <1>4

\* The primary key: one row for each key.
OneForEachKey(rows) == \A p, q \in rows : p.key = q.key => p = q

\* A write keeps the primary key of the table, if what is written has one row for
\* each key; rows of the same key are replaced and not added to.
THEOREM WriteKeepsKeys ==
    ASSUME NEW table, OneForEachKey(table), NEW rows, NEW k, OneForEachKey(Dated(rows, k))
    PROVE  OneForEachKey(Write(table, rows, k))
<1> DEFINE new == Dated(rows, k)
<1>1. Write(table, rows, k) = {old \in table : \A row \in new : row.key # old.key} \cup new
  BY DEF Write, Dated
<1>2. OneForEachKey(new)
  OBVIOUS
<1> HIDE DEF new
<1>3. QED
  BY <1>1, <1>2 DEF OneForEachKey

\* What is read of a run after write_chunk_set is the one set that was written, with
\* its header and all its chunks, and nothing of an earlier try (read_chunk_sets).
THEOREM SetReadBack ==
    ASSUME NEW table, NEW r, NEW d, NEW set, set.chunks # {}, NEW k,
           Replaces(table, Dated(ChunkRows(r, d, set), k), r)
    PROVE  ChunkSets(Write(table, ChunkRows(r, d, set), k), {r}) =
             {[run |-> r, doc |-> d, enc |-> set.enc, schema |-> set.schema,
               chunks |-> Dated(ChunkRows(r, d, set), k)]}
<1> DEFINE new == Dated(ChunkRows(r, d, set), k)
           after == Write(table, ChunkRows(r, d, set), k)
           rows == RowsOf(after, {r})
           group(run, doc) == {row \in rows : row.run = run /\ row.doc = doc}
           first(g) == CHOOSE row \in g : TRUE
           headed(g) == [run |-> first(g).run, doc |-> first(g).doc, enc |-> first(g).enc,
                         schema |-> first(g).schema, chunks |-> g]
<1>1. ChunkSets(after, {r}) = {headed(group(row.run, row.doc)) : row \in rows}
  BY DEF ChunkSets
<1>2. rows = new
  <2>1. PICK written : written = ChunkRows(r, d, set)
    OBVIOUS
  <2>2. Replaced(table, Write(table, written, k), Dated(written, k), r)
    BY <2>1, WriteRun
  <2>3. QED
    BY <2>1, <2>2 DEF Replaced
<1>3. \A row \in new : row.run = r /\ row.doc = d /\ row.enc = set.enc /\ row.schema = set.schema
  BY DEF Dated, ChunkRows
<1>4. new # {}
  <2>1. ChunkRows(r, d, set) # {}
    BY DEF ChunkRows
  <2>2. QED
    BY <2>1 DEF Dated
<1> HIDE DEF new
<1>5. \A row \in rows : group(row.run, row.doc) = new
  BY <1>2, <1>3
<1>6. first(new) \in new
  BY <1>4
<1>7. headed(new) = [run |-> r, doc |-> d, enc |-> set.enc, schema |-> set.schema, chunks |-> new]
  BY <1>3, <1>6
<1> HIDE DEF headed, group
<1>8. ChunkSets(after, {r}) = {headed(new)}
  BY <1>1, <1>2, <1>4, <1>5
<1>9. QED
  BY <1>7, <1>8 DEF new
=============================================================================
