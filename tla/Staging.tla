------------------------------- MODULE Staging -------------------------------
(***************************************************************************)
(* From a registered document to a published version by way of the ingest  *)
(* tables: ingestion runs (registry.py), the rows their steps write, the   *)
(* gate that reads them, publish that reads them again, and retention that *)
(* deletes staged chunks meanwhile.                                        *)
(*                                                                         *)
(* The pipeline is not written yet; it is modelled from what it will call: *)
(* a sensor starts one run for each pending document, the steps of a run   *)
(* write their rows in order and may be executed again with the same       *)
(* output, a candidate is built from finished runs, one for a document,    *)
(* and publish is handed the chunk sets of the same runs.                  *)
(***************************************************************************)
EXTENDS IngestTier, Gate, FiniteSetsExt

CONSTANTS
    Doc,            \* registered document versions
    Pages,          \* pages of a document, as W1 counts them
    External,       \* documents that are external exercises; all carry a licence
    Run,            \* ids of ingestion runs
    CleanOutput,    \* what W5 may make of a document: sets of pages
    ChunkOutput,    \* what W6 may make of it: chunk sets
    Enc,            \* embedding model and chunker of the candidates
    LateRuns,       \* runs whose steps may be executed again when they have ended
    StagingDays,    \* retention_staging_days
    LastDay,        \* bound: days that are looked at
    MaxFailures     \* bound: runs that fail or are lost

\* A chunk is what it names, its text and its vector, in that shape.
ASSUME OutputAssumption ==
    \A output \in ChunkOutput : \A c \in output.chunks :
        c = [of |-> c.of, text |-> c.text, vector |-> c.vector]
ASSUME BoundAssumption == LastDay \in Nat
ASSUME LateAssumption == LateRuns \subseteq Run

VARIABLES
    day,
    runs,       \* registry.ingestion_runs: run -> row, and where its job is
    counted,    \* documents whose page_count is set
    pages,      \* ingest.cleaned_pages
    chunks,     \* ingest.chunks
    candidate,  \* the candidate with the runs it was built from
    published,  \* serving.chunks of the versions published from candidates
    retracted,  \* documents with a retracted_at
    failures

vars == <<day, runs, counted, pages, chunks, candidate, published, retracted, failures>>

\* made is what W6 has made of the document: executed again it makes the same.
NoRun == [doc |-> {}, status |-> "none", next |-> "none", made |-> {}]
Begun(d) == [doc |-> {d}, status |-> "running", next |-> "layout", made |-> {}]

NoCandidate == [runs |-> {}, approved |-> FALSE]

TypeOK ==
    /\ day \in 0..LastDay
    /\ \A r \in Run :
          /\ runs[r].doc \subseteq Doc
          /\ runs[r].status \in {"none", "running", "succeeded", "failed"}
    /\ counted \subseteq Doc /\ retracted \subseteq Doc
    /\ candidate.runs \subseteq Run
    /\ \A c \in chunks : c.day \in 0..day /\ {c.doc} = runs[c.run].doc

Init ==
    /\ day = 0
    /\ runs = [r \in Run |-> NoRun]
    /\ counted = {}
    /\ pages = {} /\ chunks = {}
    /\ candidate = NoCandidate
    /\ published = {}
    /\ retracted = {}
    /\ failures = 0

-----------------------------------------------------------------------------
(* Runs.                                                                   *)

Docs(rs) == UNION {runs[r].doc : r \in rs}
RunsWith(status) == {r \in Run : runs[r].status = status}

\* Mutant: a run counts whatever its end.
PendingWithoutRun == Doc \ (retracted \cup Docs(Run))

\* pending_doc_versions
Pending == Doc \ (retracted \cup Docs(RunsWith("succeeded")))

\* start_run, by the sensor for a pending document: once for each, whatever becomes of
\* the run ("once per version", run keys).
StartRun(r, d) ==
    /\ runs[r] = NoRun
    /\ d \in Pending \ Docs(Run)
    /\ runs' = [runs EXCEPT ![r] = Begun(d)]
    /\ UNCHANGED <<day, counted, pages, chunks, candidate, published, retracted, failures>>

\* start_run, by hand: a document is ingested again, because its run failed or for
\* another encoder.  Nothing keeps two runs of a document from going on at once.
StartAgain(r, d) ==
    /\ runs[r] = NoRun
    /\ d \in Docs(Run)
    /\ runs' = [runs EXCEPT ![r] = Begun(d)]
    /\ UNCHANGED <<day, counted, pages, chunks, candidate, published, retracted, failures>>

Step(r, step, then) ==
    /\ runs[r].status = "running" /\ runs[r].next = step
    /\ runs' = [runs EXCEPT ![r].next = then]

\* W1: set_page_count.
Layout(r) ==
    /\ Step(r, "layout", "clean")
    /\ counted' = counted \cup runs[r].doc
    /\ UNCHANGED <<day, pages, chunks, candidate, published, retracted, failures>>

\* W5: append_records.
Clean(r, output) ==
    /\ Step(r, "clean", "chunk")
    /\ \E d \in runs[r].doc : pages' = Write(pages, PageRows(r, d, output), 0)
    /\ UNCHANGED <<day, counted, chunks, candidate, published, retracted, failures>>

\* W6: write_chunk_set.
WriteChunks(r, output) ==
    /\ runs[r].status = "running" /\ runs[r].next = "chunk"
    /\ runs' = [runs EXCEPT ![r].next = "finish", ![r].made = {output}]
    /\ \E d \in runs[r].doc : chunks' = Write(chunks, ChunkRows(r, d, output), day)
    /\ UNCHANGED <<day, counted, pages, candidate, published, retracted, failures>>

\* The step is executed again after its transaction, a retry of the pipeline or a
\* person: write_chunk_set writes the whole set, whatever has expired by then, and asks
\* nothing of the run.
WriteChunksAgain(r) ==
    /\ runs[r].status = "running" \/ r \in LateRuns
    /\ \E d \in runs[r].doc, output \in runs[r].made :
          chunks' = Write(chunks, ChunkRows(r, d, output), day)
    /\ UNCHANGED <<day, runs, counted, pages, candidate, published, retracted, failures>>

\* finish_run
Succeed(r) ==
    /\ runs[r].status = "running" /\ runs[r].next = "finish"
    /\ runs' = [runs EXCEPT ![r].status = "succeeded"]
    /\ UNCHANGED <<day, counted, pages, chunks, candidate, published, retracted, failures>>

Fail(r) ==
    /\ runs[r].status = "running" /\ runs[r].next # "lost" /\ failures < MaxFailures
    /\ runs' = [runs EXCEPT ![r].status = "failed"]
    /\ failures' = failures + 1
    /\ UNCHANGED <<day, counted, pages, chunks, candidate, published, retracted>>

\* The job dies before it gets to finish_run: the row says running for ever.
Die(r) ==
    /\ runs[r].status = "running" /\ runs[r].next # "lost" /\ failures < MaxFailures
    /\ runs' = [runs EXCEPT ![r].next = "lost"]
    /\ failures' = failures + 1
    /\ UNCHANGED <<day, counted, pages, chunks, candidate, published, retracted>>

Retract(d) ==
    /\ d \notin retracted
    /\ retracted' = retracted \cup {d}
    /\ UNCHANGED <<day, runs, counted, pages, chunks, candidate, published, failures>>

-----------------------------------------------------------------------------
(* The gate, publish and retention.                                        *)

\* The context of a candidate built from these runs.
Context(rs) ==
    [enc |-> Enc, sets |-> ChunkSets(chunks, rs), pages |-> RowsOf(pages, rs),
     documents |-> [d \in Docs(rs) |-> [pages |-> IF d \in counted THEN Pages ELSE 0,
                                        external |-> d \in External, licence |-> TRUE]]]

\* create_candidate and run_gate; the report is approved if the SME agrees.
BuildAndGate(rs, sme) ==
    /\ rs # {} /\ \A r, q \in rs : runs[r].doc = runs[q].doc => r = q
    /\ candidate = NoCandidate
    /\ candidate' = [runs |-> rs, approved |-> AutoPassed(Context(rs)) /\ sme]
    /\ UNCHANGED <<day, runs, counted, pages, chunks, published, retracted, failures>>

Complete(sets, docs) == docs \subseteq {set.doc : set \in sets}

\* publish: of an approved candidate, with every document in the manifest covered.
Publish ==
    /\ candidate.approved
    /\ LET sets == ChunkSets(chunks, candidate.runs)
           docs == Docs(candidate.runs)
       IN  /\ \A set \in sets : set.doc \in docs /\ set.enc = Enc
           /\ Complete(sets, docs)
           /\ published' = published \cup
                  {[runs |-> candidate.runs, chunks |-> UNION {set.chunks : set \in sets}]}
    /\ candidate' = NoCandidate
    /\ UNCHANGED <<day, runs, counted, pages, chunks, retracted, failures>>

\* A candidate is rejected, or another takes its place.
GiveUp ==
    /\ candidate # NoCandidate
    /\ candidate' = NoCandidate
    /\ UNCHANGED <<day, runs, counted, pages, chunks, published, retracted, failures>>

NextDay ==
    /\ day < LastDay /\ day' = day + 1
    /\ UNCHANGED <<runs, counted, pages, chunks, candidate, published, retracted, failures>>

ExpireStaging ==
    /\ chunks' = Unexpired(chunks, day, StagingDays)
    /\ UNCHANGED <<day, runs, counted, pages, candidate, published, retracted, failures>>

Sensor == \E r \in Run, d \in Doc : StartRun(r, d)

Advance(r) ==
    \/ Layout(r)
    \/ \E output \in CleanOutput : Clean(r, output)
    \/ \E output \in ChunkOutput : WriteChunks(r, output)
    \/ Succeed(r)

Next ==
    \/ Sensor
    \/ \E r \in Run : Advance(r) \/ WriteChunksAgain(r) \/ Fail(r) \/ Die(r)
    \/ \E r \in Run, d \in Doc : StartAgain(r, d)
    \/ \E d \in Doc : Retract(d)
    \/ \E rs \in SUBSET RunsWith("succeeded"), sme \in BOOLEAN : BuildAndGate(rs, sme)
    \/ Publish
    \/ GiveUp
    \/ NextDay
    \/ ExpireStaging

\* The sensor polls, and a run whose job is alive is carried on.  Nobody need start a
\* failed or lost run again.
Spec ==
    /\ Init /\ [][Next]_vars
    /\ WF_vars(Sensor)
    /\ \A r \in Run : WF_vars(Advance(r))

-----------------------------------------------------------------------------
(* Properties.                                                             *)

\* What is published went through the gate: the id of each chunk is made of its
\* content, it has a usable vector of the manifest's encoder, and each page of its
\* document was cleaned, readable and free of personal data, though publish
\* reads the rows again and they may have expired meanwhile.  It is not so for a run
\* that has a step executed after its end: rows that had expired before the gate
\* looked are back.
PublishedWasChecked ==
    \A v \in published : \A c \in v.chunks : c.run \notin LateRuns =>
        /\ c.of = c.text /\ c.vector = "fine" /\ c.enc = Enc
        /\ \A n \in 1..Pages :
              \E p \in pages : /\ p.run = c.run /\ p.doc = c.doc /\ p.page = n
                               /\ p.pii = 0 /\ (p.ocr = NoOcr \/ p.ocr >= MinOcr)

\* A version shows all W6 made of a document in one run, never a part of it and
\* never two runs side by side: staged rows expire and are replaced as a whole.
PublishedWhole ==
    \A v \in published : \A d \in UNION {runs[r].doc : r \in v.runs} :
        LET shown == {c \in v.chunks : c.doc = d}
        IN  \E r \in v.runs, output \in ChunkOutput :
                {[of |-> c.of, text |-> c.text, vector |-> c.vector] : c \in shown} = output.chunks
                /\ \A c \in shown : c.run = r

\* The run has come to its end, or its job has died.
Ended(r) == runs[r].status \in {"succeeded", "failed"} \/ runs[r].next = "lost"

\* No document is forgotten: it is ingested or retracted in the end, or its run has
\* failed or was lost and it stays on the list of pending documents until a person
\* starts another (pending_doc_versions: a run that failed or still says running does
\* not count; "once per version" of the sensor).
NoDocumentIsForgotten ==
    \A d \in Doc : <>[](\/ d \in retracted \cup Docs(RunsWith("succeeded"))
                        \/ /\ d \in Pending
                           /\ \E r \in Run : d \in runs[r].doc /\ Ended(r))
=============================================================================
