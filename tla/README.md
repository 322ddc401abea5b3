# Formal models of the chatbot platform

TLA+ models of the data platform of this repository, the TLC runs that check them and
the theorems TLAPS proves about them. Paths are relative to `src/`; `platform/` stands
for `libs/platform/src/chatbot_platform/`.

## 1. The system

The repository holds a course chatbot split into an offline plane, which turns uploaded
course files into versions of a knowledge base, and an online plane, which answers
questions from the version the `serving` alias names. At this commit the online services
(`services/`), the workers W1 to W8 (`workers/`), the Dagster code (`pipelines/`) and the
evaluation and fine-tuning packages (`ml/`) are typed stubs that raise
`NotImplementedError`. The behaviour that exists is in `libs/`.

| Component | State it keeps | Operations that change it | What makes it correct |
|---|---|---|---|
| Knowledge base versions, `platform/versioning.py` | through the registry and the index | `create_candidate`, `publish`, `reject`, `rollback` | a published version shows its manifest, once each chunk, and never changes; only the alias moves back |
| Quality gate, `gate.py`, `models.py` | `gate_reports` | `run_gate`, `record_sme_decision` | the only way into serving; new documents are seen by an SME; decisions stand |
| Registry, `registry.py`, `sql.py` | `doc_versions`, `ingestion_runs`, `kb_versions`, `kb_aliases`, `gate_reports` | one transaction for each method | references never dangle, ids are not reused |
| Serving index, `index.py`, `pg_index.py` | `serving.chunks`, `serving.chunk_validity` | `add_chunk_set`, `open_intervals`, `close_intervals` | earlier versions are untouched, steps may be repeated, both adapters agree |
| Documents, `documents.py` | raw bucket, `doc_versions` | `register_document`, `retract_document` | one row for each content, corrections form a chain |
| Ingest tier, `ingest.py` | `ingest.*` | `append_records`, `write_chunk_set` | a repeated step leaves the rows of one try |
| Retention, `retention.py` | deletes from `ops.*`, `ingest.chunks`, the uploads bucket | the daily sweep | nothing survives its time, nothing in use is deleted, a sweep that stopped can go on |
| Lineage, `lineage.py` | `interactions.source_corrected` | `sweep_superseded` | every answer whose source was corrected is flagged, and once |
| Object store, `storage.py`, exports, `exports.py` | buckets | `put`, `delete`, `export_rows` | an object is whole or absent, keys are written once |
| Contract client, `libs/common/.../http.py`, with `service.py` and `services/api` | table of local handlers | `call`, `stream`, `register_local` | an answer is whole or an error, each call is measured once, nobody works for nobody |
| Migrations, `platform/migrations/` | the schema, `alembic_version` | upgrade, downgrade | the revision tells the schema, the newest is what the code expects, data stays |
| Stubs: services, workers, pipelines, ml | none yet | none yet | |
| Wiring: factory, settings, cli, scripts, infra | none | none | |

**Interaction.** Everything meets in the schemas of one Postgres database and three buckets. The pipeline
(Dagster steps), the command line (`platform/cli.py`) and later the admin API call the
same functions from different processes. Each registry or index method opens a
transaction of its own; no call spans two of them and nothing is locked in between. The
online plane only reads: it takes the version of the alias once and filters chunks by
`valid_from <= v < valid_to`.

**Hard behaviours.** A platform call is a sequence of transactions, so (1) it may die
between any two of them and be run again, or not; (2) the calls of two processes
interleave; (3) what a call has read, the latest published version, a manifest, a
report, may be stale when it writes. `publish` writes in six or more transactions and
moves `serving` before the row says published. Rollback followed by a new version makes
chunks come back and gives one chunk several intervals. `PROJECT.json` lists the hazards
with the line where each bites and the property that covers it, or why none does.

Outside the versions the same three patterns return: an upload or a retention sweep is a
sequence of object store calls and transactions and may die in the middle; the lineage
sweep reads five tables one after another while all of them change; the gate and `publish`
read the same staged rows on different days. The online calls add a fourth: a streamed
answer has begun, with status 200, before anybody knows whether it will end.

## 2. The modules

| Module | What it is |
|---|---|
| `ServingIndex` | the validity table and the three statements both index adapters run on it, as operators on sets of rows |
| `KnowledgeBase` | the core: registry and index as shared state, every platform call on versions as the steps of a job |
| `VersionedStore` | what readers are promised: an abstract specification `KnowledgeBase` is checked to implement |
| `MCKnowledgeBase` | the constants, views and symmetries of the TLC runs |
| `Documents` | `register_document` and `retract_document`: uploaders that race and die, the raw bucket, `doc_versions` |
| `Lineage` | extends `Documents` with published versions, answers and the sweep that flags corrected sources |
| `IngestTier` | the rows of the ingest tables and the statements on them, as operators |
| `Gate` | the structural checks of the gate as predicates |
| `Staging` | composes `IngestTier` and `Gate`: ingestion runs, candidates, publish and staging retention |
| `MCStaging` | what the workers may write in the TLC run |
| `Retention` | the retention sweeps over the tables, the uploads bucket and the clock |
| `Schema` | the tables of `sql.py`, as columns, keys and references |
| `Migrations` | the three revisions as statements, and alembic running them up and down |
| `Streams` | a chain of calls between components, each hop local or over HTTP |
| `Answer` | what the first caller of the chain is promised: an abstract specification `Streams` implements |
| `MemoryIndex` | the in-memory adapter of the serving index, and the searches of both |
| `ObjectStore` | the folder store, the S3 store, write-once objects, as operators |
| `KnowledgeBaseProofs` | the operators of `ServingIndex`, then what holds for any number of jobs: the inductive invariant, type correctness, `OnlyThroughTheGate`, `NoDanglingInterval`, `ChangedFromBelow` |
| `OneCallerProofs` | what holds while calls do not overlap: `PinnedReads`, `DecisionIsFinal`, what versions show, and the refinement of `VersionedStore` |
| `StagingProofs` | the safety properties of `Staging`, and what a write to any ingest table keeps |
| `LineageProofs` | the safety properties of `Documents` and `Lineage` |
| `RetentionProofs` | the safety properties of `Retention` |
| `StreamsProofs` | the refinement from `Streams` to `Answer`, and for whom handlers work, for a chain of any length |
| `AdapterProofs` | each pair of adapters agrees |
| `MigrationsProofs` | what any statement does to readers and to data, and two properties of `Migrations` |

`KnowledgeBase`, `Lineage`, `Staging`, `Retention`, `Migrations` and `Streams` are specifications
of their own. One state space for all of them would be far out of reach and show little
more: they meet in few tables, and each module has the part of the others it reads.
`Lineage` takes versions as `VersionedStore` promises them (what a published version shows
never changes), `Staging` has one candidate at a time, since races of candidates are the
subject of `KnowledgeBase`.

### State of the core

### State

`kb` is `registry.kb_versions`, a sequence because ids are given out from 1 with no gap;
`reports` is `gate_reports` in the order of insertion; `alias`, `retracted`, `stored` and
`validity` are the other tables. 0 stands for NULL in `parent_version`, `gate_report_id`
and a missing alias. `job[j]` is the program counter of a process with the local variables
it has read: a record with a field `at` naming the next transaction. `vetted` is a history
variable, the documents of the versions an SME has approved.

A chunk is its content: `chunk_id` hashes the document version, the page span, the text
and the encoding, so two chunks with one id are the same record. Page span and text are
one model value, the pair of embedding model and chunker version, which the code always
compares as a pair, is another. The embedding itself, section paths and token counts
play no part in any decision of the modelled code.

### Actions of the core

| Code | Actions |
|---|---|
| `create_candidate` | `CreateStart` (reads), `CreateNumber` (`next_version_id`), `CreateInsert` or `CreateConflict` (primary key), `CreateAlias` |
| `run_gate` | `GateStart` (status test on the caller's copy), `GateReport`, `GateLink` |
| `record_sme_decision` | `SmeDecide` |
| `publish` | `PublishStart` (manifest), `PublishCheck` (report, latest), `PublishPlan` (what to close and open), `PublishStore` for each chunk set, `PublishClose`, `PublishOpen`, `PublishServe`, `PublishFinish` |
| `reject`, `rollback` | `RejectStart`, `RejectFinish`, `RollbackStart`, `RollbackFinish` |
| `retract_document` | `Retract` |
| a process that dies | `Crash` |

### What is merged or left out, and why that is sound

- Reads with no write of another process that could matter between them are one step.
  `create_candidate` reads the alias, the manifest (immutable), the added rows (immutable)
  and the retractions in `CreateStart`. Only a retraction could fall between; it is then
  one that came after the candidate was made, which the model has too.
- `PublishCheck` reads the report and the latest published version together.
  `get_gate_report` and `latest_published` are two reads: a publish by another process that
  finishes between them is seen by the second read. Approval may have been withdrawn by
  then; the properties checked under races do not ask whether an approval was withdrawn
  later, and a decision withdrawn between the two reads cannot be told from one withdrawn
  just after both.
- `PublishPlan` reads `latest_published` and the two sets of active chunks together. For one
  process nothing can change in between. For two this merges some interleavings; the
  properties checked under races (`OnlyThroughTheGate`, `NoDanglingInterval`,
  `ChangedFromBelow`) do not depend on which state of the table the sets come from: the table
  only ever gains rows whose chunks are stored, and an interval is closed or opened at the
  version of its publish whichever sets were read.
- A call whose first test fails writes nothing and is no step. One that fails a later test
  ends like a crash. Unknown document versions in `add` make `create_candidate` raise, so
  `add` ranges over registered ones. `publish` of a published version returns and is no step.
- `set_alias` is an update, then an insert when there was no row: two first inserts may
  collide and the loser raises, which is a crash before the step.
- `publish` is handed at most one chunk set for each document, with at least one chunk, which
  is how W6 is specified ("W6 writes one ChunkSet per document version and run").
- Document versions are registered from the start, with their `supersedes` link a constant;
  how they are registered is in `Documents`.
- What the checks of the gate compute is a choice of `TRUE` or `FALSE` (`Outcome`); what they
  look at is in `Gate` and `Staging`.

### Documents and lineage

A document version is the pair of document and file hash, since `doc_version` hashes both.
`Register`, `Store`, `ReadLatest` and `Insert` are the steps of `register_document`; `GiveUp` is
a process that dies and also the loser of the primary key. The object store's `exists` and
`put` are one step: two uploads of one file store the same bytes under the same key.
`docs` is a sequence, its order that of `created_at`. `Lineage` adds versions (`Publish`,
`Rollback`), answers pinned to the version of their time (`Reply`), and the sweep in the order
of its reads: `ReadAlias`, `ReadCited`, `ReadReplaced`, `ReadRetracted`, `Mark`, and
`OpenTickets` of the daily schedule. A published version never changes what it shows
(`PinnedReads`), so `ReadCited` may read citations and active chunks together. A
document version stands for its chunks: chunks are stored before they are shown and never
deleted, so the lookup of a chunk cannot miss.

### Staging

`StartRun` is the sensor: it polls `pending_doc_versions` and starts each document version once
(`pipelines/sensors.py` line 4, "once per version", and line 7, run keys), so a document whose run
has failed stays on the list and is not started again by it. `StartAgain` is a person, who may
do that at any time, also while a run goes on. `Layout`, `Clean`, `WriteChunks` are the platform
calls W1, W5 and W6 make (`set_page_count`, `append_records`, `write_chunk_set`).
`WriteChunksAgain` is the last of them executed again: it writes the whole set, whatever has
expired by then. `made` in the row of a run is what W6 made of the document, kept so that it
makes the same again. `Succeed` and `Fail` are `finish_run`; `Die` is a job that never gets
there and leaves its row at "running". `BuildAndGate` is `create_candidate`, `run_gate` on the
staged rows of that moment, and the decision of the SME; `Publish` reads the rows again.
`NextDay` and `ExpireStaging` may come anywhere between. Pages carry no date, since retention
never deletes them.

Assumed of the callers, which are stubs: a candidate is built from finished runs, one for each
document; gate and publish are handed the sets of the same runs; a step that is executed again
has the same output. Without the first two `publish` has no test that would notice; without
the third, rows of the first try stay beside those of the second. `LateRuns` are the runs whose
steps may also be executed again when they have ended, which nothing in `write_chunk_set`
prevents. `PublishedWasChecked` leaves them out, because it is false for them: the chunks of a
document expire before the gate; `check_page_coverage` goes through the chunk sets (`gate.py`
line 73), finds none, and passes the candidate, though its docstring says "Every page of every
new document version has a cleaned page"; W6 is executed again, and publish, which refused
the candidate while the set was missing, takes a set nobody has checked.

### Retention

`Start` takes the cutoffs and reads the old uploads, `DeleteObject` deletes one object, `DeleteRows`
the rows, `BlankText`, `ExpireOps` and `ExpireStaging` are one transaction each. `Stop` is a sweep
that dies. `day` is kept in a sweep because all cutoffs are computed from one look at the
clock. `ExpireOps` can only happen when no child of a deleted interaction is left, which is
what the foreign keys enforce. The services that write the rows are stubs. What the model takes from
the schema is that a request comes with its citations and tool calls, an upload with its
object, and it assumes that an expert answers a question that can still be read: an answer
written to a ticket already blanked would stay until its row goes, since `blank_text` only looks
at rows with a question.

### Migrations

A database is its schemas, tables, primary key names, views with the columns they read, and
what the reporting role may read. Each statement of a revision is a record; `Effect` and `Legal`
say what Postgres makes of it and when it accepts it. A table has its columns, key, indexes
and references; column types are left out. As in Postgres, views, references and grants follow
a table or column that is renamed, and a statement that would break one is not legal.
`kept` follows every column through renames. A
run of alembic is one transaction (`env.py` opens one for all revisions), so `Abort` loses it all.

### Streams

`hop[k]` is a call, its handler, and the connection between them if it is not local. Which hops
are local follows from `api/serve.py`: a component with an override is behind HTTP, and
so is everything it calls, since a container of its own registers no local handlers. A local
generator runs only while its caller waits for the next event (`Resumed`); one behind HTTP is
driven by its server until the connection fills (`Window`). Responses follow `service.py`: a
streamed response begins before the handler has run, another is sent when it has returned.
Faults are a refusal, an error of a handler, a lost connection, a timeout. The handlers are
not written: they are relays, and a last one that produces events, as their signatures say.

### Adapters

`MemoryIndex` and `ObjectStore` are operators on the state of one adapter; an operation that may
stop halfway is the set of states it may leave. Nothing is left of a state space to
explore, so they have no run; the theorems of `AdapterProofs` are about all states.

### Who calls the core

The pipelines that call these functions are stubs, so two constants say how they behave.
`FreshManifests`: `run_gate` is handed a manifest read just before (the CLI does so) or any
copy ever read. `Reruns`: the caller that sees a publish die runs it again with the same
chunk sets before it does anything else (`versioning.py` line 6 and ARCHITECTURE.md 4.3 expect
that), or may give it up. `Job` with one element means the calls do not overlap. The
races are checked with none of these assumptions.

## 3. What is checked

The runs of `MCKnowledgeBase` and `streams` have `CHECK_DEADLOCK FALSE`: the bounded instance
stops when its versions and reports, or its one request, are used up.

| Run | Instance | Properties | Shows |
|---|---|---|---|
| `races` | 2 jobs, 1 document, 2 versions, 2 reports, stale manifests, crashes | `TypeOK`, `OnlyThroughTheGate`, `NoDanglingInterval`, `ChangedFromBelow` | the gate holds, publish never trips the foreign key and never reaches readers below its version, whatever overlaps |
| `crashes` | 1 job, 2 documents, 3 versions, publishes given up | `PinnedReads`, `DecisionIsFinal` | versions readers know never change; decisions stand |
| `reruns` | 1 job, 2 documents, 2 texts, 3 versions, publishes run again | `ShowsItsManifest`, `ShowsItsPlan`, `ShownOnce` | a published version is what was planned, however often publish died |
| `reencode` | 1 job, 1 document, 2 texts, 2 encodings, 3 versions, retraction | `ShowsItsManifest`, `StoreSpec` | blue/green re-encoding leaves nothing behind; the calls implement `VersionedStore` |
| `corrections` | 1 document with 2 files, 2 uploaders, 2 versions, 1 answer, a sweep that dies once | `TypeOK`, `TraceReachesRaw`, `CorrectsAnEarlierOne`, `FlaggedForACause`, `TicketOnce`, `NothingSlips`, `EventuallyFlagged` | citations lead to raw files; corrected answers are flagged, for a cause, in the end, once; a sweep overlooks none it could have seen |
| `staging` | 1 document of 2 pages, 2 runs, steps of one executed again at any time, of the other while it goes on, 1 failure, 2 days, output good or with one defect | `TypeOK`, `PublishedWasChecked`, `PublishedWhole`, `NoDocumentIsForgotten` | what is published was checked and is whole; no document is forgotten |
| `retention` | 1 request, 1 upload, 1 chunk set, 2 sweepers, 4 days, one sweep that dies | `NoOrphanObject`, `OnlyOldUploadsMissing`, `NothingLeftBehind`, `KeptUntilItsTime`, `UploadsGo`, `TextGoes`, `RowsGo` | nothing goes early, everything goes in the end |
| `migrations` | the three revisions, with and without the role and the Iceberg catalog | `NoStatementFails`, `HeadIsMetadata`, `RevisionTellsSchema`, `ReaderSeesReporting`, `UpgradeKeepsData` | any upgrades, downgrades and lost connections end in the schema of the revision |
| `streams` | 3 hops, 2 events, 1 in flight, 1 fault, every deployment | `TypeOK`, `OneStream`, `WorksForSomeone`, `EveryCallIsTimed`, `NobodyWorksForNobody` | a chain is one stream to its caller, or an error, and no handler works for nobody |

`StoreSpec` is the refinement: a version enters `content` of the abstract store when readers
can first be sent to it (the alias moves, before the row says published), with the chunks
it shows, and then neither the chunks nor its place may change. All other steps stutter.

`OneStream` is the other refinement: the chain with all its hops, connections and faults
implements `Answer`, which has only the first caller and the last handler.

**Bounds.** `MaxVersion` = 3 is the least that has a version to roll back to, one rolled back
from and one built after the rollback, the pattern behind every reuse question; in the
races 2 versions are enough for two jobs to fight over one id, one report and one alias.
`MaxReport` equals `MaxVersion`; a version may be gated twice at the cost of another.
Two documents let one stay while one changes; two texts let a document be built twice
with another result, or overlap not at all. `Outcome` and `Decision` are cut to success in
the runs about the index, where a failed check only removes behaviour. `MaxBatch` bounds
what one candidate adds and removes. Views drop what no later step reads (the candidate
alias; in the runs about the index also the history and reports nobody links to), and
symmetry is used for safety and action properties only; the runs with liveness use
neither views nor symmetry.

In `corrections` two uploaders of two files have every race of an upload: the same file twice,
two files that read one latest version, a file retracted and replaced meanwhile. Two versions
let a source leave and come back by a rollback. In `staging` the second run is the one a
failed or repeated ingestion needs, one failure is enough for a document to end without a good
run, since nobody need start another, and a staging time of 0 over two days lets rows expire at
any point of a candidate. Half of the pages is more than the duplicate limit. In
`retention` uploads, text and rows have limits of 0, 1 and 2 days, so that they go on
different days, and the fourth day is one beyond all limits; two sweepers are the schedule and
a person. `MaxStops` and `MaxFaults` bound how often something dies; liveness needs such a bound,
since a sweep that always dies never ends. In `streams` three hops have a first, a last and one
between; one fault may hit any hop at any point.

**Fairness.** Stated only where the code or its schedule gives it. `Lineage` and `Retention` have
weak fairness of the steps of the daily sweep: the schedule starts it every day
(`pipelines/schedules.py`), ARCHITECTURE.md line 354 answers a failed one with "re-run", and its steps
wait for nobody. A sweep started by hand has none: it may rest for ever between two steps,
and the properties hold all the same. `Staging` has weak fairness of the sensor, which starts each
document version once, and of the steps of each run whose job is alive; none of failing and
dying, of a person who starts a document again, of the SME, of publish, or of retention. So
`NoDocumentIsForgotten` does not say that every document is ingested in the end: the code does
not see to that. It says that a document that is neither ingested nor retracted, once its run
has ended, stays on the list of `pending_doc_versions`.
`Streams` has weak fairness of the handlers, which go on when they can, and of the event loops
and the network; none of faults or of the student. `KnowledgeBase` has none: whether a publish is run
again is up to callers that are not written, so nothing is claimed of its end.

**Runs that expect a violation**, one for each disagreement found with what the repository says:

- `abandoned`, `ShowsItsManifest`: version 1 is published, version 2 adds a document and its
  publish dies after `open_intervals`. It is rejected, or forgotten. Version 3, without
  the document, is published: it shows the document all the same. `publish` compares with
  version 1, which does not show it, so nothing closes the interval that began at 2.
- `mixed`, `OneRendition`: version 2 rebuilds a document, serving is rolled back to 1, version 3
  changes nothing. It shows both renditions, because the chunks of both versions are reused.
- `chain`, `OneVersionPerDocument`: `d1` is served; `d2` corrects `d1` and is not added; `d3`
  corrects `d2` and is added. Only `d2` counts as superseded; `d1` and `d3` are served together.

Every property of a passing run has a mutant in `PROJECT.json`: a definition changed the way
a plausible bug would change the code, on which TLC finds the property violated.
The mutants stand before the definition they change and begin with "Mutant:".

## 4. What is proved

For all values of the constants, so for any number of jobs, versions, documents and texts.

| Theorem | States |
|---|---|
| `KnowledgeBaseProofs!Inductive` | `Spec => []IndInv` |
| `KnowledgeBaseProofs!TypeCorrect` | `Spec => []TypeOK` |
| `KnowledgeBaseProofs!GateHolds` | `Spec => []OnlyThroughTheGate` |
| `KnowledgeBaseProofs!NothingDangles` | `Spec => []NoDanglingInterval` |
| `KnowledgeBaseProofs!NewerPublishesStayAway` | `Spec => ChangedFromBelow` |
| `OneCallerProofs!ReadersStayPinned` | `Spec => PinnedReads`, for at most one job |
| `OneCallerProofs!DecisionsStand` | `Spec => DecisionIsFinal`, for at most one job and fresh manifests |
| `OneCallerProofs!OneCallerInductive` | `Spec => [](IndInv /\ Undecided /\ OneInv)`, for at most one job, fresh manifests and reruns |
| `OneCallerProofs!ManifestsShown`, `PlansShown`, `NothingShownTwice` | `Spec => []ShowsItsManifest`, `[]ShowsItsPlan`, `[]ShownOnce`, for the same |
| `OneCallerProofs!StoreImplemented` | `Spec => StoreSpec`, for the same |
| `KnowledgeBaseProofs!OpenLeavesEarlier`, `CloseLeavesEarlier` | an interval operation at `v` changes nothing versions below `v` show |
| `KnowledgeBaseProofs!OpenTwice`, `CloseTwice` | an interval operation done twice is the same as once |
| `KnowledgeBaseProofs!TidyShowsOnce` | where intervals of a chunk do not overlap, no version shows it twice |
| `KnowledgeBaseProofs!BetweenEnds` | intervals closed and opened in any number of tries leave the version they are for with what was planned |
| `StagingProofs!StagingInvariant` | `Spec => []IndInv` |
| `StagingProofs!StagingTyped`, `WholePublished` | `Spec => []TypeOK`, `[]PublishedWhole` |
| `StagingProofs!OnlyCheckedPublished` | `Spec => []PublishedWasChecked`, which leaves out `LateRuns` |
| `StagingProofs!WriteTwice`, `WriteKeepsKeys`, `SetReadBack` | on any table: a step done again leaves the rows of its second time, one row for each key, and the set that is read back is the one written |
| `LineageProofs!TypeCorrect`, `CorrectionsGoBack`, `SourcesAreKept`, `FlagsHaveACause`, `OneTicketEach` | `Spec => []TypeOK`, `[]CorrectsAnEarlierOne`, `[]TraceReachesRaw`, `[]FlaggedForACause`, `TicketOnce` |
| `LineageProofs!SweepsOverlookNothing` | `Spec => NothingSlips`: the safety half of `EventuallyFlagged` |
| `RetentionProofs!TypeCorrect`, `UploadsKeepTheirRow`, `UploadsStayTheirTime`, `NothingGoesEarly`, `SweepsLeaveNothing` | `Spec => []TypeOK`, `[]NoOrphanObject`, `[]OnlyOldUploadsMissing`, `KeptUntilItsTime`, `[]NothingLeftBehind` |
| `StreamsProofs!TypeCorrect`, `ChainIsOneStream` | `Spec => []TypeOK`, `Spec => OneStream` |
| `StreamsProofs!TimedWhenOver`, `OverForGood` | a call is timed exactly when it is over, and stays as it ended: the safety half of `EveryCallIsTimed` |
| `StreamsProofs!WorkIsForSomeone` | `Spec => WorksForSomeone`: the safety half of `NobodyWorksForNobody` |
| `AdapterProofs!SameActive`, `SameOpen`, `OpenAfterPart`, `SameClose`, `SameSearch` | the in-memory and the Postgres index agree, call by call |
| `AdapterProofs!PutIsWholeOrNothing`, `HashedObjectsStay` | what a `put` may leave; objects under a hash are never wrong and never written again |
| `AdapterProofs!SamePut`, `SameDelete`, `SameKeys` | the folder store and the S3 store agree, call by call |
| `MigrationsProofs!StatementKeepsReaders`, `SparingStatementKeepsData` | any statement, on any database: the dashboards go on reading, and what drops nothing loses no column |
| `MigrationsProofs!ReadersSeeReporting`, `UpgradesKeepData` | `Spec => []ReaderSeesReporting`, `Spec => UpgradeKeepsData` |

**Assumptions.** The named `ASSUME`s of the modules, which TLC evaluates on each instance;
those of `Staging` say that what W6 makes consists of chunks, that the bound on days is a
number and `LateRuns` are runs. What is assumed of callers stands in the theorem:

- `ReadersStayPinned`: calls do not overlap (`\A i, j \in Job : i = j`).
- `DecisionsStand`: the same, and `run_gate` is handed fresh manifests (`FreshManifests`).
- `OneCallerInductive`, the three theorems about what versions show, `StoreImplemented`: the same, and a
  publish that died is run again with the same chunk sets before anything else (`Reruns`). This is what
  `versioning.py` line 6 counts on ("If publish stops halfway it can simply run again, every step
  is safe to repeat"); the run `abandoned` shows that without it `ShowsItsManifest` is false.

`OneTicketEach` is about one sweep at a time, which is all `Lineage` has. The others assume
nothing of callers beyond what their module models, which for `Staging` is named in section 2.

**The argument.** `OnlyThroughTheGate` is not inductive: when `PublishServe` moves the alias, it
has to be known that the check made several steps earlier still holds. `IndInv` adds
*references* (a version's report, a report's version and all a job refers to exist, and the
report a version or a publish holds is a report of that version) and *clearance*: a version
that is published or served, and one that a publish past its check or a rollback is about
to serve, has a report that passed and documents that are all vetted; so are the documents
of every parent, which was served when the candidate was made; and the version of a report
that needs no SME, or that an SME approved, holds vetted documents only. Clearance never
goes away, since rows keep their documents, reports keep their outcome and `vetted` grows:
this is the lemma behind almost every action. It also shows why the exemption of versions
that add nothing is safe: their documents are the parent's.

`NoDanglingInterval` needs *backing*: what a publish plans to open is either stored already or
among the chunk sets it still has to store; the plan draws on active chunks, which are
backed by the invariant itself.

`PinnedReads` needs that the version a publish works on stays above every published one from
its check to its end. With one job nothing else publishes in between; then both interval
operations begin at a version above, and `OpenLeavesEarlier` and `CloseLeavesEarlier` apply.
It is stated for versions whose row says published. A version that is served by the alias
only, because its publish died before the last write and was given up, is not covered: a
lower candidate may then still be published and change what it shows.

`ChangedFromBelow` is what is left of `PinnedReads` for any number of jobs that overlap and die:
the number of a publish is fixed when it starts, each of its two statements begins and ends
intervals at that number, and no other step touches the table. So a version can only be
changed by its own publish or by one of a lower version, whose check was overtaken: the case
`PinnedReads` excludes by having one job. TLC has two jobs, the theorem any number.

`DecisionIsFinal` needs that the version of every call past its status test is still a
candidate, which holds because nobody else decides in between.

`ShowsItsManifest`, `ShowsItsPlan` and `ShownOnce` go by one invariant, `OneInv`. Between calls every
interval is *settled*: it begins, and ends if it does, no higher than the latest published
version. From its first interval operation to its end a publish of `v` leaves each interval
either settled as before, or closed at `v` if its chunk is to go, or open from `v` if it is
to come (*Between*); what goes and comes is computed from what the latest published version
shows, which nothing of this changes, so a publish that runs again plans the same, and what
was half done fits its plan (*Begun*, *Halfway*). When all is closed and opened,
`BetweenEnds` gives what `v` shows, and `Missing` being empty that these are the documents of
the manifest. That intervals of a chunk do not overlap (*Tidy*) is kept since `open_intervals`
only opens what is to come, which the latest version does not show and which therefore has
no open interval. It is *Halfway* that fails when a publish is given up: intervals of a
version that was never published are left, and the next publish counts them as its own.

`StoreImplemented` maps each step of `KnowledgeBase` to one of `VersionedStore` or to none: the step
that moves the alias adds the version with what it shows, `RollbackFinish` moves readers to a
version that was there, and every other step leaves what readable versions show alone. That the
new version is above all others needs the largest element of a bounded set of numbers,
`MaxOfBounded`, which follows from the library's well-founded order of finite sets.

`TraceReachesRaw` needs that an upload past its store step has its file in the bucket
(*Uploads*), that rows have theirs (*FilesFirst*), and that what versions show and answers cite
is registered (*Shown*, *Answers*). `CorrectsAnEarlierOne` needs that what an upload has read as
the latest version is registered, and if it is its own then so is its row: the primary key
turns the insert down. `FlaggedForACause` needs that what a sweep has read of corrections
stays true: corrections and retractions are never taken back (*Sweeps*). `TicketOnce` needs
that tickets are only of answers marked before (*Ticketed*), so the next sweep does not read them.
`NothingSlips` follows a source through the reads of a sweep (`Caught`): it is carried from one
intermediate result to the next because what the later reads look for, corrections and
retractions, only grows (*Grown*), so a change between two reads may add flags but not lose
one. What is left of `EventuallyFlagged` is that the sweep goes on, which is fairness.

`NoOrphanObject` needs that a sweep about to delete rows has seen their objects go (*SweepSafe*,
for each of any number of sweeps): an object never comes back, since an upload is stored once.
`KeptUntilItsTime` needs only that the day a sweep looked at is not ahead of the clock.
`NothingLeftBehind` is the other direction, and the safety half of `UploadsGo`, `TextGoes` and
`RowsGo`: each step of a sweep deletes all that is older than its limit on the day of the
sweep, and afterwards a row can only be written today, which is not older (*RowsMove*), and no
text comes back to a row that lost it. It needs that an answer is never left without its
question (*Quiet*), because `blank_text` finds the rows by the question.

`PublishedWasChecked` relates what publish reads to what the gate read earlier. Its invariant
says that, but for `LateRuns`, chunks are written by running runs only
and candidates are built from runs that have succeeded, so between the gate and publish rows
of a candidate can go but not come or change (*CandidateChecked*, *Sound*); pages are never
deleted and are written under the key of their run. `PublishedWhole` needs that the rows of a
run are all there under one date or all gone (*Staged*): W6 writes them in one transaction,
executed again it writes the same rows under a new date over whatever is left, and expiry
goes by the date, so a run shows all of its output or nothing whenever the step is executed
again, and `Complete` rules out the latter. One run for each document makes the rows of a
document those of a run.

`ChainIsOneStream` is proved for a chain of any length. *Sound* relates the parts of one hop:
what has been received and what is on the wire add up to what was yielded as long as the
connection holds, and are no more than that when it broke; a call has ended only if its
handler returned and all was received. *Flow* relates a hop to the one behind it: it has yielded
no more than that received, and returned only after it ended, with all passed on. *Flow*
is stated for any two hops, not only neighbours: the prover has no induction to go along
the chain, and the first and the last hop are a case of it.

`WorksForSomeone` needs of *Sound* only that no handler runs before its call was made. Its third part
goes through `Resumed`: a local handler yields or returns only while all callers before it
in the process wait, the student among them. A handler behind HTTP may go on until its
server notices, and a handler of a single response to its end; that they stop is the
liveness of `NobodyWorksForNobody`.

`ReadersSeeReporting` and `UpgradesKeepData` do not compute the schemas of the revisions.
`MigrationInv` says what the dashboards need of the database as it is and of the one an abort
restores (*Granted*), that the statements still to run are of the kinds revisions use, and in
an upgrade that each loses nothing (*AllKnown*, *AllSparing*), and that every column from before
the run is there under its present name (*AllKept*). Each statement keeps this by the
two lemmas, which are about any statement and any database and therefore also tell which
statements a fourth revision may use.

The lemmas of `AdapterProofs` are about one call in any state. `SameSearch` asks that no chunk
is shown twice, which is `ShownOnce` of the core; with overlapping intervals the Postgres
join returns a chunk twice and pushes another out.

**Model-checked only.** `NoStatementFails`, `HeadIsMetadata` and `RevisionTellsSchema` of
`Migrations`: they compare whole schemas, the module has no constants, and TLC's run explores
every one of its 899 states; a proof would only evaluate the same statements again.

**Out of the prover's reach.** Liveness under fairness (`EventuallyFlagged`,
`NoDocumentIsForgotten`, `UploadsGo`, `TextGoes`, `RowsGo`, `EveryCallIsTimed`,
`NobodyWorksForNobody`) and `ENABLED`. What is safety in them is proved for all but
`NoDocumentIsForgotten`: for the three of retention (`SweepsLeaveNothing`), for `EventuallyFlagged`
(`SweepsOverlookNothing`), `EveryCallIsTimed` (`TimedWhenOver`, `OverForGood`) and
`NobodyWorksForNobody` (`WorkIsForSomeone`). The library's
induction theorems take an operator as a parameter, which no installed prover instantiates,
so what a recursive function computes is not proved either. Where induction was needed, the
invariant was stated for all pairs instead of neighbours (`Streams`), or a least element was taken
from a well-founded order (`OneCallerProofs`). The modules contain no recursive operator.

## 5. Not modelled

- The online services, the workers, the pipelines and the packages under `ml/` are stubs that
  raise `NotImplementedError`. What they will call is modelled from the caller's side, with the
  assumptions named above.
- Scoring in the searches: cosine distance, HNSW and text ranking are floating point and
  external. A score is any function in `SameSearch`.
- `libs/common`: `keys.py` is a stub; `llm.py`, `embeddings.py` and `metrics.py` pass a request or a
  number on and keep no state. `register_local` runs before the first call of a process.
- Contracts without behaviour: record types, example records (`samples.py`), the JSON schema export.
- Wiring: `factory.py`, `settings.py`, `cli.py`, `testing.py` build objects and forward calls.
- Column types, defaults and what the reporting views compute.
- `guard_events` and `conversations` in retention, which go by the statement that deletes
  `request_facts`.
- Number of rows in one statement: an `IN` list of more than 65535 ids, a hazard of
  `retention.py` line 63, is out of reach of an instance TLC can explore.

What could come next: a module for the SME tickets once the schedule that opens them is
written, since a crash after `Mark` loses them today; what holds of versions after a publish was
given up, should the code get a step that closes its intervals; the gateway and the orchestrator
when their handlers exist.
