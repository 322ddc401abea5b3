---------------------------- MODULE KnowledgeBase ----------------------------
(***************************************************************************)
(* Knowledge base versions: create_candidate, run_gate,                    *)
(* record_sme_decision, publish, reject, rollback and retract.             *)
(*                                                                         *)
(* The registry and the serving index are shared tables.  Every registry   *)
(* or index method is a transaction of its own and nothing is locked       *)
(* between two of them, so a platform call is a sequence of atomic steps   *)
(* of a job, the process that runs it: the pipeline, an admin request, the *)
(* command line.  A crash, an exception or a lost connection may end a job *)
(* between any two of its steps; what it wrote stays.                      *)
(*                                                                         *)
(* Reads that directly follow each other are one step.  A call whose first *)
(* check fails changes nothing and is no step here; one that fails a later *)
(* check ends as in a crash.                                               *)
(***************************************************************************)
EXTENDS ServingIndex, Sequences, FiniteSets, FiniteSetsExt

CONSTANTS
    DocVersion,     \* registered document versions (registry.doc_versions)
    NoDoc,          \* the NULL of the supersedes column
    Supersedes,     \* document version -> the version it corrects, or NoDoc
    DocOf,          \* document version -> its document (course and source id)
    Text,           \* page span and text of a chunk
    Rendition,      \* the text sets a run of W6 may produce for a document
    Encoding,       \* embedding_model and chunker_version, always compared as a pair
    Job,            \* processes that may run a platform call
    FreshManifests, \* TRUE: run_gate is only handed a manifest read just before
    Reruns,         \* TRUE: who sees a publish die runs it again before anything else
    Outcome,        \* bound: what the automated checks may come to, of TRUE and FALSE
    Decision,       \* bound: what an SME may decide, of "approved" and "rejected"
    MaxBatch,       \* bound: documents one create_candidate adds or removes
    Withdrawable,   \* bound: document versions somebody may retract
    MaxVersion,     \* bound: no id above it is given out
    MaxReport       \* bound: so many reports are stored at most

ASSUME DocAssumption ==
    /\ NoDoc \notin DocVersion
    /\ Supersedes \in [DocVersion -> DocVersion \cup {NoDoc}]
ASSUME RenditionAssumption == Rendition \subseteq (SUBSET Text) \ {{}}
ASSUME CallerAssumption == FreshManifests \in BOOLEAN /\ Reruns \in BOOLEAN
ASSUME BoundAssumption ==
    /\ Outcome \subseteq BOOLEAN
    /\ Decision \subseteq {"approved", "rejected"}
    /\ Withdrawable \subseteq DocVersion
    /\ MaxBatch \in Nat
    /\ MaxVersion \in Nat
    /\ MaxReport \in Nat

VARIABLES
    kb,         \* registry.kb_versions, kb[v] the row of version v
    reports,    \* registry.gate_reports, in the order they were stored
    alias,      \* registry.kb_aliases; 0 when the alias has no row
    retracted,  \* document versions with a retracted_at
    stored,     \* chunks in serving.chunks
    validity,   \* serving.chunk_validity
    job,        \* what each job is doing, with the values it has read
    vetted      \* history: documents of the versions an SME has approved

vars == <<kb, reports, alias, retracted, stored, validity, job, vetted>>

\* chunk_id is a hash of these, so a chunk is its content.
Chunk == [doc : DocVersion, text : Text, enc : Encoding]

\* One ChunkSet: what W6 made of a document version in a run.
ChunkSet == [doc : DocVersion, enc : Encoding, texts : Rendition]

ChunksOf(set) == {[doc |-> set.doc, text |-> t, enc |-> set.enc] : t \in set.texts}

\* parent and gate are 0 when the column is NULL.
KbRow == [docs : SUBSET DocVersion, parent : Nat, enc : Encoding,
          status : {"candidate", "published", "rejected"}, gate : Nat]

\* passed abstracts the list of check results to auto_passed.
Report == [version : Nat, passed : BOOLEAN, sme : BOOLEAN,
           decision : {"none", "approved", "rejected"}]

Idle == [at |-> "idle"]

JobState ==
    {Idle}
      \cup [at : {"number"}, docs : SUBSET DocVersion, parent : Nat, enc : Encoding]
      \cup [at : {"insert"}, docs : SUBSET DocVersion, parent : Nat, enc : Encoding,
            version : Nat]
      \cup [at : {"candidate", "gate", "reject", "rollback"}, version : Nat]
      \cup [at : {"link"}, version : Nat, report : Nat]
      \cup [at : {"check"}, version : Nat, gate : Nat, sets : SUBSET ChunkSet]
      \cup [at : {"plan", "interrupted"}, version : Nat, sets : SUBSET ChunkSet]
      \cup [at : {"store", "open", "serve", "finish"}, version : Nat,
            sets : SUBSET ChunkSet, todo : SUBSET ChunkSet,
            closing : SUBSET Chunk, opening : SUBSET Chunk]

TypeOK ==
    /\ kb \in Seq(KbRow)
    /\ reports \in Seq(Report)
    /\ alias \in [{"serving", "candidate"} -> Nat]
    /\ retracted \subseteq DocVersion
    /\ stored \subseteq Chunk
    /\ validity \subseteq ValidityRows(Chunk)
    /\ job \in [Job -> JobState]
    /\ vetted \subseteq DocVersion

Init ==
    /\ kb = <<>>
    /\ reports = <<>>
    /\ alias = [name \in {"serving", "candidate"} |-> 0]
    /\ retracted = {}
    /\ stored = {}
    /\ validity = {}
    /\ job = [j \in Job |-> Idle]
    /\ vetted = {}

-----------------------------------------------------------------------------
(* What the calls read.  Version 0 stands for a missing row throughout.    *)

Status(v) == kb[v].status

PublishedVersions == {v \in DOMAIN kb : Status(v) = "published"}

LatestPublished == Max(PublishedVersions \cup {0})

DocsOf(v) == IF v = 0 THEN {} ELSE kb[v].docs

Active(v) == ActiveChunks(validity, v)

Approved(report) == report.passed /\ (report.sme => report.decision = "approved")

\* Mutant: a candidate built on another version never needs an SME.
SmeRequiredOfFirst(v) == kb[v].parent = 0

\* sme_required: a document the parent does not hold needs an SME.
SmeRequired(v) == kb[v].parent = 0 \/ kb[v].docs \ kb[kb[v].parent].docs # {}

Superseded(add) == {Supersedes[d] : d \in add} \ {NoDoc}

\* What create_candidate makes of its arguments and the serving manifest.
CandidateDocs(base, add, remove) ==
    (base \cup add) \ (remove \cup Superseded(add) \cup (retracted \cap (base \cup add)))

\* Mutant: chunks are reused whatever they were encoded with.
ReusableInAnyEncoding(v) ==
    UNION {Active(u) : u \in {LatestPublished, kb[v].parent} \ {0}}

\* _reusable_chunks: of the latest published version and of the parent.
Reusable(v) ==
    UNION {Active(u) : u \in {w \in {LatestPublished, kb[v].parent} \ {0} :
                                kb[w].enc = kb[v].enc}}

Rebuilt(sets) == {set.doc : set \in sets}

\* Mutant: chunks of removed documents are kept.
RetainedOfRemoved(v, sets) == {c \in Reusable(v) : c.doc \notin Rebuilt(sets)}

Retained(v, sets) == {c \in Reusable(v) : c.doc \in kb[v].docs \ Rebuilt(sets)}

NewChunks(sets) == UNION {ChunksOf(set) : set \in sets}

Missing(v, sets) == kb[v].docs \ ({c.doc : c \in Retained(v, sets)} \cup Rebuilt(sets))

Target(v, sets) == Retained(v, sets) \cup NewChunks(sets)

\* The arguments _require_matching_sets lets through, one set for a document.
MatchingSets(v) ==
    {sets \in SUBSET {s \in ChunkSet : s.doc \in kb[v].docs /\ s.enc = kb[v].enc} :
        \A s, t \in sets : s.doc = t.doc => s = t}

\* _require_publishable: of the manifest as publish read it, and of the rest.
HasReport(v) == Status(v) = "candidate" /\ kb[v].gate # 0

\* Mutant: a version older than a published one may be published.
PublishableOutOfOrder(v, gate) == Approved(reports[gate])

Publishable(v, gate) ==
    /\ Approved(reports[gate])
    /\ \A u \in PublishedVersions : u <= v
-----------------------------------------------------------------------------
(* Job steps.                                                              *)

Goto(j, state) == job' = [job EXCEPT ![j] = state]

\* Mutant: the name of the alias is written for the status.
SetStatusToAlias(v, status) ==
    kb' = [kb EXCEPT ![v].status = IF status = "published" THEN "serving" ELSE status]

SetStatus(v, status) == kb' = [kb EXCEPT ![v].status = status]

SetAlias(name, v) == alias' = [alias EXCEPT ![name] = v]

(* create_candidate(add, remove, enc)                                      *)

\* Reads the serving manifest, the added documents and the retractions.
CreateStart(j, add, remove, enc) ==
    /\ job[j] = Idle
    /\ Len(kb) < MaxVersion
    /\ Goto(j, [at |-> "number", parent |-> alias["serving"], enc |-> enc,
                docs |-> CandidateDocs(DocsOf(alias["serving"]), add, remove)])
    /\ UNCHANGED <<kb, reports, alias, retracted, stored, validity, vetted>>

\* next_version_id: the largest id plus one, read and not reserved.
CreateNumber(j) ==
    /\ job[j].at = "number"
    /\ Len(kb) < MaxVersion
    /\ Goto(j, [at |-> "insert", docs |-> job[j].docs, parent |-> job[j].parent,
                enc |-> job[j].enc, version |-> Len(kb) + 1])
    /\ UNCHANGED <<kb, reports, alias, retracted, stored, validity, vetted>>

CreateInsert(j) ==
    /\ job[j].at = "insert"
    /\ job[j].version = Len(kb) + 1
    /\ kb' = Append(kb, [docs |-> job[j].docs, parent |-> job[j].parent, enc |-> job[j].enc,
                         status |-> "candidate", gate |-> 0])
    /\ Goto(j, [at |-> "candidate", version |-> job[j].version])
    /\ UNCHANGED <<reports, alias, retracted, stored, validity, vetted>>

\* The primary key refuses an id another job took first; the call raises.
CreateConflict(j) ==
    /\ job[j].at = "insert"
    /\ job[j].version \in DOMAIN kb
    /\ Goto(j, Idle)
    /\ UNCHANGED <<kb, reports, alias, retracted, stored, validity, vetted>>

CreateAlias(j) ==
    /\ job[j].at = "candidate"
    /\ SetAlias("candidate", job[j].version)
    /\ Goto(j, Idle)
    /\ UNCHANGED <<kb, reports, retracted, stored, validity, vetted>>

(* run_gate(ctx, checks) and record_sme_decision                           *)

\* The status test is on ctx.manifest, a copy the caller holds.  Every
\* version is created a candidate, so a copy may say so at any later time.
GateStart(j, v) ==
    /\ job[j] = Idle
    /\ Len(reports) < MaxReport
    /\ FreshManifests => Status(v) = "candidate"
    /\ Goto(j, [at |-> "gate", version |-> v])
    /\ UNCHANGED <<kb, reports, alias, retracted, stored, validity, vetted>>

GateReport(j, passed) ==
    /\ job[j].at = "gate"
    /\ Len(reports) < MaxReport
    /\ LET v == job[j].version IN
       /\ reports' = Append(reports, [version |-> v, passed |-> passed,
                                      sme |-> SmeRequired(v), decision |-> "none"])
       /\ Goto(j, [at |-> "link", version |-> v, report |-> Len(reports) + 1])
    /\ UNCHANGED <<kb, alias, retracted, stored, validity, vetted>>

\* set_kb_status(version, CANDIDATE, report): it writes both columns.
GateLink(j) ==
    /\ job[j].at = "link"
    /\ kb' = [kb EXCEPT ![job[j].version].status = "candidate",
                        ![job[j].version].gate = job[j].report]
    /\ Goto(j, Idle)
    /\ UNCHANGED <<reports, alias, retracted, stored, validity, vetted>>

\* An SME may decide, and decide again, at any time.
SmeDecide(r, decision) ==
    /\ reports' = [reports EXCEPT ![r].decision = decision]
    /\ vetted' = IF decision = "approved"
                   THEN vetted \cup kb[reports[r].version].docs ELSE vetted
    /\ UNCHANGED <<kb, alias, retracted, stored, validity, job>>

(* publish(version, chunk_sets)                                            *)

\* The manifest is read, once.
PublishStart(j, v, sets) ==
    /\ job[j] = Idle \/ job[j] = [at |-> "interrupted", version |-> v, sets |-> sets]
    /\ HasReport(v)
    /\ Goto(j, [at |-> "check", version |-> v, gate |-> kb[v].gate, sets |-> sets])
    /\ UNCHANGED <<kb, reports, alias, retracted, stored, validity, vetted>>

\* The gate report and latest_published; when a test fails the call ends, as
\* in Crash.
PublishCheck(j) ==
    /\ job[j].at = "check"
    /\ Publishable(job[j].version, job[j].gate)
    /\ Goto(j, [at |-> "plan", version |-> job[j].version, sets |-> job[j].sets])
    /\ UNCHANGED <<kb, reports, alias, retracted, stored, validity, vetted>>

\* Mutant: chunks the latest version shows are opened again.
PublishPlanOpenAll(j) ==
    /\ job[j].at = "plan"
    /\ LET v == job[j].version
           sets == job[j].sets
           active == Active(LatestPublished)
       IN Goto(j, IF Missing(v, sets) # {} THEN Idle
                  ELSE [at |-> "store", version |-> v, sets |-> sets, todo |-> sets,
                        closing |-> active \ Target(v, sets),
                        opening |-> Target(v, sets)])
    /\ UNCHANGED <<kb, reports, alias, retracted, stored, validity, vetted>>

\* latest_published is read again, then the chunks both versions show.
PublishPlan(j) ==
    /\ job[j].at = "plan"
    /\ LET v == job[j].version
           sets == job[j].sets
           active == Active(LatestPublished)
       IN Goto(j, IF Missing(v, sets) # {} THEN Idle
                  ELSE [at |-> "store", version |-> v, sets |-> sets, todo |-> sets,
                        closing |-> active \ Target(v, sets),
                        opening |-> Target(v, sets) \ active])
    /\ UNCHANGED <<kb, reports, alias, retracted, stored, validity, vetted>>

\* add_chunk_set, once for each set; chunks already stored are left alone.
PublishStore(j, set) ==
    /\ job[j].at = "store"
    /\ set \in job[j].todo
    /\ stored' = stored \cup ChunksOf(set)
    /\ Goto(j, [job[j] EXCEPT !.todo = @ \ {set}])
    /\ UNCHANGED <<kb, reports, alias, retracted, validity, vetted>>

\* Mutant: the intervals move before every chunk set is stored.
PublishCloseEarly(j) ==
    /\ job[j].at = "store"
    /\ validity' = CloseIntervals(validity, job[j].closing, job[j].version)
    /\ Goto(j, [job[j] EXCEPT !.at = "open"])
    /\ UNCHANGED <<kb, reports, alias, retracted, stored, vetted>>

PublishClose(j) ==
    /\ job[j].at = "store"
    /\ job[j].todo = {}
    /\ validity' = CloseIntervals(validity, job[j].closing, job[j].version)
    /\ Goto(j, [job[j] EXCEPT !.at = "open"])
    /\ UNCHANGED <<kb, reports, alias, retracted, stored, vetted>>

PublishOpen(j) ==
    /\ job[j].at = "open"
    /\ validity' = OpenIntervals(validity, job[j].opening, job[j].version)
    /\ Goto(j, [job[j] EXCEPT !.at = "serve"])
    /\ UNCHANGED <<kb, reports, alias, retracted, stored, vetted>>

PublishServe(j) ==
    /\ job[j].at = "serve"
    /\ SetAlias("serving", job[j].version)
    /\ Goto(j, [job[j] EXCEPT !.at = "finish"])
    /\ UNCHANGED <<kb, reports, retracted, stored, validity, vetted>>

PublishFinish(j) ==
    /\ job[j].at = "finish"
    /\ SetStatus(job[j].version, "published")
    /\ Goto(j, Idle)
    /\ UNCHANGED <<reports, alias, retracted, stored, validity, vetted>>

(* reject(version), rollback(version), retract_document(doc)               *)

\* Mutant: reject does not ask for the status.
RejectStartAny(j, v) ==
    /\ job[j] = Idle
    /\ Goto(j, [at |-> "reject", version |-> v])
    /\ UNCHANGED <<kb, reports, alias, retracted, stored, validity, vetted>>

RejectStart(j, v) ==
    /\ job[j] = Idle
    /\ Status(v) = "candidate"
    /\ Goto(j, [at |-> "reject", version |-> v])
    /\ UNCHANGED <<kb, reports, alias, retracted, stored, validity, vetted>>

RejectFinish(j) ==
    /\ job[j].at = "reject"
    /\ SetStatus(job[j].version, "rejected")
    /\ Goto(j, Idle)
    /\ UNCHANGED <<reports, alias, retracted, stored, validity, vetted>>

\* Mutant: rollback to a version that was never published.
RollbackStartAny(j, v) ==
    /\ job[j] = Idle
    /\ Goto(j, [at |-> "rollback", version |-> v])
    /\ UNCHANGED <<kb, reports, alias, retracted, stored, validity, vetted>>

RollbackStart(j, v) ==
    /\ job[j] = Idle
    /\ Status(v) = "published"
    /\ Goto(j, [at |-> "rollback", version |-> v])
    /\ UNCHANGED <<kb, reports, alias, retracted, stored, validity, vetted>>

RollbackFinish(j) ==
    /\ job[j].at = "rollback"
    /\ SetAlias("serving", job[j].version)
    /\ Goto(j, Idle)
    /\ UNCHANGED <<kb, reports, retracted, stored, validity, vetted>>

Retract(d) ==
    /\ d \notin retracted
    /\ retracted' = retracted \cup {d}
    /\ UNCHANGED <<kb, reports, alias, stored, validity, job, vetted>>

(* Crashes.                                                                *)

Publishing == {"check", "plan", "store", "open", "serve", "finish"}

\* The call ends where it is.  When it was a publish, the caller may remember
\* to run it again.
Crash(j) ==
    /\ job[j].at \notin {"idle", "interrupted"}
    /\ Goto(j, IF Reruns /\ job[j].at \in Publishing
                 THEN [at |-> "interrupted", version |-> job[j].version, sets |-> job[j].sets]
                 ELSE Idle)
    /\ UNCHANGED <<kb, reports, alias, retracted, stored, validity, vetted>>
-----------------------------------------------------------------------------
(* The specification.                                                      *)

Batches == {docs \in SUBSET DocVersion : Cardinality(docs) <= MaxBatch}

JobNext(j) ==
    \/ \E add, remove \in Batches, enc \in Encoding : CreateStart(j, add, remove, enc)
    \/ CreateNumber(j)
    \/ CreateInsert(j)
    \/ CreateConflict(j)
    \/ CreateAlias(j)
    \/ \E v \in DOMAIN kb : GateStart(j, v)
    \/ \E passed \in Outcome : GateReport(j, passed)
    \/ GateLink(j)
    \/ \E v \in DOMAIN kb : \E sets \in MatchingSets(v) : PublishStart(j, v, sets)
    \/ PublishCheck(j)
    \/ PublishPlan(j)
    \/ \E set \in ChunkSet : PublishStore(j, set)
    \/ PublishClose(j)
    \/ PublishOpen(j)
    \/ PublishServe(j)
    \/ PublishFinish(j)
    \/ \E v \in DOMAIN kb : RejectStart(j, v)
    \/ RejectFinish(j)
    \/ \E v \in DOMAIN kb : RollbackStart(j, v)
    \/ RollbackFinish(j)
    \/ Crash(j)

Next ==
    \/ \E j \in Job : JobNext(j)
    \/ \E r \in DOMAIN reports, decision \in Decision : SmeDecide(r, decision)
    \/ \E d \in Withdrawable : Retract(d)

Spec == Init /\ [][Next]_vars
-----------------------------------------------------------------------------
(* Properties.                                                             *)

\* The versions readers can be sent to.
Readable == PublishedVersions \cup ({alias["serving"]} \ {0})

\* A version readers can be sent to passed the automated checks, and each of
\* its documents was in a version some SME approved (run_gate, sme_required,
\* the approval test of publish).  It must survive every race and crash,
\* with the exemption of versions that only drop or re-encode documents.
OnlyThroughTheGate ==
    \A v \in Readable :
        /\ \E r \in DOMAIN reports : reports[r].version = v /\ reports[r].passed
        /\ kb[v].docs \subseteq vetted

\* open_intervals never names a chunk that is not stored, which the foreign
\* key of chunk_validity would refuse halfway through a publish: publishes
\* may die between storing, closing and opening, and reuse each other's
\* chunks (add_chunk_set, open_intervals).
NoDanglingInterval == {row.chunk : row \in validity} \subseteq stored

\* Readers pinned to a published version never see a later publish, not even
\* one that stopped halfway and was given up (publish, close_intervals).
PinnedReads == [][\A v \in PublishedVersions : Active(v)' = Active(v)]_vars

\* However publishes interleave, die and are given up, only an interval statement
\* of a publish of that version or of a lower one changes what a version shows: a
\* newer publish never reaches readers pinned below it (publish, both statements).
ChangedFromBelow ==
    [][\A v \in DOMAIN kb : Active(v)' # Active(v) =>
          \E j \in Job : /\ job[j].at \in {"store", "open"}
                         /\ job[j].version <= v
                         /\ job'[j] # job[j]]_vars

\* A decision on a version is final: nothing makes a published or rejected
\* version a candidate again (reject, publish, the status test of run_gate).
DecisionIsFinal ==
    [][\A v \in DOMAIN kb : Status(v) # "candidate" => Status(v)' = Status(v)]_vars

\* A published version shows chunks of every document of its manifest, of no
\* other document, and of its encoding only (publish).
ShowsItsManifest ==
    \A v \in PublishedVersions :
        /\ {c.doc : c \in Active(v)} = kb[v].docs
        /\ \A c \in Active(v) : c.enc = kb[v].enc

\* When publish moves the alias, the version shows the latest published
\* version with the planned chunks hidden and the planned chunks opened,
\* however often the publish died and ran again before (publish).
ShowsItsPlan ==
    \A j \in Job :
        job[j].at \in {"serve", "finish"} =>
            Active(job[j].version) =
                (Active(LatestPublished) \ job[j].closing) \cup job[j].opening

\* No search returns a chunk of a published version twice: its intervals do
\* not overlap, also where a chunk comes back after a rollback (publish).
ShownOnce == \A v \in Readable : ~ ShownTwice(validity, v)

\* The chunks a published version shows for a document are one rendition of
\* it, not a mix of two runs (publish, _reusable_chunks).
OneRendition ==
    \A v \in PublishedVersions : \A d \in kb[v].docs :
        {c.text : c \in {a \in Active(v) : a.doc = d}} \in Rendition

\* A published version holds one version of each document: what a correction
\* replaces is gone (create_candidate, register_document).
OneVersionPerDocument ==
    \A v \in PublishedVersions : \A d, e \in kb[v].docs : DocOf[d] = DocOf[e] => d = e

\* The calls implement VersionedStore: a version takes its place in the store
\* when readers can first be sent to it, and then stays what it is.
Store == INSTANCE VersionedStore
           WITH content <- [v \in Readable |-> Active(v)],
                serving <- alias["serving"],
                Version <- 1..MaxVersion

StoreSpec == Store!Spec
=============================================================================
