----------------------------- MODULE Migrations -----------------------------
(***************************************************************************)
(* The three Alembic revisions as the statements they execute, and the     *)
(* runs of alembic over them (env.py, migrate.py): every statement of a    *)
(* run works on one open transaction, which is committed at the end or     *)
(* lost with the connection.  A relation is addressed by <<schema, name>>, *)
(* a column by <<schema, table, column>>.  The indexes a revision creates  *)
(* right behind their table are part of the statement that creates it.     *)
(***************************************************************************)
EXTENDS Schema, Integers, Sequences, FiniteSets, Functions, SequencesExt

VARIABLES
    db,      \* the committed database
    rev,     \* alembic_version: how many revisions are applied
    run      \* the migration that is running, or Idle

vars == <<db, rev, run>>

Idle == [to |-> -1]

-----------------------------------------------------------------------------
(* A database holds its schemas, its tables, the name of each table's       *)
(* primary key index, its views with the columns they read, and what the    *)
(* role grafana_reader may read.                                            *)

Columns(shape) == shape.key \cup shape.required \cup shape.optional

Addresses(d) ==
    UNION {{<<r[1], r[2], c>> : c \in Columns(d.tables[r])} : r \in DOMAIN d.tables}

Relations(d) == DOMAIN d.tables \cup DOMAIN d.views
Reporters(d) == {r \in Relations(d) : r[1] = "reporting"}

Without(f, gone) == Restrict(f, DOMAIN f \ gone)
With(f, x, v) == [y \in DOMAIN f \cup {x} |-> IF y = x THEN v ELSE f[y]]
Moved(f, x, y) == With(Without(f, {x}), y, f[x])

Subst(S, c, d) == {IF x = c THEN d ELSE x : x \in S}

\* Where a column is after the statement, if it is not dropped.
After(s, a) ==
    CASE s.op = "rename table" /\ <<a[1], a[2]>> = s.rel -> <<s.to[1], s.to[2], a[3]>>
      [] s.op = "rename column" /\ a = <<s.rel[1], s.rel[2], s.column>> -> <<a[1], a[2], s.to>>
      [] OTHER -> a

\* References, views and grants follow a relation or a column under its new name.
Renamed(shape, c, e) ==
    Table(Subst(shape.key, c, e), Subst(shape.required, c, e), Subst(shape.optional, c, e),
          {Subst(i, c, e) : i \in shape.index}, shape.refs)
Referring(tables, x, y) == [r \in DOMAIN tables |-> [tables[r] EXCEPT !.refs = Subst(@, x, y)]]
Reading(views, s) == [v \in DOMAIN views |-> {After(s, a) : a \in views[v]}]

\* New relations of the reporting schema are readable under default privileges.
Published(d, rel) ==
    [d EXCEPT !.readable = IF rel[1] = "reporting" /\ d.defaults THEN @ \cup {rel} ELSE @]

Unreferring(shape, rels) == [shape EXCEPT !.refs = @ \ rels]

\* DROP ... CASCADE takes along the views that read a dropped table.
DropRelations(d, rels) ==
    LET views == {v \in DOMAIN d.views :
                     v \in rels \/ \E a \in d.views[v] : <<a[1], a[2]>> \in rels}
    IN  [d EXCEPT !.tables = [r \in DOMAIN @ \ rels |-> Unreferring(@[r], rels)],
                  !.pkeys = Without(@, rels),
                  !.views = Without(@, views),
                  !.readable = @ \ (rels \cup views)]

\* Mutant: only the relations that exist are granted.
GrantExisting(d) == [d EXCEPT !.usage = TRUE, !.readable = Reporters(d)]

\* GRANT USAGE, GRANT SELECT ON ALL TABLES and ALTER DEFAULT PRIVILEGES IN SCHEMA.
Grant(d) == [d EXCEPT !.usage = TRUE, !.readable = Reporters(d), !.defaults = TRUE]

\* What Postgres makes of a statement it accepts.  The columns the revisions add and
\* drop may be NULL.
Effect(d, s) ==
    CASE s.op = "create extension" -> [d EXCEPT !.vector = TRUE]
      [] s.op = "create schema" -> [d EXCEPT !.schemas = @ \cup {s.schema}]
      [] s.op = "drop schema" ->
             [DropRelations(d, {r \in Relations(d) : r[1] = s.schema}) EXCEPT
                 !.schemas = @ \ {s.schema},
                 !.usage = @ /\ s.schema # "reporting",
                 !.defaults = @ /\ s.schema # "reporting"]
      [] s.op = "create table" ->
             [Published(d, s.rel) EXCEPT !.tables = With(@, s.rel, s.shape),
                                         !.pkeys = With(@, s.rel, s.rel[2])]
      [] s.op = "drop table" -> DropRelations(d, {s.rel})
      [] s.op = "rename table" ->
             [d EXCEPT !.tables = Referring(Moved(@, s.rel, s.to), s.rel, s.to),
                       !.pkeys = Moved(@, s.rel, s.to),
                       !.views = Reading(@, s),
                       !.readable = Subst(@, s.rel, s.to)]
      [] s.op = "rename key" ->
             [d EXCEPT !.pkeys = [r \in DOMAIN @ |-> IF r[1] = s.schema /\ @[r] = s.index
                                                      THEN s.to ELSE @[r]]]
      [] s.op = "add column" -> [d EXCEPT !.tables[s.rel].optional = @ \cup {s.column}]
      [] s.op = "drop column" ->
             [d EXCEPT !.tables[s.rel].optional = @ \ {s.column},
                       !.tables[s.rel].index = {i \in @ : s.column \notin i}]
      [] s.op = "rename column" ->
             [d EXCEPT !.tables[s.rel] = Renamed(@, s.column, s.to), !.views = Reading(@, s)]
      [] s.op = "create index" -> [d EXCEPT !.tables[s.rel].index = @ \cup {s.columns}]
      [] s.op = "drop index" -> [d EXCEPT !.tables[s.rel].index = @ \ {s.columns}]
      [] s.op = "create view" -> [Published(d, s.rel) EXCEPT !.views = With(@, s.rel, s.reads)]
      [] s.op = "drop view" ->
             [d EXCEPT !.views = Without(@, {s.rel}), !.readable = @ \ {s.rel}]
      [] s.op = "grant" -> IF d.role THEN Grant(d) ELSE d

\* Whether Postgres accepts it.
Legal(d, s) ==
    CASE s.op = "create table" ->
             /\ s.rel[1] \in d.schemas
             /\ s.rel \notin Relations(d)
             /\ s.shape.refs \subseteq DOMAIN d.tables
             /\ UNION s.shape.index \subseteq Columns(s.shape)
             /\ "embedding" \in UNION s.shape.index => d.vector
      [] s.op = "drop table" ->
             /\ \A r \in DOMAIN d.tables \ {s.rel} : s.rel \notin d.tables[r].refs
             /\ \A v \in DOMAIN d.views : \A a \in d.views[v] : <<a[1], a[2]>> # s.rel
      [] s.op = "rename table" -> s.rel \in DOMAIN d.tables /\ s.to \notin Relations(d)
      [] s.op = "rename key" ->
             \E r \in DOMAIN d.pkeys : r[1] = s.schema /\ d.pkeys[r] = s.index
      [] s.op = "add column" ->
             s.rel \in DOMAIN d.tables /\ s.column \notin Columns(d.tables[s.rel])
      [] s.op = "drop column" ->
             /\ s.rel \in DOMAIN d.tables
             /\ \A v \in DOMAIN d.views : <<s.rel[1], s.rel[2], s.column>> \notin d.views[v]
      [] s.op = "rename column" ->
             /\ s.rel \in DOMAIN d.tables
             /\ s.column \in Columns(d.tables[s.rel])
             /\ s.to \notin Columns(d.tables[s.rel])
      [] s.op = "create index" ->
             s.rel \in DOMAIN d.tables /\ s.columns \subseteq Columns(d.tables[s.rel])
      [] s.op = "create view" ->
             s.rel[1] \in d.schemas /\ s.rel \notin Relations(d) /\ s.reads \subseteq Addresses(d)
      [] s.op = "drop view" -> s.rel \in DOMAIN d.views
      [] OTHER -> TRUE

\* The columns of the old database whose content is still in d, and where.
Surviving(kept, s, d) ==
    [a \in {b \in DOMAIN kept : After(s, kept[b]) \in Addresses(d)} |-> After(s, kept[a])]

-----------------------------------------------------------------------------
(* The statements, by their first words.                                    *)

CreateSchema(s) == [op |-> "create schema", schema |-> s]
DropSchema(s) == [op |-> "drop schema", schema |-> s]
CreateTable(s, t, shape) == [op |-> "create table", rel |-> <<s, t>>, shape |-> shape]
DropTable(s, t) == [op |-> "drop table", rel |-> <<s, t>>]
RenameTable(s, t, u) == [op |-> "rename table", rel |-> <<s, t>>, to |-> <<s, u>>]
RenameKey(s, t, u) == [op |-> "rename key", schema |-> s, index |-> t, to |-> u]
AddColumn(s, t, c) == [op |-> "add column", rel |-> <<s, t>>, column |-> c]
DropColumn(s, t, c) == [op |-> "drop column", rel |-> <<s, t>>, column |-> c]
RenameColumn(s, t, c, e) == [op |-> "rename column", rel |-> <<s, t>>, column |-> c, to |-> e]
CreateIndex(s, t, cs) == [op |-> "create index", rel |-> <<s, t>>, columns |-> cs]
DropIndex(s, t, cs) == [op |-> "drop index", rel |-> <<s, t>>, columns |-> cs]
CreateView(v, reads) == [op |-> "create view", rel |-> <<"reporting", v>>, reads |-> reads]
DropView(v) == [op |-> "drop view", rel |-> <<"reporting", v>>]

Reads(s, t, columns) == {<<s, t, c>> : c \in columns}

-----------------------------------------------------------------------------
(* Revision 0001: the registry, serving and ops schemas.                    *)

OpsTables1 ==
    <<CreateTable("ops", "escalation_tickets",
          Table({"ticket_id"},
                {"request_id", "pseudo_user", "question_enc", "confidence", "status",
                 "context_ids", "external_results", "created_at"},
                {"external_response_ms", "expert", "answer", "answered_at"},
                {{"created_at"}, {"request_id"}}, {})),
      CreateTable("ops", "expert_rota",
          Table({"id"}, {"expert", "contact", "starts_at", "ends_at"}, {}, {}, {})),
      CreateTable("ops", "external_candidates",
          Table({"candidate_id"},
                {"url", "snapshot_sha256", "found_by", "status", "created_at"},
                {"licence", "course_code", "topic", "decided_by", "decided_at"}, {}, {})),
      CreateTable("ops", "interactions",
          Table({"request_id"},
                {"pseudo_user", "question_enc", "used_external", "escalated",
                 "source_corrected", "created_at"},
                {"answer", "corpus_version", "model_version", "prompt_version", "confidence",
                 "level"},
                {{"created_at"}, {"pseudo_user"}}, {})),
      CreateTable("ops", "uploads",
          Table({"attachment_id"},
                {"request_id", "media_type", "uri", "sha256", "size_bytes", "created_at"}, {},
                {{"created_at"}, {"request_id"}}, {}))>>

RegistryTables1 ==
    <<CreateTable("registry", "corpus_aliases",
          Table({"name"}, {"version_id", "updated_at"}, {}, {}, {})),
      CreateTable("registry", "corpus_versions",
          Table({"version_id"},
                {"doc_versions", "embedding_model", "chunker_version", "status", "created_at"},
                {"parent_version", "gate_report_id", "published_at"}, {}, {})),
      CreateTable("registry", "doc_versions",
          Table({"doc_version"},
                {"doc_id", "sha256", "source_type", "course_code", "source_id", "raw_uri",
                 "producer", "created_at"},
                {"licence", "source_url", "page_count", "supersedes", "retracted_at"},
                {{"doc_id"}, {"supersedes"}}, {})),
      CreateTable("registry", "gate_reports",
          Table({"report_id"}, {"version_id", "checks", "requires_sme", "created_at"},
                {"sme_decision", "sme_by", "sme_comment", "sme_at"}, {{"version_id"}}, {}))>>

ReferencingTables1 ==
    <<CreateTable("ops", "citations",
          Table({"id"}, {"request_id"}, {"chunk_id", "url", "doc_version", "page"},
                {{"chunk_id"}}, {<<"ops", "interactions">>})),
      CreateTable("ops", "tool_calls",
          Table({"id"}, {"request_id", "tool", "operation", "verdict", "duration_ms", "created_at"},
                {"language", "error"}, {}, {<<"ops", "interactions">>})),
      CreateTable("registry", "ingestion_runs",
          Table({"run_id"},
                {"doc_version", "status", "started_at", "worker_digests", "model_versions"},
                {"dagster_run_id", "finished_at"}, {}, {<<"registry", "doc_versions">>}))>>

ServingTables1 ==
    <<CreateTable("serving", "chunks",
          Table({"chunk_id"},
                {"doc_version", "page_start", "page_end", "section_path", "text", "kinds",
                 "token_count", "region_ids", "ingestion_run_id", "embedding_model",
                 "chunker_version", "embedding"}, {"tsv"},
                {{"embedding"}, {"tsv"}, {"doc_version"}}, {})),
      CreateTable("serving", "chunk_validity",
          Table({"chunk_id", "valid_from_version"}, {}, {"valid_to_version"},
                {{"valid_from_version", "valid_to_version"}}, {<<"serving", "chunks">>}))>>

Schemas1 == <<"registry", "serving", "ops">>

Each(statement(_), names) == [i \in DOMAIN names |-> statement(names[i])]

Upgrade1 ==
    <<[op |-> "create extension"]>> \o Each(CreateSchema, Schemas1) \o OpsTables1
        \o RegistryTables1 \o ReferencingTables1 \o ServingTables1

Downgrade1 == Each(DropSchema, Schemas1)

-----------------------------------------------------------------------------
(* Revision 0002: the reporting schema, which is all grafana_reader reads.  *)

RagasSummary2 ==
    CreateTable("reporting", "ragas_summary",
        Table({"run_id", "metric"}, {"ts", "dataset", "mean_score", "item_count"},
              {"corpus_version", "model_version", "prompt_version", "judge_model"}, {}, {}))

DailyViews2 ==
    <<CreateView("requests_daily",
          Reads("ops", "interactions",
                {"created_at", "level", "used_external", "escalated", "confidence"})),
      CreateView("escalation_daily",
          Reads("ops", "escalation_tickets",
                {"created_at", "answered_at", "external_response_ms"})),
      CreateView("tool_calls_daily",
          Reads("ops", "tool_calls", {"created_at", "tool", "verdict", "duration_ms"}))>>

\* corpus_status and kb_status, over the names their revision gives the tables.
StatusReads(aliases, versions) ==
    UNION {Reads("registry", aliases, {"version_id", "name"}),
           Reads("registry", versions, {"published_at"}),
           Reads("registry", "doc_versions", {"doc_version", "retracted_at"}),
           Reads("registry", "ingestion_runs", {"doc_version", "status"}),
           Reads("registry", "gate_reports", {"requires_sme", "sme_decision"})}

CorpusStatus == CreateView("corpus_status", StatusReads("corpus_aliases", "corpus_versions"))

Upgrade2 ==
    <<CreateSchema("reporting"), RagasSummary2>> \o DailyViews2
        \o <<CorpusStatus, [op |-> "grant"]>>

Downgrade2 == <<DropSchema("reporting")>>

-----------------------------------------------------------------------------
(* Revision 0003: the ingest, eval and ft schemas replace the Iceberg lake, *)
(* the corpus tables and columns take their knowledge base names.           *)

KbStatus == CreateView("kb_status", StatusReads("kb_aliases", "kb_versions"))

\* Mutant: the column is created anew under its new name.
RenamesByReplacing ==
    <<DropView("corpus_status"),
      RenameTable("registry", "corpus_versions", "kb_versions"),
      RenameKey("registry", "corpus_versions", "kb_versions"),
      RenameTable("registry", "corpus_aliases", "kb_aliases"),
      RenameKey("registry", "corpus_aliases", "kb_aliases"),
      DropColumn("ops", "interactions", "corpus_version"),
      AddColumn("ops", "interactions", "kb_version"),
      RenameColumn("reporting", "ragas_summary", "corpus_version", "kb_version"),
      KbStatus>>

Renames3 ==
    <<DropView("corpus_status"),
      RenameTable("registry", "corpus_versions", "kb_versions"),
      RenameKey("registry", "corpus_versions", "kb_versions"),
      RenameTable("registry", "corpus_aliases", "kb_aliases"),
      RenameKey("registry", "corpus_aliases", "kb_aliases"),
      RenameColumn("ops", "interactions", "corpus_version", "kb_version"),
      RenameColumn("reporting", "ragas_summary", "corpus_version", "kb_version"),
      KbStatus>>

\* Mutant: the metadata says the column is indexed, the revision forgets it.
ConversationColumnUnindexed == <<AddColumn("ops", "interactions", "conversation_id")>>

ConversationColumn ==
    <<AddColumn("ops", "interactions", "conversation_id"),
      CreateIndex("ops", "interactions", {"conversation_id"})>>

OpsTables3 ==
    <<CreateTable("ops", "conversations",
          Table({"conversation_id"}, {"pseudo_user", "started_at", "last_active_at"}, {},
                {{"last_active_at"}, {"pseudo_user"}}, {})),
      CreateTable("ops", "request_facts",
          Table({"request_id"}, {"level", "attachment_count", "created_at"},
                {"latency_ms", "e2e_ms", "tokens_in", "tokens_out", "guard_verdict"},
                {{"created_at"}}, {})),
      CreateTable("ops", "guard_events",
          Table({"id"}, {"detector", "stage", "category", "score", "action", "created_at"},
                {"request_id"}, {{"created_at"}, {"request_id"}}, {}))>>

IngestTables3 ==
    <<CreateTable("ingest", "regions",
          Table({"ingestion_run_id", "region_id"},
                {"schema_version", "producer", "created_at", "doc_version", "page_no", "kind"},
                {"bbox", "raw_text", "image_uri"}, {{"created_at"}, {"doc_version"}}, {})),
      CreateTable("ingest", "extracted_regions",
          Table({"ingestion_run_id", "region_id"},
                {"schema_version", "producer", "created_at", "kind", "content", "extractor",
                 "confidence"}, {}, {{"created_at"}}, {})),
      CreateTable("ingest", "cleaned_pages",
          Table({"ingestion_run_id", "doc_version", "page_no"},
                {"schema_version", "producer", "created_at", "markdown", "region_ids", "flags"},
                {}, {{"created_at"}}, {})),
      CreateTable("ingest", "chunks",
          Table({"ingestion_run_id", "chunk_id"},
                {"schema_version", "producer", "created_at", "doc_version", "embedding_model",
                 "chunker_version", "page_start", "page_end", "section_path", "text", "kinds",
                 "token_count", "region_ids", "embedding"},
                {}, {{"created_at"}, {"doc_version"}}, {}))>>

EvalTables3 ==
    <<CreateTable("eval", "ragas_scores",
          Table({"id"}, {"run_id", "dataset", "item_id", "metric", "score", "created_at"},
                {"kb_version", "model_version", "prompt_version", "judge_model"},
                {{"run_id"}}, {})),
      CreateTable("eval", "test_cases",
          Table({"case_id"}, {"level", "question", "created_at"},
                {"source", "reference_answer", "course_code", "topic"}, {}, {})),
      CreateTable("eval", "test_runs",
          Table({"id"}, {"run_id", "case_id", "escalated", "ragas", "created_at"},
                {"response", "level_reached", "confidence", "remediation"}, {{"run_id"}},
                {<<"eval", "test_cases">>}))>>

FtTables3 ==
    <<CreateTable("ft", "datasets",
          Table({"dataset_version"},
                {"item_count", "manifest_sha256", "export_uri", "status", "created_at"},
                {"approved_by", "approved_at", "comment"}, {}, {})),
      CreateTable("ft", "items",
          Table({"dataset_version", "item_id"}, {"split", "question", "answer", "source"},
                {"course_code", "topic"}, {}, {<<"ft", "datasets">>}))>>

Schemas3 == <<"ingest", "eval", "ft">>

IcebergTables == {<<"public", "iceberg_tables">>, <<"public", "iceberg_namespace_properties">>}

DropIceberg == <<DropTable("public", "iceberg_tables"),
                 DropTable("public", "iceberg_namespace_properties")>>

\* Mutant: the statements are executed before their schemas are created.
Upgrade3SchemasLast ==
    Renames3 \o ConversationColumn \o OpsTables3 \o IngestTables3 \o EvalTables3 \o FtTables3
        \o DropIceberg \o Each(CreateSchema, Schemas3)

Upgrade3 ==
    Renames3 \o Each(CreateSchema, Schemas3) \o ConversationColumn \o OpsTables3
        \o IngestTables3 \o EvalTables3 \o FtTables3 \o DropIceberg

DropOpsTables3 ==
    <<DropTable("ops", "guard_events"), DropTable("ops", "request_facts"),
      DropTable("ops", "conversations"), DropIndex("ops", "interactions", {"conversation_id"}),
      DropColumn("ops", "interactions", "conversation_id")>>

\* Mutant: the primary key of the aliases keeps its new name.
RestoreNamesButKey ==
    <<DropView("kb_status"),
      RenameColumn("reporting", "ragas_summary", "kb_version", "corpus_version"),
      RenameColumn("ops", "interactions", "kb_version", "corpus_version"),
      RenameTable("registry", "kb_aliases", "corpus_aliases"),
      RenameKey("registry", "kb_versions", "corpus_versions"),
      RenameTable("registry", "kb_versions", "corpus_versions"),
      CorpusStatus>>

RestoreNames ==
    <<DropView("kb_status"),
      RenameColumn("reporting", "ragas_summary", "kb_version", "corpus_version"),
      RenameColumn("ops", "interactions", "kb_version", "corpus_version"),
      RenameKey("registry", "kb_aliases", "corpus_aliases"),
      RenameTable("registry", "kb_aliases", "corpus_aliases"),
      RenameKey("registry", "kb_versions", "corpus_versions"),
      RenameTable("registry", "kb_versions", "corpus_versions"),
      CorpusStatus>>

Downgrade3 == Each(DropSchema, Schemas3) \o DropOpsTables3 \o RestoreNames

Upgrades == <<Upgrade1, Upgrade2, Upgrade3>>
Downgrades == <<Downgrade1, Downgrade2, Downgrade3>>
Newest == Len(Upgrades)

-----------------------------------------------------------------------------
(* The database before the first revision: the init script creates the      *)
(* reader's role or does not, an Iceberg catalog left its tables or not.    *)

IcebergTable == Table({"catalog_name"}, {}, {}, {}, {})

Fresh(role, iceberg) ==
    [vector |-> FALSE, role |-> role, schemas |-> {"public"},
     tables |-> [r \in iceberg |-> IcebergTable], pkeys |-> [r \in iceberg |-> r[2]],
     views |-> [r \in {} |-> {}], usage |-> FALSE, readable |-> {},
     defaults |-> FALSE]

Init ==
    /\ \E role \in BOOLEAN, iceberg \in SUBSET IcebergTables : db = Fresh(role, iceberg)
    /\ rev = 0
    /\ run = Idle

\* A run opens one transaction, whatever the number of revisions (_run in env.py).
Begin(statements, to) ==
    /\ run = Idle
    /\ run' = [db |-> db, todo |-> statements, to |-> to,
               kept |-> [a \in Addresses(db) |-> a]]
    /\ UNCHANGED <<db, rev>>

\* platform init: upgrade to head.
Upgrade ==
    rev < Newest /\ Begin(FlattenSeq(SubSeq(Upgrades, rev + 1, Newest)), Newest)

\* alembic downgrade, to any revision before this one.
Downgrade(to) == Begin(FlattenSeq(Reverse(SubSeq(Downgrades, to + 1, rev))), to)

Execute ==
    /\ run # Idle /\ run.todo # <<>>
    /\ LET s == Head(run.todo) IN
       /\ Legal(run.db, s)
       /\ run' = [run EXCEPT !.db = Effect(@, s), !.todo = Tail(@),
                             !.kept = Surviving(@, s, Effect(run.db, s))]
    /\ UNCHANGED <<db, rev>>

Commit ==
    /\ run # Idle /\ run.todo = <<>>
    /\ db' = run.db /\ rev' = run.to /\ run' = Idle

\* The connection is lost or the process stops: Postgres rolls back.
Abort == run # Idle /\ run' = Idle /\ UNCHANGED <<db, rev>>

\* The init script of the database creates the reader's role, perhaps late.
CreateReader ==
    /\ run = Idle /\ ~db.role
    /\ db' = [db EXCEPT !.role = TRUE]
    /\ UNCHANGED <<rev, run>>

Next ==
    \/ Upgrade
    \/ \E to \in 0..rev-1 : Downgrade(to)
    \/ Execute
    \/ Commit
    \/ Abort
    \/ CreateReader

Spec == Init /\ [][Next]_vars

-----------------------------------------------------------------------------
(* Properties.                                                              *)

\* No statement of a revision fails on a database the revisions before it can
\* have left, upgrading or downgrading: each relation, column, key and schema it
\* names is there, and what it creates is not (op.execute of every revision).
NoStatementFails == run # Idle /\ run.todo # <<>> => Legal(run.db, Head(run.todo))

\* At the newest revision the database has the tables the code is written for:
\* the frozen statements add up to the metadata of sql.py, the serving tables too.
HeadIsMetadata ==
    run = Idle /\ rev = Newest =>
        /\ DOMAIN db.tables = UNION {{s} \X DOMAIN Metadata[s] : s \in DOMAIN Metadata}
        /\ \A r \in DOMAIN db.tables : db.tables[r] = Metadata[r[1]][r[2]]

Structure(d) ==
    LET ours(f) == Without(f, IcebergTables)
    IN  <<d.schemas, ours(d.tables), ours(d.pkeys), d.views>>

SchemaOf == [r \in 0..Newest |->
    Structure(FoldLeft(Effect, Fresh(FALSE, {}), FlattenSeq(SubSeq(Upgrades, 1, r))))]

\* The revision number tells the schema, whatever upgrades, downgrades and
\* aborted runs came before: a downgrade undoes all its upgrade did, names of
\* indexes included, and a run that dies leaves nothing behind.
RevisionTellsSchema == run = Idle => Structure(db) = SchemaOf[rev]

\* Where the grants of revision 0002 ran, the dashboards read every table and
\* view of the reporting schema, those that later revisions create included.
ReaderSeesReporting == run = Idle /\ db.usage => Reporters(db) \subseteq db.readable

\* An upgrade keeps every column that held data, perhaps under another name; only
\* the tables of the Iceberg catalog go.
UpgradeKeepsData ==
    [][rev' > rev => {a \in Addresses(db) : a[1] # "public"} \subseteq DOMAIN run.kept]_vars
=============================================================================
