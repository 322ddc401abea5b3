------------------------------- MODULE Schema -------------------------------
(***************************************************************************)
(* The tables the code reads and writes (sql.py), as what a database must  *)
(* offer it: the primary key, the NOT NULL columns, the columns that may   *)
(* be NULL, the indexed columns and the referenced tables.  Column types   *)
(* are left out.  A schema is a record of its tables.                      *)
(***************************************************************************)

\* index holds one set of columns for each index, refs <<schema, table>> pairs.
Table(key, required, optional, index, refs) ==
    [key |-> key, required |-> required, optional |-> optional, index |-> index, refs |-> refs]

Registry ==
    [doc_versions |->
        Table({"doc_version"},
              {"doc_id", "sha256", "source_type", "course_code", "source_id", "raw_uri",
               "producer", "created_at"},
              {"licence", "source_url", "page_count", "supersedes", "retracted_at"},
              {{"doc_id"}, {"supersedes"}}, {}),
     ingestion_runs |->
        Table({"run_id"},
              {"doc_version", "status", "started_at", "worker_digests", "model_versions"},
              {"dagster_run_id", "finished_at"}, {}, {<<"registry", "doc_versions">>}),
     kb_versions |->
        Table({"version_id"},
              {"doc_versions", "embedding_model", "chunker_version", "status", "created_at"},
              {"parent_version", "gate_report_id", "published_at"}, {}, {}),
     kb_aliases |-> Table({"name"}, {"version_id", "updated_at"}, {}, {}, {}),
     gate_reports |->
        Table({"report_id"}, {"version_id", "checks", "requires_sme", "created_at"},
              {"sme_decision", "sme_by", "sme_comment", "sme_at"}, {{"version_id"}}, {})]

Ops ==
    [interactions |->
        Table({"request_id"},
              {"pseudo_user", "question_enc", "used_external", "escalated",
               "source_corrected", "created_at"},
              {"conversation_id", "answer", "kb_version", "model_version", "prompt_version",
               "confidence", "level"},
              {{"pseudo_user"}, {"conversation_id"}, {"created_at"}}, {}),
     citations |->
        Table({"id"}, {"request_id"}, {"chunk_id", "url", "doc_version", "page"},
              {{"chunk_id"}}, {<<"ops", "interactions">>}),
     tool_calls |->
        Table({"id"},
              {"request_id", "tool", "operation", "verdict", "duration_ms", "created_at"},
              {"language", "error"}, {}, {<<"ops", "interactions">>}),
     escalation_tickets |->
        Table({"ticket_id"},
              {"request_id", "pseudo_user", "question_enc", "confidence", "status",
               "context_ids", "external_results", "created_at"},
              {"external_response_ms", "expert", "answer", "answered_at"},
              {{"request_id"}, {"created_at"}}, {}),
     expert_rota |-> Table({"id"}, {"expert", "contact", "starts_at", "ends_at"}, {}, {}, {}),
     external_candidates |->
        Table({"candidate_id"}, {"url", "snapshot_sha256", "found_by", "status", "created_at"},
              {"licence", "course_code", "topic", "decided_by", "decided_at"}, {}, {}),
     uploads |->
        Table({"attachment_id"},
              {"request_id", "media_type", "uri", "sha256", "size_bytes", "created_at"}, {},
              {{"request_id"}, {"created_at"}}, {}),
     conversations |->
        Table({"conversation_id"}, {"pseudo_user", "started_at", "last_active_at"}, {},
              {{"pseudo_user"}, {"last_active_at"}}, {}),
     request_facts |->
        Table({"request_id"}, {"level", "attachment_count", "created_at"},
              {"latency_ms", "e2e_ms", "tokens_in", "tokens_out", "guard_verdict"},
              {{"created_at"}}, {}),
     guard_events |->
        Table({"id"}, {"detector", "stage", "category", "score", "action", "created_at"},
              {"request_id"}, {{"request_id"}, {"created_at"}}, {})]

\* _record_columns: the run is part of every key, created_at is indexed.
Record(key, required, optional, index) ==
    Table({"ingestion_run_id"} \cup key,
          {"schema_version", "producer", "created_at"} \cup required, optional,
          {{"created_at"}} \cup index, {})

Ingest ==
    [regions |->
        Record({"region_id"}, {"doc_version", "page_no", "kind"},
               {"bbox", "raw_text", "image_uri"}, {{"doc_version"}}),
     extracted_regions |->
        Record({"region_id"}, {"kind", "content", "extractor", "confidence"}, {}, {}),
     cleaned_pages |->
        Record({"doc_version", "page_no"}, {"markdown", "region_ids", "flags"}, {}, {}),
     chunks |->
        Record({"chunk_id"},
               {"doc_version", "embedding_model", "chunker_version", "page_start", "page_end",
                "section_path", "text", "kinds", "token_count", "region_ids", "embedding"}, {},
               {{"doc_version"}})]

Eval ==
    [ragas_scores |->
        Table({"id"}, {"run_id", "dataset", "item_id", "metric", "score", "created_at"},
              {"kb_version", "model_version", "prompt_version", "judge_model"},
              {{"run_id"}}, {}),
     test_cases |->
        Table({"case_id"}, {"level", "question", "created_at"},
              {"source", "reference_answer", "course_code", "topic"}, {}, {}),
     test_runs |->
        Table({"id"}, {"run_id", "case_id", "escalated", "ragas", "created_at"},
              {"response", "level_reached", "confidence", "remediation"},
              {{"run_id"}}, {<<"eval", "test_cases">>})]

Ft ==
    [datasets |->
        Table({"dataset_version"},
              {"item_count", "manifest_sha256", "export_uri", "status", "created_at"},
              {"approved_by", "approved_at", "comment"}, {}, {}),
     items |->
        Table({"dataset_version", "item_id"}, {"split", "question", "answer", "source"},
              {"course_code", "topic"}, {}, {<<"ft", "datasets">>})]

Reporting ==
    [ragas_summary |->
        Table({"run_id", "metric"}, {"ts", "dataset", "mean_score", "item_count"},
              {"kb_version", "model_version", "prompt_version", "judge_model"}, {}, {})]

\* serving_tables: the vector and full text indexes are kept by their column.
Serving ==
    [chunks |->
        Table({"chunk_id"},
              {"doc_version", "page_start", "page_end", "section_path", "text", "kinds",
               "token_count", "region_ids", "ingestion_run_id", "embedding_model",
               "chunker_version", "embedding"}, {"tsv"},
              {{"doc_version"}, {"embedding"}, {"tsv"}}, {}),
     chunk_validity |->
        Table({"chunk_id", "valid_from_version"}, {}, {"valid_to_version"},
              {{"valid_from_version", "valid_to_version"}}, {<<"serving", "chunks">>})]

\* Everything the code expects of the database.
Metadata ==
    [registry |-> Registry, ops |-> Ops, ingest |-> Ingest, eval |-> Eval, ft |-> Ft,
     reporting |-> Reporting, serving |-> Serving]
=============================================================================
