------------------------------ MODULE IngestTier ------------------------------
(***************************************************************************)
(* The tables of the ingest schema (ingest.py) and the records in them     *)
(* (knowledge_base.py), as operators on sets of rows.  A row is a record   *)
(* with its primary key, the run that wrote it and the day it was last     *)
(* written.                                                                *)
(***************************************************************************)
EXTENDS Integers

\* created_at of a record that is not written yet.
Unwritten == -1

\* Mutant: the rows are replaced and keep no date of their own.
WriteUndated(table, rows, day) ==
    {old \in table : \A row \in rows : row.key # old.key} \cup rows

\* _write: rows with the same key are replaced, the new ones carry today's date.
Write(table, rows, day) ==
    LET new == {[row EXCEPT !.day = day] : row \in rows}
    IN  {old \in table : \A row \in new : row.key # old.key} \cup new

\* write_chunk_set: every row repeats the header of its set.  A chunk names the
\* content its id was made of; for an honest chunk this is its own.
ChunkRows(run, doc, set) ==
    {[key |-> <<run, doc, chunk.of, set.enc>>, run |-> run, doc |-> doc,
      enc |-> set.enc, schema |-> set.schema, day |-> Unwritten,
      of |-> chunk.of, text |-> chunk.text, vector |-> chunk.vector] : chunk \in set.chunks}

PageRows(run, doc, pages) ==
    {[key |-> <<run, doc, p.page>>, run |-> run, doc |-> doc, day |-> Unwritten,
      page |-> p.page, schema |-> p.schema, ocr |-> p.ocr, pii |-> p.pii,
      dup |-> p.dup] : p \in pages}

\* Mutant: the filter on the runs is lost.
RowsOfAnyRun(table, runs) == table

\* read_rows
RowsOf(table, runs) == {row \in table : row.run \in runs}

\* read_chunk_sets: one set for each run and document version, with the header of
\* one of its rows.
ChunkSets(table, runs) ==
    LET rows == RowsOf(table, runs)
        group(run, doc) == {row \in rows : row.run = run /\ row.doc = doc}
        headed(g) == LET first == CHOOSE row \in g : TRUE
                     IN  [run |-> first.run, doc |-> first.doc, enc |-> first.enc,
                          schema |-> first.schema, chunks |-> g]
    IN  {headed(group(row.run, row.doc)) : row \in rows}

\* expire_staging (retention.py)
Unexpired(table, day, days) == {row \in table : row.day >= day - days}
=============================================================================
