---------------------------- MODULE ServingIndex ----------------------------
(***************************************************************************)
(* The validity table of the serving index (serving.chunk_validity).       *)
(*                                                                         *)
(* A chunk is stored once; intervals [from, to) say which knowledge base   *)
(* versions see it.  The operators below are the three statements both     *)
(* index adapters run against the table, as functions from the set of rows *)
(* before the statement to the set of rows after it.  One statement is one *)
(* transaction, so one operator is one atomic step of whoever calls it.    *)
(***************************************************************************)
EXTENDS Integers

CONSTANT Open       \* the NULL of valid_to_version: the interval has no end

ASSUME OpenAssumption == Open \notin Nat

\* A row of the table, for chunks drawn from the set C.
ValidityRows(C) == [chunk : C, from : Nat, to : Nat \cup {Open}]

\* Mutant: the end of an interval belongs to it.
VisibleAtEnd(row, v) == row.from <= v /\ (row.to = Open \/ row.to >= v)

\* The filter every reader applies: valid_from <= v < valid_to.
VisibleAt(row, v) == row.from <= v /\ (row.to = Open \/ row.to > v)

ActiveChunks(rows, v) == {row.chunk : row \in {r \in rows : VisibleAt(r, v)}}

\* INSERT ... ON CONFLICT DO NOTHING, the key being (chunk, from).
OpenIntervals(rows, cs, v) ==
    rows \cup {[chunk |-> c, from |-> v, to |-> Open] :
                 c \in {d \in cs : ~ \E r \in rows : r.chunk = d /\ r.from = v}}

\* UPDATE ... SET valid_to = v WHERE valid_to IS NULL AND valid_from < v.
Closing(row, cs, v) == row.chunk \in cs /\ row.to = Open /\ row.from < v

\* Mutant: the last version that sees the chunk is written, not the first that
\* does not.
CloseIntervalsAtLast(rows, cs, v) ==
    {r \in rows : ~ Closing(r, cs, v)}
      \cup {[r EXCEPT !.to = v - 1] : r \in {q \in rows : Closing(q, cs, v)}}

CloseIntervals(rows, cs, v) ==
    {r \in rows : ~ Closing(r, cs, v)}
      \cup {[r EXCEPT !.to = v] : r \in {q \in rows : Closing(q, cs, v)}}

\* Two rows that show one chunk at one version.  The Postgres queries join
\* chunks with this table, so such a pair is a duplicate search hit.
ShownTwice(rows, v) ==
    \E r, q \in rows : /\ r # q /\ r.chunk = q.chunk
                       /\ VisibleAt(r, v) /\ VisibleAt(q, v)
=============================================================================
