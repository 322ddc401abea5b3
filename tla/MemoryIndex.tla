----------------------------- MODULE MemoryIndex -----------------------------
(***************************************************************************)
(* The in-memory adapter of the serving index (index.py) and the searches  *)
(* of both adapters.  Tests use this adapter in place of the Postgres one, *)
(* which ServingIndex models.                                              *)
(*                                                                         *)
(* It keeps the intervals <<start, end>> of each chunk.  A call works      *)
(* through its chunks one by one in any order and stops where it raises,   *)
(* with the chunks before done: such an operator is the set of stores the  *)
(* call may leave.                                                         *)
(***************************************************************************)
EXTENDS ServingIndex, FiniteSets

Intervals == Nat \X (Nat \cup {Open})

\* _intervals, {} for a chunk without any.
Stores(C) == [C -> SUBSET Intervals]

\* The same as rows of chunk_validity.
Rows(m) ==
    UNION {{[chunk |-> c, from |-> i[1], to |-> i[2]] : i \in m[c]} : c \in DOMAIN m}

Visible(intervals, v) == \E i \in intervals : i[1] <= v /\ (i[2] = Open \/ i[2] > v)

MemoryActive(m, v) == {c \in DOMAIN m : Visible(m[c], v)}

\* The chunks a loop over cs has done when it ends or raises at one outside good.
Done(cs, good) == IF cs \subseteq good THEN {cs} ELSE SUBSET (cs \cap good)

\* add_chunk_set: a chunk that is stored is left alone, one without a vector raises.
MemoryAdd(stored, cs, embedded) == {stored \cup part : part \in Done(cs, stored \cup embedded)}

OpenEach(m, cs, v) ==
    [c \in DOMAIN m |-> IF c \in cs /\ \A i \in m[c] : i[1] # v
                        THEN m[c] \cup {<<v, Open>>} ELSE m[c]]

\* open_intervals: a chunk that is not stored raises.
MemoryOpen(m, stored, cs, v) == {OpenEach(m, part, v) : part \in Done(cs, stored)}

\* close_intervals
Ended(i, v) == IF i[2] = Open /\ i[1] < v THEN <<i[1], v>> ELSE i
MemoryClose(m, cs, v) ==
    [c \in DOMAIN m |-> IF c \in cs THEN {Ended(i, v) : i \in m[c]} ELSE m[c]]

-----------------------------------------------------------------------------
(* The searches: the k best of the candidates, by the score of their chunk. *)
(* For a text search only the chunks that match are candidates; how they    *)
(* are scored, and what matches, is not the same in both adapters.          *)

TopK(hits, candidates, k, score) ==
    /\ hits \subseteq candidates
    /\ Cardinality(hits) = IF Cardinality(candidates) < k THEN Cardinality(candidates) ELSE k
    /\ \A h \in hits : \A c \in candidates \ hits : score[c] <= score[h]

\* chunks JOIN chunk_validity: one candidate for each visible row.
JoinedRows(rows, matching, v) == {r \in rows : r.chunk \in matching /\ VisibleAt(r, v)}

\* One candidate for each active chunk.
Found(m, matching, v) == MemoryActive(m, v) \cap matching
=============================================================================
