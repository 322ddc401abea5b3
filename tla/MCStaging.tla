------------------------------ MODULE MCStaging ------------------------------
(* An instance of Staging for TLC: what the workers may write, good or with *)
(* one defect at a time.                                                    *)
EXTENDS Staging

CONSTANTS s1, s2,   \* schema versions: one this code does not read, and the one it reads
          t1, t2    \* texts

GoodPage(n) == [page |-> n, schema |-> s2, ocr |-> NoOcr, pii |-> 0, dup |-> FALSE]
Good == [n \in 1..Pages |-> [GoodPage(n) EXCEPT !.ocr = IF n = 1 THEN NoOcr ELSE 90]]
PagesOf(f) == {f[n] : n \in 1..Pages}

AllPages ==
    {PagesOf(Good), {GoodPage(1)},
     PagesOf([Good EXCEPT ![2].ocr = 40]),
     PagesOf([Good EXCEPT ![1].pii = 1]), PagesOf([Good EXCEPT ![2].dup = TRUE])}

GoodChunk(t) == [of |-> t, text |-> t, vector |-> "fine"]
GoodSet(ts) == [enc |-> "e1", schema |-> s2, chunks |-> {GoodChunk(t) : t \in ts}]

AllSets ==
    {GoodSet({t1}), GoodSet({t1, t2}),
     [GoodSet({t1}) EXCEPT !.schema = s1],
     [GoodSet({t1}) EXCEPT !.enc = "e2"],
     [GoodSet({t1}) EXCEPT !.chunks = {[GoodChunk(t1) EXCEPT !.of = t2]}],
     [GoodSet({t1}) EXCEPT !.chunks = {[GoodChunk(t1) EXCEPT !.vector = "zero"], GoodChunk(t2)}]}
=============================================================================
