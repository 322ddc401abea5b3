----------------------------- MODULE AdapterProofs -----------------------------
(***************************************************************************)
(* The adapters that tests and laptops use agree with those deployed: the  *)
(* intervals of the index in memory, read as rows, are what Postgres would *)
(* hold, and a store of folders holds what S3 would hold.                  *)
(***************************************************************************)
EXTENDS MemoryIndex, ObjectStore, FiniteSetTheorems, TLAPS

-----------------------------------------------------------------------------
(* The serving index.                                                       *)


\* What is among the rows of a store.
LEMMA InRows ==
    ASSUME NEW C, NEW m \in Stores(C)
    PROVE  \A r : r \in Rows(m) <=>
               \E c \in C : \E i \in m[c] : r = [chunk |-> c, from |-> i[1], to |-> i[2]]
BY DEF Rows, Stores

LEMMA RowsAreRows ==
    ASSUME NEW C, NEW m \in Stores(C)
    PROVE  Rows(m) \subseteq ValidityRows(C)
BY DEF Rows, Stores, Intervals, ValidityRows

\* Readers of a version see the same chunks through either adapter
\* (active_chunks, _visible and _visible_at).
THEOREM SameActive ==
    ASSUME NEW C, NEW m \in Stores(C), NEW v \in Nat
    PROVE  MemoryActive(m, v) = ActiveChunks(Rows(m), v)
<1>1. ASSUME NEW c \in MemoryActive(m, v)
      PROVE  c \in ActiveChunks(Rows(m), v)
  <2>1. c \in C /\ \E i \in m[c] : i[1] <= v /\ (i[2] = Open \/ i[2] > v)
    BY <1>1 DEF MemoryActive, Visible, Stores
  <2>2. PICK i \in m[c] : i[1] <= v /\ (i[2] = Open \/ i[2] > v)
    BY <2>1
  <2> DEFINE r == [chunk |-> c, from |-> i[1], to |-> i[2]]
  <2>3. r \in Rows(m)
    BY <2>1 DEF Rows, Stores
  <2>4. VisibleAt(r, v) /\ r.chunk = c
    BY <2>2 DEF VisibleAt
  <2>5. QED
    BY <2>3, <2>4 DEF ActiveChunks
<1>2. ASSUME NEW c \in ActiveChunks(Rows(m), v)
      PROVE  c \in MemoryActive(m, v)
  <2>1. PICK r \in Rows(m) : VisibleAt(r, v) /\ r.chunk = c
    BY <1>2 DEF ActiveChunks
  <2>2. PICK d \in DOMAIN m : \E i \in m[d] : r = [chunk |-> d, from |-> i[1], to |-> i[2]]
    BY <2>1 DEF Rows
  <2>3. c = d /\ Visible(m[c], v)
    BY <2>1, <2>2 DEF VisibleAt, Visible
  <2>4. QED
    BY <2>2, <2>3 DEF MemoryActive
<1>3. QED
  BY <1>1, <1>2

\* A call that raised halfway and is run again with every vector there leaves the
\* chunks stored that one transaction would have (add_chunk_set).
LEMMA AddAfterPart ==
    ASSUME NEW stored, NEW cs, NEW before, NEW embedded, cs \subseteq embedded,
           NEW half \in MemoryAdd(stored, cs, before), NEW all \in MemoryAdd(half, cs, embedded)
    PROVE  all = stored \cup cs
BY DEF MemoryAdd, Done

\* Opening chunk by chunk is what one INSERT ... ON CONFLICT DO NOTHING does.
LEMMA OpenEachIsInsert ==
    ASSUME NEW C, NEW m \in Stores(C), NEW cs \in SUBSET C, NEW v \in Nat
    PROVE  /\ OpenEach(m, cs, v) \in Stores(C)
           /\ Rows(OpenEach(m, cs, v)) = OpenIntervals(Rows(m), cs, v)
<1> DEFINE n == OpenEach(m, cs, v)
<1>1. n \in Stores(C)
  BY DEF OpenEach, Stores, Intervals
<1>2. ASSUME NEW c \in C
      PROVE  (\A i \in m[c] : i[1] # v) <=> ~ \E r \in Rows(m) : r.chunk = c /\ r.from = v
  <2>1. ASSUME NEW i \in m[c], i[1] = v
        PROVE  \E r \in Rows(m) : r.chunk = c /\ r.from = v
    <3>1. [chunk |-> c, from |-> i[1], to |-> i[2]] \in Rows(m)
      BY InRows
    <3>2. QED
      BY <2>1, <3>1
  <2>2. ASSUME NEW r \in Rows(m), r.chunk = c, r.from = v
        PROVE  \E i \in m[c] : i[1] = v
    BY <2>2, InRows
  <2>3. QED
    BY <2>1, <2>2
<1>3. ASSUME NEW c \in C
      PROVE  n[c] = IF c \in cs /\ ~ \E r \in Rows(m) : r.chunk = c /\ r.from = v
                    THEN m[c] \cup {<<v, Open>>} ELSE m[c]
  BY <1>2 DEF OpenEach, Stores
<1>4. ASSUME NEW r \in Rows(n)
      PROVE  r \in OpenIntervals(Rows(m), cs, v)
  <2>0. PICK c \in C : \E i \in n[c] : r = [chunk |-> c, from |-> i[1], to |-> i[2]]
    BY <1>1 DEF Rows, Stores
  <2>1. PICK i \in n[c] : r = [chunk |-> c, from |-> i[1], to |-> i[2]]
    BY <2>0
  <2>2. CASE i \in m[c]
    <3>1. r \in Rows(m)
      BY <2>1, <2>2, InRows
    <3>2. QED
      BY <3>1 DEF OpenIntervals
  <2>3. CASE i \notin m[c]
    <3>1. /\ i = <<v, Open>> /\ c \in cs
          /\ ~ \E q \in Rows(m) : q.chunk = c /\ q.from = v
      BY <1>3, <2>1, <2>3
    <3>2. r = [chunk |-> c, from |-> v, to |-> Open]
      BY <2>1, <3>1
    <3>3. QED
      BY <3>1, <3>2 DEF OpenIntervals
  <2>4. QED
    BY <2>2, <2>3
<1>5. ASSUME NEW r \in OpenIntervals(Rows(m), cs, v)
      PROVE  r \in Rows(n)
  <2>1. CASE r \in Rows(m)
    <3>0. PICK c \in C : \E i \in m[c] : r = [chunk |-> c, from |-> i[1], to |-> i[2]]
      BY <2>1 DEF Rows, Stores
    <3>1. PICK i \in m[c] : r = [chunk |-> c, from |-> i[1], to |-> i[2]]
      BY <3>0
    <3>2. i \in n[c]
      BY <1>3, <3>1
    <3>3. QED
      BY <1>1, <3>1, <3>2 DEF Rows, Stores
  <2>2. CASE r \notin Rows(m)
    <3>1. PICK c \in cs : /\ ~ \E q \in Rows(m) : q.chunk = c /\ q.from = v
                          /\ r = [chunk |-> c, from |-> v, to |-> Open]
      BY <2>2 DEF OpenIntervals
    <3>2. <<v, Open>> \in n[c]
      BY <1>3, <3>1
    <3>3. QED
      BY <1>1, <3>1, <3>2 DEF Rows, Stores
  <2>3. QED
    BY <2>1, <2>2
<1>6. QED
  BY <1>1, <1>4, <1>5

\* Where every chunk is stored the two adapters do the same (open_intervals).
THEOREM SameOpen ==
    ASSUME NEW C, NEW m \in Stores(C), NEW stored \in SUBSET C, NEW cs \in SUBSET stored,
           NEW v \in Nat, NEW n \in MemoryOpen(m, stored, cs, v)
    PROVE  n \in Stores(C) /\ Rows(n) = OpenIntervals(Rows(m), cs, v)
<1>1. n = OpenEach(m, cs, v)
  BY DEF MemoryOpen, Done
<1>2. QED
  BY <1>1, OpenEachIsInsert

\* The loop that raised at a chunk which is not stored leaves a part of the
\* intervals open, where Postgres leaves none; once the chunk is stored, the call
\* run again ends where Postgres ends ("Safe to repeat").
THEOREM OpenAfterPart ==
    ASSUME NEW C, NEW m \in Stores(C), NEW stored \in SUBSET C, NEW later \in SUBSET C,
           NEW cs \in SUBSET later, NEW v \in Nat,
           NEW half \in MemoryOpen(m, stored, cs, v), NEW n \in MemoryOpen(half, later, cs, v)
    PROVE  Rows(n) = OpenIntervals(Rows(m), cs, v)
<1>1. PICK part \in SUBSET cs : half = OpenEach(m, part, v)
  BY DEF MemoryOpen, Done
<1>2. half \in Stores(C) /\ Rows(half) = OpenIntervals(Rows(m), part, v)
  BY <1>1, OpenEachIsInsert
<1>3. Rows(n) = OpenIntervals(Rows(half), cs, v)
  BY <1>2, SameOpen
<1>4. OpenIntervals(OpenIntervals(Rows(m), part, v), cs, v) = OpenIntervals(Rows(m), cs, v)
  BY <1>1 DEF OpenIntervals
<1>5. QED
  BY <1>2, <1>3, <1>4

\* close_intervals is the one UPDATE of Postgres.
THEOREM SameClose ==
    ASSUME NEW C, NEW m \in Stores(C), NEW cs \in SUBSET C, NEW v \in Nat
    PROVE  /\ MemoryClose(m, cs, v) \in Stores(C)
           /\ Rows(MemoryClose(m, cs, v)) = CloseIntervals(Rows(m), cs, v)
<1> DEFINE n == MemoryClose(m, cs, v)
           Row(c, i) == [chunk |-> c, from |-> i[1], to |-> i[2]]
<1>1. n \in Stores(C)
  BY DEF MemoryClose, Ended, Stores, Intervals
<1>2. ASSUME NEW c \in C, NEW i \in Intervals
      PROVE  Row(c, IF c \in cs THEN Ended(i, v) ELSE i) =
                 IF Closing(Row(c, i), cs, v) THEN [Row(c, i) EXCEPT !.to = v] ELSE Row(c, i)
  BY DEF Ended, Closing, Intervals
<1>3. ASSUME NEW c \in C
      PROVE  n[c] = {IF c \in cs THEN Ended(i, v) ELSE i : i \in m[c]}
  BY DEF MemoryClose, Stores
<1>4. \A r : r \in Rows(m) <=> \E c \in C : \E i \in m[c] : r = Row(c, i)
  BY DEF Rows, Stores
<1>5. \A r : r \in Rows(n) <=> \E c \in C : \E i \in n[c] : r = Row(c, i)
  BY <1>1 DEF Rows, Stores
<1>6. \A c \in C : m[c] \subseteq Intervals
  BY DEF Stores
<1>7. \A r : r \in CloseIntervals(Rows(m), cs, v) <=>
          \E q \in Rows(m) : r = IF Closing(q, cs, v) THEN [q EXCEPT !.to = v] ELSE q
  BY DEF CloseIntervals
<1> HIDE DEF n, Row
<1>8. ASSUME NEW r \in Rows(n)
      PROVE  r \in CloseIntervals(Rows(m), cs, v)
  <2>0. PICK c \in C : \E i \in n[c] : r = Row(c, i)
    BY <1>5
  <2>1. PICK i \in m[c] : r = Row(c, IF c \in cs THEN Ended(i, v) ELSE i)
    BY <1>3, <2>0
  <2>2. QED
    BY <1>2, <1>4, <1>6, <1>7, <2>1
<1>9. ASSUME NEW r \in CloseIntervals(Rows(m), cs, v)
      PROVE  r \in Rows(n)
  <2>1. PICK q \in Rows(m) : r = IF Closing(q, cs, v) THEN [q EXCEPT !.to = v] ELSE q
    BY <1>7
  <2>0. PICK c \in C : \E i \in m[c] : q = Row(c, i)
    BY <1>4, <2>1
  <2>2. PICK i \in m[c] : q = Row(c, i)
    BY <2>0
  <2>3. r = Row(c, IF c \in cs THEN Ended(i, v) ELSE i)
    BY <1>2, <1>6, <2>1, <2>2
  <2>4. QED
    BY <1>3, <1>5, <2>3
<1>10. QED
  BY <1>1, <1>8, <1>9 DEF n

\* A search finds the same chunks through either adapter, given the same scores,
\* wherever no chunk is shown twice: the k best rows of the join are the rows of
\* the k best chunks.  ShownOnce in KnowledgeBase is that condition.
THEOREM SameSearch ==
    ASSUME NEW C, NEW m \in Stores(C), NEW matching, NEW v \in Nat, NEW k \in Nat,
           NEW score, NEW hits, IsFiniteSet(Rows(m)),
           ~ ShownTwice(Rows(m), v),
           TopK(hits, JoinedRows(Rows(m), matching, v), k, [r \in Rows(m) |-> score[r.chunk]])
    PROVE  TopK({r.chunk : r \in hits}, Found(m, matching, v), k, score)
<1> DEFINE rows == JoinedRows(Rows(m), matching, v)
           Chunks(S) == {r.chunk : r \in S}
<1>1. /\ hits \subseteq rows
      /\ Cardinality(hits) = IF Cardinality(rows) < k THEN Cardinality(rows) ELSE k
      /\ \A h \in hits : \A c \in rows \ hits : score[c.chunk] <= score[h.chunk]
  BY DEF TopK, JoinedRows
<1>2. rows \subseteq Rows(m) /\ IsFiniteSet(rows)
  BY FS_Subset DEF JoinedRows
<1>3. \A r, q \in rows : r.chunk = q.chunk => r = q
  BY DEF JoinedRows, ShownTwice
<1>4. ASSUME NEW S \in SUBSET rows
      PROVE  Cardinality(Chunks(S)) = Cardinality(S)
  <2>1. IsFiniteSet(S)
    BY <1>2, FS_Subset
  <2> DEFINE f == [r \in S |-> r.chunk]
  <2>2. f \in Bijection(S, Chunks(S))
    BY <1>3 DEF Bijection, Injection, Surjection, IsInjective
  <2>3. ExistsBijection(S, Chunks(S))
    BY <2>2 DEF ExistsBijection
  <2>4. QED
    BY <2>1, <2>3, FS_Bijection
<1>5. Found(m, matching, v) = Chunks(rows)
  BY SameActive DEF Found, ActiveChunks, JoinedRows
<1>6. Chunks(hits) \subseteq Chunks(rows)
  BY <1>1
<1>7. /\ Cardinality(Chunks(hits)) = Cardinality(hits)
      /\ Cardinality(Chunks(rows)) = Cardinality(rows)
  BY <1>1, <1>4
<1>8. ASSUME NEW h \in Chunks(hits), NEW c \in Chunks(rows) \ Chunks(hits)
      PROVE  score[c] <= score[h]
  <2>1. PICK r \in hits : h = r.chunk
    BY <1>8
  <2>2. PICK q \in rows : c = q.chunk
    BY <1>8
  <2>3. q \notin hits
    BY <1>8, <2>2
  <2>4. QED
    BY <1>1, <2>1, <2>2, <2>3
<1>9. QED
  BY <1>1, <1>5, <1>6, <1>7, <1>8 DEF TopK

-----------------------------------------------------------------------------
(* The object store.                                                        *)

\* A file that is written changes one place, a folder none.
LEMMA WriteChanges ==
    ASSUME NEW m \in FolderStores, NEW fs \in SUBSET Place, NEW p \in Place, NEW d \in Data
    PROVE  /\ MkDir(m, fs).files = m.files
           /\ Write(MkDir(m, fs), p, d).files = [m.files EXCEPT ![p] = {d}]
<1>1. MkDir(m, fs).files = m.files /\ MkDir(m, fs) \in FolderStores
  BY DEF MkDir, FolderStores
<1>2. Write(MkDir(m, fs), p, d).files = [m.files EXCEPT ![p] = {d}]
  BY <1>1 DEF Write, FolderStores
<1> QED
  BY <1>1, <1>2

\* The store a put leaves: as it was, with a temporary file, or with the object.
LEMMA PutOutcomes ==
    ASSUME NEW m \in FolderStores, NEW p \in Place, NEW d \in Data,
           NEW m2 \in PutMayLeave(m, p, d)
    PROVE  \/ m2.files = m.files
           \/ \E t \in TempPlaces(m, p) : \A q \in Place \ {t} : m2.files[q] = m.files[q]
           \/ m2.files = [m.files EXCEPT ![p] = {d}]
<1>1. m2 = m \/ m2 \in Begun(m, p) \/ m2 \in InTemp(m, p) \/ m2 = Put(m, p, d)
  BY DEF PutMayLeave
<1>2. CASE m2 \in Begun(m, p)
  <2>1. PICK n \in 0..Len(p.key) : m2 = MkDir(m, Above(p, n))
    BY <1>2 DEF Begun
  <2>2. Above(p, n) \in SUBSET Place
    BY DEF Above
  <2> QED
    BY <2>1, <2>2 DEF MkDir, FolderStores
<1>3. CASE m2 \in InTemp(m, p)
  <2>1. \E t \in TempPlaces(m, p) : \E part \in Data : m2 = Write(MkDir(m, Folders(p)), t, part)
    BY <1>3 DEF InTemp
  <2>2. PICK t \in TempPlaces(m, p) : \E part \in Data : m2 = Write(MkDir(m, Folders(p)), t, part)
    BY <2>1
  <2>3. PICK part \in Data : m2 = Write(MkDir(m, Folders(p)), t, part)
    BY <2>2
  <2>4. t \in Place /\ Folders(p) \in SUBSET Place
    BY DEF TempPlaces, Folders, Above
  <2>5. m2.files = [m.files EXCEPT ![t] = {part}]
    BY <2>3, <2>4, WriteChanges
  <2>6. m.files \in [Place -> SUBSET Data]
    BY DEF FolderStores, Contents
  <2> QED
    BY <2>4, <2>5, <2>6
<1>4. CASE m2 = Put(m, p, d)
  <2>1. Folders(p) \in SUBSET Place
    BY DEF Folders, Above
  <2> QED
    BY <1>4, <2>1, WriteChanges DEF Put
<1> QED
  BY <1>1, <1>2, <1>3, <1>4

\* A put that returns, raises or dies leaves its place as it was or with all of the
\* data, and disturbs no object anywhere (mkstemp and os.replace in
\* LocalFsObjectStore.put).
THEOREM PutIsWholeOrNothing ==
    ASSUME NEW m \in FolderStores, NEW p \in Named, NEW d \in Data,
           NEW m2 \in PutMayLeave(m, p, d)
    PROVE  /\ m2.files[p] = m.files[p] \/ m2.files[p] = {d}
           /\ \A q \in Place \ {p} : Exists(m.files, q) => m2.files[q] = m.files[q]
           /\ \A q \in Named \ {p} : m2.files[q] = m.files[q]
<1>1. m.files \in [Place -> SUBSET Data] /\ p \in Place /\ Named \subseteq Place
  BY DEF FolderStores, Contents, Named
<1>2. CASE m2.files = m.files
  BY <1>2
<1>3. ASSUME NEW t \in TempPlaces(m, p), \A q \in Place \ {t} : m2.files[q] = m.files[q]
      PROVE  /\ m2.files[p] = m.files[p]
             /\ \A q \in Place \ {p} : Exists(m.files, q) => m2.files[q] = m.files[q]
             /\ \A q \in Named \ {p} : m2.files[q] = m.files[q]
  <2>1. t \in Place /\ t \notin Named /\ ~Exists(m.files, t)
    BY DEF TempPlaces, Named
  <2> QED
    BY <1>1, <1>3, <2>1
<1>4. CASE m2.files = [m.files EXCEPT ![p] = {d}]
  BY <1>1, <1>4
<1>5. \/ m2.files = m.files
      \/ \E t \in TempPlaces(m, p) : \A q \in Place \ {t} : m2.files[q] = m.files[q]
      \/ m2.files = [m.files EXCEPT ![p] = {d}]
  BY <1>1, PutOutcomes
<1> QED
  BY <1>1, <1>2, <1>3, <1>4, <1>5

\* An object under a hash of its content is never written with anything else and
\* never written again, though writers see it missing at once and die at any point
\* (register_document, export_rows).
THEOREM HashedObjectsStay ==
    ASSUME NEW m \in FolderStores, NEW p \in Named, NEW hashed \in [Place -> Data],
           NEW m2 \in PutMayLeave(m, p, hashed[p]), Proven(m, hashed)
    PROVE  /\ Proven(m2, hashed)
           /\ Exists(m.files, p) => /\ m2.files[p] = m.files[p]
                                    /\ WriteOnceMayLeave(m, p, hashed[p]) = {m}
<1>1. p \in Place /\ hashed[p] \in Data /\ m.files \in [Place -> SUBSET Data]
  BY DEF Named, FolderStores, Contents
<1>2. /\ m2.files[p] = m.files[p] \/ m2.files[p] = {hashed[p]}
      /\ \A q \in Named \ {p} : m2.files[q] = m.files[q]
  BY <1>1, PutIsWholeOrNothing
<1>3. m.files[p] \subseteq {hashed[p]}
  BY DEF Proven
<1>4. Proven(m2, hashed)
  BY <1>2, <1>3 DEF Proven
<1>5. Exists(m.files, p) => m.files[p] = {hashed[p]}
  BY <1>3 DEF Exists
<1> QED
  BY <1>2, <1>4, <1>5 DEF WriteOnceMayLeave

\* A put that returns leaves both adapters with the same objects, when its bucket was
\* made and no key is a folder of another.
THEOREM SamePut ==
    ASSUME NEW m \in FolderStores, NEW s \in S3Stores, NEW p \in Named, NEW d \in Data,
           Agree(m, s), p.bucket \in s.buckets, ~FolderTaken(m, p), ~FileTaken(m, p)
    PROVE  /\ Put(m, p, d) \in PutMayLeave(m, p, d)
           /\ Agree(Put(m, p, d), S3Put(s, p, d))
<1>1. p \in Place /\ Checked(p) /\ Folders(p) \in SUBSET Place
  BY DEF Named, Folders, Above
<1>2. /\ m.files \in [Place -> SUBSET Data] /\ s.objects \in [Place -> SUBSET Data]
      /\ Named \subseteq Place
  BY DEF FolderStores, S3Stores, Contents, Named
<1>3. Put(m, p, d).files = [m.files EXCEPT ![p] = {d}]
  BY <1>1, WriteChanges DEF Put
<1>4. S3Put(s, p, d).objects = [s.objects EXCEPT ![p] = {d}]
  BY <1>1 DEF S3Put, S3Stores
<1>5. Agree(Put(m, p, d), S3Put(s, p, d))
  BY <1>1, <1>2, <1>3, <1>4 DEF Agree
<1> QED
  BY <1>1, <1>5 DEF PutMayLeave

\* Deleting leaves both adapters with the same objects, and may be repeated, which
\* retention does after a sweep that died.
THEOREM SameDelete ==
    ASSUME NEW m \in FolderStores, NEW s \in S3Stores, NEW p \in Named,
           Agree(m, s), ~FileTaken(m, p)
    PROVE  /\ Agree(Delete(m, p), S3Delete(s, p))
           /\ Delete(Delete(m, p), p) = Delete(m, p)
           /\ S3Delete(S3Delete(s, p), p) = S3Delete(s, p)
<1>1. p \in Place /\ Checked(p) /\ Named \subseteq Place
  BY DEF Named
<1>2. /\ m.files \in [Place -> SUBSET Data] /\ s.objects \in [Place -> SUBSET Data]
      /\ m \in [files : Contents, folders : SUBSET Place]
      /\ s \in [objects : Contents, buckets : SUBSET Bucket]
  BY DEF FolderStores, S3Stores, Contents
<1>3. Delete(m, p) = [m EXCEPT !.files[p] = {}]
  BY <1>1 DEF Delete
<1>4. /\ Delete(m, p).files = [m.files EXCEPT ![p] = {}]
      /\ Delete(m, p).folders = m.folders
  BY <1>2, <1>3
<1>5. /\ S3Delete(s, p).objects = [s.objects EXCEPT ![p] = {}]
      /\ S3Delete(s, p).buckets = s.buckets
  BY <1>2 DEF S3Delete
<1>6. Agree(Delete(m, p), S3Delete(s, p))
  BY <1>1, <1>2, <1>4, <1>5 DEF Agree
<1>7. [[m.files EXCEPT ![p] = {}] EXCEPT ![p] = {}] = [m.files EXCEPT ![p] = {}]
  BY <1>1, <1>2
<1>8. Delete(Delete(m, p), p) = Delete(m, p)
  <2> DEFINE f == [m.files EXCEPT ![p] = {}]
  <2>1. Delete(m, p) = [files |-> f, folders |-> m.folders]
    BY <1>2, <1>3
  <2>2. Delete(Delete(m, p), p) = [Delete(m, p) EXCEPT !.files[p] = {}]
    BY <1>1, <1>4 DEF Delete, FileTaken
  <2>3. [f EXCEPT ![p] = {}] = f
    BY <1>7
  <2> HIDE DEF f
  <2> QED
    BY <2>1, <2>2, <2>3
<1>9. S3Delete(S3Delete(s, p), p) = S3Delete(s, p)
  <2> DEFINE f == [s.objects EXCEPT ![p] = {}]
  <2>1. S3Delete(s, p) = [objects |-> f, buckets |-> s.buckets]
    BY <1>2 DEF S3Delete
  <2>2. S3Delete(S3Delete(s, p), p) = [S3Delete(s, p) EXCEPT !.objects[p] = {}]
    BY DEF S3Delete
  <2>3. [f EXCEPT ![p] = {}] = f
    BY <1>1, <1>2
  <2> HIDE DEF f
  <2> QED
    BY <2>1, <2>2, <2>3
<1> QED
  BY <1>6, <1>8, <1>9

\* Both adapters list the same keys, but for the temporary files of puts that died
\* beside the objects, which only the folders show.
THEOREM SameKeys ==
    ASSUME NEW m \in FolderStores, NEW s \in S3Stores, NEW b \in Bucket, Agree(m, s),
           \A q \in Place : Exists(s.objects, q) => q \in Named,
           \A q \in Place : Exists(m.files, q) => q \in Named \/ Temporary(q)
    PROVE  S3ListKeys(s, b) = {q \in ListKeys(m, b) : ~Temporary(q)}
BY DEF S3ListKeys, ListKeys, Agree, Exists, Named
================================================================================
