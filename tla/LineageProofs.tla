----------------------------- MODULE LineageProofs -----------------------------
(***************************************************************************)
(* Registration, lineage and the sweep keep their promises for every       *)
(* number of uploaders, documents, versions and answers.                   *)
(***************************************************************************)
EXTENDS Lineage, SequenceTheorems, TLAPS

\* What an upload and a sweep that are under way carry.
LEMMA Fields ==
    /\ \A x \in UploadState :
          /\ x.at \in {"store", "latest", "insert"} => x.version \in Version
          /\ x.at = "insert" => x.supersedes \in SUBSET Version
    /\ \A x \in SweepState :
          /\ x.at = "cited" => x.version \in 1..MaxVersion
          /\ x.at \in {"replaced", "retracted"} => x.stale \in SUBSET Flag
          /\ x.at = "retracted" => x.replaced \in SUBSET Version
          /\ x.at \in {"mark", "tickets"} => x.flags \in SUBSET Flag
BY DEF UploadState, Waiting, SweepState, Idle

LEMMA StatesOfUploads ==
    /\ Waiting \in UploadState
    /\ \A x \in Version, old \in SUBSET Version :
          /\ [at |-> "store", version |-> x] \in UploadState
          /\ [at |-> "latest", version |-> x] \in UploadState
          /\ [at |-> "insert", version |-> x, supersedes |-> old] \in UploadState
BY DEF UploadState

LEMMA StatesOfSweeps ==
    /\ Idle \in SweepState
    /\ \A v \in 1..MaxVersion : [at |-> "cited", version |-> v] \in SweepState
    /\ \A F \in SUBSET Flag :
          /\ [at |-> "replaced", stale |-> F] \in SweepState
          /\ \A V \in SUBSET Version :
                [at |-> "retracted", stale |-> F, replaced |-> V] \in SweepState
          /\ [at |-> "mark", flags |-> F] \in SweepState
          /\ [at |-> "tickets", flags |-> F] \in SweepState
BY DEF SweepState

\* The state of an upload whose file was just stored.
LEMMA StoredUpload ==
    ASSUME NEW x \in UploadState, x.at = "store"
    PROVE  [x EXCEPT !.at = "latest"] = [at |-> "latest", version |-> x.version]
<1>1. x \in [at : {"store", "latest"}, version : Version]
  BY DEF UploadState, Waiting
<1>2. QED
  BY <1>1

\* What a set of registered versions is made of.
LEMMA Rows ==
    ASSUME DocTypeOK
    PROVE  /\ \A i \in DOMAIN docs : docs[i] \in DocRow
           /\ DOMAIN docs = 1..Len(docs) /\ Len(docs) \in Nat
           /\ Registered \subseteq Version
           /\ \A doc : Latest(doc) \subseteq Registered
           /\ \A doc : \A x \in Latest(doc) : x.doc = doc
           /\ \A V : SupersededOf(V) \subseteq V /\ RetractedOf(V) \subseteq V
<1>1. /\ \A i \in DOMAIN docs : docs[i] \in DocRow
      /\ DOMAIN docs = 1..Len(docs) /\ Len(docs) \in Nat
  BY DEF DocTypeOK
<1>2. QED
  BY <1>1 DEF Registered, Latest, SupersededOf, RetractedOf, DocRow

-----------------------------------------------------------------------------
(* Types.                                                                   *)

LEMMA DocTypes ==
    ASSUME DocTypeOK, DocNext \/ UNCHANGED docVars
    PROVE  DocTypeOK'
<1>1. CASE UNCHANGED docVars
  BY <1>1 DEF docVars, DocTypeOK
<1>2. ASSUME NEW u \in Uploader, NEW x \in Version, Register(u, x)
      PROVE  DocTypeOK'
  BY <1>2, StatesOfUploads DEF Register, GoOn, DocTypeOK
<1>3. ASSUME NEW u \in Uploader, Store(u)
      PROVE  DocTypeOK'
  <2>1. upload[u] \in UploadState /\ upload[u].at = "store"
    BY <1>3 DEF Store, DocTypeOK
  <2>2. upload[u].version \in Version /\ upload[u].version.sha \in Content
    BY <2>1, Fields DEF Version
  <2>3. [upload[u] EXCEPT !.at = "latest"] \in UploadState
    BY <2>1, <2>2, StoredUpload, StatesOfUploads
  <2> QED
    BY <1>3, <2>2, <2>3 DEF Store, GoOn, DocTypeOK
<1>4. ASSUME NEW u \in Uploader, ReadLatest(u)
      PROVE  DocTypeOK'
  <2>1. upload[u] \in UploadState /\ upload[u].at = "latest"
    BY <1>4 DEF ReadLatest, DocTypeOK
  <2>2. upload[u].version \in Version /\ Latest(upload[u].version.doc) \in SUBSET Version
    BY <2>1, Fields, Rows
  <2> QED
    BY <1>4, <2>2, StatesOfUploads DEF ReadLatest, GoOn, DocTypeOK
<1>5. ASSUME NEW u \in Uploader, Insert(u)
      PROVE  DocTypeOK'
  <2>1. upload[u] \in UploadState /\ upload[u].at = "insert"
    BY <1>5 DEF Insert, DocTypeOK
  <2> DEFINE row == [version |-> upload[u].version, supersedes |-> upload[u].supersedes,
                     retracted |-> FALSE]
  <2>2. row \in DocRow
    BY <2>1, Fields DEF DocRow
  <2>3. docs' = Append(docs, row)
    BY <1>5 DEF Insert
  <2> HIDE DEF row
  <2>4. docs' \in Seq(DocRow)
    BY <2>2, <2>3, AppendProperties DEF DocTypeOK
  <2> QED
    BY <1>5, <2>4, StatesOfUploads DEF Insert, GoOn, DocTypeOK
<1>6. ASSUME NEW u \in Uploader, GiveUp(u)
      PROVE  DocTypeOK'
  BY <1>6, StatesOfUploads DEF GiveUp, GoOn, DocTypeOK
<1>7. ASSUME NEW i \in DOMAIN docs, Retract(i)
      PROVE  DocTypeOK'
  <2>1. i \in 1..Len(docs) /\ docs[i] \in DocRow
    BY <1>7, Rows
  <2>2. [docs[i] EXCEPT !.retracted = TRUE] \in DocRow
    BY <2>1 DEF DocRow
  <2>3. docs' = [docs EXCEPT ![i] = [docs[i] EXCEPT !.retracted = TRUE]]
    BY <1>7 DEF Retract
  <2>4. docs' \in Seq(DocRow)
    BY <2>1, <2>2, <2>3, ExceptSeq DEF DocTypeOK
  <2> QED
    BY <1>7, <2>4 DEF Retract, DocTypeOK
<1> QED
  BY <1>1, <1>2, <1>3, <1>4, <1>5, <1>6, <1>7 DEF DocNext

\* As many versions as there may be.
Bounded == Len(content) <= MaxVersion

LEMMA SweepTypes ==
    ASSUME TypeOK, Bounded, SweepStep
    PROVE  TypeOK'
<1>0. /\ sweep \in SweepState
      /\ serving # 0 => serving \in 1..MaxVersion
      /\ SweepStep => UNCHANGED <<docVars, content, serving, stops>>
  BY BoundAssumption DEF TypeOK, Bounded, SweepStep, ReadAlias, ReadCited, ReadReplaced,
                         ReadRetracted, Mark, OpenTickets, others
<1> SUFFICES sweep' \in SweepState /\ answers' \in [Request -> Answer] /\ tickets' \subseteq Flag
  BY <1>0, DocTypes DEF TypeOK
<1>1. CASE ReadAlias
  BY <1>0, <1>1, StatesOfSweeps DEF ReadAlias, TypeOK
<1>2. CASE ReadCited
  <2>1. {f \in Flag : /\ ~answers[f[1]].corrected
                      /\ f[2] \in answers[f[1]].cites \ content[sweep.version]} \in SUBSET Flag
    OBVIOUS
  <2> QED
    BY <1>2, <2>1, StatesOfSweeps DEF ReadCited, TypeOK
<1>3. CASE ReadReplaced
  <2>1. sweep.stale \in SUBSET Flag
    BY <1>0, <1>3, Fields DEF ReadReplaced
  <2>2. Cited(sweep.stale) \subseteq Version
    BY <2>1 DEF Cited, Flag
  <2>3. SupersededOf(Cited(sweep.stale)) \in SUBSET Version
    BY <2>2 DEF SupersededOf
  <2> QED
    BY <1>3, <2>1, <2>3, StatesOfSweeps DEF ReadReplaced, TypeOK
<1>4. CASE ReadRetracted
  <2>1. sweep.stale \in SUBSET Flag
    BY <1>0, <1>4, Fields DEF ReadRetracted
  <2>2. \A V, W : Flagged(sweep.stale, V, W) \in SUBSET Flag
    BY <2>1 DEF Flagged
  <2> QED
    BY <1>4, <2>2, StatesOfSweeps DEF ReadRetracted, TypeOK
<1>5. CASE Mark
  <2>1. sweep.flags \in SUBSET Flag
    BY <1>0, <1>5, Fields DEF Mark
  <2>2. Marked(sweep.flags) \in [Request -> Answer]
    BY DEF Marked, Answer, TypeOK
  <2> QED
    BY <1>5, <2>1, <2>2, StatesOfSweeps DEF Mark, TypeOK
<1>6. CASE OpenTickets
  <2>1. sweep.flags \in SUBSET Flag
    BY <1>0, <1>6, Fields DEF OpenTickets
  <2> QED
    BY <1>6, <2>1, StatesOfSweeps DEF OpenTickets, TypeOK
<1> QED
  BY <1>1, <1>2, <1>3, <1>4, <1>5, <1>6 DEF SweepStep

\* A version is appended that holds registered versions only.
LEMMA Published ==
    ASSUME TypeOK, NEW add \in SUBSET Registered, NEW remove \in SUBSET Registered,
           Publish(add, remove)
    PROVE  \E all : /\ content' = Append(content, all)
                    /\ all \subseteq (IF serving = 0 THEN {} ELSE content[serving]) \cup add
BY DEF Publish

LEMMA VersionsTyped ==
    ASSUME TypeOK
    PROVE  \A v \in DOMAIN content : content[v] \in SUBSET Version
BY DEF TypeOK

LEMMA PublishTypes ==
    ASSUME TypeOK, Bounded, NEW add \in SUBSET Registered, NEW remove \in SUBSET Registered,
           Publish(add, remove)
    PROVE  TypeOK' /\ Bounded'
<1>1. PICK all : /\ content' = Append(content, all)
                 /\ all \subseteq (IF serving = 0 THEN {} ELSE content[serving]) \cup add
  BY Published
<1>2. Registered \subseteq Version
  BY Rows DEF TypeOK
<1>3. serving # 0 => content[serving] \in SUBSET Version
  BY VersionsTyped DEF TypeOK
<1>4. all \in SUBSET Version
  BY <1>1, <1>2, <1>3
<1>5. content' \in Seq(SUBSET Version) /\ Len(content') = Len(content) + 1 /\ Len(content) \in Nat
  BY <1>1, <1>4, AppendProperties DEF TypeOK
<1>6. serving' = Len(content') /\ Len(content) < MaxVersion
  BY DEF Publish
<1>7. UNCHANGED docVars /\ UNCHANGED <<answers, sweep, tickets, stops>>
  BY DEF Publish
<1> QED
  BY <1>5, <1>6, <1>7, DocTypes, BoundAssumption DEF TypeOK, Bounded

\* The types are kept by every step, with versions numbered up to their bound.
LEMMA StepTypes ==
    ASSUME TypeOK, Bounded, [Next]_vars
    PROVE  TypeOK' /\ Bounded'
<1>1. CASE UNCHANGED vars
  BY <1>1, DocTypes DEF vars, TypeOK, Bounded
<1>2. CASE DocNext /\ UNCHANGED <<content, serving, answers, sweep, tickets, stops>>
  BY <1>2, DocTypes DEF TypeOK, Bounded
<1>3. ASSUME NEW add \in SUBSET Registered, NEW remove \in SUBSET Registered,
             Publish(add, remove)
      PROVE  TypeOK' /\ Bounded'
  BY <1>3, PublishTypes
<1>4. ASSUME NEW v \in DOMAIN content, Rollback(v)
      PROVE  TypeOK' /\ Bounded'
  BY <1>4, DocTypes DEF Rollback, TypeOK, Bounded
<1>5. ASSUME NEW r \in Request, NEW v \in DOMAIN content, NEW cites \in SUBSET content[v],
             Reply(r, v, cites)
      PROVE  TypeOK' /\ Bounded'
  <2>1. [given |-> TRUE, cites |-> cites, corrected |-> FALSE] \in Answer
    BY VersionsTyped DEF Answer
  <2> QED
    BY <1>5, <2>1, DocTypes DEF Reply, TypeOK, Bounded
<1>6. CASE SweepStep
  <2>1. Bounded'
    BY <1>6 DEF Bounded, SweepStep, ReadAlias, ReadCited, ReadReplaced, ReadRetracted, Mark,
                OpenTickets, others
  <2> QED
    BY <1>6, <2>1, SweepTypes
<1>7. CASE Stop
  BY <1>7, DocTypes, StatesOfSweeps, BoundAssumption DEF Stop, TypeOK, Bounded
<1> QED
  BY <1>1, <1>2, <1>3, <1>4, <1>5, <1>6, <1>7 DEF Next

LEMMA InitTypes == Init => TypeOK /\ Bounded
<1> SUFFICES ASSUME Init PROVE TypeOK /\ Bounded
  OBVIOUS
<1>1. DocTypeOK
  BY StatesOfUploads DEF Init, DocInit, DocTypeOK
<1> QED
  BY <1>1, StatesOfSweeps, BoundAssumption DEF Init, TypeOK, Bounded, Unanswered, Answer

\* The types of the tables and of what uploads and sweeps carry hold for every
\* number of documents, versions and answers.
THEOREM TypeCorrect == Spec => []TypeOK
<1>1. Init => TypeOK /\ Bounded
  BY InitTypes
<1>2. TypeOK /\ Bounded /\ [Next]_vars => TypeOK' /\ Bounded'
  BY StepTypes
<1> QED
  BY <1>1, <1>2, PTL DEF Spec

-----------------------------------------------------------------------------
(* Registration: the file comes before its row, a row after those it       *)
(* corrects.                                                               *)

Uploads == \A u \in Uploader :
    /\ upload[u].at \in {"latest", "insert"} => upload[u].version.sha \in raw
    /\ upload[u].at = "insert" =>
          \A old \in upload[u].supersedes : old \in Registered /\ old.doc = upload[u].version.doc

FilesFirst == \A c \in Registered : c.sha \in raw

DocInv == DocTypeOK /\ Uploads /\ FilesFirst /\ CorrectsAnEarlierOne

\* No row goes, and no row forgets what it corrects or that it is retracted.
RowsStay == \A i \in DOMAIN docs :
    /\ i \in DOMAIN docs' /\ docs'[i].version = docs[i].version
    /\ docs'[i].supersedes = docs[i].supersedes
    /\ docs[i].retracted => docs'[i].retracted

Grown ==
    /\ Registered \subseteq Registered' /\ raw \subseteq raw'
    /\ \A c : Corrected(c) => Corrected(c)'
    /\ \A c : c \in RetractedOf({c}) => (c \in RetractedOf({c}))'

LEMMA Growing ==
    ASSUME RowsStay, raw \subseteq raw'
    PROVE  Grown
BY DEF RowsStay, Grown, Registered, Corrected, SupersededOf, RetractedOf

\* An upload that leaves the rows alone, at most with a file more.
LEMMA OtherUploadSteps ==
    ASSUME DocInv, UNCHANGED docs, raw \subseteq raw', NEW u \in Uploader, NEW state,
           GoOn(u, state),
           state.at \in {"latest", "insert"} => state.version.sha \in raw',
           state.at = "insert" =>
               \A old \in state.supersedes : old \in Registered /\ old.doc = state.version.doc
    PROVE  Uploads' /\ FilesFirst' /\ CorrectsAnEarlierOne' /\ RowsStay
<1>1. upload' = [upload EXCEPT ![u] = state] /\ upload \in [Uploader -> UploadState]
  BY DEF GoOn, DocInv, DocTypeOK
<1>2. Registered' = Registered
  BY DEF Registered
<1>3. Uploads'
  BY <1>1, <1>2 DEF Uploads, DocInv
<1>4. FilesFirst'
  BY <1>2 DEF FilesFirst, DocInv
<1>5. CorrectsAnEarlierOne'
  BY DEF CorrectsAnEarlierOne, DocInv
<1> QED
  BY <1>3, <1>4, <1>5 DEF RowsStay

LEMMA InsertStep ==
    ASSUME DocInv, NEW u \in Uploader, Insert(u)
    PROVE  Uploads' /\ FilesFirst' /\ CorrectsAnEarlierOne' /\ RowsStay
<1> DEFINE row == [version |-> upload[u].version, supersedes |-> upload[u].supersedes,
                   retracted |-> FALSE]
<1>1. upload[u] \in UploadState /\ upload[u].at = "insert" /\ upload[u].version \notin Registered
  BY DEF Insert, DocInv, DocTypeOK
<1>2. row \in DocRow /\ row.version = upload[u].version /\ row.supersedes = upload[u].supersedes
  BY <1>1, Fields DEF DocRow
<1>3. docs' = Append(docs, row) /\ raw' = raw /\ upload' = [upload EXCEPT ![u] = Waiting]
  BY DEF Insert, GoOn
<1> HIDE DEF row
<1>4. /\ docs' \in Seq(DocRow) /\ Len(docs') = Len(docs) + 1 /\ Len(docs) \in Nat
      /\ \A i \in 1..Len(docs) : docs'[i] = docs[i]
      /\ docs'[Len(docs) + 1] = row
  BY <1>2, <1>3, AppendProperties DEF DocInv, DocTypeOK
<1>5. DOMAIN docs = 1..Len(docs) /\ DOMAIN docs' = 1..Len(docs) + 1
  BY <1>4 DEF DocInv, DocTypeOK
<1>6. RowsStay
  BY <1>4, <1>5 DEF RowsStay
<1>7. Registered' = Registered \cup {row.version}
  BY <1>4, <1>5 DEF Registered
<1>8. Uploads'
  BY <1>3, <1>7 DEF Uploads, DocInv, DocTypeOK, Waiting
<1>9. FilesFirst'
  BY <1>1, <1>2, <1>3, <1>7 DEF FilesFirst, Uploads, DocInv
<1>10. ASSUME NEW i \in DOMAIN docs', NEW old \in docs'[i].supersedes
       PROVE  /\ old.doc = docs'[i].version.doc /\ old # docs'[i].version
              /\ \E k \in 1..i-1 : docs'[k].version = old
  <2>1. CASE i \in DOMAIN docs
    <3>1. docs'[i] = docs[i]
      BY <1>4, <1>5, <2>1
    <3>2. /\ old.doc = docs[i].version.doc /\ old # docs[i].version
          /\ \E k \in 1..i-1 : docs[k].version = old
      BY <1>10, <2>1, <3>1 DEF CorrectsAnEarlierOne, DocInv
    <3>3. \A k \in 1..i-1 : docs'[k] = docs[k]
      BY <1>4, <1>5, <2>1
    <3> QED
      BY <3>1, <3>2, <3>3
  <2>2. CASE i \notin DOMAIN docs
    <3>1. i = Len(docs) + 1 /\ docs'[i] = row
      BY <1>4, <1>5, <1>10, <2>2
    <3>2. old \in Registered /\ old.doc = row.version.doc
      BY <1>1, <1>2, <1>10, <3>1 DEF Uploads, DocInv
    <3>3. PICK k \in DOMAIN docs : docs[k].version = old
      BY <3>2 DEF Registered
    <3>4. k \in 1..i-1 /\ docs'[k].version = old
      BY <1>4, <1>5, <3>1, <3>3
    <3> QED
      BY <1>1, <1>2, <3>1, <3>2, <3>4
  <2> QED
    BY <2>1, <2>2
<1> QED
  BY <1>6, <1>8, <1>9, <1>10 DEF CorrectsAnEarlierOne

LEMMA RetractStep ==
    ASSUME DocInv, NEW i \in DOMAIN docs, Retract(i)
    PROVE  Uploads' /\ FilesFirst' /\ CorrectsAnEarlierOne' /\ RowsStay
<1> DEFINE row == [docs[i] EXCEPT !.retracted = TRUE]
<1>1. i \in 1..Len(docs) /\ docs[i] \in DocRow /\ Len(docs) \in Nat /\ DOMAIN docs = 1..Len(docs)
  BY Rows DEF DocInv
<1>2. /\ row \in DocRow /\ row.version = docs[i].version /\ row.supersedes = docs[i].supersedes
      /\ row.retracted
  BY <1>1 DEF DocRow
<1>3. docs' = [docs EXCEPT ![i] = row] /\ UNCHANGED <<raw, upload>>
  BY DEF Retract
<1> HIDE DEF row
<1>4. /\ Len(docs') = Len(docs) /\ docs' \in Seq(DocRow)
      /\ \A j \in 1..Len(docs) : docs'[j] = IF j = i THEN row ELSE docs[j]
  BY <1>1, <1>2, <1>3, ExceptSeq DEF DocInv, DocTypeOK
<1>5. DOMAIN docs' = 1..Len(docs)
  BY <1>4
<1>6. \A j \in 1..Len(docs) : /\ docs'[j].version = docs[j].version
                              /\ docs'[j].supersedes = docs[j].supersedes
                              /\ docs[j].retracted => docs'[j].retracted
  BY <1>2, <1>4
<1>7. RowsStay
  BY <1>1, <1>5, <1>6 DEF RowsStay
<1>8. Registered' = Registered
  BY <1>1, <1>5, <1>6 DEF Registered
<1>9. CorrectsAnEarlierOne'
  BY <1>1, <1>5, <1>6 DEF CorrectsAnEarlierOne, DocInv
<1> QED
  BY <1>3, <1>7, <1>8, <1>9 DEF Uploads, FilesFirst, DocInv

LEMMA DocSteps ==
    ASSUME DocInv, DocNext \/ UNCHANGED docVars
    PROVE  DocInv' /\ Grown
<1> SUFFICES Uploads' /\ FilesFirst' /\ CorrectsAnEarlierOne' /\ RowsStay /\ raw \subseteq raw'
  BY DocTypes, Growing DEF DocInv
<1>1. CASE UNCHANGED docVars
  <2>1. Registered' = Registered
    BY <1>1 DEF docVars, Registered
  <2> QED
    BY <1>1, <2>1 DEF docVars, DocInv, Uploads, FilesFirst, CorrectsAnEarlierOne, RowsStay
<1>2. ASSUME NEW u \in Uploader, NEW x \in Version, Register(u, x)
      PROVE  Uploads' /\ FilesFirst' /\ CorrectsAnEarlierOne' /\ RowsStay /\ raw \subseteq raw'
  <2>1. /\ GoOn(u, [at |-> "store", version |-> x]) /\ UNCHANGED <<docs, raw>>
    BY <1>2 DEF Register
  <2> QED
    BY <2>1, OtherUploadSteps
<1>3. ASSUME NEW u \in Uploader, Store(u)
      PROVE  Uploads' /\ FilesFirst' /\ CorrectsAnEarlierOne' /\ RowsStay /\ raw \subseteq raw'
  <2>1. upload[u] \in UploadState /\ upload[u].at = "store"
    BY <1>3 DEF Store, DocInv, DocTypeOK
  <2>2. GoOn(u, [at |-> "latest", version |-> upload[u].version])
    BY <1>3, <2>1, StoredUpload DEF Store
  <2>3. upload[u].version.sha \in raw' /\ raw \subseteq raw' /\ UNCHANGED docs
    BY <1>3 DEF Store
  <2> QED
    BY <2>2, <2>3, OtherUploadSteps
<1>4. ASSUME NEW u \in Uploader, ReadLatest(u)
      PROVE  Uploads' /\ FilesFirst' /\ CorrectsAnEarlierOne' /\ RowsStay /\ raw \subseteq raw'
  <2> DEFINE state == [at |-> "insert", version |-> upload[u].version,
                       supersedes |-> Latest(upload[u].version.doc)]
  <2>1. GoOn(u, state) /\ UNCHANGED <<docs, raw>> /\ upload[u].version.sha \in raw
    BY <1>4 DEF ReadLatest, DocInv, Uploads
  <2>2. \A old \in Latest(upload[u].version.doc) :
            old \in Registered /\ old.doc = upload[u].version.doc
    BY Rows DEF DocInv
  <2>3. /\ state.at = "insert" /\ state.version = upload[u].version
        /\ state.supersedes = Latest(upload[u].version.doc)
    OBVIOUS
  <2> HIDE DEF state
  <2> QED
    BY <2>1, <2>2, <2>3, OtherUploadSteps
<1>5. ASSUME NEW u \in Uploader, Insert(u)
      PROVE  Uploads' /\ FilesFirst' /\ CorrectsAnEarlierOne' /\ RowsStay /\ raw \subseteq raw'
  BY <1>5, InsertStep DEF Insert
<1>6. ASSUME NEW u \in Uploader, GiveUp(u)
      PROVE  Uploads' /\ FilesFirst' /\ CorrectsAnEarlierOne' /\ RowsStay /\ raw \subseteq raw'
  <2>1. GoOn(u, Waiting) /\ UNCHANGED <<docs, raw>> /\ Waiting.at = "waiting"
    BY <1>6 DEF GiveUp, Waiting
  <2> QED
    BY <2>1, OtherUploadSteps
<1>7. ASSUME NEW i \in DOMAIN docs, Retract(i)
      PROVE  Uploads' /\ FilesFirst' /\ CorrectsAnEarlierOne' /\ RowsStay /\ raw \subseteq raw'
  BY <1>7, RetractStep DEF Retract
<1> QED
  BY <1>1, <1>2, <1>3, <1>4, <1>5, <1>6, <1>7 DEF DocNext

-----------------------------------------------------------------------------
(* The sweep.  It carries citations of answers and corrections it has read; *)
(* neither is ever taken back, and no ticket is open for what it carries.   *)

Shown == \A v \in DOMAIN content : content[v] \subseteq Registered

Answers == \A r \in Request :
    /\ ~answers[r].given => answers[r].cites = {} /\ ~answers[r].corrected
    /\ \A c \in answers[r].cites : \E v \in DOMAIN content : c \in content[v]

Open(f) == f[2] \in answers[f[1]].cites /\ f \notin tickets

Sweeps ==
    /\ sweep.at \in {"replaced", "retracted"} => \A f \in sweep.stale : Open(f)
    /\ sweep.at = "retracted" => \A c \in sweep.replaced : Corrected(c)
    /\ sweep.at \in {"mark", "tickets"} => \A f \in sweep.flags : Open(f) /\ Corrected(f[2])
    /\ sweep.at = "tickets" => \A f \in sweep.flags : answers[f[1]].corrected

Ticketed == \A f \in tickets : answers[f[1]].corrected

SweepInv == Answers /\ Sweeps /\ Ticketed /\ FlaggedForACause

IInv == TypeOK /\ Bounded /\ DocInv /\ Shown /\ SweepInv

\* What a step must leave for a sweep to go on: citations stay, marks do not change.
Kept == \A r \in Request : /\ answers[r].cites \subseteq answers'[r].cites
                           /\ answers'[r].corrected = answers[r].corrected

LEMMA Quiet ==
    ASSUME TypeOK, Sweeps, Ticketed, FlaggedForACause, Grown, Kept, tickets' = tickets,
           sweep' = sweep \/ sweep' = Idle
    PROVE  Sweeps' /\ Ticketed' /\ FlaggedForACause'
<1>1. Ticketed' /\ FlaggedForACause'
  BY DEF Ticketed, FlaggedForACause, Kept, Grown, TypeOK, Flag
<1>2. CASE sweep' = Idle
  <2>1. sweep'.at = "idle"
    BY <1>2 DEF Idle
  <2> QED
    BY <1>1, <2>1 DEF Sweeps
<1>3. CASE sweep' = sweep
  <2>1. \A f \in Flag : Open(f) => Open(f)'
    BY DEF Open, Kept, Flag
  <2>2. /\ sweep.at \in {"replaced", "retracted"} => sweep.stale \in SUBSET Flag
        /\ sweep.at \in {"mark", "tickets"} => sweep.flags \in SUBSET Flag
    BY Fields DEF TypeOK
  <2>3. \A f \in Flag : f[1] \in Request
    BY DEF Flag
  <2>4. Sweeps'
    BY <1>3, <2>1, <2>2, <2>3 DEF Sweeps, Grown, Kept
  <2> QED
    BY <1>1, <2>4
<1> QED
  BY <1>2, <1>3

\* What supersedes or retracts a document version corrects it.
LEMMA ReadsCorrections ==
    \A V : \A c : c \in SupersededOf(V) \cup RetractedOf(V) => Corrected(c)
BY DEF SupersededOf, RetractedOf, Corrected

LEMMA SweepSteps ==
    ASSUME IInv, SweepStep
    PROVE  SweepInv'
<1>0. /\ sweep \in SweepState /\ UNCHANGED docVars /\ UNCHANGED content
      /\ DocInv' /\ Grown
  <2>1. UNCHANGED docVars /\ UNCHANGED content
    BY DEF SweepStep, ReadAlias, ReadCited, ReadReplaced, ReadRetracted, Mark, OpenTickets, others
  <2> QED
    BY <2>1, DocSteps DEF IInv, TypeOK
<1>1. \A c : Corrected(c)' <=> Corrected(c)
  BY <1>0 DEF docVars, Corrected, SupersededOf, RetractedOf
<1>2. CASE ReadAlias \/ ReadCited \/ ReadReplaced \/ ReadRetracted
  <2>1. UNCHANGED <<answers, tickets>>
    BY <1>2 DEF ReadAlias, ReadCited, ReadReplaced, ReadRetracted
  <2>2. Answers' /\ Ticketed' /\ FlaggedForACause'
    BY <1>0, <1>1, <2>1 DEF IInv, SweepInv, Answers, Ticketed, FlaggedForACause
  <2>3. \A f : Open(f)' <=> Open(f)
    BY <2>1 DEF Open
  <2>4. Sweeps'
    <3>1. CASE ReadAlias
      <4>1. sweep'.at = "cited"
        BY <3>1 DEF ReadAlias
      <4> QED
        BY <4>1 DEF Sweeps
    <3>2. CASE ReadCited
      <4> DEFINE F == {f \in Flag : /\ ~answers[f[1]].corrected
                                    /\ f[2] \in answers[f[1]].cites \ content[sweep.version]}
      <4>1. sweep' = [at |-> "replaced", stale |-> F]
        BY <3>2 DEF ReadCited
      <4>2. \A f \in F : Open(f)
        BY DEF Open, IInv, SweepInv, Ticketed
      <4> HIDE DEF F
      <4>3. sweep'.at = "replaced" /\ sweep'.stale = F
        BY <4>1
      <4> QED
        BY <2>3, <4>2, <4>3 DEF Sweeps
    <3>3. CASE ReadReplaced
      <4>1. /\ sweep'.at = "retracted" /\ sweep'.stale = sweep.stale
            /\ sweep'.replaced = SupersededOf(Cited(sweep.stale)) /\ sweep.at = "replaced"
        BY <3>3 DEF ReadReplaced
      <4> QED
        BY <1>1, <2>3, <4>1, ReadsCorrections DEF Sweeps, IInv, SweepInv
    <3>4. CASE ReadRetracted
      <4>1. /\ sweep.at = "retracted" /\ sweep'.at = "mark"
            /\ sweep'.flags = Flagged(sweep.stale, sweep.replaced,
                                      RetractedOf(Cited(sweep.stale)))
        BY <3>4 DEF ReadRetracted
      <4>2. \A f \in sweep'.flags : f \in sweep.stale /\ Corrected(f[2])
        BY <4>1, ReadsCorrections DEF Flagged, Sweeps, IInv, SweepInv
      <4> QED
        BY <1>1, <2>3, <4>1, <4>2 DEF Sweeps, IInv, SweepInv
    <3> QED
      BY <1>2, <3>1, <3>2, <3>3, <3>4
  <2> QED
    BY <2>2, <2>4 DEF SweepInv
<1>3. CASE Mark
  <2>1. /\ sweep.at = "mark" /\ sweep'.at = "tickets" /\ sweep'.flags = sweep.flags
        /\ answers' = Marked(sweep.flags) /\ tickets' = tickets
    BY <1>3 DEF Mark
  <2>2. \A f \in sweep.flags : f \in Flag /\ f[1] \in Request /\ Open(f) /\ Corrected(f[2])
    <3>1. sweep.flags \in SUBSET Flag
      BY <1>0, <2>1, Fields
    <3> QED
      BY <2>1, <3>1 DEF Sweeps, IInv, SweepInv, Flag
  <2>3. ASSUME NEW r \in Request
        PROVE  /\ answers'[r].given = answers[r].given /\ answers'[r].cites = answers[r].cites
               /\ answers'[r].corrected <=> answers[r].corrected \/ \E f \in sweep.flags : f[1] = r
    <3>1. answers[r] \in Answer
      BY DEF IInv, TypeOK
    <3>2. answers'[r] = [answers[r] EXCEPT !.corrected = @ \/ \E f \in sweep.flags : f[1] = r]
      BY <2>1 DEF Marked
    <3> QED
      BY <3>1, <3>2 DEF Answer
  <2>4. Answers'
    BY <1>0, <2>2, <2>3 DEF IInv, SweepInv, Answers, Open
  <2>5. Ticketed'
    BY <2>1, <2>3 DEF IInv, SweepInv, Ticketed, TypeOK, Flag
  <2>6. FlaggedForACause'
    BY <1>1, <2>2, <2>3 DEF IInv, SweepInv, FlaggedForACause, Open
  <2>7. Sweeps'
    BY <1>1, <2>1, <2>2, <2>3 DEF Sweeps, Open
  <2> QED
    BY <2>4, <2>5, <2>6, <2>7 DEF SweepInv
<1>4. CASE OpenTickets
  <2>1. /\ sweep.at = "tickets" /\ sweep'.at = "idle" /\ tickets' = tickets \cup sweep.flags
        /\ answers' = answers
    BY <1>4 DEF OpenTickets, Idle
  <2>2. Sweeps' /\ Ticketed'
    BY <2>1 DEF Sweeps, Ticketed, IInv, SweepInv
  <2> QED
    BY <1>0, <1>1, <2>1, <2>2 DEF IInv, SweepInv, Answers, FlaggedForACause
<1> QED
  BY <1>2, <1>3, <1>4 DEF SweepStep

LEMMA PublishStep ==
    ASSUME IInv, NEW add \in SUBSET Registered, NEW remove \in SUBSET Registered,
           Publish(add, remove)
    PROVE  Shown' /\ Answers'
<1>1. PICK all : /\ content' = Append(content, all)
                 /\ all \subseteq (IF serving = 0 THEN {} ELSE content[serving]) \cup add
  BY Published DEF IInv
<1>2. /\ all \subseteq Registered
      /\ Registered' = Registered /\ answers' = answers /\ content \in Seq(SUBSET Version)
  BY <1>1 DEF Publish, docVars, Registered, IInv, Shown, TypeOK
<1>3. all \in SUBSET Version
  BY <1>2, Rows DEF IInv, TypeOK
<1>4. /\ Len(content) \in Nat
      /\ DOMAIN content = 1..Len(content) /\ DOMAIN content' = 1..Len(content) + 1
      /\ \A v \in 1..Len(content) : content'[v] = content[v]
      /\ content'[Len(content) + 1] = all
  <2>1. content' \in Seq(SUBSET Version) /\ Len(content') = Len(content) + 1
    BY <1>1, <1>2, <1>3, AppendProperties
  <2> QED
    BY <1>1, <1>2, <1>3, <2>1, AppendProperties
<1>5. Shown'
  BY <1>2, <1>4 DEF Shown, IInv
<1>6. Answers'
  BY <1>2, <1>4 DEF Answers, IInv, SweepInv
<1> QED
  BY <1>5, <1>6

LEMMA ReplyStep ==
    ASSUME IInv, NEW r \in Request, NEW v \in DOMAIN content, NEW cites \in SUBSET content[v],
           Reply(r, v, cites)
    PROVE  Shown' /\ Answers' /\ Kept
<1> DEFINE answer == [given |-> TRUE, cites |-> cites, corrected |-> FALSE]
<1>1. /\ ~answers[r].given /\ answers' = [answers EXCEPT ![r] = answer]
      /\ UNCHANGED <<docVars, content>> /\ answers \in [Request -> Answer]
  BY DEF Reply, IInv, TypeOK
<1>2. answer.given /\ answer.cites = cites /\ answer.corrected = FALSE
  OBVIOUS
<1> HIDE DEF answer
<1>3. Shown'
  BY <1>1 DEF docVars, Shown, Registered, IInv
<1>4. answers[r].cites = {} /\ answers[r].corrected = FALSE
  BY <1>1 DEF IInv, SweepInv, Answers, Answer
<1>5. Kept
  BY <1>1, <1>2, <1>4 DEF Kept
<1>6. Answers'
  BY <1>1, <1>2 DEF Answers, IInv, SweepInv
<1> QED
  BY <1>3, <1>5, <1>6

LEMMA InvStep ==
    ASSUME IInv, [Next]_vars
    PROVE  IInv' /\ Grown
<1>1. TypeOK' /\ Bounded'
  BY StepTypes DEF IInv
<1>2. CASE SweepStep
  <2>1. UNCHANGED <<docVars, content>>
    BY <1>2 DEF SweepStep, ReadAlias, ReadCited, ReadReplaced, ReadRetracted, Mark,
                OpenTickets, others
  <2>2. DocInv' /\ Grown
    BY <2>1, DocSteps DEF IInv
  <2>3. Shown'
    BY <2>1 DEF docVars, Shown, Registered, IInv
  <2> QED
    BY <1>1, <1>2, <2>2, <2>3, SweepSteps DEF IInv
<1>3. ASSUME DocNext \/ UNCHANGED docVars, Shown', Answers', Kept, tickets' = tickets,
             sweep' = sweep \/ sweep' = Idle
      PROVE  IInv' /\ Grown
  <2>1. DocInv' /\ Grown
    BY <1>3, DocSteps DEF IInv
  <2>2. Sweeps' /\ Ticketed' /\ FlaggedForACause'
    BY <1>3, <2>1, Quiet DEF IInv, SweepInv
  <2> QED
    BY <1>1, <1>3, <2>1, <2>2 DEF IInv, SweepInv
<1>4. ASSUME UNCHANGED <<content, answers>>, DocNext \/ UNCHANGED docVars
      PROVE  Shown' /\ Answers' /\ Kept
  <2>1. Registered \subseteq Registered'
    BY <1>4, DocSteps DEF IInv, Grown
  <2> QED
    BY <1>4, <2>1 DEF Shown, Answers, Kept, IInv, SweepInv
<1>5. CASE UNCHANGED vars
  BY <1>3, <1>4, <1>5 DEF vars
<1>6. CASE DocNext /\ UNCHANGED <<content, serving, answers, sweep, tickets, stops>>
  BY <1>3, <1>4, <1>6
<1>7. ASSUME NEW add \in SUBSET Registered, NEW remove \in SUBSET Registered,
             Publish(add, remove)
      PROVE  IInv' /\ Grown
  <2>1. UNCHANGED docVars /\ answers' = answers /\ sweep' = sweep /\ tickets' = tickets
    BY <1>7 DEF Publish
  <2>2. Kept
    BY <2>1 DEF Kept
  <2> QED
    BY <1>3, <1>7, <2>1, <2>2, PublishStep
<1>8. ASSUME NEW v \in DOMAIN content, Rollback(v)
      PROVE  IInv' /\ Grown
  BY <1>3, <1>4, <1>8 DEF Rollback
<1>9. ASSUME NEW r \in Request, NEW v \in DOMAIN content, NEW cites \in SUBSET content[v],
             Reply(r, v, cites)
      PROVE  IInv' /\ Grown
  <2>1. UNCHANGED docVars /\ sweep' = sweep /\ tickets' = tickets
    BY <1>9 DEF Reply
  <2> QED
    BY <1>3, <1>9, <2>1, ReplyStep
<1>10. CASE Stop
  BY <1>3, <1>4, <1>10 DEF Stop
<1> QED
  BY <1>2, <1>5, <1>6, <1>7, <1>8, <1>9, <1>10 DEF Next

LEMMA InvInit == Init => IInv
<1> SUFFICES ASSUME Init PROVE IInv
  OBVIOUS
<1>1. /\ TypeOK /\ Bounded /\ DOMAIN docs = {} /\ DOMAIN content = {} /\ tickets = {}
      /\ sweep.at = "idle"
  BY InitTypes DEF Init, DocInit, Idle
<1>2. \A u \in Uploader : upload[u].at = "waiting"
  BY DEF Init, DocInit, Waiting
<1>3. \A r \in Request : answers[r].cites = {} /\ ~answers[r].corrected
  BY DEF Init, Unanswered
<1>4. DocInv
  BY <1>1, <1>2 DEF TypeOK, DocInv, Uploads, FilesFirst, Registered, CorrectsAnEarlierOne
<1>5. SweepInv
  BY <1>1, <1>3 DEF SweepInv, Answers, Sweeps, Ticketed, FlaggedForACause
<1> QED
  BY <1>1, <1>4, <1>5 DEF IInv, Shown

\* The inductive invariant holds in every reachable state.
LEMMA Inductive == Spec => []IInv
<1>1. IInv /\ [Next]_vars => IInv'
  BY InvStep
<1> QED
  BY <1>1, InvInit, PTL DEF Spec

\* Whatever uploads race and die, a version supersedes only earlier versions of
\* its own document.
THEOREM CorrectionsGoBack == Spec => []CorrectsAnEarlierOne
<1>1. IInv => CorrectsAnEarlierOne
  BY DEF IInv, DocInv
<1> QED
  BY <1>1, Inductive, PTL

\* Every cited and every shown source is registered, with its raw file stored.
THEOREM SourcesAreKept == Spec => []TraceReachesRaw
<1>1. IInv => TraceReachesRaw
  BY DEF IInv, DocInv, Shown, FilesFirst, SweepInv, Answers, TraceReachesRaw, Traced
<1> QED
  BY <1>1, Inductive, PTL

\* However sweeps, publishes, rollbacks and answers interleave, only answers with
\* a corrected source are flagged.
THEOREM FlagsHaveACause == Spec => []FlaggedForACause
<1>1. IInv => FlaggedForACause
  BY DEF IInv, SweepInv
<1> QED
  BY <1>1, Inductive, PTL

LEMMA NewTickets ==
    ASSUME IInv, [Next]_vars
    PROVE  tickets' # tickets => sweep.flags \cap tickets = {}
<1>1. CASE OpenTickets
  BY <1>1 DEF OpenTickets, IInv, SweepInv, Sweeps, Open
<1>2. CASE ~OpenTickets
  <2>1. tickets' = tickets
    BY <1>2 DEF Next, vars, Publish, Rollback, Reply, SweepStep, ReadAlias, ReadCited,
                ReadReplaced, ReadRetracted, Mark, Stop
  <2> QED
    BY <2>1
<1> QED
  BY <1>1, <1>2

\* A citation gets one ticket, however many sweeps run and die.
THEOREM OneTicketEach == Spec => TicketOnce
<1>1. IInv /\ [Next]_vars => [tickets' # tickets => sweep.flags \cap tickets = {}]_vars
  BY NewTickets
<1> QED
  BY <1>1, Inductive, PTL DEF Spec, TicketOnce

\* What a sweep has caught leaves it by a mark only.
LEMMA StaysCaught ==
    ASSUME IInv, [Next]_vars, NEW r \in Request, NEW c \in Version, Caught(r, c)
    PROVE  Caught(r, c)' \/ answers'[r].corrected \/ stops' # stops
<1>1. Grown
  BY InvStep
<1>2. CASE SweepStep
  <2>1. UNCHANGED docVars
    BY <1>2 DEF SweepStep, ReadAlias, ReadCited, ReadReplaced, ReadRetracted, Mark,
                OpenTickets, others
  <2>2. sweep.at \in {"replaced", "retracted", "mark"}
    BY DEF Caught
  <2>3. CASE ReadReplaced
    <3>1. /\ sweep.at = "replaced" /\ sweep'.at = "retracted" /\ sweep'.stale = sweep.stale
          /\ sweep'.replaced = SupersededOf(Cited(sweep.stale))
      BY <2>3 DEF ReadReplaced
    <3>2. <<r, c>> \in sweep.stale /\ Corrected(c)
      BY <3>1 DEF Caught
    <3>3. c \in Cited(sweep.stale)
      BY <3>2 DEF Cited
    <3>4. c \in SupersededOf(Cited(sweep.stale)) \/ c \in RetractedOf({c})
      BY <3>2, <3>3 DEF Corrected, SupersededOf
    <3>5. c \in sweep'.replaced \/ (c \in RetractedOf({c}))'
      BY <1>1, <3>1, <3>4 DEF Grown
    <3>6. QED
      BY <3>1, <3>2, <3>5 DEF Caught
  <2>4. CASE ReadRetracted
    <3>1. /\ sweep.at = "retracted" /\ sweep'.at = "mark"
          /\ sweep'.flags = Flagged(sweep.stale, sweep.replaced,
                                    RetractedOf(Cited(sweep.stale)))
      BY <2>4 DEF ReadRetracted
    <3>2. <<r, c>> \in sweep.stale /\ (c \in sweep.replaced \/ c \in RetractedOf({c}))
      BY <3>1 DEF Caught
    <3>3. c \in Cited(sweep.stale)
      BY <3>2 DEF Cited
    <3>4. c \in sweep.replaced \/ c \in RetractedOf(Cited(sweep.stale))
      BY <3>2, <3>3 DEF RetractedOf
    <3>5. <<r, c>> \in sweep'.flags
      BY <3>1, <3>2, <3>4 DEF Flagged
    <3>6. QED
      BY <3>1, <3>5 DEF Caught
  <2>5. CASE Mark
    <3>1. sweep.at = "mark" /\ answers' = Marked(sweep.flags)
      BY <2>5 DEF Mark
    <3>2. <<r, c>> \in sweep.flags
      BY <3>1 DEF Caught
    <3>3. answers[r] \in Answer
      BY DEF IInv, TypeOK
    <3>4. answers'[r] = [answers[r] EXCEPT !.corrected = @ \/ \E f \in sweep.flags : f[1] = r]
      BY <3>1 DEF Marked
    <3>5. \E f \in sweep.flags : f[1] = r
      BY <3>2
    <3>6. QED
      BY <3>3, <3>4, <3>5 DEF Answer
  <2>6. QED
    BY <1>2, <2>2, <2>3, <2>4, <2>5
       DEF SweepStep, ReadAlias, ReadCited, OpenTickets, Idle
<1>3. CASE Stop
  <2>1. stops' = stops + 1 /\ stops \in Nat
    BY <1>3 DEF Stop, IInv, TypeOK
  <2>2. QED
    BY <2>1
<1>4. CASE ~SweepStep /\ ~Stop
  <2>1. sweep' = sweep
    BY <1>4 DEF Next, vars, Publish, Rollback, Reply
  <2>2. QED
    BY <1>1, <2>1 DEF Caught, Grown
<1>5. QED
  BY <1>2, <1>3, <1>4

\* Whatever uploads, retractions, publishes and rollbacks come between the reads of a
\* sweep, what was corrected when it began to read is marked, unless it dies: the safety
\* half of EventuallyFlagged (sweep_superseded).
THEOREM SweepsOverlookNothing == Spec => NothingSlips
<1>1. ASSUME IInv, [Next]_vars, NEW r \in Request, NEW c \in Version,
             ReadCited, ~answers[r].corrected, Corrected(c),
             c \in answers[r].cites \ content[sweep.version]
      PROVE  Caught(r, c)'
  <2> DEFINE stale == {f \in Flag : /\ ~answers[f[1]].corrected
                                    /\ f[2] \in answers[f[1]].cites \ content[sweep.version]}
  <2>1. sweep' = [at |-> "replaced", stale |-> stale]
    BY <1>1 DEF ReadCited
  <2>2. <<r, c>> \in stale
    BY <1>1 DEF Flag
  <2>3. Corrected(c)'
    BY <1>1, InvStep DEF Grown
  <2> HIDE DEF stale
  <2>4. sweep'.at = "replaced" /\ sweep'.stale = stale
    BY <2>1
  <2>5. QED
    BY <2>2, <2>3, <2>4 DEF Caught
<1>2. ASSUME IInv, [Next]_vars
      PROVE  [\A r \in Request, c \in Version :
                /\ ReadCited /\ ~answers[r].corrected /\ Corrected(c)
                      /\ c \in answers[r].cites \ content[sweep.version] => Caught(r, c)'
                /\ Caught(r, c) =>
                      Caught(r, c)' \/ answers'[r].corrected \/ stops' # stops]_vars
  BY <1>1, <1>2, StaysCaught
<1>3. QED
  BY <1>2, Inductive, PTL DEF Spec, NothingSlips
=============================================================================
