------------------------------ MODULE Documents ------------------------------
(***************************************************************************)
(* Registered source files (documents.py, the document part of             *)
(* registry.py): the raw bucket and registry.doc_versions.  An upload is a *)
(* sequence of transactions and object store calls; several run at once,   *)
(* and each may die between two steps.                                     *)
(***************************************************************************)
EXTENDS Integers, Sequences, FiniteSets

CONSTANTS
    Doc,        \* doc_id: course and source id
    Content,    \* sha256 of a file; its raw key is made of it, and of the file's extension,
                \* which is left out: each upload stores the file under its own key
    Uploader,   \* processes that may register a document
    MaxDocs     \* bound: document versions that are registered

ASSUME MaxDocsAssumption == MaxDocs \in Nat

VARIABLES
    docs,       \* registry.doc_versions in the order of created_at
    raw,        \* the files in the raw bucket
    upload      \* what each uploader is doing, with the values it has read

docVars == <<docs, raw, upload>>

\* doc_version is a hash of both, so a document version is the pair.
Version == [doc : Doc, sha : Content]

\* supersedes is empty where the column is NULL.
DocRow == [version : Version, supersedes : SUBSET Version, retracted : BOOLEAN]

Waiting == [at |-> "waiting"]
UploadState ==
    {Waiting} \cup [at : {"store", "latest"}, version : Version]
              \cup [at : {"insert"}, version : Version, supersedes : SUBSET Version]

DocTypeOK ==
    /\ docs \in Seq(DocRow)
    /\ raw \subseteq Content
    /\ upload \in [Uploader -> UploadState]

DocInit ==
    /\ docs = <<>>
    /\ raw = {}
    /\ upload = [u \in Uploader |-> Waiting]

Registered == {docs[i].version : i \in DOMAIN docs}

\* latest_doc_version: the newest of the document that is not retracted, if any.
Latest(doc) ==
    LET live == {i \in DOMAIN docs : docs[i].version.doc = doc /\ ~docs[i].retracted}
    IN  {docs[i].version : i \in {k \in live : \A m \in live : m <= k}}

SupersededOf(versions) == versions \cap UNION {docs[i].supersedes : i \in DOMAIN docs}
RetractedOf(versions) ==
    versions \cap {docs[i].version : i \in {k \in DOMAIN docs : docs[k].retracted}}

-----------------------------------------------------------------------------
(* register_document and retract_document.                                 *)

GoOn(u, state) == upload' = [upload EXCEPT ![u] = state]

\* find_doc_version: a file that is registered already is returned as it is.
Register(u, version) ==
    /\ upload[u] = Waiting
    /\ version \notin Registered
    /\ Len(docs) < MaxDocs
    /\ GoOn(u, [at |-> "store", version |-> version])
    /\ UNCHANGED <<docs, raw>>

\* Mutant: the file is stored where it is already.
StoreWhatIsThere(u) ==
    /\ upload[u].at = "store"
    /\ raw' = raw \cup ({upload[u].version.sha} \cap raw)
    /\ GoOn(u, [upload[u] EXCEPT !.at = "latest"])
    /\ UNCHANGED docs

\* Mutant: the key is made of the version, not of the file.
StoreUnderVersion(u) ==
    /\ upload[u].at = "store"
    /\ raw' = raw \cup {upload[u].version}
    /\ GoOn(u, [upload[u] EXCEPT !.at = "latest"])
    /\ UNCHANGED docs

\* store.exists and store.put; a file is never overwritten.
Store(u) ==
    /\ upload[u].at = "store"
    /\ raw' = raw \cup {upload[u].version.sha}
    /\ GoOn(u, [upload[u] EXCEPT !.at = "latest"])
    /\ UNCHANGED docs

ReadLatest(u) ==
    /\ upload[u].at = "latest"
    /\ GoOn(u, [at |-> "insert", version |-> upload[u].version,
                supersedes |-> Latest(upload[u].version.doc)])
    /\ UNCHANGED <<docs, raw>>

\* Mutant: without the primary key.
InsertTwice(u) ==
    /\ upload[u].at = "insert"
    /\ Len(docs) < MaxDocs
    /\ docs' = Append(docs, [version |-> upload[u].version,
                             supersedes |-> upload[u].supersedes, retracted |-> FALSE])
    /\ GoOn(u, Waiting)
    /\ UNCHANGED raw

Insert(u) ==
    /\ upload[u].at = "insert"
    /\ upload[u].version \notin Registered
    /\ Len(docs) < MaxDocs
    /\ docs' = Append(docs, [version |-> upload[u].version,
                             supersedes |-> upload[u].supersedes, retracted |-> FALSE])
    /\ GoOn(u, Waiting)
    /\ UNCHANGED raw

\* The process dies, or the primary key turns down a version registered meanwhile.
GiveUp(u) ==
    /\ upload[u] # Waiting
    /\ GoOn(u, Waiting)
    /\ UNCHANGED <<docs, raw>>

Retract(i) ==
    /\ i \in DOMAIN docs /\ ~docs[i].retracted
    /\ docs' = [docs EXCEPT ![i].retracted = TRUE]
    /\ UNCHANGED <<raw, upload>>

DocNext ==
    \/ \E u \in Uploader, version \in Version : Register(u, version)
    \/ \E u \in Uploader : Store(u) \/ ReadLatest(u) \/ Insert(u) \/ GiveUp(u)
    \/ \E i \in DOMAIN docs : Retract(i)

\* A version corrects an earlier version of its document, never itself: of two
\* uploads of one file the second may read the first as the latest version, and
\* is turned down when it inserts its own row.
CorrectsAnEarlierOne ==
    \A i \in DOMAIN docs : \A old \in docs[i].supersedes :
        /\ old.doc = docs[i].version.doc /\ old # docs[i].version
        /\ \E k \in 1..i-1 : docs[k].version = old
=============================================================================
