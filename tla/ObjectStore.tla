----------------------------- MODULE ObjectStore -----------------------------
(***************************************************************************)
(* The object store (storage.py): the adapter that keeps buckets in        *)
(* folders, which tests use, and the S3 adapter; and the exports, which    *)
(* are written once under a hash of what they hold (exports.py).           *)
(*                                                                         *)
(* An object lies at a place, a bucket and the parts of its key.  A store  *)
(* gives each place a set of contents: none, or one.                       *)
(***************************************************************************)
EXTENDS Integers, Sequences

CONSTANTS
    Bucket,
    Part,       \* parts of keys
    TempName,   \* the names mkstemp gives its files; no caller uses one in a key
    Data

Place == [bucket : Bucket, key : Seq(Part)]
Contents == [Place -> SUBSET Data]

\* A folder store also has folders; a bucket is the folder with the empty key.
FolderStores == [files : Contents, folders : SUBSET Place]
S3Stores == [objects : Contents, buckets : SUBSET Bucket]

\* _check_key: not empty, not absolute, and never out of the bucket.
Checked(p) == p.key # <<>> /\ \A i \in DOMAIN p.key : p.key[i] \notin {"..", "/"}

Temporary(p) == p.key # <<>> /\ p.key[Len(p.key)] \in TempName
Named == {p \in Place : Checked(p) /\ ~Temporary(p)}

\* The folders a file at p lies in, the outermost n of them.
Above(p, n) == {f \in Place : /\ f.bucket = p.bucket
                              /\ Len(f.key) < n /\ Len(f.key) < Len(p.key)
                              /\ f.key = SubSeq(p.key, 1, Len(f.key))}
Folders(p) == Above(p, Len(p.key))

Exists(contents, p) == contents[p] # {}

-----------------------------------------------------------------------------
(* The folder adapter.                                                     *)

\* Where mkstemp may put a file for p: beside it, under a name that is free.
TempPlaces(m, p) ==
    {t \in Place : /\ Temporary(t) /\ Folders(t) = Folders(p)
                   /\ t \notin m.folders /\ ~Exists(m.files, t)}

MkDir(m, fs) == [m EXCEPT !.folders = @ \cup fs]
Write(m, p, data) == [m EXCEPT !.files[p] = {data}]

\* A file where put needs a folder makes mkdir raise, a folder at p os.replace.
FolderTaken(m, p) == \E f \in Folders(p) : Exists(m.files, f)
FileTaken(m, p) == p \in m.folders

\* What put leaves when it has returned.
Put(m, p, data) == Write(MkDir(m, Folders(p)), p, data)

\* What put may leave when it returns, raises or dies: some folders, or a temporary
\* file with part of the data, or all of it in its place.
Begun(m, p) == {MkDir(m, Above(p, n)) : n \in 0..Len(p.key)}
InTemp(m, p) ==
    {Write(MkDir(m, Folders(p)), x[1], x[2]) : x \in TempPlaces(m, p) \X Data}

PutMayLeave(m, p, data) ==
    IF ~Checked(p) \/ FolderTaken(m, p) THEN {m}
    ELSE Begun(m, p) \cup InTemp(m, p) \cup (IF FileTaken(m, p) THEN {} ELSE {Put(m, p, data)})

\* unlink; a folder at p makes it raise.
Delete(m, p) == IF Checked(p) /\ ~FileTaken(m, p) THEN [m EXCEPT !.files[p] = {}] ELSE m

ListKeys(m, b) == {p \in Place : p.bucket = b /\ Exists(m.files, p)}

-----------------------------------------------------------------------------
(* The S3 adapter: one request each, done or not.  A bucket that is not     *)
(* there makes put raise.                                                   *)

S3Put(s, p, data) ==
    IF Checked(p) /\ p.bucket \in s.buckets THEN [s EXCEPT !.objects[p] = {data}] ELSE s
S3Delete(s, p) == [s EXCEPT !.objects[p] = {}]
S3ListKeys(s, b) == {p \in Place : p.bucket = b /\ Exists(s.objects, p)}

-----------------------------------------------------------------------------
(* register_document and export_rows: a key is a hash of the data, and what *)
(* is there is not written again.                                           *)

WriteOnceMayLeave(m, p, data) == IF Exists(m.files, p) THEN {m} ELSE PutMayLeave(m, p, data)

\* Each object is what the hash in its key says.
Proven(m, hashed) == \A p \in Named : m.files[p] \subseteq {hashed[p]}

\* Both adapters hold the same under every name a caller uses.
Agree(m, s) == \A p \in Named : m.files[p] = s.objects[p]
=============================================================================
