--------------------------------- MODULE Gate ---------------------------------
(***************************************************************************)
(* The structural checks of the quality gate (gate.py), as predicates on   *)
(* the context they are given: the encoding of the manifest, chunk sets,   *)
(* clean pages, and the registered documents with their page counts (0     *)
(* where W1 has not filled it).                                            *)
(***************************************************************************)
EXTENDS Integers, FiniteSets

CONSTANTS
    SchemaVersion,  \* the schema version this code reads
    MinOcr,         \* gate_min_ocr_confidence, in percent
    MaxDuplicates   \* gate_max_duplicate_rate, in percent

\* ocr of a page nothing was recognised on: min_ocr_conf is None.
NoOcr == -1

CheckSchemaVersions(ctx) ==
    \A record \in ctx.sets \cup ctx.pages : record.schema = SchemaVersion

\* The id of a chunk is made of its own content, in the encoding of its set.
CheckChunkIds(ctx) ==
    \A set \in ctx.sets : \A c \in set.chunks :
        c.of = c.text /\ c.enc = set.enc /\ c.doc = set.doc

\* Mutant: a document passes with one of its pages.
CheckSomePage(ctx) ==
    \A set \in ctx.sets : \E p \in ctx.pages : p.doc = set.doc

\* Only documents with a chunk set are looked at.
CheckPageCoverage(ctx) ==
    \A set \in ctx.sets :
        /\ set.doc \in DOMAIN ctx.documents /\ ctx.documents[set.doc].pages > 0
        /\ \A n \in 1..ctx.documents[set.doc].pages :
              \E p \in ctx.pages : p.doc = set.doc /\ p.page = n

CheckOcrConfidence(ctx) == \A p \in ctx.pages : p.ocr # NoOcr => p.ocr >= MinOcr

CheckPii(ctx) == \A p \in ctx.pages : p.pii = 0

CheckDuplicateRate(ctx) ==
    Cardinality({p \in ctx.pages : p.dup}) * 100 <= MaxDuplicates * Cardinality(ctx.pages)

\* vector is "fine", or else missing, of another length, not finite or zero.
CheckEmbeddings(ctx) ==
    \A set \in ctx.sets :
        set.enc = ctx.enc /\ \A c \in set.chunks : c.vector = "fine"

CheckLicences(ctx) ==
    \A d \in DOMAIN ctx.documents : ctx.documents[d].external => ctx.documents[d].licence

\* default_checks and auto_passed: the checks other lanes owe are skipped, which
\* does not block.
AutoPassed(ctx) ==
    /\ CheckSchemaVersions(ctx)
    /\ CheckChunkIds(ctx)
    /\ CheckPageCoverage(ctx)
    /\ CheckOcrConfidence(ctx)
    /\ CheckPii(ctx)
    /\ CheckDuplicateRate(ctx)
    /\ CheckEmbeddings(ctx)
    /\ CheckLicences(ctx)
=============================================================================
