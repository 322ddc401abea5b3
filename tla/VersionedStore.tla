--------------------------- MODULE VersionedStore ---------------------------
(***************************************************************************)
(* What the knowledge base promises its readers, whatever publish does     *)
(* underneath: published versions are numbered upwards, each shows a set   *)
(* of chunks that never changes, and the serving alias names one of them.  *)
(***************************************************************************)
EXTENDS Integers

CONSTANTS Version, Chunk

VARIABLES
    content,    \* published version -> the chunks it shows
    serving     \* the version queries go to, 0 before the first publish

Init ==
    /\ content = [v \in {} |-> {}]
    /\ serving = 0

\* A version above all others appears with its chunks, and is served, at once.
Publish(v) ==
    /\ \A u \in DOMAIN content : u < v
    /\ DOMAIN content' = DOMAIN content \cup {v}
    /\ \A u \in DOMAIN content : content'[u] = content[u]
    /\ content'[v] \subseteq Chunk
    /\ serving' = v

Rollback(v) ==
    /\ v \in DOMAIN content
    /\ serving' = v
    /\ UNCHANGED content

Next == \E v \in Version : Publish(v) \/ Rollback(v)

Spec == Init /\ [][Next]_<<content, serving>>
=============================================================================
