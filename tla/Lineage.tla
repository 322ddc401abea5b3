------------------------------- MODULE Lineage -------------------------------
(***************************************************************************)
(* Lineage (lineage.py) over the registered documents: the trace of a      *)
(* chunk to its raw file, and the daily sweep that flags answers whose     *)
(* source was corrected and opens tickets for them.  A sweep reads the     *)
(* alias, the citations, the corrections and the retractions one after     *)
(* another while uploads, retractions, publishes, rollbacks and answers go *)
(* on.                                                                     *)
(*                                                                         *)
(* Knowledge base versions are as VersionedStore promises them.  A         *)
(* document version stands for its chunks, all stored for good.            *)
(***************************************************************************)
EXTENDS Documents

CONSTANTS
    Request,        \* requests that may be answered
    MaxVersion,     \* bound: knowledge base versions that are published
    MaxStops        \* bound: sweeps that die

ASSUME BoundAssumption == MaxVersion \in Nat /\ MaxStops \in Nat

VARIABLES
    content,    \* published knowledge base version -> the document versions it shows
    serving,    \* the alias, 0 before the first publish
    answers,    \* ops.interactions with ops.citations: request -> row
    sweep,      \* what the sweep is doing, with the values it has read
    tickets,    \* correction tickets: <<request, cited document version>>
    stops       \* how many sweeps have died

vars == <<docVars, content, serving, answers, sweep, tickets, stops>>
others == <<docVars, content, serving, stops>>

Answer == [given : BOOLEAN, cites : SUBSET Version, corrected : BOOLEAN]
Unanswered == [given |-> FALSE, cites |-> {}, corrected |-> FALSE]
Flag == Request \X Version

Idle == [at |-> "idle"]
SweepState ==
    {Idle} \cup [at : {"cited"}, version : 1..MaxVersion]
           \cup [at : {"replaced"}, stale : SUBSET Flag]
           \cup [at : {"retracted"}, stale : SUBSET Flag, replaced : SUBSET Version]
           \cup [at : {"mark", "tickets"}, flags : SUBSET Flag]

TypeOK ==
    /\ DocTypeOK
    /\ content \in Seq(SUBSET Version)
    /\ serving \in 0..Len(content)
    /\ answers \in [Request -> Answer]
    /\ sweep \in SweepState
    /\ tickets \subseteq Flag
    /\ stops \in 0..MaxStops

Init ==
    /\ DocInit
    /\ content = <<>> /\ serving = 0
    /\ answers = [r \in Request |-> Unanswered]
    /\ sweep = Idle
    /\ tickets = {}
    /\ stops = 0

-----------------------------------------------------------------------------
(* The knowledge base and the services.                                    *)

\* create_candidate to publish: a version built on the serving one.
Publish(add, remove) ==
    /\ Len(content) < MaxVersion
    /\ LET base == IF serving = 0 THEN {} ELSE content[serving]
           all == base \cup add
           added == {i \in DOMAIN docs : docs[i].version \in add}
           gone == remove \cup UNION {docs[i].supersedes : i \in added}
       IN  content' = Append(content, all \ (gone \cup RetractedOf(all)))
    /\ serving' = Len(content')
    /\ UNCHANGED <<docVars, answers, sweep, tickets, stops>>

Rollback(v) ==
    /\ v \in DOMAIN content
    /\ serving' = v
    /\ UNCHANGED <<docVars, content, answers, sweep, tickets, stops>>

\* An answer from the version its request was pinned to, which may be an older one.
Reply(r, v, cites) ==
    /\ ~answers[r].given
    /\ cites \subseteq content[v]
    /\ answers' = [answers EXCEPT ![r] = [given |-> TRUE, cites |-> cites, corrected |-> FALSE]]
    /\ UNCHANGED <<docVars, content, serving, sweep, tickets, stops>>

-----------------------------------------------------------------------------
(* sweep_superseded.                                                       *)

ReadAlias ==
    /\ sweep = Idle /\ serving # 0
    /\ sweep' = [at |-> "cited", version |-> serving]
    /\ UNCHANGED <<others, answers, tickets>>

\* Citations of unflagged answers, less the chunks active in the version read.
ReadCited ==
    /\ sweep.at = "cited"
    /\ sweep' = [at |-> "replaced",
                 stale |-> {f \in Flag : /\ ~answers[f[1]].corrected
                                         /\ f[2] \in answers[f[1]].cites \ content[sweep.version]}]
    /\ UNCHANGED <<others, answers, tickets>>

Cited(flags) == {f[2] : f \in flags}

ReadReplaced ==
    /\ sweep.at = "replaced"
    /\ sweep' = [at |-> "retracted", stale |-> sweep.stale,
                 replaced |-> SupersededOf(Cited(sweep.stale))]
    /\ UNCHANGED <<others, answers, tickets>>

\* Mutant: whatever is no longer served counts as corrected.
AllStale(stale, replaced, retracted) == stale

\* Mutant: retractions are read and not used.
OnlyReplaced(stale, replaced, retracted) == {f \in stale : f[2] \in replaced}

Flagged(stale, replaced, retracted) == {f \in stale : f[2] \in replaced \cup retracted}

ReadRetracted ==
    /\ sweep.at = "retracted"
    /\ sweep' = [at |-> "mark", flags |-> Flagged(sweep.stale, sweep.replaced,
                                                  RetractedOf(Cited(sweep.stale)))]
    /\ UNCHANGED <<others, answers, tickets>>

\* Mutant: the flags are returned and the answers not marked.
Unmarked(flags) == answers

Marked(flags) ==
    [r \in Request |-> [answers[r] EXCEPT !.corrected = @ \/ \E f \in flags : f[1] = r]]

Mark ==
    /\ sweep.at = "mark"
    /\ answers' = Marked(sweep.flags)
    /\ sweep' = [at |-> "tickets", flags |-> sweep.flags]
    /\ UNCHANGED <<others, tickets>>

\* The daily schedule opens a ticket for each flag it got back.
OpenTickets ==
    /\ sweep.at = "tickets"
    /\ tickets' = tickets \cup sweep.flags
    /\ sweep' = Idle
    /\ UNCHANGED <<others, answers>>

Stop ==
    /\ sweep # Idle /\ stops < MaxStops
    /\ sweep' = Idle
    /\ stops' = stops + 1
    /\ UNCHANGED <<docVars, content, serving, answers, tickets>>

SweepStep == ReadAlias \/ ReadCited \/ ReadReplaced \/ ReadRetracted \/ Mark \/ OpenTickets

Next ==
    \/ DocNext /\ UNCHANGED <<content, serving, answers, sweep, tickets, stops>>
    \/ \E add, remove \in SUBSET Registered : Publish(add, remove)
    \/ \E v \in DOMAIN content : Rollback(v)
    \/ \E r \in Request, v \in DOMAIN content : \E cites \in SUBSET content[v] : Reply(r, v, cites)
    \/ SweepStep
    \/ Stop

\* The sweep is run daily and goes on once begun; it dies so many times at most.
Spec == Init /\ [][Next]_vars /\ WF_vars(SweepStep)

-----------------------------------------------------------------------------
(* Properties.                                                             *)

\* trace_citation does not raise, and the uri it returns names a stored file.
Traced(c) ==
    /\ \E v \in DOMAIN content : c \in content[v]
    /\ c \in Registered
    /\ c.sha \in raw

\* Every source an answer cites can be traced to its raw file, long after it left
\* the knowledge base, and so can every chunk a version shows, though uploads die
\* between the file and its row.
TraceReachesRaw ==
    /\ \A r \in Request : \A c \in answers[r].cites : Traced(c)
    /\ \A v \in DOMAIN content : \A c \in content[v] : Traced(c)

Corrected(c) == c \in SupersededOf({c}) \cup RetractedOf({c})

\* An answer is flagged for a cause: one of its sources was corrected or
\* retracted, never only because the alias moved while the sweep was reading.
FlaggedForACause ==
    \A r \in Request : answers[r].corrected => \E c \in answers[r].cites : Corrected(c)

\* A daily sweep opens one ticket for a citation, however often it runs.
TicketOnce == [][tickets' # tickets => sweep.flags \cap tickets = {}]_vars

\* The source of this answer is in what the sweep has read so far, or bound to be.
Caught(r, c) ==
    \/ /\ sweep.at = "replaced" /\ <<r, c>> \in sweep.stale
       /\ Corrected(c)
    \/ /\ sweep.at = "retracted" /\ <<r, c>> \in sweep.stale
       /\ c \in sweep.replaced \cup RetractedOf({c})
    \/ sweep.at = "mark" /\ <<r, c>> \in sweep.flags

\* A sweep overlooks nothing: a source that was corrected when the sweep read the
\* citations, and that its version does not show, stays caught until its answer is
\* marked, whatever is read in between and changes meanwhile, or the sweep dies.
NothingSlips ==
    [][\A r \in Request, c \in Version :
          /\ ReadCited /\ ~answers[r].corrected /\ Corrected(c)
                /\ c \in answers[r].cites \ content[sweep.version] => Caught(r, c)'
          /\ Caught(r, c) => Caught(r, c)' \/ answers'[r].corrected \/ stops' # stops]_vars

Overdue(r) ==
    /\ serving # 0
    /\ ~answers[r].corrected
    /\ \E c \in answers[r].cites : Corrected(c) /\ c \notin content[serving]

\* An answer that cites a corrected source is flagged in the end, unless a
\* rollback shows the source again: no interleaving hides it from every sweep.
EventuallyFlagged == \A r \in Request : Overdue(r) ~> ~Overdue(r)
=============================================================================
