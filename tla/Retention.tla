------------------------------ MODULE Retention ------------------------------
(***************************************************************************)
(* The retention sweep (retention.py): a daily call of run_retention goes  *)
(* through uploads, student text, operational rows and staged chunks, each *)
(* in transactions of its own, and a person may start the same sweep from  *)
(* the command line at any time.  A sweep may die between two steps.       *)
(*                                                                         *)
(* The services that write the rows are only seen through the tables: a    *)
(* request is stored with its citations and tool calls, a ticket and an    *)
(* expert's answer to it are written while the question can still be read, *)
(* an upload is stored together with its row.                              *)
(***************************************************************************)
EXTENDS Integers, FiniteSets

CONSTANTS
    Request,        \* requests, with the ticket and the facts that carry their id
    Attachment,     \* uploads
    IngestionRun,   \* staged chunk sets, by their run
    Sweeper,        \* processes that may run a sweep: the daily schedule, the command line
    Daily,          \* the daily schedule
    UploadsDays, TextDays, OpsDays, StagingDays,    \* the retention settings
    Horizon,        \* bound: days that are looked at
    MaxStops        \* bound: sweeps that die

ASSUME DailyAssumption == Daily \in Sweeper

ASSUME DaysAssumption ==
    /\ UploadsDays \in Nat /\ TextDays \in Nat /\ OpsDays \in Nat /\ StagingDays \in Nat
    /\ Horizon \in Nat /\ MaxStops \in Nat

VARIABLES
    now,            \* the day
    interactions,   \* ops.interactions: request -> row
    children,       \* requests with rows in ops.citations, in ops.tool_calls
    tickets,        \* ops.escalation_tickets: request -> row
    facts,          \* ops.request_facts: request -> day
    staged,         \* ingest.chunks: run -> created_at
    uploads,        \* ops.uploads: attachment -> created_at
    objects,        \* the uploads bucket
    sweep,          \* what each sweeper is doing, with the values it has read
    stops           \* how many sweeps have died

vars == <<now, interactions, children, tickets, facts, staged, uploads, objects, sweep, stops>>
written == <<interactions, children, tickets, facts, staged, uploads, objects>>

\* In place of a day: the row is not written yet, or deleted.
Never == -1
Gone == -2
Day == 0..Horizon
Date == Day \cup {Never, Gone}

Row == [born : Date, question : BOOLEAN, answer : BOOLEAN]
NoRow == [born |-> Never, question |-> FALSE, answer |-> FALSE]
Deleted == [born |-> Gone, question |-> FALSE, answer |-> FALSE]

Idle == [at |-> "idle"]
SweepState ==
    {Idle} \cup [at : {"uploads"}, day : Day, old : SUBSET Attachment, todo : SUBSET Attachment]
           \cup [at : {"text", "ops", "staging"}, day : Day]

TypeOK ==
    /\ now \in Day
    /\ interactions \in [Request -> Row] /\ tickets \in [Request -> Row]
    /\ children \in [{"citations", "tool_calls"} -> SUBSET Request]
    /\ facts \in [Request -> Date] /\ staged \in [IngestionRun -> Date]
    /\ uploads \in [Attachment -> Date]
    /\ objects \subseteq Attachment
    /\ sweep \in [Sweeper -> SweepState]
    /\ stops \in 0..MaxStops

Init ==
    /\ now = 0
    /\ interactions = [r \in Request |-> NoRow]
    /\ children = [c \in {"citations", "tool_calls"} |-> {}]
    /\ tickets = [r \in Request |-> NoRow]
    /\ facts = [r \in Request |-> Never] /\ staged = [i \in IngestionRun |-> Never]
    /\ uploads = [a \in Attachment |-> Never]
    /\ objects = {}
    /\ sweep = [s \in Sweeper |-> Idle]
    /\ stops = 0

\* Mutant: what is as old as the limit is old as well.
OlderOrEqual(date, day, limit) == date >= 0 /\ date <= day - limit

\* created_at < cutoff
Older(date, day, limit) == date >= 0 /\ date < day - limit

-----------------------------------------------------------------------------
(* The services and the day.                                               *)

NextDay == now < Horizon /\ now' = now + 1 /\ UNCHANGED <<written, sweep, stops>>

\* A request that was answered, with citations and tool calls.
Ask(r) ==
    /\ interactions[r] = NoRow
    /\ interactions' =
           [interactions EXCEPT ![r] = [born |-> now, question |-> TRUE, answer |-> TRUE]]
    /\ children' = [c \in DOMAIN children |-> children[c] \cup {r}]
    /\ facts' = [facts EXCEPT ![r] = now]
    /\ UNCHANGED <<now, staged, tickets, uploads, objects, sweep, stops>>

Escalate(r) ==
    /\ interactions[r].born = now /\ tickets[r] = NoRow
    /\ tickets' = [tickets EXCEPT ![r] = [born |-> now, question |-> TRUE, answer |-> FALSE]]
    /\ UNCHANGED <<now, interactions, children, facts, staged, uploads, objects, sweep, stops>>

ExpertAnswers(r) ==
    /\ tickets[r].question /\ ~tickets[r].answer
    /\ tickets' = [tickets EXCEPT ![r].answer = TRUE]
    /\ UNCHANGED <<now, interactions, children, facts, staged, uploads, objects, sweep, stops>>

Upload(a) ==
    /\ uploads[a] = Never
    /\ uploads' = [uploads EXCEPT ![a] = now]
    /\ objects' = objects \cup {a}
    /\ UNCHANGED <<now, interactions, children, tickets, facts, staged, sweep, stops>>

Stage(i) ==
    /\ staged[i] = Never
    /\ staged' = [staged EXCEPT ![i] = now]
    /\ UNCHANGED <<now, facts, interactions, children, tickets, uploads, objects, sweep, stops>>

-----------------------------------------------------------------------------
(* One sweep.                                                              *)

Goto(s, state) == sweep' = [sweep EXCEPT ![s] = state]

Expired(day) == {a \in Attachment : Older(uploads[a], day, UploadsDays)}

\* The cutoffs are taken from one look at the clock; the old uploads are read.
Start(s) ==
    /\ sweep[s] = Idle
    /\ Goto(s, [at |-> "uploads", day |-> now, old |-> Expired(now), todo |-> Expired(now)])
    /\ UNCHANGED <<now, written, stops>>

DeleteObject(s) ==
    /\ sweep[s].at = "uploads"
    /\ \E a \in sweep[s].todo :
          /\ objects' = objects \ {a}
          /\ Goto(s, [sweep[s] EXCEPT !.todo = @ \ {a}])
    /\ UNCHANGED <<now, interactions, children, tickets, facts, staged, uploads, stops>>

\* Mutant: the rows go first.
DeleteRowsFirst(s) ==
    /\ sweep[s].at = "uploads"
    /\ uploads' = [a \in Attachment |-> IF a \in sweep[s].old THEN Gone ELSE uploads[a]]
    /\ IF sweep[s].todo = {} THEN Goto(s, [at |-> "text", day |-> sweep[s].day])
       ELSE UNCHANGED sweep
    /\ UNCHANGED <<now, interactions, children, tickets, facts, staged, objects, stops>>

DeleteRows(s) ==
    /\ sweep[s].at = "uploads" /\ sweep[s].todo = {}
    /\ uploads' = [a \in Attachment |-> IF a \in sweep[s].old THEN Gone ELSE uploads[a]]
    /\ Goto(s, [at |-> "text", day |-> sweep[s].day])
    /\ UNCHANGED <<now, interactions, children, tickets, facts, staged, objects, stops>>

\* Mutant: the answer is left.
BlankedQuestion(row, day) ==
    IF Older(row.born, day, TextDays) /\ row.question THEN [row EXCEPT !.question = FALSE] ELSE row

\* Mutant: the limit of uploads is used for text.
BlankedWithUploads(row, day) ==
    IF Older(row.born, day, UploadsDays) /\ row.question
    THEN [row EXCEPT !.question = FALSE, !.answer = FALSE] ELSE row

\* A row without a question counts as blanked already.
Blanked(row, day) ==
    IF Older(row.born, day, TextDays) /\ row.question
    THEN [row EXCEPT !.question = FALSE, !.answer = FALSE] ELSE row

BlankText(s) ==
    /\ sweep[s].at = "text"
    /\ interactions' = [r \in Request |-> Blanked(interactions[r], sweep[s].day)]
    /\ tickets' = [r \in Request |-> Blanked(tickets[r], sweep[s].day)]
    /\ Goto(s, [at |-> "ops", day |-> sweep[s].day])
    /\ UNCHANGED <<now, children, facts, staged, uploads, objects, stops>>

OldRequests(day) == {r \in Request : Older(interactions[r].born, day, OpsDays)}

\* Mutant: the tool calls of a request are not deleted.
ChildrenKeptInPart(old) == [children EXCEPT !["citations"] = @ \ old]

ChildrenKept(old) == [c \in DOMAIN children |-> children[c] \ old]

\* One transaction; it fails, and the sweep with it, when a row that refers to an
\* interaction is still there.
ExpireOps(s) ==
    /\ sweep[s].at = "ops"
    /\ LET day == sweep[s].day
           old == OldRequests(day)
       IN  /\ children' = ChildrenKept(old)
           /\ \A c \in DOMAIN children : children'[c] \cap old = {}
           /\ interactions' = [r \in Request |-> IF r \in old THEN Deleted ELSE interactions[r]]
           /\ tickets' = [r \in Request |-> IF Older(tickets[r].born, day, OpsDays)
                                            THEN Deleted ELSE tickets[r]]
           /\ facts' = [r \in Request |-> IF Older(facts[r], day, OpsDays) THEN Gone ELSE facts[r]]
           /\ Goto(s, [at |-> "staging", day |-> day])
    /\ UNCHANGED <<now, staged, uploads, objects, stops>>

ExpireStaging(s) ==
    /\ sweep[s].at = "staging"
    /\ staged' = [i \in IngestionRun |->
                      IF Older(staged[i], sweep[s].day, StagingDays) THEN Gone ELSE staged[i]]
    /\ Goto(s, Idle)
    /\ UNCHANGED <<now, facts, interactions, children, tickets, uploads, objects, stops>>

\* The process stops, or the object store or the database raises.
Stop(s) ==
    /\ sweep[s] # Idle /\ stops < MaxStops
    /\ Goto(s, Idle)
    /\ stops' = stops + 1
    /\ UNCHANGED <<now, written>>

Services ==
    \/ \E r \in Request : Ask(r)
    \/ \E r \in Request : Escalate(r)
    \/ \E r \in Request : ExpertAnswers(r)
    \/ \E a \in Attachment : Upload(a)
    \/ \E i \in IngestionRun : Stage(i)

SweepStep(s) ==
    \/ Start(s)
    \/ DeleteObject(s)
    \/ DeleteRows(s)
    \/ BlankText(s)
    \/ ExpireOps(s)
    \/ ExpireStaging(s)

Next ==
    \/ NextDay
    \/ Services
    \/ \E s \in Sweeper : SweepStep(s)
    \/ \E s \in Sweeper : Stop(s)

\* The daily schedule runs again and again; a sweep of the command line may never
\* begin, and may rest between any two steps.
Spec == Init /\ [][Next]_vars /\ WF_vars(SweepStep(Daily))

-----------------------------------------------------------------------------
(* Properties.                                                              *)

PastDue(date, days) == date \in Day /\ date + days < now

\* A stored upload always has the row by which a sweep finds it: objects are
\* deleted before their rows, so one whose sweep died is found by the next.
NoOrphanObject == \A a \in objects : uploads[a] \in Day

\* The other half of that order: a row whose object is gone is past its time, so
\* nobody who may still read an upload misses it.
OnlyOldUploadsMissing ==
    \A a \in Attachment : uploads[a] \in Day /\ a \notin objects => PastDue(uploads[a], UploadsDays)

\* Text may go by its own limit, or with its row by that of the row.
TextMayGo(born) == PastDue(born, TextDays) \/ PastDue(born, OpsDays)

\* Nothing is deleted or blanked before its own limit, with two sweeps at work
\* and the clock running on between their steps.
KeptUntilItsTime ==
    [][/\ \A r \in Request :
             /\ interactions[r].born \in Day /\ interactions'[r].born = Gone =>
                    PastDue(interactions[r].born, OpsDays)
             /\ interactions[r].question /\ ~interactions'[r].question =>
                    TextMayGo(interactions[r].born)
             /\ tickets[r].answer /\ ~tickets'[r].answer => TextMayGo(tickets[r].born)
       /\ \A a \in objects \ objects' : PastDue(uploads[a], UploadsDays)]_vars

\* Whatever a sweep has passed is swept, for good: with another sweep at work, with
\* requests, answers and uploads that come in behind it, nothing that was past its
\* limit on the day of the sweep is there when it goes on (run_retention).
NothingLeftBehind ==
    \A s \in Sweeper : sweep[s] # Idle =>
        LET day == sweep[s].day
        IN  /\ sweep[s].at # "uploads" => Expired(day) = {}
            /\ sweep[s].at \in {"ops", "staging"} =>
                   \A r \in Request : \A row \in {interactions[r], tickets[r]} :
                       Older(row.born, day, TextDays) => ~row.question /\ ~row.answer
            /\ sweep[s].at = "staging" =>
                   /\ OldRequests(day) = {}
                   /\ \A r \in Request : /\ ~Older(tickets[r].born, day, OpsDays)
                                          /\ ~Older(facts[r], day, OpsDays)

\* An upload past its time goes, object and row, however often sweeps die.
UploadsGo ==
    \A a \in Attachment :
        PastDue(uploads[a], UploadsDays) ~> uploads[a] = Gone /\ a \notin objects

\* The text of an old request or ticket goes, the expert's answer with it.
TextGoes ==
    \A r \in Request :
        /\ PastDue(interactions[r].born, TextDays) ~>
               ~interactions[r].question /\ ~interactions[r].answer
        /\ PastDue(tickets[r].born, TextDays) ~> ~tickets[r].question /\ ~tickets[r].answer

\* Old rows go, whatever refers to them: the transaction that deletes them is
\* not turned down by a foreign key day after day.
RowsGo ==
    \A r \in Request : PastDue(interactions[r].born, OpsDays) ~> interactions[r].born = Gone
=============================================================================
