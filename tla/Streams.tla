-------------------------------- MODULE Streams --------------------------------
(***************************************************************************)
(* Calls between components (http.py, service.py, api/serve.py).  A chain  *)
(* of calls answers one request: hop 1 is the gateway's call of the        *)
(* orchestrator, hop 2 the orchestrator's call of a worker, and so on.     *)
(* Each hop is a plain function call or goes over HTTP.  The handlers are  *)
(* not written yet; what they do follows from their signatures: the last   *)
(* one produces events, the others forward what they receive.              *)
(*                                                                         *)
(* Events are counted.  The texts of those in wide hold a character that   *)
(* the client takes for the end of a line (U+0085, U+2028, U+2029) though  *)
(* JSON does not escape it.                                                *)
(***************************************************************************)
EXTENDS Integers

CONSTANTS
    N,          \* number of hops
    MaxEvents,  \* bound: events the last handler produces
    Window,     \* bound: events in flight on a connection
    MaxFaults   \* bound: errors, lost connections and timeouts

ASSUME ChainAssumption ==
    N \in Nat \ {0} /\ MaxEvents \in Nat /\ Window \in Nat /\ MaxFaults \in Nat

Hop == 1..N

VARIABLES
    overridden, \* hops to a component with a CHATBOT_<SERVICE>_URL
    single,     \* the last hop is a call with one response record
    wide,       \* events with a line separator in their text
    hop,        \* the state of each hop
    faults

vars == <<overridden, single, wide, hop, faults>>

\* local_handlers leaves a component with an override out, and a component in its
\* own container registers no local handlers.
Local(k) == \A j \in 1..k : j \notin overridden

Single(k) == single /\ k = N

Callers == {"idle", "waiting", "ended", "failed", "left"}
Handlers == {"none", "running", "returned", "raised", "cancelled"}

\* The response: none yet, its status and headers sent, complete, cut off, or an
\* error status (also: no connection).
Responses == {"none", "open", "whole", "broken", "refused"}

HopState == [caller : Callers, handler : Handlers, response : Responses,
             yielded : Nat, wire : Nat, got : Nat, timed : 0..1]

TypeOK ==
    /\ overridden \subseteq Hop /\ single \in BOOLEAN /\ wide \subseteq 1..MaxEvents
    /\ hop \in [Hop -> HopState]
    /\ faults \in 0..MaxFaults

Init ==
    /\ overridden \in SUBSET Hop /\ single \in BOOLEAN /\ wide \in SUBSET (1..MaxEvents)
    /\ hop = [k \in Hop |-> [caller |-> "idle", handler |-> "none", response |-> "none",
                             yielded |-> 0, wire |-> 0, got |-> 0, timed |-> 0]]
    /\ faults = 0

\* Deployment and texts are what they are.
Fixed == UNCHANGED <<overridden, single, wide>>

-----------------------------------------------------------------------------
\* Mutant: a local handler runs as a task of its own.
ResumedAlone(k) == hop[k].handler = "running"

\* An async generator runs only while its caller waits for the next event; one
\* behind HTTP is driven by the server.
Resumed(k) ==
    /\ hop[k].handler = "running"
    /\ Local(k) => \A j \in 1..k : /\ hop[j].caller = "waiting"
                                   /\ j > 1 => hop[j - 1].yielded = hop[j].got

\* The caller of hop k waits for its next event.
Asks(k) ==
    /\ hop[k].caller = "waiting"
    /\ k > 1 => Resumed(k - 1) /\ hop[k - 1].yielded = hop[k].got

\* Mutant: only a response is timed.
TimedOnSuccess(h, how) == [h EXCEPT !.caller = how,
                                      !.timed = IF how = "ended" THEN @ + 1 ELSE @]

\* finally: _observe.
Finished(h, how) == [h EXCEPT !.caller = how, !.timed = @ + 1]

Fault == faults < MaxFaults /\ faults' = faults + 1

\* call and stream: with a local handler it runs now, else the request is posted.
Call(k) ==
    /\ hop[k].caller = "idle"
    /\ k > 1 => Resumed(k - 1)
    /\ hop' = [hop EXCEPT ![k].caller = "waiting",
                          ![k].handler = IF Local(k) THEN "running" ELSE "none"]
    /\ Fixed /\ UNCHANGED faults

\* _contract_route: a streamed response begins before the handler has run, any
\* other is sent when the handler has returned.  The caller may have gone.
Accept(k) ==
    /\ ~Local(k) /\ hop[k].caller # "idle"
    /\ hop[k].handler = "none" /\ hop[k].response = "none"
    /\ hop' = [hop EXCEPT ![k].handler = "running",
                          ![k].response = IF Single(k) THEN "none" ELSE "open"]
    /\ Fixed /\ UNCHANGED faults

\* An invalid request, a handler that is not written (501), or nobody there.
Refuse(k) ==
    /\ Fault
    /\ ~Local(k) /\ hop[k].caller # "idle"
    /\ hop[k].handler = "none" /\ hop[k].response = "none"
    /\ hop' = [hop EXCEPT ![k].response = "refused"]
    /\ Fixed

HasNext(k) ==
    IF k = N THEN hop[k].yielded < MaxEvents ELSE hop[k].yielded < hop[k + 1].got

\* A handler yields an event.  stream passes it on in the same step, sse_response
\* writes it to the connection.
Yield(k) ==
    /\ Resumed(k) /\ ~Single(k) /\ HasNext(k)
    /\ IF Local(k)
       THEN hop' = [hop EXCEPT ![k].yielded = @ + 1, ![k].got = @ + 1]
       ELSE /\ hop[k].response = "open" /\ hop[k].wire < Window
            /\ hop' = [hop EXCEPT ![k].yielded = @ + 1, ![k].wire = @ + 1]
    /\ Fixed /\ UNCHANGED faults

\* The handler is done.  A relay is when its own call has ended.
Return(k) ==
    /\ Resumed(k)
    /\ k < N => hop[k + 1].caller = "ended" /\ hop[k].yielded = hop[k + 1].got
    /\ LET h == [hop[k] EXCEPT !.handler = "returned", !.yielded = IF Single(k) THEN 1 ELSE @]
       IN  hop' = [hop EXCEPT ![k] =
              IF Local(k) THEN Finished([h EXCEPT !.got = h.yielded], "ended")
              ELSE IF h.response = "broken" THEN h
              ELSE [h EXCEPT !.response = "whole", !.wire = IF Single(k) THEN 1 ELSE @]]
    /\ Fixed /\ UNCHANGED faults

\* The handler raises: its own call failed, or it fails itself.
Raise(k) ==
    /\ Resumed(k)
    /\ \/ k < N /\ hop[k + 1].caller = "failed" /\ UNCHANGED faults
       \/ Fault
    /\ LET h == [hop[k] EXCEPT !.handler = "raised"]
       IN  hop' = [hop EXCEPT ![k] =
              IF Local(k) THEN Finished(h, "failed")
              ELSE [h EXCEPT !.response = IF Single(k) THEN "refused" ELSE "broken"]]
    /\ Fixed

\* The connection breaks; events in flight may be lost.
Drop(k) ==
    /\ Fault
    /\ hop[k].handler = "running" /\ ~Local(k) /\ hop[k].response \in {"none", "open"}
    /\ \E kept \in 0..hop[k].wire :
          hop' = [hop EXCEPT ![k].response = "broken", ![k].wire = kept]
    /\ Fixed

\* stream: a data line is read.  One that is cut short is no record of the contract.
Receive(k) ==
    /\ ~Local(k) /\ ~Single(k) /\ Asks(k) /\ hop[k].wire > 0
    /\ LET h == hop[k]
       IN  hop' = [hop EXCEPT ![k] = IF h.got + 1 \in wide
                                     THEN Finished(h, "failed")
                                     ELSE [h EXCEPT !.wire = h.wire - 1, !.got = h.got + 1]]
    /\ Fixed /\ UNCHANGED faults

\* Mutant: a connection that is closed early counts as the end of the body.
EndOrBroken(k) ==
    /\ ~Local(k) /\ Asks(k) /\ hop[k].response \in {"whole", "broken"}
    /\ hop[k].wire = IF Single(k) THEN 1 ELSE 0
    /\ LET h == hop[k]
       IN  hop' = [hop EXCEPT ![k] =
              Finished([h EXCEPT !.wire = 0, !.got = h.got + h.wire], "ended")]
    /\ Fixed /\ UNCHANGED faults

\* The response is complete; that of a single call holds the record.
End(k) ==
    /\ ~Local(k) /\ Asks(k) /\ hop[k].response = "whole"
    /\ hop[k].wire = IF Single(k) THEN 1 ELSE 0
    /\ LET h == hop[k]
       IN  hop' = [hop EXCEPT ![k] =
              Finished([h EXCEPT !.wire = 0, !.got = h.got + h.wire], "ended")]
    /\ Fixed /\ UNCHANGED faults

\* raise_for_status, or the body ends early.
Fail(k) ==
    /\ ~Local(k) /\ Asks(k) /\ hop[k].wire = 0 /\ hop[k].response \in {"broken", "refused"}
    /\ hop' = [hop EXCEPT ![k] = Finished(@, "failed")]
    /\ Fixed /\ UNCHANGED faults

\* Nothing arrives for the timeout of the client.
Timeout(k) ==
    /\ Fault
    /\ ~Local(k) /\ Asks(k) /\ hop[k].wire = 0 /\ hop[k].response \in {"none", "open"}
    /\ hop' = [hop EXCEPT ![k] = Finished(@, "failed")]
    /\ Fixed

\* Mutant: a call that failed is closed as well when its caller ends.
LeaveFailed(k) ==
    /\ hop[k].caller \in {"waiting", "failed"}
    /\ k > 1 => hop[k - 1].handler \in {"raised", "cancelled"}
    /\ hop' = [hop EXCEPT ![k] = Finished(@, "left")]
    /\ Fixed /\ UNCHANGED faults

\* The student goes, or the handler that made the call ends without its end.
Leave(k) ==
    /\ hop[k].caller = "waiting"
    /\ k > 1 => hop[k - 1].handler \in {"raised", "cancelled"}
    /\ hop' = [hop EXCEPT ![k] = Finished(@, "left")]
    /\ Fixed /\ UNCHANGED faults

\* Mutant: the server goes on after a timeout of its client.
CancelLeft(k) ==
    /\ hop[k].handler = "running" /\ (Local(k) \/ ~Single(k))
    /\ hop[k].caller = "left"
    /\ hop' = [hop EXCEPT ![k].handler = "cancelled"]
    /\ Fixed /\ UNCHANGED faults

\* A handler nobody listens to is closed; one whose response has not begun runs on.
Cancel(k) ==
    /\ hop[k].handler = "running" /\ (Local(k) \/ ~Single(k))
    /\ hop[k].caller \in {"failed", "left"} \/ hop[k].response = "broken"
    /\ hop' = [hop EXCEPT ![k].handler = "cancelled"]
    /\ Fixed /\ UNCHANGED faults

\* What a handler does of its own.
Handle(k) ==
    \/ Yield(k) \/ Return(k) \/ Raise(k)
    \/ k < N /\ Call(k + 1)

\* What the client and the server do.
Transport(k) ==
    \/ Accept(k) \/ Receive(k) \/ End(k) \/ Fail(k) \/ Cancel(k)
    \/ k > 1 /\ Leave(k)

Next ==
    \/ Call(1) \/ Leave(1)
    \/ \E k \in Hop : Handle(k) \/ Transport(k) \/ Refuse(k) \/ Drop(k) \/ Timeout(k)

\* A handler that can go on does, and so do the event loops and the network.
Spec ==
    /\ Init /\ [][Next]_vars
    /\ \A k \in Hop : WF_vars(Handle(k)) /\ WF_vars(Transport(k))

-----------------------------------------------------------------------------
(* Properties.                                                             *)

A == INSTANCE Answer WITH
        state <- hop[1].caller, received <- hop[1].got,
        produced <- hop[N].yielded, returned <- (hop[N].handler = "returned")

\* The whole chain is one stream to its first caller: no event is lost, repeated or
\* invented at any hop, and neither an error behind some hop nor a lost connection
\* looks like the normal end of an answer.
OneStream == A!Spec

\* Each call that is made comes back and is timed exactly once, on every way out.
EveryCallIsTimed == \A k \in Hop : hop[k].caller = "waiting" ~> [](hop[k].timed = 1)

Done == {"returned", "raised", "cancelled"}

\* Work is begun once and for someone: a handler that has ended never runs again, a
\* call is made by a handler that is running, and in the student's own process no
\* handler yields or ends well when the student has gone (stream, the generators).
WorksForSomeone ==
    [][\A k \in Hop :
          /\ hop[k].handler \in Done => hop'[k].handler = hop[k].handler
          /\ hop[k].caller = "idle" /\ hop'[k].caller # "idle" /\ k > 1 =>
                hop[k - 1].handler = "running"
          /\ Local(k) /\ hop[1].caller # "waiting" /\ hop[k].caller # "idle" =>
                /\ hop'[k].yielded = hop[k].yielded
                /\ hop'[k].handler = "returned" => hop[k].handler = "returned"]_vars

\* When the student has gone or got an error, no handler keeps working for nobody.
NobodyWorksForNobody ==
    hop[1].caller \in {"failed", "left"} ~> [](\A k \in Hop : hop[k].handler # "running")
===============================================================================
