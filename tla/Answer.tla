-------------------------------- MODULE Answer --------------------------------
(***************************************************************************)
(* What a caller of a streamed endpoint is promised (http.py), wherever    *)
(* the components behind it run: it receives what the source produced, in  *)
(* order and without gaps; a normal end means that the source returned and *)
(* that nothing is missing; anything else is an error.  Events are counted.*)
(***************************************************************************)
EXTENDS Integers

VARIABLES
    state,      \* of the caller: "idle", "waiting", "ended", "failed" or "left"
    received,   \* events it has received
    produced,   \* events the source has produced
    returned    \* the source has returned

vars == <<state, received, produced, returned>>

Init == state = "idle" /\ received = 0 /\ produced = 0 /\ returned = FALSE

Ask == state = "idle" /\ state' = "waiting" /\ UNCHANGED <<received, produced, returned>>

\* The source produces an event, or returns; what it produced travels.  Without
\* HTTP in between an event is received in the step that produces it.
Produce ==
    /\ ~returned
    /\ produced' \in {produced, produced + 1}
    /\ returned' \in BOOLEAN
    /\ received' \in {received, produced'}
    /\ UNCHANGED state

Deliver ==
    /\ state = "waiting" /\ received < produced
    /\ received' = received + 1
    /\ UNCHANGED <<state, produced, returned>>

\* The end may come in the step in which the source returns.
End ==
    /\ state = "waiting" /\ state' = "ended"
    /\ returned' /\ received' = produced'
    /\ received' \in {received, received + 1}
    /\ IF returned THEN produced' = produced ELSE produced' \in {produced, produced + 1}

GiveUp ==
    /\ state = "waiting" /\ state' \in {"failed", "left"}
    /\ UNCHANGED <<received, produced, returned>>

Next == Ask \/ Produce \/ Deliver \/ End \/ GiveUp

Spec == Init /\ [][Next]_vars
===============================================================================
