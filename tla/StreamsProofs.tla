----------------------------- MODULE StreamsProofs -----------------------------
(***************************************************************************)
(* A chain of calls is one stream to its first caller, for every number of *)
(* hops, however they are deployed.                                        *)
(***************************************************************************)
EXTENDS Streams, TLAPS

\* One hop by itself: nothing is received that was not yielded, and a complete
\* response or a normal end means that the handler has returned.
Sound(k, h) ==
    /\ h \in HopState
    /\ h.got + h.wire <= h.yielded
    /\ h.caller = "idle" => h.handler = "none" /\ h.response = "none"
    /\ h.handler = "none" => h.yielded = 0
    /\ Local(k) => h.wire = 0 /\ h.got = h.yielded /\ h.response = "none"
    /\ h.handler = "running" => /\ Single(k) => h.yielded = 0
                                /\ ~Local(k) => \/ h.response = "broken"
                                                \/ Single(k) /\ h.response = "none"
                                                \/ ~Single(k) /\ h.response = "open"
    /\ h.response = "open" => h.got + h.wire = h.yielded
    /\ h.response = "whole" => h.handler = "returned" /\ h.got + h.wire = h.yielded
    /\ h.caller = "ended" => h.handler = "returned" /\ h.got = h.yielded
    /\ h.timed = IF h.caller \in {"idle", "waiting"} THEN 0 ELSE 1

\* Two hops: the outer handler has yielded no more than the inner caller received,
\* and returns after all of it.  It is stated for any two, not for neighbours, so
\* that it needs no induction along the chain.
Flow == \A j, m \in Hop : j < m =>
    /\ hop[j].yielded <= hop[m].got
    /\ hop[j].handler = "returned" => hop[m].caller = "ended" /\ hop[j].yielded = hop[m].got

Inv == TypeOK /\ (\A k \in Hop : Sound(k, hop[k])) /\ Flow

\* What a step does to one hop.
Becomes(k, h) == hop' = [hop EXCEPT ![k] = h]

\* It takes nothing back from the outer hop and is covered by the inner one.
Fits(k, h) ==
    /\ hop[k].got <= h.got
    /\ hop[k].caller = "ended" => h.caller = "ended" /\ h.got = hop[k].got
    /\ k < N => /\ h.yielded <= hop[k + 1].got
                /\ h.handler = "returned" =>
                       hop[k + 1].caller = "ended" /\ h.yielded = hop[k + 1].got

\* What a step on a hop can look like from outside: nothing happens or the call is
\* made; the handler goes on behind HTTP; a local handler yields, or returns; the call
\* fails; its caller receives an event, or the end.
Visible(k, h) ==
    LET o == hop[k]
        Same == h.yielded = o.yielded /\ (h.handler = "returned" <=> o.handler = "returned")
    IN  \/ /\ h.caller = o.caller \/ (o.caller = "idle" /\ h.caller = "waiting")
           /\ h.got = o.got /\ Same
        \/ /\ h.caller = o.caller /\ h.got = o.got
           /\ o.handler = "running" /\ h.yielded \in {o.yielded, o.yielded + 1}
        \/ /\ o.caller = "waiting" /\ h.caller = "waiting"
           /\ o.handler = "running" /\ h.handler = "running"
           /\ o.got = o.yielded /\ h.got = h.yielded /\ h.yielded = o.yielded + 1
        \/ /\ o.caller = "waiting" /\ h.caller = "ended"
           /\ o.handler = "running" /\ h.handler = "returned"
           /\ o.got = o.yielded /\ h.got = h.yielded
           /\ h.yielded \in {o.yielded, o.yielded + 1} /\ (k < N => h.yielded = o.yielded)
        \/ /\ o.caller = "waiting" /\ h.caller \in {"failed", "left"}
           /\ h.got = o.got /\ Same
        \/ /\ o.caller = "waiting" /\ h.caller = "waiting"
           /\ h.got = o.got + 1 /\ Same
        \/ /\ o.caller = "waiting" /\ h.caller = "ended"
           /\ h.got \in {o.got, o.got + 1} /\ Same

Seen == \E k \in Hop : \E h : Becomes(k, h) /\ Visible(k, h)

\* The fields of a hop.
Has(h, c, d, r, y, w, g, t) ==
    /\ h \in HopState
    /\ h.caller = c /\ h.handler = d /\ h.response = r
    /\ h.yielded = y /\ h.wire = w /\ h.got = g /\ h.timed = t

\* A step that leaves its hop sound and fits its neighbours keeps the invariant.
LEMMA Update ==
    ASSUME Inv, NEW k \in Hop, NEW h, Sound(k, h), Becomes(k, h), Fits(k, h), Visible(k, h),
           Fixed, faults' \in 0..MaxFaults
    PROVE  Inv' /\ Seen
<1> USE ChainAssumption
<1>1. /\ hop \in [Hop -> HopState] /\ h \in HopState /\ hop'[k] = h
      /\ \A m \in Hop \ {k} : hop'[m] = hop[m]
  BY DEF Inv, TypeOK, Sound, Becomes
<1>2. \A m \in Hop : hop[m].got \in Nat /\ hop[m].yielded \in Nat /\ hop[m].wire \in Nat
  BY <1>1 DEF HopState
<1>3. h.got \in Nat /\ h.yielded \in Nat /\ h.wire \in Nat
  BY <1>1 DEF HopState
<1>4. TypeOK'
  <2>1. hop' \in [Hop -> HopState]
    BY <1>1 DEF Becomes
  <2> QED
    BY <2>1 DEF Inv, TypeOK, Fixed
<1>5. \A m \in Hop : Sound(m, hop[m])'
  <2> SUFFICES ASSUME NEW m \in Hop PROVE Sound(m, hop[m])'
    OBVIOUS
  <2>1. Sound(m, hop'[m])
    BY <1>1 DEF Inv
  <2> QED
    BY <2>1 DEF Sound, Local, Single, Fixed
<1>6. \A m \in Hop : k < m =>
        /\ h.yielded <= hop[m].got
        /\ h.handler = "returned" => hop[m].caller = "ended" /\ h.yielded = hop[m].got
  <2> SUFFICES ASSUME NEW m \in Hop, k < m
               PROVE  /\ h.yielded <= hop[m].got
                      /\ h.handler = "returned" =>
                             hop[m].caller = "ended" /\ h.yielded = hop[m].got
    OBVIOUS
  <2>1. k \in Int /\ m \in Int /\ k < N /\ k + 1 \in Hop
    BY DEF Hop
  <2>2. CASE m = k + 1
    BY <2>1, <2>2 DEF Fits
  <2>3. CASE k + 1 < m
    <3>1. /\ hop[k + 1].yielded <= hop[m].got
          /\ hop[k + 1].handler = "returned" =>
                 hop[m].caller = "ended" /\ hop[k + 1].yielded = hop[m].got
      BY <2>1, <2>3 DEF Inv, Flow
    <3>2. /\ hop[k + 1].got + hop[k + 1].wire <= hop[k + 1].yielded
          /\ hop[k + 1].caller = "ended" =>
                 hop[k + 1].handler = "returned" /\ hop[k + 1].got = hop[k + 1].yielded
      BY <2>1 DEF Inv, Sound
    <3> QED
      BY <1>2, <1>3, <2>1, <3>1, <3>2 DEF Fits
  <2> QED
    BY <2>1, <2>2, <2>3
<1>7. Flow'
  <2> SUFFICES ASSUME NEW j \in Hop, NEW m \in Hop, j < m
               PROVE  /\ hop'[j].yielded <= hop'[m].got
                      /\ hop'[j].handler = "returned" =>
                             hop'[m].caller = "ended" /\ hop'[j].yielded = hop'[m].got
    BY DEF Flow
  <2>1. j \in Int /\ m \in Int /\ j # m
    BY DEF Hop
  <2>2. /\ hop[j].yielded <= hop[m].got
        /\ hop[j].handler = "returned" =>
               hop[m].caller = "ended" /\ hop[j].yielded = hop[m].got
    BY DEF Inv, Flow
  <2>3. CASE j = k
    BY <1>1, <1>6, <2>1, <2>3
  <2>4. CASE m = k
    BY <1>1, <1>2, <1>3, <2>1, <2>2, <2>4 DEF Fits
  <2>5. CASE j # k /\ m # k
    BY <1>1, <2>2, <2>5
  <2> QED
    BY <2>3, <2>4, <2>5
<1> QED
  BY <1>4, <1>5, <1>7 DEF Inv, Seen

LEMMA InvInit == Init => Inv
<1> SUFFICES ASSUME Init PROVE Inv
  OBVIOUS
<1> USE ChainAssumption
<1>1. TypeOK
  BY DEF Init, TypeOK, HopState, Callers, Handlers, Responses
<1>2. \A k \in Hop : Sound(k, hop[k])
  BY DEF Init, Sound, HopState, Callers, Handlers, Responses
<1>3. Flow
  BY DEF Init, Flow
<1> QED
  BY <1>1, <1>2, <1>3 DEF Inv

\* What is known of a hop when a step begins.
LEMMA Fields ==
    ASSUME Inv, NEW k \in Hop
    PROVE  /\ hop[k] \in HopState /\ Sound(k, hop[k])
           /\ hop[k].got \in Nat /\ hop[k].yielded \in Nat /\ hop[k].wire \in Nat
           /\ k < N => hop[k + 1].got \in Nat
           /\ k < N => /\ k + 1 \in Hop
                       /\ hop[k].yielded <= hop[k + 1].got
                       /\ hop[k].handler = "returned" =>
                              hop[k + 1].caller = "ended" /\ hop[k].yielded = hop[k + 1].got
<1>1. hop[k] \in HopState /\ Sound(k, hop[k])
  BY DEF Inv, TypeOK
<1>2. ASSUME k < N
      PROVE  /\ k + 1 \in Hop
             /\ hop[k].yielded <= hop[k + 1].got
             /\ hop[k].handler = "returned" =>
                    hop[k + 1].caller = "ended" /\ hop[k].yielded = hop[k + 1].got
  <2>1. k + 1 \in Hop /\ k < k + 1
    BY <1>2, ChainAssumption DEF Hop
  <2> QED
    BY <2>1 DEF Inv, Flow
<1>3. k < N => hop[k + 1].got \in Nat
  BY <1>2 DEF Inv, TypeOK, HopState
<1> QED
  BY <1>1, <1>2, <1>3 DEF HopState

\* The caller of a hop ends its wait.
LEMMA FinishedSound ==
    ASSUME NEW k \in Hop, NEW h, NEW how \in {"ended", "failed", "left"},
           Sound(k, h), h.caller = "waiting",
           how = "ended" => h.handler = "returned" /\ h.got = h.yielded
    PROVE  /\ Sound(k, Finished(h, how))
           /\ Finished(h, how).got = h.got /\ Finished(h, how).yielded = h.yielded
           /\ Finished(h, how).handler = h.handler /\ Finished(h, how).caller = how
<1> DEFINE f == Finished(h, how)
<1>1. h \in HopState /\ h.timed = 0
  BY DEF Sound
<1>2. Has(f, how, h.handler, h.response, h.yielded, h.wire, h.got, 1)
  <2>1. f = [h EXCEPT !.caller = how, !.timed = 1]
    BY <1>1 DEF Finished
  <2>2. how \in Callers /\ 1 \in 0..1
    BY DEF Callers
  <2> HIDE DEF f
  <2> QED
    BY <1>1, <2>1, <2>2 DEF Has, HopState
<1> HIDE DEF f
<1>3. Sound(k, f)
  BY <1>2 DEF Has, Sound
<1> QED
  BY <1>2, <1>3 DEF Has, f

LEMMA InvNext == Inv /\ [Next]_vars => Inv' /\ (Seen \/ UNCHANGED vars)
<1> SUFFICES ASSUME Inv, [Next]_vars PROVE Inv' /\ (Seen \/ UNCHANGED vars)
  OBVIOUS
<1> USE ChainAssumption
<1>0. faults \in 0..MaxFaults
  BY DEF Inv, TypeOK
<1>00. (UNCHANGED faults \/ Fault) => faults' \in 0..MaxFaults
  BY <1>0 DEF Fault
<1>1. ASSUME NEW k \in Hop, Call(k) PROVE Inv' /\ Seen
  <2> DEFINE x == IF Local(k) THEN "running" ELSE "none"
  <2> DEFINE h == [hop[k] EXCEPT !.caller = "waiting", !.handler = x]
  <2>1. hop[k].caller = "idle"
    BY <1>1 DEF Call
  <2>2. Becomes(k, h) /\ Fixed /\ faults' \in 0..MaxFaults
    BY <1>00, <1>1, Fields DEF Call, Becomes, HopState, Inv, TypeOK
  <2>0. x \in Handlers /\ "waiting" \in Callers /\ "running" \in Handlers
    BY DEF Callers, Handlers, Responses
  <2> HIDE DEF x
  <2>3. Has(h, "waiting", x, hop[k].response,
           hop[k].yielded, hop[k].wire, hop[k].got, hop[k].timed)
    BY <2>1, <2>0, Fields DEF Has, HopState
  <2> HIDE DEF h
  <2>4. Sound(k, h)
    BY <2>1, <2>3, <2>0, Fields DEF Has, Sound, x
  <2>5. Fits(k, h)
    BY <2>1, <2>3, Fields DEF Has, Fits, x
  <2>6. Visible(k, h)
    BY <2>1, <2>3, Fields DEF Has, Visible, Sound, x
  <2> QED
    BY <2>2, <2>4, <2>5, <2>6, Update
<1>2. ASSUME NEW k \in Hop, Accept(k) PROVE Inv' /\ Seen
  <2> DEFINE x == IF Single(k) THEN "none" ELSE "open"
  <2> DEFINE h == [hop[k] EXCEPT !.handler = "running", !.response = x]
  <2>1. /\ ~Local(k) /\ hop[k].caller # "idle"
        /\ hop[k].handler = "none" /\ hop[k].response = "none"
    BY <1>2 DEF Accept
  <2>2. Becomes(k, h) /\ Fixed /\ faults' \in 0..MaxFaults
    BY <1>00, <1>2, Fields DEF Accept, Becomes, HopState, Inv, TypeOK
  <2>0. x \in Responses /\ "waiting" \in Callers /\ "running" \in Handlers
    BY DEF Callers, Handlers, Responses
  <2> HIDE DEF x
  <2>3. Has(h, hop[k].caller, "running", x,
           hop[k].yielded, hop[k].wire, hop[k].got, hop[k].timed)
    BY <2>1, <2>0, Fields DEF Has, HopState
  <2> HIDE DEF h
  <2>4. Sound(k, h)
    BY <2>1, <2>3, <2>0, Fields DEF Has, Sound, x
  <2>5. Fits(k, h)
    BY <2>1, <2>3, Fields DEF Has, Fits, x
  <2>6. Visible(k, h)
    BY <2>1, <2>3 DEF Has, Visible, x
  <2> QED
    BY <2>2, <2>4, <2>5, <2>6, Update
<1>3. ASSUME NEW k \in Hop, Refuse(k) PROVE Inv' /\ Seen
  <2> DEFINE h == [hop[k] EXCEPT !.response = "refused"]
  <2>1. /\ ~Local(k) /\ hop[k].caller # "idle"
        /\ hop[k].handler = "none" /\ hop[k].response = "none"
    BY <1>3 DEF Refuse
  <2>2. Becomes(k, h) /\ Fixed /\ faults' \in 0..MaxFaults
    BY <1>00, <1>3, Fields DEF Refuse, Becomes, HopState, Inv, TypeOK
  <2>3. Has(h, hop[k].caller, hop[k].handler, "refused",
           hop[k].yielded, hop[k].wire, hop[k].got, hop[k].timed)
    BY <2>1, Fields DEF Has, HopState, Callers, Handlers, Responses
  <2> HIDE DEF h
  <2>4. Sound(k, h)
    BY <2>1, <2>3, Fields DEF Has, Sound
  <2>5. Fits(k, h)
    BY <2>1, <2>3, Fields DEF Has, Fits
  <2>6. Visible(k, h)
    BY <2>1, <2>3 DEF Has, Visible
  <2> QED
    BY <2>2, <2>4, <2>5, <2>6, Update
<1>12. ASSUME NEW k \in Hop, Cancel(k) PROVE Inv' /\ Seen
  <2> DEFINE h == [hop[k] EXCEPT !.handler = "cancelled"]
  <2>1. hop[k].handler = "running"
    BY <1>12 DEF Cancel
  <2>2. Becomes(k, h) /\ Fixed /\ faults' \in 0..MaxFaults
    BY <1>00, <1>12, Fields DEF Cancel, Becomes, HopState, Inv, TypeOK
  <2>3. Has(h, hop[k].caller, "cancelled", hop[k].response,
           hop[k].yielded, hop[k].wire, hop[k].got, hop[k].timed)
    BY <2>1, Fields DEF Has, HopState, Callers, Handlers, Responses
  <2> HIDE DEF h
  <2>4. Sound(k, h)
    BY <2>1, <2>3, Fields DEF Has, Sound
  <2>5. Fits(k, h)
    BY <2>1, <2>3, Fields DEF Has, Fits
  <2>6. Visible(k, h)
    BY <2>1, <2>3, Fields DEF Has, Visible
  <2> QED
    BY <2>2, <2>4, <2>5, <2>6, Update
<1>4. ASSUME NEW k \in Hop, Yield(k) PROVE Inv' /\ Seen
  <2>1. /\ hop[k].handler = "running" /\ ~Single(k) /\ Fixed /\ UNCHANGED faults
        /\ Local(k) => hop[k].caller = "waiting"
        /\ k < N => hop[k].yielded < hop[k + 1].got
    BY <1>4 DEF Yield, Resumed, HasNext, Hop
  <2>2. CASE Local(k)
    <3> DEFINE y == hop[k].yielded + 1
               g == hop[k].got + 1
               h == [hop[k] EXCEPT !.yielded = y, !.got = g]
    <3>1. Becomes(k, h)
      BY <1>4, <2>2 DEF Yield, Becomes, Inv, TypeOK, HopState
    <3>0. y \in Nat /\ g \in Nat
      BY Fields
    <3> HIDE DEF y, g
    <3>2. Has(h, hop[k].caller, hop[k].handler, hop[k].response,
              y, hop[k].wire, g, hop[k].timed)
      <4>1. hop[k] \in HopState
        BY Fields
      <4> QED
        BY <3>0, <4>1 DEF Has, HopState
    <3> HIDE DEF h
    <3>3. Sound(k, h)
      BY <2>1, <2>2, <3>2, Fields DEF Has, Sound, y, g
    <3>4. Fits(k, h) /\ Visible(k, h)
      BY <2>1, <2>2, <3>2, Fields DEF Visible, Sound, Has, Fits, y, g
    <3> QED
      BY <1>00, <2>1, <3>1, <3>3, <3>4, Update
  <2>3. CASE ~Local(k)
    <3> DEFINE y == hop[k].yielded + 1
               w == hop[k].wire + 1
               h == [hop[k] EXCEPT !.yielded = y, !.wire = w]
    <3>1. Becomes(k, h) /\ hop[k].response = "open"
      BY <1>4, <2>3 DEF Yield, Becomes, Inv, TypeOK, HopState
    <3>0. y \in Nat /\ w \in Nat
      BY Fields
    <3> HIDE DEF y, w
    <3>2. Has(h, hop[k].caller, hop[k].handler, "open", y, w, hop[k].got, hop[k].timed)
      BY <3>1, <3>0, Fields DEF Has, HopState
    <3> HIDE DEF h
    <3>3. Sound(k, h)
      BY <2>1, <2>3, <3>1, <3>2, Fields DEF Has, Sound, y, w
    <3>4. Fits(k, h) /\ Visible(k, h)
      BY <2>1, <3>2, Fields DEF Visible, Sound, Has, Fits, y, w
    <3> QED
      BY <1>00, <2>1, <3>1, <3>3, <3>4, Update
  <2> QED
    BY <2>2, <2>3
<1>5. ASSUME NEW k \in Hop, Return(k) PROVE Inv' /\ Seen
  <2> DEFINE y == IF Single(k) THEN 1 ELSE hop[k].yielded
             g == [hop[k] EXCEPT !.handler = "returned",
                                 !.yielded = IF Single(k) THEN 1 ELSE @]
  <2>1. /\ hop[k].handler = "running" /\ Fixed /\ UNCHANGED faults
        /\ Local(k) => hop[k].caller = "waiting"
        /\ k < N => hop[k + 1].caller = "ended" /\ hop[k].yielded = hop[k + 1].got
    BY <1>5 DEF Return, Resumed, Hop
  <2>2. /\ y \in Nat /\ hop[k].yielded <= y /\ hop[k].caller # "ended"
        /\ k < N => y = hop[k].yielded
        /\ Single(k) => y = 1 /\ hop[k].got = 0 /\ hop[k].wire = 0
        /\ ~Single(k) => y = hop[k].yielded
    <3>1. hop[k].got \in Nat /\ hop[k].wire \in Nat /\ hop[k].yielded \in Nat
      BY Fields
    <3>2. /\ hop[k].caller # "ended" /\ hop[k].got + hop[k].wire <= hop[k].yielded
          /\ Single(k) => hop[k].yielded = 0
      BY <2>1, Fields DEF Sound
    <3>3. k < N => ~Single(k)
      BY DEF Single
    <3> QED
      BY <3>1, <3>2, <3>3
  <2>3. g = [hop[k] EXCEPT !.handler = "returned", !.yielded = y]
    OBVIOUS
  <2>4. hop' = [hop EXCEPT ![k] =
              IF Local(k) THEN Finished([g EXCEPT !.got = g.yielded], "ended")
              ELSE IF g.response = "broken" THEN g
              ELSE [g EXCEPT !.response = "whole", !.wire = IF Single(k) THEN 1 ELSE @]]
    BY <1>5 DEF Return
  <2> HIDE DEF y, g
  <2>5. Has(g, hop[k].caller, "returned", hop[k].response, y, hop[k].wire, hop[k].got,
            hop[k].timed)
    BY <2>2, <2>3, Fields DEF Has, HopState, Handlers
  <2>6. CASE Local(k)
    <3> DEFINE f == [g EXCEPT !.got = y]
    <3>1. hop' = [hop EXCEPT ![k] = Finished(f, "ended")]
      BY <2>4, <2>5, <2>6 DEF Has
    <3>2. Has(f, "waiting", "returned", hop[k].response, y, hop[k].wire, y, hop[k].timed)
      BY <2>1, <2>2, <2>5, <2>6 DEF Has, HopState
    <3> HIDE DEF f
    <3>3. Sound(k, f)
      BY <2>1, <2>2, <2>6, <3>2, Fields DEF Has, Sound
    <3>4. /\ Sound(k, Finished(f, "ended")) /\ Finished(f, "ended").caller = "ended"
          /\ Finished(f, "ended").handler = "returned"
          /\ Finished(f, "ended").yielded = y /\ Finished(f, "ended").got = y
      BY <3>2, <3>3, FinishedSound DEF Has
    <3>5. Fits(k, Finished(f, "ended"))
      BY <2>1, <2>2, <2>6, <3>4, Fields DEF Fits, Sound
    <3>7. Visible(k, Finished(f, "ended"))
      <4>1. hop[k].got = hop[k].yielded
        BY <2>6, Fields DEF Sound
      <4>2. y \in {hop[k].yielded, hop[k].yielded + 1}
        BY <2>2, <4>1
      <4> QED
        BY <2>1, <2>2, <2>6, <3>4, <4>1, <4>2 DEF Visible
    <3>6. Becomes(k, Finished(f, "ended"))
      BY <3>1 DEF Becomes
    <3> QED
      BY <1>00, <2>1, <3>4, <3>5, <3>6, <3>7, Update
  <2>7. CASE ~Local(k) /\ hop[k].response = "broken"
    <3>1. Becomes(k, g)
      BY <2>4, <2>5, <2>7 DEF Has, Becomes
    <3>2. Sound(k, g)
      BY <2>1, <2>2, <2>5, <2>7, Fields DEF Has, Sound
    <3>3. Fits(k, g) /\ Visible(k, g)
      BY <2>1, <2>2, <2>5, Fields DEF Visible, Sound, Has, Fits
    <3> QED
      BY <1>00, <2>1, <3>1, <3>2, <3>3, Update
  <2>8. CASE ~Local(k) /\ hop[k].response # "broken"
    <3> DEFINE w == IF Single(k) THEN 1 ELSE hop[k].wire
               f == [g EXCEPT !.response = "whole", !.wire = w]
    <3>1. Becomes(k, f)
      BY <2>4, <2>5, <2>8 DEF Has, Becomes
    <3>2. w \in Nat
      BY Fields
    <3> HIDE DEF w
    <3>3. Has(f, hop[k].caller, "returned", "whole", y, w, hop[k].got, hop[k].timed)
      BY <2>5, <3>2 DEF Has, HopState, Responses
    <3> HIDE DEF f
    <3>4. Sound(k, f)
      BY <2>1, <2>2, <2>8, <3>2, <3>3, Fields DEF Has, Sound, w
    <3>5. Fits(k, f) /\ Visible(k, f)
      BY <2>1, <2>2, <3>3, Fields DEF Visible, Sound, Has, Fits
    <3> QED
      BY <1>00, <2>1, <3>1, <3>4, <3>5, Update
  <2> QED
    BY <2>6, <2>7, <2>8
<1>6. ASSUME NEW k \in Hop, Raise(k) PROVE Inv' /\ Seen
  <2> DEFINE g == [hop[k] EXCEPT !.handler = "raised"]
  <2>1. /\ hop[k].handler = "running" /\ Fixed /\ faults' \in 0..MaxFaults
        /\ Local(k) => hop[k].caller = "waiting"
    BY <1>6, <1>00 DEF Raise, Resumed, Hop
  <2>2. hop' = [hop EXCEPT ![k] =
              IF Local(k) THEN Finished(g, "failed")
              ELSE [g EXCEPT !.response = IF Single(k) THEN "refused" ELSE "broken"]]
    BY <1>6 DEF Raise
  <2>3. Has(g, hop[k].caller, "raised", hop[k].response, hop[k].yielded, hop[k].wire,
            hop[k].got, hop[k].timed)
    BY Fields DEF Has, HopState, Handlers
  <2> HIDE DEF g
  <2>4. hop[k].caller # "ended"
    BY <2>1, Fields DEF Sound
  <2>5. CASE Local(k)
    <3>1. Becomes(k, Finished(g, "failed"))
      BY <2>2, <2>5 DEF Becomes
    <3>2. Sound(k, g)
      BY <2>1, <2>3, <2>5, Fields DEF Has, Sound
    <3>3. /\ Sound(k, Finished(g, "failed")) /\ Finished(g, "failed").caller = "failed"
          /\ Finished(g, "failed").yielded = hop[k].yielded
          /\ Finished(g, "failed").handler = "raised"
          /\ Finished(g, "failed").got = hop[k].got
      BY <2>1, <2>3, <2>5, <3>2, FinishedSound DEF Has
    <3>4. Fits(k, Finished(g, "failed"))
      BY <2>4, <3>3, Fields DEF Fits
    <3>5. Visible(k, Finished(g, "failed"))
      BY <2>1, <2>5, <3>3 DEF Visible
    <3> QED
      BY <2>1, <3>1, <3>3, <3>4, <3>5, Update
  <2>6. CASE ~Local(k)
    <3> DEFINE r == IF Single(k) THEN "refused" ELSE "broken"
               f == [g EXCEPT !.response = r]
    <3>1. Becomes(k, f)
      BY <2>2, <2>6 DEF Becomes
    <3>2. r \in {"refused", "broken"}
      OBVIOUS
    <3> HIDE DEF r
    <3>3. Has(f, hop[k].caller, "raised", r, hop[k].yielded, hop[k].wire, hop[k].got,
              hop[k].timed)
      BY <2>3, <3>2 DEF Has, HopState, Responses
    <3> HIDE DEF f
    <3>4. Sound(k, f)
      BY <2>1, <2>6, <3>2, <3>3, Fields DEF Has, Sound
    <3>5. Fits(k, f)
      BY <2>4, <3>3, Fields DEF Has, Fits
    <3>6. Visible(k, f)
      BY <2>1, <3>3 DEF Has, Visible
    <3> QED
      BY <2>1, <3>1, <3>4, <3>5, <3>6, Update
  <2> QED
    BY <2>5, <2>6
<1>7. ASSUME NEW k \in Hop, Drop(k) PROVE Inv' /\ Seen
  <2> PICK kept \in 0..hop[k].wire :
         hop' = [hop EXCEPT ![k].response = "broken", ![k].wire = kept]
    BY <1>7 DEF Drop
  <2> DEFINE h == [hop[k] EXCEPT !.response = "broken", !.wire = kept]
  <2>1. Fixed /\ faults' \in 0..MaxFaults /\ ~Local(k) /\ hop[k].handler = "running"
    BY <1>00, <1>7 DEF Drop
  <2>2. Becomes(k, h)
    BY DEF Becomes, Inv, TypeOK, HopState
  <2>3. kept \in Nat /\ kept <= hop[k].wire
    BY Fields
  <2>4. Has(h, hop[k].caller, hop[k].handler, "broken", hop[k].yielded, kept, hop[k].got,
            hop[k].timed)
    BY <2>3, Fields DEF Has, HopState, Responses
  <2> HIDE DEF h
  <2>5. Sound(k, h)
    BY <2>1, <2>3, <2>4, Fields DEF Has, Sound
  <2>6. Fits(k, h) /\ Visible(k, h)
    BY <2>1, <2>4, Fields DEF Visible, Sound, Has, Fits
  <2> QED
    BY <2>1, <2>2, <2>5, <2>6, Update
<1>8. ASSUME NEW k \in Hop, NEW how \in {"failed", "left"}, hop[k].caller = "waiting",
             hop' = [hop EXCEPT ![k] = Finished(@, how)], Fixed, faults' \in 0..MaxFaults
      PROVE  Inv' /\ Seen
  <2>1. Becomes(k, Finished(hop[k], how))
    BY <1>8 DEF Becomes
  <2>2. /\ Sound(k, Finished(hop[k], how)) /\ Finished(hop[k], how).got = hop[k].got
        /\ Finished(hop[k], how).yielded = hop[k].yielded
        /\ Finished(hop[k], how).handler = hop[k].handler
        /\ Finished(hop[k], how).caller = how
    BY <1>8, Fields, FinishedSound
  <2>3. Fits(k, Finished(hop[k], how))
    BY <1>8, <2>2, Fields DEF Fits
  <2>4. Visible(k, Finished(hop[k], how))
    BY <1>8, <2>2 DEF Visible
  <2> QED
    BY <1>8, <2>1, <2>2, <2>3, <2>4, Update
<1>9. ASSUME NEW k \in Hop, Receive(k) PROVE Inv' /\ Seen
  <2>1. /\ Fixed /\ faults' \in 0..MaxFaults /\ ~Local(k)
        /\ hop[k].caller = "waiting" /\ hop[k].wire > 0
        /\ hop' = [hop EXCEPT ![k] = IF hop[k].got + 1 \in wide
                                     THEN Finished(hop[k], "failed")
                                     ELSE [hop[k] EXCEPT !.wire = hop[k].wire - 1,
                                                         !.got = hop[k].got + 1]]
    BY <1>00, <1>9 DEF Receive, Asks
  <2>2. CASE hop[k].got + 1 \in wide
    BY <1>8, <2>1, <2>2
  <2>3. CASE hop[k].got + 1 \notin wide
    <3> DEFINE w == hop[k].wire - 1
               g == hop[k].got + 1
               h == [hop[k] EXCEPT !.wire = w, !.got = g]
    <3>1. Becomes(k, h)
      BY <2>1, <2>3 DEF Becomes
    <3>0. w \in Nat /\ g \in Nat
      BY <2>1, Fields
    <3> HIDE DEF w, g
    <3>2. Has(h, "waiting", hop[k].handler, hop[k].response, hop[k].yielded, w, g,
              hop[k].timed)
      BY <2>1, <3>0, Fields DEF Has, HopState
    <3> HIDE DEF h
    <3>3. Sound(k, h)
      BY <2>1, <3>2, Fields DEF Has, Sound, w, g
    <3>4. Fits(k, h) /\ Visible(k, h)
      BY <2>1, <3>2, Fields DEF Visible, Sound, Has, Fits, w, g
    <3> QED
      BY <2>1, <3>1, <3>3, <3>4, Update
  <2> QED
    BY <2>2, <2>3
<1>10. ASSUME NEW k \in Hop, End(k) PROVE Inv' /\ Seen
  <2> DEFINE f == [hop[k] EXCEPT !.wire = 0, !.got = hop[k].got + hop[k].wire]
  <2>1. /\ hop' = [hop EXCEPT ![k] = Finished(f, "ended")] /\ Fixed
        /\ faults' \in 0..MaxFaults
        /\ ~Local(k) /\ hop[k].caller = "waiting" /\ hop[k].response = "whole"
        /\ hop[k].wire \in {0, 1}
    BY <1>00, <1>10 DEF End, Asks
  <2>2. hop[k].handler = "returned" /\ hop[k].got + hop[k].wire = hop[k].yielded
    BY <2>1, Fields DEF Sound
  <2>3. Has(f, "waiting", "returned", "whole", hop[k].yielded, 0, hop[k].got + hop[k].wire,
            hop[k].timed)
    BY <2>1, <2>2, Fields DEF Has, HopState
  <2> HIDE DEF f
  <2>4. Sound(k, f)
    BY <2>1, <2>2, <2>3, Fields DEF Has, Sound
  <2>5. /\ Sound(k, Finished(f, "ended")) /\ Finished(f, "ended").caller = "ended"
        /\ Finished(f, "ended").got = hop[k].got + hop[k].wire
        /\ Finished(f, "ended").yielded = hop[k].yielded
        /\ Finished(f, "ended").handler = "returned"
    BY <2>2, <2>3, <2>4, FinishedSound DEF Has
  <2>6. Fits(k, Finished(f, "ended"))
    BY <2>1, <2>2, <2>5, Fields DEF Fits
  <2>8. Visible(k, Finished(f, "ended"))
    BY <2>1, <2>2, <2>5, Fields DEF Visible
  <2>7. Becomes(k, Finished(f, "ended"))
    BY <2>1 DEF Becomes
  <2> QED
    BY <2>1, <2>5, <2>6, <2>7, <2>8, Update
<1>11. ASSUME NEW k \in Hop, Fail(k) \/ Timeout(k) \/ Leave(k) PROVE Inv' /\ Seen
  BY <1>00, <1>8, <1>11 DEF Fail, Timeout, Leave, Asks
<1>13. ASSUME UNCHANGED vars PROVE Inv'
  <2>1. UNCHANGED <<overridden, single, wide, hop, faults>>
    BY <1>13 DEF vars
  <2> QED
    BY <2>1 DEF Inv, TypeOK, Sound, Local, Single, Flow
<1>14. 1 \in Hop /\ \A k \in Hop : k < N => k + 1 \in Hop
  BY DEF Hop
<1> QED
  BY <1>1, <1>2, <1>3, <1>4, <1>5, <1>6, <1>7, <1>9, <1>10, <1>11, <1>12, <1>13, <1>14
  DEF Next, Handle, Transport

LEMMA Invariant == Spec => []Inv
BY InvInit, InvNext, PTL DEF Spec

\* Every state of a hop is one of those listed, and no call is timed twice.
THEOREM TypeCorrect == Spec => []TypeOK
BY Invariant, PTL DEF Inv

-----------------------------------------------------------------------------
\* The two ends of the chain.
Through ==
    /\ 1 \in Hop /\ N \in Hop
    /\ hop[1].got \in Nat /\ hop[N].yielded \in Nat
    /\ hop[1].got <= hop[N].yielded
    /\ hop[1].caller = "ended" =>
           hop[N].handler = "returned" /\ hop[1].got = hop[N].yielded

LEMMA EndsMeet == Inv => Through
<1> SUFFICES ASSUME Inv PROVE Through
  OBVIOUS
<1>1. N \in Nat /\ 1 \in Hop /\ N \in Hop
  BY ChainAssumption DEF Hop
<1>2. /\ Sound(1, hop[1]) /\ hop[1].got \in Nat /\ hop[1].wire \in Nat
      /\ hop[1].yielded \in Nat /\ hop[N].got \in Nat /\ hop[N].wire \in Nat
      /\ Sound(N, hop[N]) /\ hop[N].yielded \in Nat
  BY <1>1, Fields
<1>3. CASE N = 1
  BY <1>1, <1>2, <1>3 DEF Sound, Through
<1>4. CASE N # 1
  <2>1. /\ hop[1].yielded <= hop[N].got
        /\ hop[1].handler = "returned" =>
               hop[N].caller = "ended" /\ hop[1].yielded = hop[N].got
    BY <1>1, <1>4 DEF Inv, Flow, Hop
  <2> QED
    BY <1>1, <1>2, <2>1 DEF Sound, Through
<1> QED
  BY <1>3, <1>4

LEMMA StartsAlike == Init => A!Init
BY ChainAssumption DEF Init, A!Init, Hop

\* A step of the chain is a step of the answer, or leaves it alone.
LEMMA StepsAlike == Inv /\ Through /\ Through' /\ (Seen \/ UNCHANGED vars) => [A!Next]_(A!vars)
<1> SUFFICES ASSUME Inv, Through, Through', Seen PROVE [A!Next]_(A!vars)
  <2>1. UNCHANGED vars => UNCHANGED A!vars
    BY DEF vars, A!vars
  <2> QED
    BY <2>1
<1>1. PICK k \in Hop : \E h : Becomes(k, h) /\ Visible(k, h)
  BY DEF Seen
<1>2. PICK h : Becomes(k, h) /\ Visible(k, h)
  BY <1>1
<1>3. /\ k = 1 => hop'[1] = h
      /\ k # 1 => hop'[1] = hop[1]
      /\ k = N => hop'[N] = h
      /\ k # N => hop'[N] = hop[N]
  BY <1>2 DEF Becomes, Through, Inv, TypeOK
<1>4. CASE k # 1 /\ k # N
  BY <1>3, <1>4 DEF A!vars
<1>5. CASE k = 1 /\ k # N
  <2>1. hop'[1] = h /\ hop'[N] = hop[N] /\ k < N
    BY <1>3, <1>5 DEF Through, Hop
  <2> QED
    BY <1>2, <1>5, <2>1
    DEF Visible, Through, A!Next, A!vars, A!Ask, A!Deliver, A!End, A!GiveUp
<1>6. CASE k # 1 /\ k = N
  <2>1. hop'[1] = hop[1] /\ hop'[N] = h
    BY <1>3, <1>6
  <2> QED
    BY <1>2, <1>6, <2>1 DEF Visible, Through, A!Next, A!vars, A!Produce
<1>7. CASE k = 1 /\ k = N
  <2>1. hop'[1] = h /\ hop'[N] = h
    BY <1>3, <1>7
  <2> QED
    BY <1>2, <1>7, <2>1
    DEF Visible, Through, A!Next, A!vars, A!Ask, A!Produce, A!Deliver, A!End, A!GiveUp
<1> QED
  BY <1>4, <1>5, <1>6, <1>7

\* The chain implements the answer: whatever the number of hops and wherever each
\* runs, its first caller sees one stream (http.py call and stream, service.py).
THEOREM ChainIsOneStream == Spec => OneStream
<1>1. Init => A!Init
  BY StartsAlike
<1>2. Inv /\ Through /\ Through' /\ [Next]_vars => [A!Next]_(A!vars)
  BY InvNext, StepsAlike
<1> QED
  BY <1>1, <1>2, Invariant, EndsMeet, PTL DEF Spec, OneStream, A!Spec

-----------------------------------------------------------------------------
(* The safety half of EveryCallIsTimed: what is left to fairness is that a  *)
(* call comes back.                                                         *)

Over == {"ended", "failed", "left"}

\* A call has been timed exactly when it is over (_observe in the finally of call
\* and stream), on every way out.
THEOREM TimedWhenOver == Spec => [](\A k \in Hop : hop[k].timed = 1 <=> hop[k].caller \in Over)
<1>1. Inv => \A k \in Hop : hop[k].timed = 1 <=> hop[k].caller \in Over
  BY DEF Inv, Sound, HopState, Callers, Over
<1>2. QED
  BY <1>1, Invariant, PTL

\* A call that is over stays as it ended: nothing that arrives later, no timeout and
\* no caller that leaves turns an answer into an error or an error into an answer.
THEOREM OverForGood ==
    Spec => [][\A k \in Hop : hop[k].caller \in Over => hop'[k].caller = hop[k].caller]_vars
<1>1. Inv /\ [Next]_vars =>
          [\A k \in Hop : hop[k].caller \in Over => hop'[k].caller = hop[k].caller]_vars
  <2>1. SUFFICES ASSUME Inv, [Next]_vars, NEW k \in Hop, hop[k].caller \in Over
                 PROVE  hop'[k].caller = hop[k].caller
    OBVIOUS
  <2>2. CASE UNCHANGED vars
    BY <2>2 DEF vars
  <2>3. CASE Seen
    <3>1. PICK j \in Hop : \E h : Becomes(j, h) /\ Visible(j, h)
      BY <2>3 DEF Seen
    <3>2. PICK h : Becomes(j, h) /\ Visible(j, h)
      BY <3>1
    <3>3. hop \in [Hop -> HopState]
      BY <2>1 DEF Inv, TypeOK
    <3>4. hop'[k] = IF k = j THEN h ELSE hop[k]
      BY <3>2, <3>3 DEF Becomes
    <3>5. k = j => h.caller = hop[k].caller
      BY <2>1, <3>2 DEF Visible, Over
    <3>6. QED
      BY <3>4, <3>5
  <2>4. QED
    BY <2>1, <2>2, <2>3, InvNext
<1>2. QED
  BY <1>1, Invariant, PTL DEF Spec


-----------------------------------------------------------------------------
(* The safety half of NobodyWorksForNobody: what is left to fairness is     *)
(* that a handler nobody waits for is closed.                               *)

\* What WorksForSomeone asks of one hop in a step.
Proper(k) ==
    /\ hop[k].handler \in Done => hop'[k].handler = hop[k].handler
    /\ hop[k].caller = "idle" /\ hop'[k].caller # "idle" /\ k > 1 =>
           hop[k - 1].handler = "running"
    /\ Local(k) /\ hop[1].caller # "waiting" /\ hop[k].caller # "idle" =>
           /\ hop'[k].yielded = hop[k].yielded
           /\ hop'[k].handler = "returned" => hop[k].handler = "returned"

Others(k) == \A m \in Hop \ {k} : hop'[m] = hop[m]

\* A local handler that is resumed has the student waiting at the front of the chain.
LEMMA ResumedForSomeone ==
    ASSUME NEW k \in Hop, Resumed(k), Local(k) PROVE hop[1].caller = "waiting"
<1>1. 1 \in 1..k
  BY ChainAssumption DEF Hop
<1> QED
  BY <1>1 DEF Resumed

\* A handler works only after its call was made.
LEMMA RunningWasCalled ==
    ASSUME Inv, NEW k \in Hop, hop[k].handler # "none" PROVE hop[k].caller # "idle"
BY Fields DEF Sound

\* The handler is not touched when its caller ends its wait.
LEMMA FinishedKeeps ==
    ASSUME NEW h \in HopState, NEW how
    PROVE  Finished(h, how).handler = h.handler /\ Finished(h, how).yielded = h.yielded
BY DEF Finished, HopState

\* A handler that is resumed and works on, or ends.
LEMMA WorkingIsProper ==
    ASSUME Inv, NEW k \in Hop, Resumed(k) PROVE Proper(k)
<1>1. hop[k].handler = "running"
  BY DEF Resumed
<1>2. hop[k].caller # "idle"
  BY <1>1, RunningWasCalled
<1>3. Local(k) => hop[1].caller = "waiting"
  BY ResumedForSomeone
<1> QED
  BY <1>1, <1>2, <1>3 DEF Proper, Done

\* The wait of a caller, whose end leaves the handler alone.
LEMMA WaitingIsProper ==
    ASSUME Inv, NEW k \in Hop, hop[k].caller # "idle", hop'[k].handler = hop[k].handler,
           hop'[k].yielded = hop[k].yielded
    PROVE  Proper(k)
BY DEF Proper

LEMMA StepIsProper == Inv /\ Next => \E k \in Hop : Others(k) /\ Proper(k)
<1> SUFFICES ASSUME Inv, Next PROVE \E k \in Hop : Others(k) /\ Proper(k)
  OBVIOUS
<1>0. hop \in [Hop -> HopState]
  BY DEF Inv, TypeOK
<1>1. ASSUME NEW k \in Hop, Call(k) PROVE Others(k) /\ Proper(k)
  <2>1. Others(k)
    BY <1>0, <1>1 DEF Call, Others
  <2>2. hop[k].caller = "idle" /\ hop[k].handler = "none"
    BY <1>1, Fields DEF Call, Sound
  <2>3. k > 1 => hop[k - 1].handler = "running"
    BY <1>1 DEF Call, Resumed
  <2> QED
    BY <2>1, <2>2, <2>3 DEF Proper, Done
<1>2. ASSUME NEW k \in Hop, Accept(k) \/ Refuse(k) PROVE Others(k) /\ Proper(k)
  <2>1. Others(k)
    BY <1>0, <1>2 DEF Accept, Refuse, Others
  <2>2. ~Local(k) /\ hop[k].caller # "idle" /\ hop[k].handler = "none"
    BY <1>2 DEF Accept, Refuse
  <2> QED
    BY <2>1, <2>2 DEF Proper, Done
<1>3. ASSUME NEW k \in Hop, Yield(k) PROVE Others(k) /\ Proper(k)
  <2>1. Others(k)
    BY <1>0, <1>3 DEF Yield, Others
  <2> QED
    BY <1>3, <2>1, WorkingIsProper DEF Yield
<1>4. ASSUME NEW k \in Hop, Return(k) PROVE Others(k) /\ Proper(k)
  <2>1. Others(k)
    BY <1>0, <1>4 DEF Return, Others
  <2> QED
    BY <1>4, <2>1, WorkingIsProper DEF Return
<1>5. ASSUME NEW k \in Hop, Raise(k) PROVE Others(k) /\ Proper(k)
  <2>1. Others(k)
    BY <1>0, <1>5 DEF Raise, Others
  <2> QED
    BY <1>5, <2>1, WorkingIsProper DEF Raise
<1>6. ASSUME NEW k \in Hop, Drop(k) PROVE Others(k) /\ Proper(k)
  <2>1. Others(k)
    BY <1>0, <1>6 DEF Drop, Others
  <2>2. ~Local(k) /\ hop[k].handler = "running"
    BY <1>6 DEF Drop
  <2>3. hop[k].caller # "idle"
    BY <2>2, RunningWasCalled
  <2> QED
    BY <2>1, <2>2, <2>3 DEF Proper, Done
<1>7. ASSUME NEW k \in Hop, Cancel(k) PROVE Others(k) /\ Proper(k)
  <2>1. hop' = [hop EXCEPT ![k].handler = "cancelled"] /\ hop[k].handler = "running"
    BY <1>7 DEF Cancel
  <2>2. Others(k)
    BY <1>0, <2>1 DEF Others
  <2>3. hop'[k].handler = "cancelled" /\ hop'[k].yielded = hop[k].yielded
    BY <1>0, <2>1 DEF HopState
  <2>4. hop[k].caller # "idle"
    BY <2>1, RunningWasCalled
  <2> QED
    BY <2>1, <2>2, <2>3, <2>4 DEF Proper, Done
<1>8. ASSUME NEW k \in Hop, NEW how, hop[k].caller = "waiting",
             hop' = [hop EXCEPT ![k] = Finished(@, how)]
      PROVE  Others(k) /\ Proper(k)
  <2>1. Others(k) /\ hop'[k] = Finished(hop[k], how)
    BY <1>0, <1>8 DEF Others
  <2>2. hop'[k].handler = hop[k].handler /\ hop'[k].yielded = hop[k].yielded
    BY <1>0, <2>1, FinishedKeeps
  <2> QED
    BY <1>8, <2>1, <2>2, WaitingIsProper
<1>9. ASSUME NEW k \in Hop, Fail(k) \/ Timeout(k) \/ Leave(k) PROVE Others(k) /\ Proper(k)
  BY <1>8, <1>9 DEF Fail, Timeout, Leave, Asks
<1>10. ASSUME NEW k \in Hop, Receive(k) PROVE Others(k) /\ Proper(k)
  <2>1. /\ hop[k].caller = "waiting"
        /\ hop' = [hop EXCEPT ![k] = IF hop[k].got + 1 \in wide
                                     THEN Finished(hop[k], "failed")
                                     ELSE [hop[k] EXCEPT !.wire = hop[k].wire - 1,
                                                         !.got = hop[k].got + 1]]
    BY <1>10 DEF Receive, Asks
  <2>2. CASE hop[k].got + 1 \in wide
    BY <1>8, <2>1, <2>2
  <2>3. CASE hop[k].got + 1 \notin wide
    <3>1. Others(k) /\ hop'[k] = [hop[k] EXCEPT !.wire = hop[k].wire - 1,
                                                !.got = hop[k].got + 1]
      BY <1>0, <2>1, <2>3 DEF Others
    <3>2. hop'[k].handler = hop[k].handler /\ hop'[k].yielded = hop[k].yielded
      BY <1>0, <3>1 DEF HopState
    <3> QED
      BY <2>1, <3>1, <3>2, WaitingIsProper
  <2> QED
    BY <2>2, <2>3
<1>11. ASSUME NEW k \in Hop, End(k) PROVE Others(k) /\ Proper(k)
  <2> DEFINE f == [hop[k] EXCEPT !.wire = 0, !.got = hop[k].got + hop[k].wire]
  <2>1. hop[k].caller = "waiting" /\ hop' = [hop EXCEPT ![k] = Finished(f, "ended")]
    BY <1>11 DEF End, Asks
  <2>2. f \in HopState /\ f.handler = hop[k].handler /\ f.yielded = hop[k].yielded
    <3>1. hop[k] \in HopState /\ hop[k].got + hop[k].wire \in Nat
      BY Fields
    <3> QED
      BY <3>1 DEF HopState
  <2> HIDE DEF f
  <2>3. Others(k) /\ hop'[k] = Finished(f, "ended")
    BY <1>0, <2>1 DEF Others
  <2>4. hop'[k].handler = hop[k].handler /\ hop'[k].yielded = hop[k].yielded
    BY <2>2, <2>3, FinishedKeeps
  <2> QED
    BY <2>1, <2>3, <2>4, WaitingIsProper
<1>12. 1 \in Hop /\ \A k \in Hop : k < N => k + 1 \in Hop
  BY ChainAssumption DEF Hop
<1> QED
  BY <1>1, <1>2, <1>3, <1>4, <1>5, <1>6, <1>7, <1>9, <1>10, <1>11, <1>12
  DEF Next, Handle, Transport

\* Work is begun once and for someone, however long the chain and wherever its hops
\* run: no handler that has ended runs again, only a handler that runs makes calls,
\* and in the student's own process none yields once the student has gone (stream).
THEOREM WorkIsForSomeone == Spec => WorksForSomeone
<1>1. Inv /\ [Next]_vars => [\A k \in Hop : Proper(k)]_vars
  <2> SUFFICES ASSUME Inv, Next, NEW k \in Hop PROVE Proper(k)
    OBVIOUS
  <2>1. PICK j \in Hop : Others(j) /\ Proper(j)
    BY StepIsProper
  <2>2. CASE k = j
    BY <2>1, <2>2
  <2>3. CASE k # j
    <3>1. hop'[k] = hop[k]
      BY <2>1, <2>3 DEF Others
    <3> QED
      BY <3>1 DEF Proper
  <2> QED
    BY <2>2, <2>3
<1>2. QED
  BY <1>1, Invariant, PTL DEF Spec, WorksForSomeone, Proper
=============================================================================
