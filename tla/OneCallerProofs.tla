--------------------------- MODULE OneCallerProofs ---------------------------
(***************************************************************************)
(* One caller at a time: the platform calls of a knowledge base whose      *)
(* jobs never overlap, as the scheduler and the administrators run them.   *)
(* Published versions never change and decisions are final wherever calls  *)
(* die; when a caller also runs a publish that died again before anything  *)
(* else, every published version shows exactly its manifest.               *)
(***************************************************************************)
EXTENDS KnowledgeBaseProofs, FiniteSetTheorems, WellFoundedInduction

\* A publish under way is of a candidate above everything published.
JobAbove(state) ==
    /\ state.at \in {"check", "plan", "store", "open"} => Status(state.version) = "candidate"
    /\ state.at \in {"plan", "store", "open"} =>
         \A u \in PublishedVersions : u < state.version

Above == \A j \in Job : JobAbove(job[j])

\* A step of the only job either starts or continues a publish and leaves the
\* registry alone, or ends where nothing is asked of it.
LEMMA OnlyJobAbove ==
    ASSUME IndInv, Above, NEW j \in Job, Job = {j}, JobNext(j)
    PROVE  Above'
<1>1. SUFFICES JobAbove(job[j])'
  BY DEF Above
<1>2. JobAbove(job[j]) /\ job[j] \in JobState /\ JobRefers(job[j])
  BY DEF Above, IndInv, TypeOK, References
<1>3. CASE \E v \in DOMAIN kb : \E sets \in MatchingSets(v) : PublishStart(j, v, sets)
  BY <1>3 DEF IndInv, TypeOK, PublishStart, HasReport, Goto, JobAbove, Status,
              PublishedVersions
<1>4. CASE PublishCheck(j)
  <2>1. kb' = kb /\ job'[j].at = "plan" /\ job'[j].version = job[j].version
    BY <1>4 DEF IndInv, TypeOK, PublishCheck, Goto
  <2>2. job[j].version \in 1..Len(kb) /\ Status(job[j].version) = "candidate"
    BY <1>2, <1>4 DEF PublishCheck, JobAbove, JobRefers
  <2>3. \A u \in PublishedVersions : u <= job[j].version /\ u \in 1..Len(kb)
    BY <1>4 DEF IndInv, TypeOK, PublishCheck, Publishable, PublishedVersions
  <2>4. \A u \in PublishedVersions : u # job[j].version
    BY <2>2 DEF PublishedVersions
  <2>5. \A u \in PublishedVersions : u < job[j].version
    BY <2>2, <2>3, <2>4 DEF IndInv, TypeOK
  <2>6. QED
    BY <2>1, <2>2, <2>5 DEF JobAbove, Status, PublishedVersions
<1>5. CASE PublishPlan(j)
  <2>1. kb' = kb /\ (job'[j].at = "idle" \/ job'[j].version = job[j].version)
    BY <1>5 DEF IndInv, TypeOK, PublishPlan, Goto, Idle
  <2>2. job[j].at = "plan"
    BY <1>5 DEF PublishPlan
  <2>3. QED
    BY <1>2, <2>1, <2>2 DEF JobAbove, Status, PublishedVersions
<1>6. CASE \/ \E set \in ChunkSet : PublishStore(j, set)
           \/ PublishClose(j)
  <2>1. kb' = kb /\ job[j].at = "store"
    BY <1>6 DEF PublishStore, PublishClose
  <2>2. job'[j].version = job[j].version
    BY <1>2, <1>6, <2>1, JobFields DEF IndInv, TypeOK, PublishStore, PublishClose, Goto
  <2>3. QED
    BY <1>2, <2>1, <2>2 DEF JobAbove, Status, PublishedVersions
<1>7. CASE PublishOpen(j) \/ PublishServe(j)
  <2>1. job'[j].at \in {"serve", "finish"}
    BY <1>2, <1>7, JobFields DEF IndInv, TypeOK, PublishOpen, PublishServe, Goto
  <2>2. QED
    BY <2>1 DEF JobAbove
<1>8. CASE \/ \E add, remove \in Batches, enc \in Encoding : CreateStart(j, add, remove, enc)
           \/ CreateNumber(j) \/ CreateInsert(j) \/ CreateConflict(j) \/ CreateAlias(j)
  <2>1. job'[j].at \notin {"check", "plan", "store", "open"}
    BY <1>8 DEF IndInv, TypeOK, CreateStart, CreateNumber, CreateInsert, CreateConflict,
                CreateAlias, Goto, Idle
  <2>2. QED
    BY <2>1 DEF JobAbove
<1>9. CASE \/ PublishFinish(j)
           \/ \E v \in DOMAIN kb : RejectStart(j, v)
           \/ RejectFinish(j)
           \/ \E v \in DOMAIN kb : RollbackStart(j, v)
           \/ RollbackFinish(j)
  <2>1. job'[j].at \notin {"check", "plan", "store", "open"}
    BY <1>9 DEF IndInv, TypeOK, PublishFinish, RejectStart, RejectFinish, RollbackStart,
                RollbackFinish, Goto, Idle
  <2>2. QED
    BY <2>1 DEF JobAbove
<1>10. CASE Crash(j)
  <2>1. job'[j].at \notin {"check", "plan", "store", "open"}
    BY <1>10 DEF IndInv, TypeOK, Crash, Goto, Idle
  <2>2. QED
    BY <2>1 DEF JobAbove
<1>11. CASE \/ \E v \in DOMAIN kb : GateStart(j, v)
            \/ \E passed \in Outcome : GateReport(j, passed)
            \/ GateLink(j)
  BY <1>11, GateMoves DEF JobAbove
<1>12. QED
  BY <1>3, <1>4, <1>5, <1>6, <1>7, <1>8, <1>9, <1>10, <1>11 DEF JobNext

\* Only two steps write intervals, and both write above what is published.
LEMMA PublishedUnmoved ==
    ASSUME IndInv, Above, NEW j \in Job, JobNext(j), NEW u \in PublishedVersions
    PROVE  Active(u)' = Active(u)
<1>1. /\ u \in Nat /\ validity \in SUBSET ValidityRows(Chunk)
      /\ job[j] \in JobState /\ JobAbove(job[j])
  BY DEF IndInv, TypeOK, PublishedVersions, Above
<1>2. CASE PublishClose(j)
  <2>1. job[j].version \in Nat /\ u < job[j].version
    BY <1>1, <1>2, JobFields DEF PublishClose, JobAbove
  <2>2. validity' = CloseIntervals(validity, job[j].closing, job[j].version)
    BY <1>2 DEF PublishClose
  <2>3. QED
    BY <1>1, <2>1, <2>2, CloseLeavesEarlier DEF Active
<1>3. CASE PublishOpen(j)
  <2>1. job[j].version \in Nat /\ u < job[j].version /\ job[j].opening \in SUBSET Chunk
    BY <1>1, <1>3, JobFields DEF PublishOpen, JobAbove
  <2>2. validity' = OpenIntervals(validity, job[j].opening, job[j].version)
    BY <1>3 DEF PublishOpen
  <2>3. QED
    BY <1>1, <2>1, <2>2, OpenLeavesEarlier DEF Active
<1>4. CASE ~ PublishClose(j) /\ ~ PublishOpen(j)
  <2>1. validity' = validity
    BY <1>4 DEF JobNext, CreateStart, CreateNumber, CreateInsert, CreateConflict, CreateAlias,
                GateStart, GateReport, GateLink, PublishStart, PublishCheck, PublishPlan,
                PublishStore, PublishServe, PublishFinish, RejectStart, RejectFinish,
                RollbackStart, RollbackFinish, Crash
  <2>2. QED
    BY <2>1 DEF Active
<1>5. QED
  BY <1>2, <1>3, <1>4

\* With one caller at a time, and however often its calls die and are given
\* up, a published version shows the same chunks for ever (versioning: "Readers
\* pinned to L never see these changes").
THEOREM ReadersStayPinned ==
    ASSUME \A i, j \in Job : i = j
    PROVE  Spec => PinnedReads
<1>1. Init => Above
  BY DEF Init, Above, JobAbove, Idle
<1>2. IndInv /\ Above /\ [Next]_vars => Above'
  <2> SUFFICES ASSUME IndInv, Above, [Next]_vars
               PROVE  Above'
    OBVIOUS
  <2>1. CASE \E j \in Job : JobNext(j)
    <3>1. PICK j \in Job : JobNext(j)
      BY <2>1
    <3>2. Job = {j}
      OBVIOUS
    <3>3. QED
      BY <3>1, <3>2, OnlyJobAbove
  <2>2. CASE UNCHANGED <<kb, job>>
    BY <2>2 DEF Above, JobAbove, Status, PublishedVersions
  <2>3. QED
    BY <2>1, <2>2 DEF Next, SmeDecide, Retract, vars
<1>3. IndInv /\ Above /\ [Next]_vars =>
        [\A v \in PublishedVersions : Active(v)' = Active(v)]_vars
  <2> SUFFICES ASSUME IndInv, Above, Next, NEW v \in PublishedVersions
               PROVE  Active(v)' = Active(v)
    OBVIOUS
  <2>1. CASE \E j \in Job : JobNext(j)
    BY <2>1, PublishedUnmoved
  <2>2. CASE UNCHANGED validity
    BY <2>2 DEF Active
  <2>3. QED
    BY <2>1, <2>2 DEF Next, SmeDecide, Retract
<1>4. QED
  BY <1>1, <1>2, <1>3, Inductive, PTL DEF Spec, PinnedReads

-----------------------------------------------------------------------------
(* Decisions are final.                                                    *)

\* The calls that write a status, past their test of it.
Deciding(state) ==
    state.at \in {"gate", "link", "reject"} \cup Publishing =>
        Status(state.version) = "candidate"

Undecided == \A j \in Job : Deciding(job[j])

\* A step that leaves the registry alone, of a call that has made its test.
LEMMA OnwardUndecided ==
    ASSUME Undecided, NEW j \in Job, Job = {j}, kb' = kb,
           \/ job'[j].at \notin {"gate", "link", "reject"} \cup Publishing
           \/ /\ job[j].at \in {"gate", "link", "reject"} \cup Publishing
              /\ job'[j].version = job[j].version
    PROVE  Undecided'
BY DEF Undecided, Deciding, Status

LEMMA PublishUndecided ==
    ASSUME IndInv, Undecided, NEW j \in Job, Job = {j}, kb' = kb,
           \/ PublishCheck(j)
           \/ PublishPlan(j)
           \/ \E set \in ChunkSet : PublishStore(j, set)
           \/ PublishClose(j)
           \/ PublishOpen(j)
           \/ PublishServe(j)
    PROVE  Undecided'
<1>1. job[j] \in JobState /\ job[j].at \in Publishing
  BY DEF IndInv, TypeOK, Publishing, PublishCheck, PublishPlan, PublishStore, PublishClose,
         PublishOpen, PublishServe
<1>2. CASE PublishCheck(j)
  <2>1. job'[j].version = job[j].version
    BY <1>2 DEF IndInv, TypeOK, PublishCheck, Goto
  <2>2. QED
    BY <1>1, <2>1, OnwardUndecided
<1>3. CASE PublishPlan(j)
  <2>1. job'[j].at = "idle" \/ job'[j].version = job[j].version
    BY <1>3 DEF IndInv, TypeOK, PublishPlan, Goto, Idle
  <2>2. QED
    BY <1>1, <2>1, OnwardUndecided DEF Publishing
<1>4. CASE \/ \E set \in ChunkSet : PublishStore(j, set)
           \/ PublishClose(j) \/ PublishOpen(j) \/ PublishServe(j)
  <2>1. job[j].at \in {"store", "open", "serve"}
    BY <1>4 DEF PublishStore, PublishClose, PublishOpen, PublishServe
  <2>2. job'[j].version = job[j].version
    BY <1>1, <1>4, <2>1, JobFields DEF IndInv, TypeOK, PublishStore, PublishClose,
       PublishOpen, PublishServe, Goto
  <2>3. QED
    BY <1>1, <2>2, OnwardUndecided
<1>5. QED
  BY <1>2, <1>3, <1>4

\* Statuses before a step that are no longer candidate are kept by it.
Final == \A v \in DOMAIN kb : Status(v) # "candidate" => Status(v)' = Status(v)

\* A status is written to a candidate, so the others stay.
LEMMA CandidateDecided ==
    ASSUME IndInv, NEW v \in 1..Len(kb), Status(v) = "candidate",
           NEW status \in {"candidate", "published", "rejected"}, SetStatus(v, status)
    PROVE  Final
<1>1. kb' = [kb EXCEPT ![v].status = status]
  BY DEF SetStatus
<1>2. \A u \in DOMAIN kb : u # v => kb'[u] = kb[u]
  BY <1>1
<1>3. QED
  BY <1>2 DEF Final, Status

LEMMA OnlyJobDecides ==
    ASSUME IndInv, Undecided, FreshManifests, NEW j \in Job, Job = {j}, JobNext(j)
    PROVE  Undecided' /\ Final
<1> DEFINE v == job[j].version
<1>1. job[j] \in JobState /\ JobRefers(job[j]) /\ Deciding(job[j])
  BY DEF Undecided, IndInv, TypeOK, References
<1>2. kb' = kb => Final
  BY DEF Final, Status
<1>3. CASE \/ \E add, remove \in Batches, enc \in Encoding : CreateStart(j, add, remove, enc)
           \/ CreateNumber(j) \/ CreateConflict(j) \/ CreateAlias(j)
           \/ \E u \in DOMAIN kb : RollbackStart(j, u)
           \/ RollbackFinish(j)
           \/ Crash(j)
  <2>1. /\ job'[j].at \notin {"gate", "link", "reject"} \cup Publishing
        /\ kb' = kb
    BY <1>3 DEF IndInv, TypeOK, CreateStart, CreateNumber, CreateConflict, CreateAlias,
                RollbackStart, RollbackFinish, Crash, Goto, Idle, Publishing
  <2>2. QED
    BY <1>2, <2>1, OnwardUndecided
<1>4. CASE CreateInsert(j)
  <2>1. job'[j].at = "candidate"
    BY <1>4 DEF IndInv, TypeOK, CreateInsert, Goto
  <2>2. Undecided'
    BY <2>1 DEF Undecided, Deciding, Publishing
  <2>3. \A u \in DOMAIN kb : kb'[u] = kb[u]
    BY <1>4 DEF IndInv, TypeOK, CreateInsert
  <2>4. QED
    BY <2>2, <2>3 DEF Final, Status
<1>5. CASE \/ \E u \in DOMAIN kb : GateStart(j, u)
           \/ \E u \in DOMAIN kb : RejectStart(j, u)
           \/ \E u \in DOMAIN kb : \E sets \in MatchingSets(u) : PublishStart(j, u, sets)
  <2>1. kb' = kb /\ Status(job'[j].version) = "candidate"
    BY <1>5 DEF IndInv, TypeOK, GateStart, RejectStart, PublishStart, HasReport, Goto
  <2>2. QED
    BY <1>2, <2>1 DEF Undecided, Deciding, Status
<1>6. CASE \E passed \in Outcome : GateReport(j, passed)
  <2>1. kb' = kb /\ job[j].at = "gate" /\ job'[j].version = job[j].version
    BY <1>6 DEF IndInv, TypeOK, GateReport, Goto
  <2>2. QED
    BY <1>2, <2>1, OnwardUndecided
<1>7. CASE \/ PublishCheck(j)
           \/ PublishPlan(j)
           \/ \E set \in ChunkSet : PublishStore(j, set)
           \/ PublishClose(j) \/ PublishOpen(j) \/ PublishServe(j)
  <2>1. kb' = kb
    BY <1>7 DEF PublishCheck, PublishPlan, PublishStore, PublishClose, PublishOpen,
                PublishServe
  <2>2. QED
    BY <1>2, <1>7, <2>1, PublishUndecided
<1>8. CASE GateLink(j)
  <2>1. /\ job'[j] = Idle
        /\ kb' = [kb EXCEPT ![v].status = "candidate", ![v].gate = job[j].report]
    BY <1>8 DEF IndInv, TypeOK, GateLink, Goto
  <2>2. v \in 1..Len(kb) /\ Status(v) = "candidate"
    BY <1>1, <1>8 DEF GateLink, JobRefers, Deciding
  <2>3. \A u \in DOMAIN kb : u # v => kb'[u] = kb[u]
    BY <2>1 DEF IndInv, TypeOK
  <2>4. Final
    BY <2>2, <2>3 DEF Final, Status
  <2>5. Undecided'
    BY <2>1 DEF Undecided, Deciding, Idle, Publishing
  <2>6. QED
    BY <2>4, <2>5
<1>9. CASE PublishFinish(j) \/ RejectFinish(j)
  <2>1. /\ job'[j] = Idle
        /\ SetStatus(v, "published") \/ SetStatus(v, "rejected")
    BY <1>9 DEF IndInv, TypeOK, PublishFinish, RejectFinish, Goto
  <2>2. v \in 1..Len(kb) /\ Status(v) = "candidate"
    BY <1>1, <1>9 DEF PublishFinish, RejectFinish, JobRefers, Deciding, Publishing
  <2>3. Final
    BY <2>1, <2>2, CandidateDecided
  <2>4. Undecided'
    BY <2>1 DEF Undecided, Deciding, Idle, Publishing
  <2>5. QED
    BY <2>3, <2>4
<1>10. QED
  BY <1>3, <1>4, <1>5, <1>6, <1>7, <1>8, <1>9 DEF JobNext

LEMMA UndecidedSteps ==
    ASSUME \A i, j \in Job : i = j, FreshManifests
    PROVE  /\ Init => Undecided
           /\ IndInv /\ Undecided /\ [Next]_vars => Undecided' /\ [Final]_vars
<1>1. Init => Undecided
  BY DEF Init, Undecided, Deciding, Idle, Publishing
<1>2. IndInv /\ Undecided /\ [Next]_vars => Undecided' /\ [Final]_vars
  <2> SUFFICES ASSUME IndInv, Undecided, [Next]_vars
               PROVE  Undecided' /\ Final
    OBVIOUS
  <2>1. CASE \E j \in Job : JobNext(j)
    <3>1. PICK j \in Job : JobNext(j)
      BY <2>1
    <3>2. Job = {j}
      OBVIOUS
    <3>3. QED
      BY <3>1, <3>2, OnlyJobDecides
  <2>2. CASE UNCHANGED <<kb, job>>
    BY <2>2 DEF Undecided, Deciding, Final, Status
  <2>3. QED
    BY <2>1, <2>2 DEF Next, SmeDecide, Retract, vars
<1>3. QED
  BY <1>1, <1>2

\* With one caller at a time that reads manifests before it gates them, a
\* published or rejected version stays that, wherever calls die (reject,
\* publish, run_gate).
THEOREM DecisionsStand ==
    ASSUME \A i, j \in Job : i = j, FreshManifests
    PROVE  Spec => DecisionIsFinal
BY Inductive, UndecidedSteps, PTL DEF Spec, DecisionIsFinal, Final

-----------------------------------------------------------------------------
(* The largest of a bounded set of numbers.                                *)

\* Intervals from 0 are finite sets, which strict inclusion orders well.
LEMMA LeastNatural ==
    ASSUME NEW B \in SUBSET Nat, B # {}
    PROVE  \E b \in B : \A c \in B : b <= c
<1> DEFINE R == StrictSubsetOrdering(Nat)
           T == {0..b : b \in B}
<1>1. T \subseteq FiniteSubsetsOf(Nat) /\ T # {}
  <2>1. ASSUME NEW b \in B
        PROVE  0..b \in FiniteSubsetsOf(Nat)
    <3>1. b \in Int /\ 0..b \in SUBSET Nat
      OBVIOUS
    <3>2. IsFiniteSet(0..b)
      BY <3>1, FS_Interval
    <3>3. QED
      BY <3>1, <3>2 DEF FiniteSubsetsOf
  <2>2. QED
    BY <2>1
<1>2. PICK x \in T : \A y \in T : ~ (<<y, x>> \in R)
  <2> HIDE DEF T, R
  <2>1. IsWellFoundedOn(R, FiniteSubsetsOf(Nat))
    BY FS_StrictSubsetOrderingWellFounded DEF R
  <2>2. QED
    BY <1>1, <2>1, WFMin
<1>3. PICK b \in B : x = 0..b
  BY <1>2
<1>4. ASSUME NEW c \in B, ~ (b <= c)
      PROVE  FALSE
  <2>1. b \in Nat /\ c \in Nat /\ c < b
    BY <1>4
  <2>2. /\ 0..c \subseteq 0..b /\ 0..c # 0..b
        /\ 0..c \in SUBSET Nat /\ 0..b \in SUBSET Nat
    <3>1. b \in 0..b /\ b \notin 0..c
      BY <2>1
    <3>2. QED
      BY <2>1, <3>1
  <2>3. <<0..c, 0..b>> \in R
    BY <2>2 DEF StrictSubsetOrdering
  <2>4. QED
    BY <1>2, <1>3, <2>3
<1>5. QED
  BY <1>4

\* The least upper bound is in the set: were it not, one less would do.
LEMMA MaxOfBounded ==
    ASSUME NEW S \in SUBSET Nat, S # {}, NEW n \in Nat, \A s \in S : s <= n
    PROVE  Max(S) \in S /\ \A s \in S : s <= Max(S)
<1> DEFINE Bounds == {b \in Nat : \A s \in S : s <= b}
<1>1. PICK b \in Bounds : \A c \in Bounds : b <= c
  <2>1. Bounds \in SUBSET Nat /\ Bounds # {}
    OBVIOUS
  <2> HIDE DEF Bounds
  <2>2. QED
    BY <2>1, LeastNatural
<1>2. ASSUME b \notin S
      PROVE  FALSE
  <2>1. \A s \in S : s <= b - 1
    BY <1>1, <1>2
  <2>2. b - 1 \in Nat
    <3>1. PICK s \in S : TRUE
      OBVIOUS
    <3>2. s \in Nat /\ s < b
      BY <2>1, <1>1
    <3>3. QED
      BY <3>2, <1>1
  <2>3. b - 1 \in Bounds
    BY <2>1, <2>2
  <2>4. QED
    BY <1>1, <2>3
<1>3. b \in S /\ \A s \in S : b >= s
  BY <1>1, <1>2
<1>4. QED
  BY <1>3 DEF Max

-----------------------------------------------------------------------------
(* A caller that runs a dead publish again before anything else.           *)

\* Version 0 stands for none.
Since(v) == v \in PublishedVersions \cup {0}

\* What a publish hides and shows, whether it has done so yet or not.
Gone(v, sets) == Active(LatestPublished) \ Target(v, sets)
Come(v, sets) == Target(v, sets) \ Active(LatestPublished)

\* No interval begins or ends above what is published.
Untouched == \A row \in validity : Settled(row, LatestPublished)

\* Each interval is as it was, or as the publish of v leaves it.
Begun(v, sets) ==
    /\ LatestPublished < v
    /\ Missing(v, sets) = {}
    /\ Between(validity, LatestPublished, v, Gone(v, sets), Come(v, sets))

Complete(v, sets) ==
    /\ AllClosed(validity, Gone(v, sets))
    /\ AllOpened(validity, Come(v, sets), v)

\* A publish that was started, and may have died any number of times: the
\* alias has moved only if every interval had.
Halfway(v, sets) ==
    /\ Status(v) = "candidate"
    /\ sets \in MatchingSets(v)
    /\ Untouched \/ Begun(v, sets)
    /\ \/ Since(alias["serving"])
       \/ alias["serving"] = v /\ Begun(v, sets) /\ Complete(v, sets)

Quiet(state) == state.at \notin Publishing \cup {"interrupted"}

\* What the plan of a publish is made of is still there when it is carried out.
Planned(state) ==
    /\ Missing(state.version, state.sets) = {}
    /\ state.closing = Gone(state.version, state.sets)
    /\ state.opening = Come(state.version, state.sets)

JobOne(state) ==
    /\ state.at \in {"number", "insert"} => Since(state.parent)
    /\ state.at = "rollback" => state.version \in PublishedVersions
    /\ Quiet(state) => Untouched /\ Since(alias["serving"])
    /\ ~ Quiet(state) => Halfway(state.version, state.sets)
    /\ state.at \in {"plan", "store", "open", "serve", "finish"} =>
         LatestPublished < state.version
    /\ state.at \in {"store", "open", "serve", "finish"} => Planned(state)
    /\ state.at \in {"open", "serve", "finish"} => AllClosed(validity, state.closing)
    /\ state.at \in {"serve", "finish"} => AllOpened(validity, state.opening, state.version)
    /\ state.at = "finish" => alias["serving"] = state.version

Parents == \A v \in 1..Len(kb) : Since(kb[v].parent)

OneInv ==
    /\ Tidy(validity)
    /\ ShowsItsManifest
    /\ Parents
    /\ \A j \in Job : JobOne(job[j])

LEMMA LatestIs ==
    ASSUME IndInv
    PROVE  /\ PublishedVersions \in SUBSET (1..Len(kb))
           /\ LatestPublished \in 0..Len(kb)
           /\ Since(LatestPublished)
           /\ \A u \in PublishedVersions : u <= LatestPublished
<1>1. PublishedVersions \in SUBSET (1..Len(kb)) /\ Len(kb) \in Nat
  BY DEF IndInv, TypeOK, PublishedVersions
<1>2. PICK S : S = PublishedVersions \cup {0}
  OBVIOUS
<1>3. S \in SUBSET Nat /\ S # {} /\ \A s \in S : s <= Len(kb)
  BY <1>1, <1>2
<1>4. Max(S) \in S /\ \A s \in S : s <= Max(S)
  BY <1>1, <1>3, MaxOfBounded
<1>5. LatestPublished = Max(S)
  BY <1>2 DEF LatestPublished
<1>6. Max(S) \in 0..Len(kb) /\ \A u \in PublishedVersions : u <= Max(S)
  <2>1. \A s \in S : s \in 0..Len(kb)
    BY <1>1, <1>2
  <2>2. \A u \in PublishedVersions : u \in S
    BY <1>2
  <2>3. QED
    BY <1>4, <2>1, <2>2
<1>7. QED
  BY <1>1, <1>2, <1>4, <1>5, <1>6 DEF Since

\* A version above all that is published becomes the latest.
LEMMA LatestBecomes ==
    ASSUME IndInv, NEW v \in Nat, LatestPublished < v,
           PublishedVersions' = PublishedVersions \cup {v}
    PROVE  LatestPublished' = v
<1>1. /\ PublishedVersions \in SUBSET Nat
      /\ \A u \in PublishedVersions : u <= LatestPublished
      /\ LatestPublished \in Nat
  BY LatestIs DEF IndInv, TypeOK
<1>2. PICK S : S = PublishedVersions' \cup {0}
  OBVIOUS
<1>3. S \in SUBSET Nat /\ v \in S /\ \A s \in S : s <= v
  BY <1>1, <1>2
<1>4. Max(S) \in S /\ \A s \in S : s <= Max(S)
  BY <1>3, MaxOfBounded
<1>5. LatestPublished' = Max(S)
  BY <1>2 DEF LatestPublished
<1>6. Max(S) = v
  <2>1. Max(S) \in Nat /\ Max(S) <= v /\ v <= Max(S)
    BY <1>3, <1>4
  <2>2. QED
    BY <2>1
<1>7. QED
  BY <1>5, <1>6

\* A plan depends on the rows of the registry, and on what the latest published
\* version and the parent of the candidate show.
LEMMA PlanKept ==
    ASSUME IndInv, Parents, kb' = kb,
           \A u : Since(u) => Active(u)' = Active(u),
           NEW v \in 1..Len(kb), NEW sets
    PROVE  /\ LatestPublished' = LatestPublished
           /\ Target(v, sets)' = Target(v, sets)
           /\ Gone(v, sets)' = Gone(v, sets)
           /\ Come(v, sets)' = Come(v, sets)
           /\ Missing(v, sets)' = Missing(v, sets)
<1>1. PublishedVersions' = PublishedVersions
  BY DEF PublishedVersions, Status
<1>2. LatestPublished' = LatestPublished
  BY <1>1 DEF LatestPublished
<1>3. Active(LatestPublished)' = Active(LatestPublished)
  <2>1. PICK u : u = LatestPublished
    OBVIOUS
  <2>2. Active(u)' = Active(u)
    BY <2>1, LatestIs
  <2>3. QED
    BY <1>2, <2>1, <2>2 DEF Active
<1>4. Reusable(v)' = Reusable(v)
  <2>1. PICK us : us = {w \in {LatestPublished, kb[v].parent} \ {0} : kb[w].enc = kb[v].enc}
    OBVIOUS
  <2>2. {w \in {LatestPublished, kb[v].parent} \ {0} : kb[w].enc = kb[v].enc}' = us
    BY <1>2, <2>1
  <2>3. \A w \in us : Active(w)' = Active(w)
    BY <2>1, LatestIs DEF Parents
  <2>4. Reusable(v) = UNION {Active(u) : u \in us}
    BY <2>1 DEF Reusable
  <2>5. Reusable(v)' = UNION {Active(u)' : u \in us}
    BY <2>2 DEF Reusable
  <2>6. QED
    BY <2>3, <2>4, <2>5
<1>5. Retained(v, sets)' = Retained(v, sets)
  BY <1>4 DEF Retained
<1>6. Target(v, sets)' = Target(v, sets)
  BY <1>5 DEF Target
<1>7. Missing(v, sets)' = Missing(v, sets)
  BY <1>5 DEF Missing
<1>8. QED
  BY <1>2, <1>3, <1>6, <1>7 DEF Gone, Come

\* A step that writes neither rows nor intervals leaves the store as it is.
LEMMA StoreKept ==
    ASSUME IndInv, OneInv, UNCHANGED <<kb, validity>>
    PROVE  /\ Tidy(validity)' /\ ShowsItsManifest' /\ Parents'
           /\ PublishedVersions' = PublishedVersions
           /\ LatestPublished' = LatestPublished
           /\ Untouched => Untouched'
           /\ \A u : Active(u)' = Active(u)
<1>1. PublishedVersions' = PublishedVersions
  BY DEF PublishedVersions, Status
<1>2. LatestPublished' = LatestPublished
  BY <1>1 DEF LatestPublished
<1>3. \A u : Active(u)' = Active(u)
  BY DEF Active
<1>4. Tidy(validity)'
  BY DEF OneInv
<1>5. ShowsItsManifest'
  BY <1>1, <1>3 DEF OneInv, ShowsItsManifest
<1>6. Parents'
  BY <1>1 DEF OneInv, Parents, Since
<1>7. Untouched => Untouched'
  BY <1>2 DEF Untouched
<1>8. QED
  BY <1>1, <1>2, <1>3, <1>4, <1>5, <1>6, <1>7

LEMMA HalfwayKept ==
    ASSUME IndInv, OneInv, UNCHANGED <<kb, validity, alias>>,
           NEW v \in 1..Len(kb), NEW sets, Halfway(v, sets)
    PROVE  Halfway(v, sets)'
<1>1. /\ PublishedVersions' = PublishedVersions
      /\ LatestPublished' = LatestPublished
      /\ Untouched => Untouched'
      /\ \A u : Active(u)' = Active(u)
  BY StoreKept
<1>2. /\ Gone(v, sets)' = Gone(v, sets)
      /\ Come(v, sets)' = Come(v, sets)
      /\ Missing(v, sets)' = Missing(v, sets)
  BY <1>1, PlanKept DEF OneInv
<1>3. Begun(v, sets) => Begun(v, sets)'
  BY <1>1, <1>2 DEF Begun
<1>4. Complete(v, sets) => Complete(v, sets)'
  BY <1>2 DEF Complete
<1>5. Status(v)' = "candidate" /\ sets \in MatchingSets(v)'
  BY DEF Halfway, Status, MatchingSets
<1>6. QED
  BY <1>1, <1>3, <1>4, <1>5 DEF Halfway, Since

\* Between calls of the platform, and in those that publish nothing.
LEMMA QuietKept ==
    ASSUME IndInv, OneInv, NEW j \in Job, Job = {j}, UNCHANGED <<kb, validity>>,
           Quiet(job[j]), Quiet(job'[j]), Since(alias'["serving"]),
           job'[j].at \in {"number", "insert"} => Since(job'[j].parent),
           job'[j].at = "rollback" => job'[j].version \in PublishedVersions
    PROVE  OneInv'
<1>1. Untouched
  BY DEF OneInv, JobOne
<1>2. /\ Tidy(validity)' /\ ShowsItsManifest' /\ Parents'
      /\ PublishedVersions' = PublishedVersions /\ Untouched'
  BY <1>1, StoreKept
<1>3. JobOne(job[j])'
  BY <1>2 DEF JobOne, Quiet, Publishing, Since
<1>4. QED
  BY <1>2, <1>3 DEF OneInv

\* A candidate appears, is linked to a report or is rejected.
LEMMA CandidateKept ==
    ASSUME IndInv, OneInv, NEW j \in Job, Job = {j}, UNCHANGED <<validity, alias>>,
           Quiet(job[j]), job'[j].at \in {"candidate", "idle"},
           PublishedVersions' = PublishedVersions,
           \A u \in PublishedVersions : kb'[u].docs = kb[u].docs /\ kb'[u].enc = kb[u].enc,
           \A u \in 1..Len(kb') : Since(kb'[u].parent)
    PROVE  OneInv'
<1>1. Untouched /\ Since(alias["serving"])
  BY DEF OneInv, JobOne
<1>2. LatestPublished' = LatestPublished
  BY DEF LatestPublished
<1>3. \A u : Active(u)' = Active(u)
  BY DEF Active
<1>4. ShowsItsManifest'
  BY <1>3 DEF OneInv, ShowsItsManifest
<1>5. Parents' /\ Untouched' /\ Since(alias["serving"])'
  BY <1>1, <1>2 DEF Parents, Untouched, Since
<1>6. JobOne(job[j])'
  BY <1>5 DEF JobOne, Quiet, Publishing
<1>7. Tidy(validity)'
  BY DEF OneInv
<1>8. QED
  BY <1>4, <1>5, <1>6, <1>7 DEF OneInv

LEMMA QuietSteps ==
    ASSUME IndInv, OneInv, NEW j \in Job, Job = {j},
           \/ \E add, remove \in Batches, enc \in Encoding : CreateStart(j, add, remove, enc)
           \/ CreateNumber(j) \/ CreateConflict(j) \/ CreateAlias(j)
           \/ \E v \in DOMAIN kb : GateStart(j, v)
           \/ \E passed \in Outcome : GateReport(j, passed)
           \/ \E v \in DOMAIN kb : RejectStart(j, v)
           \/ \E v \in DOMAIN kb : RollbackStart(j, v)
           \/ RollbackFinish(j)
    PROVE  OneInv'
<1>1. job[j] \in JobState /\ JobOne(job[j]) /\ job \in [Job -> JobState]
  BY DEF OneInv, IndInv, TypeOK
<1>2. CASE \E add, remove \in Batches, enc \in Encoding : CreateStart(j, add, remove, enc)
  <2>1. /\ job[j] = Idle /\ UNCHANGED <<kb, validity, alias>>
        /\ job'[j].at = "number" /\ job'[j].parent = alias["serving"]
    BY <1>1, <1>2 DEF CreateStart, Goto
  <2>2. Quiet(job[j]) /\ Quiet(job'[j])
    BY <2>1 DEF Quiet, Publishing, Idle
  <2>3. QED
    BY <1>1, <2>1, <2>2, QuietKept DEF JobOne
<1>3. CASE CreateNumber(j)
  <2>1. /\ job[j].at = "number" /\ UNCHANGED <<kb, validity, alias>>
        /\ job'[j].at = "insert" /\ job'[j].parent = job[j].parent
    BY <1>1, <1>3 DEF CreateNumber, Goto
  <2>2. Quiet(job[j]) /\ Quiet(job'[j])
    BY <2>1 DEF Quiet, Publishing
  <2>3. QED
    BY <1>1, <2>1, <2>2, QuietKept DEF JobOne
<1>4. CASE CreateConflict(j) \/ CreateAlias(j)
  <2>1. /\ job[j].at \in {"insert", "candidate"} /\ UNCHANGED <<kb, validity>>
        /\ job'[j].at = "idle" /\ alias'["serving"] = alias["serving"]
    BY <1>1, <1>4 DEF CreateConflict, CreateAlias, SetAlias, Goto, Idle, IndInv, TypeOK
  <2>2. Quiet(job[j]) /\ Quiet(job'[j])
    BY <2>1 DEF Quiet, Publishing
  <2>3. QED
    BY <1>1, <2>1, <2>2, QuietKept DEF JobOne
<1>5. CASE \/ \E v \in DOMAIN kb : GateStart(j, v)
           \/ \E passed \in Outcome : GateReport(j, passed)
           \/ \E v \in DOMAIN kb : RejectStart(j, v)
  <2>1. job[j].at \in {"idle", "gate"} /\ UNCHANGED <<kb, validity, alias>>
    <3>1. CASE \E passed \in Outcome : GateReport(j, passed)
      BY <3>1 DEF GateReport
    <3>2. CASE \E v \in DOMAIN kb : GateStart(j, v) \/ RejectStart(j, v)
      BY <3>2 DEF GateStart, RejectStart, Idle
    <3>3. QED
      BY <1>5, <3>1, <3>2
  <2>2. job'[j].at \in {"gate", "link", "idle", "reject"}
    <3>1. CASE \E v \in DOMAIN kb : RejectStart(j, v)
      BY <1>1, <3>1 DEF RejectStart, Goto
    <3>2. QED
      BY <1>5, <3>1, GateMoves
  <2>3. Quiet(job[j]) /\ Quiet(job'[j])
    BY <2>1, <2>2 DEF Quiet, Publishing
  <2>4. QED
    BY <1>1, <2>1, <2>2, <2>3, QuietKept DEF JobOne
<1>6. CASE \E v \in DOMAIN kb : RollbackStart(j, v)
  <2>1. /\ job[j] = Idle /\ UNCHANGED <<kb, validity, alias>>
        /\ job'[j].at = "rollback" /\ job'[j].version \in PublishedVersions
    BY <1>1, <1>6 DEF RollbackStart, Goto, PublishedVersions
  <2>2. Quiet(job[j]) /\ Quiet(job'[j])
    BY <2>1 DEF Quiet, Publishing, Idle
  <2>3. QED
    BY <1>1, <2>1, <2>2, QuietKept DEF JobOne
<1>7. CASE RollbackFinish(j)
  <2>1. /\ job[j].at = "rollback" /\ UNCHANGED <<kb, validity>>
        /\ job'[j].at = "idle" /\ alias'["serving"] = job[j].version
    BY <1>1, <1>7 DEF RollbackFinish, SetAlias, Goto, Idle, IndInv, TypeOK
  <2>2. Quiet(job[j]) /\ Quiet(job'[j])
    BY <2>1 DEF Quiet, Publishing
  <2>3. QED
    BY <1>1, <2>1, <2>2, QuietKept DEF JobOne, Since
<1>8. QED
  BY <1>2, <1>3, <1>4, <1>5, <1>6, <1>7

\* Of the steps that write a row none publishes it, but the last of publish.
LEMMA CandidateSteps ==
    ASSUME IndInv, OneInv, Undecided, NEW j \in Job, Job = {j},
           CreateInsert(j) \/ GateLink(j) \/ RejectFinish(j)
    PROVE  OneInv' /\ PublishedVersions' = PublishedVersions /\ UNCHANGED <<validity, alias>>
<1> DEFINE v == job[j].version
<1>1. /\ job[j] \in JobState /\ JobOne(job[j]) /\ Deciding(job[j]) /\ JobRefers(job[j])
      /\ job \in [Job -> JobState] /\ kb \in Seq(KbRow) /\ Parents
  BY DEF OneInv, IndInv, TypeOK, Undecided, References
<1>2. CASE CreateInsert(j)
  <2> DEFINE row == [docs |-> job[j].docs, parent |-> job[j].parent, enc |-> job[j].enc,
                     status |-> "candidate", gate |-> 0]
  <2>1. /\ job[j].at = "insert" /\ job'[j].at = "candidate" /\ UNCHANGED <<validity, alias>>
        /\ kb' = Append(kb, row)
    BY <1>1, <1>2 DEF CreateInsert, Goto
  <2>2. row \in KbRow
    BY <1>1, <2>1, JobFields DEF KbRow
  <2>3. row.status = "candidate" /\ row.parent = job[j].parent
    OBVIOUS
  <2> HIDE DEF row
  <2>4. /\ kb' \in Seq(KbRow)
        /\ Len(kb') = Len(kb) + 1
        /\ \A u \in 1..Len(kb) : kb'[u] = kb[u]
        /\ kb'[Len(kb) + 1] = row
    BY <2>1, <2>2, KbAppend DEF IndInv
  <2>5. PublishedVersions' = PublishedVersions
    BY <1>1, <2>3, <2>4 DEF PublishedVersions, Status
  <2>6. \A u \in 1..Len(kb') : Since(kb'[u].parent)
    <3>1. Since(row.parent)
      BY <1>1, <2>1, <2>3 DEF JobOne
    <3>2. \A u \in 1..Len(kb') : u \in 1..Len(kb) \/ u = Len(kb) + 1
      BY <1>1, <2>4
    <3>3. QED
      BY <1>1, <2>4, <3>1, <3>2 DEF Parents
  <2>7. Quiet(job[j])
    BY <2>1 DEF Quiet, Publishing
  <2>8. \A u \in PublishedVersions : kb'[u] = kb[u]
    BY <1>1, <2>4 DEF PublishedVersions
  <2>9. QED
    BY <2>1, <2>5, <2>6, <2>7, <2>8, CandidateKept
<1>3. CASE GateLink(j) \/ RejectFinish(j)
  <2>1. /\ job[j].at \in {"link", "reject"} /\ job'[j].at = "idle"
        /\ UNCHANGED <<validity, alias>>
    BY <1>1, <1>3 DEF GateLink, RejectFinish, Goto, Idle
  <2>2. v \in 1..Len(kb) /\ Status(v) = "candidate" /\ Quiet(job[j])
    BY <1>1, <2>1 DEF JobRefers, Deciding, Quiet, Publishing
  <2>3. /\ DOMAIN kb' = DOMAIN kb /\ Len(kb') = Len(kb)
        /\ \A u \in 1..Len(kb) : u # v => kb'[u] = kb[u]
        /\ kb'[v].docs = kb[v].docs /\ kb'[v].parent = kb[v].parent
        /\ kb'[v].enc = kb[v].enc /\ kb'[v].status # "published"
    <3>1. kb[v] \in KbRow
      BY <1>1, <2>2
    <3>2. CASE GateLink(j)
      <4>1. kb' = [kb EXCEPT ![v] = [@ EXCEPT !.status = "candidate", !.gate = job[j].report]]
        BY <1>1, <2>2, <3>2 DEF GateLink
      <4>2. QED
        BY <1>1, <2>2, <3>1, <4>1 DEF KbRow
    <3>3. CASE RejectFinish(j)
      <4>1. kb' = [kb EXCEPT ![v] = [@ EXCEPT !.status = "rejected"]]
        BY <1>1, <2>2, <3>3 DEF RejectFinish, SetStatus
      <4>2. QED
        BY <1>1, <2>2, <3>1, <4>1 DEF KbRow
    <3>4. QED
      BY <1>3, <3>2, <3>3
  <2>4. PublishedVersions' = PublishedVersions
    BY <1>1, <2>2, <2>3 DEF PublishedVersions, Status
  <2>5. \A u \in 1..Len(kb') : Since(kb'[u].parent)
    BY <1>1, <2>3 DEF Parents
  <2>6. \A u \in PublishedVersions : kb'[u].docs = kb[u].docs /\ kb'[u].enc = kb[u].enc
    BY <1>1, <2>3 DEF PublishedVersions
  <2>7. QED
    BY <2>1, <2>2, <2>4, <2>5, <2>6, CandidateKept
<1>4. QED
  BY <1>2, <1>3

\* A publish that has not come to its plan, or has died.
LEMMA OnwardOne ==
    ASSUME IndInv, OneInv, NEW j \in Job, Job = {j}, UNCHANGED <<kb, validity, alias>>,
           NEW v \in 1..Len(kb), NEW sets, Halfway(v, sets),
           job'[j].at \in {"check", "plan", "interrupted"},
           job'[j].version = v, job'[j].sets = sets,
           job'[j].at = "plan" => LatestPublished < v
    PROVE  OneInv'
<1>1. Halfway(v, sets)' /\ LatestPublished' = LatestPublished
  BY HalfwayKept, StoreKept
<1>2. Halfway(job[j].version, job[j].sets)'
  BY <1>1
<1>3. ~ Quiet(job[j])'
  BY DEF Quiet, Publishing
<1>4. JobOne(job[j])'
  BY <1>1, <1>2, <1>3 DEF JobOne
<1>5. QED
  BY <1>4, StoreKept DEF OneInv

\* A publish that carries out its plan has begun, if only with nothing done.
LEMMA UnderWay ==
    ASSUME IndInv, OneInv, NEW j \in Job, job[j].at \in {"store", "open", "serve", "finish"}
    PROVE  LET v == job[j].version
               sets == job[j].sets
           IN  /\ job[j] \in JobState /\ JobOne(job[j])
               /\ v \in 1..Len(kb) /\ v \in Nat /\ LatestPublished \in Nat
               /\ Halfway(v, sets) /\ Begun(v, sets)
               /\ job[j].closing = Gone(v, sets) /\ job[j].opening = Come(v, sets)
               /\ Gone(v, sets) \in SUBSET Chunk /\ Come(v, sets) \in SUBSET Chunk
<1> DEFINE v == job[j].version
           sets == job[j].sets
<1>1. job[j] \in JobState /\ JobOne(job[j]) /\ v \in 1..Len(kb) /\ v \in Nat
  BY PublishingCleared DEF OneInv
<1>2. /\ Halfway(v, sets) /\ LatestPublished < v /\ Missing(v, sets) = {}
      /\ job[j].closing = Gone(v, sets) /\ job[j].opening = Come(v, sets)
  BY <1>1 DEF JobOne, Quiet, Publishing, Planned
<1>3. Begun(v, sets)
  BY <1>2 DEF Halfway, Begun, Untouched, Between
<1>4. /\ job[j].closing \in SUBSET Chunk /\ job[j].opening \in SUBSET Chunk
      /\ LatestPublished \in Nat
  BY <1>1, JobFields, LatestIs DEF IndInv, TypeOK
<1>5. QED
  BY <1>1, <1>2, <1>3, <1>4

LEMMA PublishStartOne ==
    ASSUME IndInv, OneInv, NEW j \in Job, Job = {j}, NEW v \in DOMAIN kb,
           NEW sets \in MatchingSets(v), PublishStart(j, v, sets)
    PROVE  OneInv'
<1>1. v \in 1..Len(kb) /\ job \in [Job -> JobState] /\ JobOne(job[j])
  BY DEF IndInv, TypeOK, OneInv
<1>2. /\ job'[j].at = "check" /\ job'[j].version = v /\ job'[j].sets = sets
      /\ UNCHANGED <<kb, validity, alias>>
  BY <1>1 DEF PublishStart, Goto
<1>3. Halfway(v, sets)
  <2>1. CASE job[j] = Idle
    <3>1. Untouched /\ Since(alias["serving"])
      BY <1>1, <2>1 DEF JobOne, Quiet, Publishing, Idle
    <3>2. QED
      BY <3>1 DEF Halfway, PublishStart, HasReport
  <2>2. CASE job[j] = [at |-> "interrupted", version |-> v, sets |-> sets]
    <3>1. ~ Quiet(job[j]) /\ job[j].version = v /\ job[j].sets = sets
      BY <2>2 DEF Quiet
    <3>2. QED
      BY <1>1, <3>1 DEF JobOne
  <2>3. QED
    BY <2>1, <2>2 DEF PublishStart
<1>4. QED
  BY <1>1, <1>2, <1>3, OnwardOne

LEMMA PublishCheckOne ==
    ASSUME IndInv, OneInv, NEW j \in Job, Job = {j}, PublishCheck(j)
    PROVE  OneInv'
<1>1. PICK v, sets : v = job[j].version /\ sets = job[j].sets
  OBVIOUS
<1>2. /\ job[j].at = "check" /\ job[j] \in JobState /\ JobOne(job[j]) /\ JobRefers(job[j])
      /\ job \in [Job -> JobState] /\ kb \in Seq(KbRow)
  BY DEF IndInv, TypeOK, References, OneInv, PublishCheck
<1>3. v \in 1..Len(kb) /\ Halfway(v, sets)
  BY <1>1, <1>2 DEF JobRefers, JobOne, Quiet, Publishing
<1>4. /\ job'[j].at = "plan" /\ job'[j].version = v /\ job'[j].sets = sets
      /\ UNCHANGED <<kb, validity, alias>>
  BY <1>1, <1>2 DEF PublishCheck, Goto
<1>5. LatestPublished < v
  <2>1. \A u \in PublishedVersions : u <= v
    BY <1>1 DEF PublishCheck, Publishable
  <2>2. v \notin PublishedVersions
    BY <1>3 DEF Halfway, PublishedVersions
  <2>3. LatestPublished \in 0..Len(kb) /\ Since(LatestPublished) /\ Len(kb) \in Nat
    BY <1>2, LatestIs
  <2>4. LatestPublished <= v /\ LatestPublished # v
    BY <1>2, <1>3, <2>1, <2>2, <2>3 DEF Since
  <2>5. QED
    BY <1>3, <2>3, <2>4
<1>6. QED
  BY <1>3, <1>4, <1>5, OnwardOne

\* A publish with documents missing has moved nothing, so it may be given up.
LEMMA PublishPlanOne ==
    ASSUME IndInv, OneInv, NEW j \in Job, Job = {j}, PublishPlan(j)
    PROVE  OneInv'
<1>1. PICK v, sets : v = job[j].version /\ sets = job[j].sets
  OBVIOUS
<1>2. /\ job[j].at = "plan" /\ job[j] \in JobState /\ JobOne(job[j])
      /\ job \in [Job -> JobState] /\ UNCHANGED <<kb, validity, alias>>
  BY DEF IndInv, TypeOK, OneInv, PublishPlan
<1>3. v \in 1..Len(kb) /\ Halfway(v, sets) /\ LatestPublished < v
  BY <1>1, <1>2, PublishingCleared DEF JobOne, Quiet, Publishing
<1>4. CASE Missing(v, sets) # {}
  <2>1. job'[j] = Idle
    BY <1>1, <1>2, <1>4 DEF PublishPlan, Goto
  <2>2. Untouched /\ Since(alias["serving"])
    BY <1>3, <1>4 DEF Halfway, Begun
  <2>3. Untouched' /\ Since(alias["serving"])'
    BY <1>2, <2>2, StoreKept DEF Since
  <2>4. JobOne(job[j])'
    BY <2>1, <2>3 DEF JobOne, Quiet, Publishing, Idle
  <2>5. QED
    BY <1>2, <2>4, StoreKept DEF OneInv
<1>5. CASE Missing(v, sets) = {}
  <2>1. /\ job'[j].at = "store" /\ job'[j].version = v /\ job'[j].sets = sets
        /\ job'[j].closing = Gone(v, sets) /\ job'[j].opening = Come(v, sets)
    BY <1>1, <1>2, <1>5 DEF PublishPlan, Goto, Gone, Come
  <2>2. /\ Halfway(v, sets)' /\ LatestPublished' = LatestPublished
        /\ Gone(v, sets)' = Gone(v, sets) /\ Come(v, sets)' = Come(v, sets)
        /\ Missing(v, sets)' = Missing(v, sets)
    BY <1>2, <1>3, HalfwayKept, StoreKept, PlanKept DEF OneInv
  <2>3. Halfway(job[j].version, job[j].sets)' /\ ~ Quiet(job[j])'
    BY <2>1, <2>2 DEF Quiet, Publishing
  <2>4. Planned(job[j])'
    BY <1>5, <2>1, <2>2 DEF Planned
  <2>5. JobOne(job[j])'
    BY <1>3, <2>1, <2>2, <2>3, <2>4 DEF JobOne
  <2>6. QED
    BY <1>2, <2>5, StoreKept DEF OneInv
<1>6. QED
  BY <1>4, <1>5

\* A step of the plan: whatever it writes keeps to the plan.
LEMMA CarriedOn ==
    ASSUME IndInv, OneInv, NEW j \in Job, Job = {j}, UNCHANGED kb,
           NEW v \in 1..Len(kb), NEW sets, Halfway(v, sets), Begun(v, sets),
           \A u : Since(u) => Active(u)' = Active(u),
           Tidy(validity'),
           Between(validity', LatestPublished, v, Gone(v, sets), Come(v, sets)),
           \/ Since(alias'["serving"])
           \/ /\ alias'["serving"] = v
              /\ AllClosed(validity', Gone(v, sets))
              /\ AllOpened(validity', Come(v, sets), v),
           job'[j].at \in {"store", "open", "serve", "finish"},
           job'[j].version = v, job'[j].sets = sets,
           job'[j].closing = Gone(v, sets), job'[j].opening = Come(v, sets),
           job'[j].at \in {"open", "serve", "finish"} => AllClosed(validity', Gone(v, sets)),
           job'[j].at \in {"serve", "finish"} => AllOpened(validity', Come(v, sets), v),
           job'[j].at = "finish" => alias'["serving"] = v
    PROVE  OneInv'
<1>1. /\ PublishedVersions' = PublishedVersions
      /\ LatestPublished' = LatestPublished
      /\ Gone(v, sets)' = Gone(v, sets)
      /\ Come(v, sets)' = Come(v, sets)
      /\ Missing(v, sets)' = Missing(v, sets)
  BY PlanKept DEF OneInv, PublishedVersions, Status
<1>2. LatestPublished < v /\ Missing(v, sets) = {}
  BY DEF Begun
<1>3. Begun(v, sets)'
  BY <1>1, <1>2 DEF Begun
<1>4. \/ Since(alias["serving"])'
      \/ alias'["serving"] = v /\ Complete(v, sets)'
  BY <1>1 DEF Since, Complete
<1>5. Status(v)' = "candidate" /\ sets \in MatchingSets(v)'
  BY DEF Halfway, Status, MatchingSets
<1>6. Halfway(v, sets)'
  BY <1>3, <1>4, <1>5 DEF Halfway
<1>7. Halfway(job[j].version, job[j].sets)' /\ ~ Quiet(job[j])'
  BY <1>6 DEF Quiet, Publishing
<1>8. Planned(job[j])'
  BY <1>1, <1>2 DEF Planned
<1>9. JobOne(job[j])'
  BY <1>1, <1>2, <1>7, <1>8 DEF JobOne
<1>10. ShowsItsManifest' /\ Parents'
  BY <1>1 DEF OneInv, ShowsItsManifest, Parents, Since
<1>11. QED
  BY <1>9, <1>10 DEF OneInv

LEMMA PublishStoreOne ==
    ASSUME IndInv, OneInv, NEW j \in Job, Job = {j}, NEW set \in ChunkSet,
           PublishStore(j, set)
    PROVE  OneInv'
<1>1. PICK v, sets : v = job[j].version /\ sets = job[j].sets
  OBVIOUS
<1>2. job[j].at = "store" /\ job \in [Job -> JobState] /\ UNCHANGED <<kb, validity, alias>>
  BY DEF PublishStore, IndInv, TypeOK
<1>3. /\ job[j] \in JobState /\ v \in 1..Len(kb) /\ Halfway(v, sets) /\ Begun(v, sets)
      /\ job[j].closing = Gone(v, sets) /\ job[j].opening = Come(v, sets)
  BY <1>1, <1>2, UnderWay
<1>4. /\ job'[j].at = "store" /\ job'[j].version = v /\ job'[j].sets = sets
      /\ job'[j].closing = Gone(v, sets) /\ job'[j].opening = Come(v, sets)
  BY <1>1, <1>2, <1>3, JobFields DEF PublishStore, Goto
<1>5. /\ \A u : Active(u)' = Active(u)
      /\ Tidy(validity')
      /\ Between(validity', LatestPublished, v, Gone(v, sets), Come(v, sets))
  BY <1>2, <1>3, StoreKept DEF Begun
<1>6. \/ Since(alias'["serving"])
      \/ /\ alias'["serving"] = v
         /\ AllClosed(validity', Gone(v, sets))
         /\ AllOpened(validity', Come(v, sets), v)
  BY <1>2, <1>3 DEF Halfway, Complete
<1>7. QED
  BY <1>2, <1>3, <1>4, <1>5, <1>6, CarriedOn

LEMMA PublishCloseOne ==
    ASSUME IndInv, OneInv, NEW j \in Job, Job = {j}, PublishClose(j)
    PROVE  OneInv'
<1>1. PICK v, sets : v = job[j].version /\ sets = job[j].sets
  OBVIOUS
<1>2. /\ job[j].at = "store" /\ job \in [Job -> JobState] /\ UNCHANGED <<kb, alias>>
      /\ validity \in SUBSET ValidityRows(Chunk)
  BY DEF PublishClose, IndInv, TypeOK
<1>3. /\ job[j] \in JobState /\ v \in 1..Len(kb) /\ v \in Nat /\ LatestPublished \in Nat
      /\ Halfway(v, sets) /\ Begun(v, sets)
      /\ job[j].closing = Gone(v, sets) /\ job[j].opening = Come(v, sets)
  BY <1>1, <1>2, UnderWay
<1>4. /\ job'[j].at = "open" /\ job'[j].version = v /\ job'[j].sets = sets
      /\ job'[j].closing = Gone(v, sets) /\ job'[j].opening = Come(v, sets)
  BY <1>1, <1>2, <1>3, JobFields DEF PublishClose, Goto
<1>5. validity' = CloseIntervals(validity, Gone(v, sets), v)
  BY <1>1, <1>3 DEF PublishClose
<1>6. LatestPublished < v /\ Between(validity, LatestPublished, v, Gone(v, sets), Come(v, sets))
  BY <1>3 DEF Begun
<1>7. Gone(v, sets) \cap Come(v, sets) = {}
  BY DEF Gone, Come
<1>8. /\ Between(validity', LatestPublished, v, Gone(v, sets), Come(v, sets))
      /\ AllClosed(validity', Gone(v, sets))
      /\ AllOpened(validity, Come(v, sets), v) => AllOpened(validity', Come(v, sets), v)
  BY <1>2, <1>3, <1>5, <1>6, <1>7, BetweenClose
<1>9. Tidy(validity')
  BY <1>2, <1>3, <1>5, CloseKeepsTidy DEF OneInv
<1>10. ASSUME NEW u, Since(u)
       PROVE  Active(u)' = Active(u)
  <2>1. u \in Nat /\ u < v
    BY <1>3, <1>6, <1>10, LatestIs DEF Since
  <2>2. QED
    BY <1>2, <1>3, <1>5, <2>1, CloseLeavesEarlier DEF Active
<1>11. \/ Since(alias'["serving"])
       \/ alias'["serving"] = v /\ AllOpened(validity', Come(v, sets), v)
  BY <1>2, <1>3, <1>8 DEF Halfway, Complete
<1>12. QED
  BY <1>2, <1>3, <1>4, <1>8, <1>9, <1>10, <1>11, CarriedOn

LEMMA PublishOpenOne ==
    ASSUME IndInv, OneInv, NEW j \in Job, Job = {j}, PublishOpen(j)
    PROVE  OneInv'
<1>1. PICK v, sets : v = job[j].version /\ sets = job[j].sets
  OBVIOUS
<1>2. /\ job[j].at = "open" /\ job \in [Job -> JobState] /\ UNCHANGED <<kb, alias>>
      /\ validity \in SUBSET ValidityRows(Chunk)
  BY DEF PublishOpen, IndInv, TypeOK
<1>3. /\ job[j] \in JobState /\ v \in 1..Len(kb) /\ v \in Nat /\ LatestPublished \in Nat
      /\ Halfway(v, sets) /\ Begun(v, sets) /\ JobOne(job[j])
      /\ job[j].closing = Gone(v, sets) /\ job[j].opening = Come(v, sets)
      /\ Come(v, sets) \in SUBSET Chunk
  BY <1>1, <1>2, UnderWay
<1>4. /\ job'[j].at = "serve" /\ job'[j].version = v /\ job'[j].sets = sets
      /\ job'[j].closing = Gone(v, sets) /\ job'[j].opening = Come(v, sets)
  BY <1>1, <1>2, <1>3, JobFields DEF PublishOpen, Goto
<1>5. validity' = OpenIntervals(validity, Come(v, sets), v)
  BY <1>1, <1>3 DEF PublishOpen
<1>6. LatestPublished < v /\ Between(validity, LatestPublished, v, Gone(v, sets), Come(v, sets))
  BY <1>3 DEF Begun
<1>7. /\ Gone(v, sets) \cap Come(v, sets) = {}
      /\ Come(v, sets) \cap ActiveChunks(validity, LatestPublished) = {}
  BY DEF Gone, Come, Active
<1>8. AllClosed(validity, Gone(v, sets))
  BY <1>2, <1>3 DEF JobOne
<1>9. /\ Between(validity', LatestPublished, v, Gone(v, sets), Come(v, sets))
      /\ AllClosed(validity', Gone(v, sets))
      /\ AllOpened(validity', Come(v, sets), v)
  BY <1>2, <1>3, <1>5, <1>6, <1>7, <1>8, BetweenOpen
<1>10. Tidy(validity')
  BY <1>2, <1>3, <1>5, <1>6, <1>7, BetweenOpenTidy DEF OneInv
<1>11. ASSUME NEW u, Since(u)
       PROVE  Active(u)' = Active(u)
  <2>1. u \in Nat /\ u < v
    BY <1>3, <1>6, <1>11, LatestIs DEF Since
  <2>2. QED
    BY <1>2, <1>3, <1>5, <2>1, OpenLeavesEarlier DEF Active
<1>12. Since(alias'["serving"]) \/ alias'["serving"] = v
  BY <1>2, <1>3 DEF Halfway
<1>13. QED
  BY <1>2, <1>3, <1>4, <1>9, <1>10, <1>11, <1>12, CarriedOn

LEMMA PublishServeOne ==
    ASSUME IndInv, OneInv, NEW j \in Job, Job = {j}, PublishServe(j)
    PROVE  OneInv'
<1>1. PICK v, sets : v = job[j].version /\ sets = job[j].sets
  OBVIOUS
<1>2. /\ job[j].at = "serve" /\ job \in [Job -> JobState] /\ UNCHANGED <<kb, validity>>
  BY DEF PublishServe, IndInv, TypeOK
<1>3. /\ job[j] \in JobState /\ v \in 1..Len(kb)
      /\ Halfway(v, sets) /\ Begun(v, sets) /\ JobOne(job[j])
      /\ job[j].closing = Gone(v, sets) /\ job[j].opening = Come(v, sets)
  BY <1>1, <1>2, UnderWay
<1>4. /\ job'[j].at = "finish" /\ job'[j].version = v /\ job'[j].sets = sets
      /\ job'[j].closing = Gone(v, sets) /\ job'[j].opening = Come(v, sets)
  BY <1>1, <1>2, <1>3, JobFields DEF PublishServe, Goto
<1>5. /\ Between(validity', LatestPublished, v, Gone(v, sets), Come(v, sets))
      /\ AllClosed(validity', Gone(v, sets))
      /\ AllOpened(validity', Come(v, sets), v)
  BY <1>1, <1>2, <1>3 DEF Begun, JobOne
<1>6. alias'["serving"] = v
  BY <1>1 DEF PublishServe, SetAlias, IndInv, TypeOK
<1>7. Tidy(validity') /\ \A u : Active(u)' = Active(u)
  BY <1>2, StoreKept
<1>8. QED
  BY <1>2, <1>3, <1>4, <1>5, <1>6, <1>7, CarriedOn

\* What a plan without missing documents comes to is the manifest: reused
\* chunks are of a published version with the same encoding.
LEMMA PlanIsManifest ==
    ASSUME IndInv, OneInv, NEW v \in 1..Len(kb), NEW sets \in MatchingSets(v),
           Missing(v, sets) = {}
    PROVE  /\ {c.doc : c \in Target(v, sets)} = kb[v].docs
           /\ \A c \in Target(v, sets) : c.enc = kb[v].enc
<1>1. ASSUME NEW c \in Retained(v, sets)
      PROVE  c.doc \in kb[v].docs /\ c.enc = kb[v].enc
  <2>1. c \in Reusable(v) /\ c.doc \in kb[v].docs
    BY DEF Retained
  <2>2. PICK w \in {LatestPublished, kb[v].parent} \ {0} :
            kb[w].enc = kb[v].enc /\ c \in Active(w)
    BY <2>1 DEF Reusable
  <2>3. w \in PublishedVersions
    BY <2>2, LatestIs DEF OneInv, Parents, Since
  <2>4. c.enc = kb[w].enc
    BY <2>2, <2>3 DEF OneInv, ShowsItsManifest
  <2>5. QED
    BY <2>1, <2>2, <2>4
<1>2. \A set \in sets : set \in ChunkSet /\ set.doc \in kb[v].docs /\ set.enc = kb[v].enc
  BY DEF MatchingSets
<1>3. ASSUME NEW c \in NewChunks(sets)
      PROVE  c.doc \in kb[v].docs /\ c.enc = kb[v].enc
  BY <1>2 DEF NewChunks, ChunksOf
<1>4. ASSUME NEW d \in Rebuilt(sets)
      PROVE  \E c \in NewChunks(sets) : c.doc = d
  <2>1. PICK set \in sets : set.doc = d
    BY DEF Rebuilt
  <2>2. PICK t \in set.texts : TRUE
    BY <1>2, RenditionAssumption DEF ChunkSet
  <2>3. [doc |-> d, text |-> t, enc |-> set.enc] \in ChunksOf(set)
    BY <2>1 DEF ChunksOf
  <2>4. QED
    BY <2>3 DEF NewChunks
<1>5. ASSUME NEW d \in kb[v].docs
      PROVE  \E c \in Target(v, sets) : c.doc = d
  <2>1. d \in Rebuilt(sets) \/ \E c \in Retained(v, sets) : c.doc = d
    BY DEF Missing
  <2>2. QED
    BY <1>4, <2>1 DEF Target
<1>6. \A c \in Target(v, sets) : c.doc \in kb[v].docs /\ c.enc = kb[v].enc
  BY <1>1, <1>3 DEF Target
<1>7. QED
  BY <1>5, <1>6

\* When publish moves the alias the version shows its plan.
LEMMA PlanShows ==
    ASSUME IndInv, OneInv, NEW j \in Job, job[j].at \in {"serve", "finish"}
    PROVE  LET v == job[j].version
               sets == job[j].sets
           IN  /\ Active(v) = (Active(LatestPublished) \ job[j].closing) \cup job[j].opening
               /\ Active(v) = Target(v, sets)
<1>1. PICK v, sets : v = job[j].version /\ sets = job[j].sets
  OBVIOUS
<1>2. /\ v \in 1..Len(kb) /\ v \in Nat /\ LatestPublished \in Nat
      /\ Begun(v, sets) /\ JobOne(job[j])
      /\ job[j].closing = Gone(v, sets) /\ job[j].opening = Come(v, sets)
      /\ Come(v, sets) \in SUBSET Chunk
  BY <1>1, UnderWay
<1>3. AllClosed(validity, Gone(v, sets)) /\ AllOpened(validity, Come(v, sets), v)
  BY <1>1, <1>2 DEF JobOne
<1>4. /\ LatestPublished < v
      /\ Between(validity, LatestPublished, v, Gone(v, sets), Come(v, sets))
  BY <1>2 DEF Begun
<1>5. validity \in SUBSET ValidityRows(Chunk)
  BY DEF IndInv, TypeOK
<1>6. Active(v) = (Active(LatestPublished) \ Gone(v, sets)) \cup Come(v, sets)
  <2>1. PICK u, gone, come :
            u = LatestPublished /\ gone = Gone(v, sets) /\ come = Come(v, sets)
    OBVIOUS
  <2>2. ActiveChunks(validity, v) = (ActiveChunks(validity, u) \ gone) \cup come
    BY <1>2, <1>3, <1>4, <1>5, <2>1, BetweenEnds
  <2>3. QED
    BY <2>1, <2>2 DEF Active
<1>7. Active(v) = Target(v, sets)
  BY <1>6 DEF Gone, Come
<1>8. QED
  BY <1>1, <1>2, <1>6, <1>7

LEMMA PublishFinishOne ==
    ASSUME IndInv, OneInv, NEW j \in Job, Job = {j}, PublishFinish(j)
    PROVE  OneInv'
<1>1. PICK v, sets : v = job[j].version /\ sets = job[j].sets
  OBVIOUS
<1>2. /\ job[j].at = "finish" /\ job \in [Job -> JobState] /\ UNCHANGED <<alias, validity>>
      /\ kb \in Seq(KbRow) /\ validity \in SUBSET ValidityRows(Chunk)
  BY DEF PublishFinish, IndInv, TypeOK
<1>3. /\ v \in 1..Len(kb) /\ v \in Nat /\ LatestPublished \in Nat
      /\ Halfway(v, sets) /\ Begun(v, sets) /\ JobOne(job[j])
  BY <1>1, <1>2, UnderWay
<1>4. job'[j] = Idle
  BY <1>2 DEF PublishFinish, Goto
<1>5. /\ kb' \in Seq(KbRow) /\ Len(kb') = Len(kb)
      /\ \A u \in 1..Len(kb) : kb'[u] = IF u = v THEN [kb[u] EXCEPT !.status = "published"]
                                                ELSE kb[u]
  BY <1>1, <1>3, StatusStep DEF PublishFinish, IndInv
<1>6. \A u \in 1..Len(kb) : /\ kb[u] \in KbRow
                            /\ kb'[u].docs = kb[u].docs /\ kb'[u].parent = kb[u].parent
                            /\ kb'[u].enc = kb[u].enc
                            /\ kb'[u].status = IF u = v THEN "published" ELSE kb[u].status
  <2>1. ASSUME NEW row \in KbRow
        PROVE  LET after == [row EXCEPT !.status = "published"]
               IN  /\ after.docs = row.docs /\ after.parent = row.parent
                   /\ after.enc = row.enc /\ after.status = "published"
    BY DEF KbRow
  <2>2. \A u \in 1..Len(kb) : kb[u] \in KbRow
    BY <1>2
  <2>3. QED
    BY <1>5, <2>1, <2>2
<1>7. PublishedVersions' = PublishedVersions \cup {v}
  BY <1>2, <1>3, <1>5, <1>6 DEF PublishedVersions, Status
<1>8. LatestPublished < v /\ Missing(v, sets) = {}
  BY <1>3 DEF Begun
<1>9. LatestPublished' = v
  BY <1>3, <1>7, <1>8, LatestBecomes
<1>10. Untouched'
  <2>1. \A r \in validity : Settled(r, v)
    BY <1>2, <1>3, <1>8, BetweenSettles DEF Begun
  <2>2. QED
    BY <1>2, <1>9, <2>1 DEF Untouched
<1>11. Since(alias["serving"])'
  BY <1>1, <1>2, <1>3, <1>7 DEF JobOne, Since
<1>12. ShowsItsManifest'
  <2>1. \A u : Active(u)' = Active(u)
    BY <1>2 DEF Active
  <2>2. /\ {c.doc : c \in Active(v)} = kb[v].docs
        /\ \A c \in Active(v) : c.enc = kb[v].enc
    <3>1. Active(v) = Target(v, sets)
      BY <1>1, <1>2, PlanShows
    <3>2. sets \in MatchingSets(v)
      BY <1>3 DEF Halfway
    <3>3. QED
      BY <1>3, <1>8, <3>1, <3>2, PlanIsManifest
  <2>3. \A u \in PublishedVersions : u \in 1..Len(kb)
    BY LatestIs
  <2>4. \A u \in PublishedVersions' :
            /\ {c.doc : c \in Active(u)} = kb'[u].docs
            /\ \A c \in Active(u) : c.enc = kb'[u].enc
    BY <1>3, <1>6, <1>7, <2>2, <2>3 DEF OneInv, ShowsItsManifest
  <2>5. QED
    BY <2>1, <2>4 DEF ShowsItsManifest
<1>13. Parents'
  BY <1>5, <1>6, <1>7 DEF OneInv, Parents, Since
<1>14. JobOne(job[j])'
  BY <1>4, <1>10, <1>11 DEF JobOne, Quiet, Publishing, Idle
<1>15. QED
  BY <1>2, <1>12, <1>13, <1>14 DEF OneInv

\* The caller remembers a publish that died; every other call is over.
LEMMA CrashOne ==
    ASSUME IndInv, OneInv, Reruns, NEW j \in Job, Job = {j}, Crash(j)
    PROVE  OneInv'
<1>1. /\ job[j] \in JobState /\ JobOne(job[j]) /\ JobRefers(job[j]) /\ job \in [Job -> JobState]
      /\ UNCHANGED <<kb, validity, alias>> /\ job[j].at \notin {"idle", "interrupted"}
  BY DEF Crash, OneInv, IndInv, TypeOK, References
<1>2. CASE job[j].at \in Publishing
  <2>1. PICK v, sets : v = job[j].version /\ sets = job[j].sets
    OBVIOUS
  <2>2. v \in 1..Len(kb) /\ Halfway(v, sets)
    BY <1>1, <1>2, <2>1 DEF JobOne, JobRefers, Quiet, Publishing
  <2>3. job'[j] = [at |-> "interrupted", version |-> v, sets |-> sets]
    BY <1>1, <1>2, <2>1 DEF Crash, Goto
  <2>4. QED
    BY <1>1, <2>2, <2>3, OnwardOne
<1>3. CASE job[j].at \notin Publishing
  <2>1. job'[j] = Idle
    BY <1>1, <1>3 DEF Crash, Goto
  <2>2. Quiet(job[j]) /\ Quiet(job'[j])
    BY <1>1, <1>3, <2>1 DEF Quiet, Publishing, Idle
  <2>3. QED
    BY <1>1, <2>1, <2>2, QuietKept DEF JobOne, Idle
<1>4. QED
  BY <1>2, <1>3

LEMMA JobStepOne ==
    ASSUME IndInv, Undecided, OneInv, Reruns, NEW j \in Job, Job = {j}, JobNext(j)
    PROVE  OneInv'
<1>1. CASE \E v \in DOMAIN kb : \E sets \in MatchingSets(v) : PublishStart(j, v, sets)
  BY <1>1, PublishStartOne
<1>2. CASE PublishCheck(j)
  BY <1>2, PublishCheckOne
<1>3. CASE PublishPlan(j)
  BY <1>3, PublishPlanOne
<1>4. CASE \E set \in ChunkSet : PublishStore(j, set)
  BY <1>4, PublishStoreOne
<1>5. CASE PublishClose(j)
  BY <1>5, PublishCloseOne
<1>6. CASE PublishOpen(j)
  BY <1>6, PublishOpenOne
<1>7. CASE PublishServe(j)
  BY <1>7, PublishServeOne
<1>8. CASE PublishFinish(j)
  BY <1>8, PublishFinishOne
<1>9. CASE CreateInsert(j) \/ GateLink(j) \/ RejectFinish(j)
  BY <1>9, CandidateSteps
<1>10. CASE Crash(j)
  BY <1>10, CrashOne
<1>11. CASE \/ \E add, remove \in Batches, enc \in Encoding : CreateStart(j, add, remove, enc)
            \/ CreateNumber(j) \/ CreateConflict(j) \/ CreateAlias(j)
            \/ \E v \in DOMAIN kb : GateStart(j, v)
            \/ \E passed \in Outcome : GateReport(j, passed)
            \/ \E v \in DOMAIN kb : RejectStart(j, v)
            \/ \E v \in DOMAIN kb : RollbackStart(j, v)
            \/ RollbackFinish(j)
  BY <1>11, QuietSteps
<1>12. QED
  BY <1>1, <1>2, <1>3, <1>4, <1>5, <1>6, <1>7, <1>8, <1>9, <1>10, <1>11 DEF JobNext

\* An SME decides, or a document is retracted.
LEMMA NoJobOne ==
    ASSUME IndInv, OneInv, UNCHANGED <<kb, alias, validity, job>>
    PROVE  OneInv'
<1>1. /\ Tidy(validity)' /\ ShowsItsManifest' /\ Parents'
      /\ Untouched => Untouched'
      /\ PublishedVersions' = PublishedVersions
      /\ LatestPublished' = LatestPublished
      /\ \A u : Active(u)' = Active(u)
  BY StoreKept
<1>2. ASSUME NEW j \in Job
      PROVE  JobOne(job[j])'
  <2>1. JobOne(job[j]) /\ job[j] \in JobState /\ JobRefers(job[j])
    BY DEF OneInv, IndInv, TypeOK, References
  <2>2. CASE Quiet(job[j])
    BY <1>1, <2>1, <2>2 DEF JobOne, Quiet, Publishing, Since
  <2>3. CASE ~ Quiet(job[j])
    <3>1. PICK v, sets : v = job[j].version /\ sets = job[j].sets
      OBVIOUS
    <3>2. v \in 1..Len(kb) /\ Halfway(v, sets)
      BY <2>1, <2>3, <3>1 DEF JobOne, JobRefers, Quiet, Publishing
    <3>3. /\ Halfway(v, sets)'
          /\ Gone(v, sets)' = Gone(v, sets)
          /\ Come(v, sets)' = Come(v, sets)
          /\ Missing(v, sets)' = Missing(v, sets)
      BY <1>1, <3>2, HalfwayKept, PlanKept DEF OneInv
    <3>4. Halfway(job[j].version, job[j].sets)' /\ ~ Quiet(job[j])'
      BY <2>3, <3>1, <3>3 DEF Quiet
    <3>5. Planned(job[j]) => Planned(job[j])'
      BY <3>1, <3>3 DEF Planned
    <3>6. QED
      BY <1>1, <2>1, <2>3, <3>4, <3>5 DEF JobOne, Quiet, Publishing
  <2>4. QED
    BY <2>2, <2>3
<1>3. QED
  BY <1>1, <1>2 DEF OneInv

\* The store of a caller that finishes what it began: no interval moves but
\* along the plan of one publish, and the plan stays the same however often
\* that publish dies.
THEOREM OneCallerInductive ==
    ASSUME \A i, j \in Job : i = j, FreshManifests, Reruns
    PROVE  Spec => [](IndInv /\ Undecided /\ OneInv)
<1>1. Init => OneInv
  <2> SUFFICES ASSUME Init
               PROVE  OneInv
    OBVIOUS
  <2>1. \A j \in Job : JobOne(job[j])
    BY DEF Init, JobOne, Quiet, Publishing, Idle, Untouched, Since
  <2>2. ShowsItsManifest /\ Parents /\ Tidy(validity)
    BY DEF Init, ShowsItsManifest, PublishedVersions, Parents, Tidy
  <2>3. QED
    BY <2>1, <2>2 DEF OneInv
<1>2. IndInv /\ Undecided /\ OneInv /\ [Next]_vars => OneInv'
  <2> SUFFICES ASSUME IndInv, Undecided, OneInv, [Next]_vars
               PROVE  OneInv'
    OBVIOUS
  <2>1. CASE \E j \in Job : JobNext(j)
    <3>1. PICK j \in Job : JobNext(j)
      BY <2>1
    <3>2. Job = {j}
      OBVIOUS
    <3>3. QED
      BY <3>1, <3>2, JobStepOne
  <2>2. CASE UNCHANGED <<kb, alias, validity, job>>
    BY <2>2, NoJobOne
  <2>3. QED
    BY <2>1, <2>2 DEF Next, SmeDecide, Retract, vars
<1>3. QED
  BY <1>1, <1>2, Inductive, UndecidedSteps, PTL DEF Spec

\* However often a publish dies and runs again, what is published is exactly
\* what create_candidate put into the manifest, in its encoding (publish).
THEOREM ManifestsShown ==
    ASSUME \A i, j \in Job : i = j, FreshManifests, Reruns
    PROVE  Spec => []ShowsItsManifest
<1>1. OneInv => ShowsItsManifest
  BY DEF OneInv
<1>2. QED
  BY <1>1, OneCallerInductive, PTL

\* The alias moves only when the version shows what its publish planned,
\* which was planned anew after every crash (publish).
THEOREM PlansShown ==
    ASSUME \A i, j \in Job : i = j, FreshManifests, Reruns
    PROVE  Spec => []ShowsItsPlan
<1>1. IndInv /\ OneInv => ShowsItsPlan
  BY PlanShows DEF ShowsItsPlan
<1>2. QED
  BY <1>1, OneCallerInductive, PTL

\* No search of a version readers can be sent to returns a chunk twice.
THEOREM NothingShownTwice ==
    ASSUME \A i, j \in Job : i = j, FreshManifests, Reruns
    PROVE  Spec => []ShownOnce
<1>1. IndInv /\ OneInv => ShownOnce
  <2> SUFFICES ASSUME IndInv, OneInv, NEW v \in Readable
               PROVE  ~ ShownTwice(validity, v)
    BY DEF ShownOnce
  <2>1. v \in Nat /\ validity \in SUBSET ValidityRows(Chunk) /\ Tidy(validity)
    BY LatestIs DEF Readable, IndInv, TypeOK, OneInv
  <2>2. QED
    BY <2>1, TidyShowsOnce
<1>2. QED
  BY <1>1, OneCallerInductive, PTL

-----------------------------------------------------------------------------
(* The abstract store.                                                     *)

\* No id above the bound is given out.
Bounded ==
    /\ Len(kb) <= MaxVersion
    /\ \A j \in Job : job[j].at = "insert" => job[j].version <= MaxVersion

\* A step that adds no row and takes no id.
LEMMA BoundedKept ==
    ASSUME Bounded, NEW j \in Job, \A k \in Job \ {j} : job'[k] = job[k],
           job'[j].at # "insert", Len(kb') = Len(kb)
    PROVE  Bounded'
BY DEF Bounded

LEMMA JobStepBounded ==
    ASSUME IndInv, Bounded, NEW j \in Job, JobNext(j)
    PROVE  Bounded'
<1>1. /\ kb \in Seq(KbRow) /\ Len(kb) \in Nat /\ job \in [Job -> JobState]
      /\ job[j] \in JobState /\ JobRefers(job[j]) /\ MaxVersion \in Nat
  BY BoundAssumption DEF IndInv, TypeOK, References
<1>2. CASE CreateNumber(j)
  <2>1. /\ kb' = kb /\ job'[j].version <= MaxVersion
        /\ \A k \in Job \ {j} : job'[k] = job[k]
    BY <1>1, <1>2 DEF CreateNumber, Goto
  <2>2. QED
    BY <2>1 DEF Bounded
<1>3. CASE CreateInsert(j)
  <2>1. /\ Len(kb') = Len(kb) + 1 /\ Len(kb) + 1 <= MaxVersion
        /\ job'[j].at = "candidate" /\ \A k \in Job \ {j} : job'[k] = job[k]
    BY <1>1, <1>3 DEF CreateInsert, Goto, Bounded
  <2>2. QED
    BY <2>1 DEF Bounded
<1>4. CASE GateLink(j) \/ PublishFinish(j) \/ RejectFinish(j)
  <2>1. /\ job'[j] = Idle /\ \A k \in Job \ {j} : job'[k] = job[k]
        /\ Len(kb') = Len(kb)
    BY <1>1, <1>4 DEF GateLink, PublishFinish, RejectFinish, SetStatus, Goto
  <2>2. QED
    BY <2>1, BoundedKept DEF Idle
<1>5. CASE \/ \E v \in DOMAIN kb : GateStart(j, v)
           \/ \E passed \in Outcome : GateReport(j, passed)
  <2>1. kb' = kb
    BY <1>5 DEF GateStart, GateReport
  <2>2. QED
    BY <1>5, <2>1, GateMoves, BoundedKept
<1>6. CASE \/ \E add, remove \in Batches, enc \in Encoding : CreateStart(j, add, remove, enc)
           \/ CreateConflict(j) \/ CreateAlias(j)
           \/ \E v \in DOMAIN kb : \E sets \in MatchingSets(v) : PublishStart(j, v, sets)
           \/ PublishCheck(j)
           \/ \E v \in DOMAIN kb : RejectStart(j, v)
           \/ \E v \in DOMAIN kb : RollbackStart(j, v)
           \/ RollbackFinish(j)
  <2>1. /\ job'[j].at # "insert" /\ \A k \in Job \ {j} : job'[k] = job[k]
        /\ kb' = kb
    BY <1>1, <1>6 DEF CreateStart, CreateConflict, CreateAlias, PublishStart, PublishCheck,
       RejectStart, RollbackStart, RollbackFinish, Goto, Idle
  <2>2. QED
    BY <2>1, BoundedKept
<1>7. CASE PublishPlan(j) \/ Crash(j)
  <2>1. /\ job'[j].at # "insert" /\ \A k \in Job \ {j} : job'[k] = job[k]
        /\ kb' = kb
    BY <1>1, <1>7 DEF PublishPlan, Crash, Goto, Idle
  <2>2. QED
    BY <2>1, BoundedKept
<1>8. CASE \/ \E set \in ChunkSet : PublishStore(j, set)
           \/ PublishClose(j) \/ PublishOpen(j) \/ PublishServe(j)
  <2>1. job[j].at \in {"store", "open", "serve"}
    BY <1>8 DEF PublishStore, PublishClose, PublishOpen, PublishServe
  <2>2. job'[j].at \in {"store", "open", "serve", "finish"}
    BY <1>1, <1>8, <2>1, JobFields DEF PublishStore, PublishClose, PublishOpen, PublishServe,
       Goto
  <2>3. kb' = kb /\ \A k \in Job \ {j} : job'[k] = job[k]
    BY <1>1, <1>8 DEF PublishStore, PublishClose, PublishOpen, PublishServe, Goto
  <2>4. QED
    BY <2>2, <2>3, BoundedKept
<1>9. QED
  BY <1>2, <1>3, <1>4, <1>5, <1>6, <1>7, <1>8 DEF JobNext

\* The id space of the instances TLC checks is never left.
LEMMA StaysBounded == Spec => []Bounded
<1>1. Init => Bounded
  BY BoundAssumption DEF Init, Bounded, Idle
<1>2. IndInv /\ Bounded /\ [Next]_vars => Bounded'
  <2> SUFFICES ASSUME IndInv, Bounded, [Next]_vars
               PROVE  Bounded'
    OBVIOUS
  <2>1. CASE \E j \in Job : JobNext(j)
    BY <2>1, JobStepBounded
  <2>2. CASE UNCHANGED <<kb, job>>
    BY <2>2 DEF Bounded
  <2>3. QED
    BY <2>1, <2>2 DEF Next, SmeDecide, Retract, vars
<1>3. QED
  BY <1>1, <1>2, Inductive, PTL DEF Spec

\* Steps readers do not notice.
LEMMA Unnoticed ==
    ASSUME Readable' = Readable, \A u \in Readable : Active(u)' = Active(u),
           alias'["serving"] = alias["serving"]
    PROVE  UNCHANGED <<[v \in Readable |-> Active(v)], alias["serving"]>>
OBVIOUS

\* Intervals move at the version being published only, and once that is served
\* they have moved already.
LEMMA IntervalsUnnoticed ==
    ASSUME IndInv, OneInv, NEW j \in Job, PublishClose(j) \/ PublishOpen(j)
    PROVE  \A u \in Readable : Active(u)' = Active(u)
<1>1. PICK v, sets : v = job[j].version /\ sets = job[j].sets
  OBVIOUS
<1>2. job[j].at \in {"store", "open"} /\ validity \in SUBSET ValidityRows(Chunk)
  BY DEF PublishClose, PublishOpen, IndInv, TypeOK
<1>3. /\ v \in Nat /\ LatestPublished \in Nat
      /\ Halfway(v, sets) /\ Begun(v, sets)
      /\ job[j].closing = Gone(v, sets) /\ job[j].opening = Come(v, sets)
      /\ Come(v, sets) \in SUBSET Chunk
  BY <1>1, <1>2, UnderWay
<1>4. \/ validity' = CloseIntervals(validity, Gone(v, sets), v)
      \/ validity' = OpenIntervals(validity, Come(v, sets), v)
  BY <1>1, <1>3 DEF PublishClose, PublishOpen
<1>5. ASSUME NEW u \in PublishedVersions
      PROVE  Active(u)' = Active(u)
  <2>1. u \in Nat /\ u < v
    BY <1>3, LatestIs DEF Begun
  <2>2. QED
    BY <1>2, <1>3, <1>4, <2>1, CloseLeavesEarlier, OpenLeavesEarlier DEF Active
<1>6. CASE Since(alias["serving"])
  BY <1>5, <1>6 DEF Readable, Since
<1>7. CASE Complete(v, sets)
  <2>1. validity' = validity
    BY <1>4, <1>7, NothingToClose, NothingToOpen DEF Complete
  <2>2. QED
    BY <2>1 DEF Active
<1>8. QED
  BY <1>3, <1>6, <1>7 DEF Halfway

\* The alias moves to the version being published: it appears, unless an earlier
\* try had come that far.
LEMMA ServePublishes ==
    ASSUME IndInv, OneInv, Bounded, NEW j \in Job, PublishServe(j)
    PROVE  [Store!Next]_<<[v \in Readable |-> Active(v)], alias["serving"]>>
<1>1. PICK v, sets : v = job[j].version /\ sets = job[j].sets
  OBVIOUS
<1>2. /\ job[j].at = "serve" /\ UNCHANGED <<kb, validity>>
      /\ alias'["serving"] = v /\ kb \in Seq(KbRow)
  BY <1>1 DEF PublishServe, SetAlias, IndInv, TypeOK
<1>3. /\ v \in 1..Len(kb) /\ v \in Nat /\ LatestPublished \in Nat
      /\ Halfway(v, sets) /\ Begun(v, sets)
  BY <1>1, <1>2, UnderWay
<1>4. PublishedVersions' = PublishedVersions /\ \A u : Active(u)' = Active(u)
  BY <1>2 DEF PublishedVersions, Status, Active
<1>5. CASE alias["serving"] = v
  BY <1>2, <1>4, <1>5, Unnoticed DEF Readable
<1>6. CASE Since(alias["serving"])
  <2>1. Readable = PublishedVersions /\ Readable' = PublishedVersions \cup {v}
    BY <1>2, <1>3, <1>4, <1>6 DEF Readable, Since
  <2>2. \A u \in Readable : u < v
    BY <1>3, <2>1, LatestIs DEF Begun
  <2>3. Active(v) \subseteq Chunk
    BY ActiveTyped DEF IndInv
  <2>4. v \in 1..MaxVersion
    BY <1>2, <1>3, BoundAssumption DEF Bounded
  <2>5. Store!Publish(v)
    BY <1>2, <1>4, <2>1, <2>2, <2>3 DEF Store!Publish
  <2>6. QED
    BY <2>4, <2>5 DEF Store!Next
<1>7. QED
  BY <1>3, <1>5, <1>6 DEF Halfway

LEMMA RollbackRollsBack ==
    ASSUME IndInv, OneInv, Bounded, NEW j \in Job, RollbackFinish(j)
    PROVE  [Store!Next]_<<[v \in Readable |-> Active(v)], alias["serving"]>>
<1>1. PICK v : v = job[j].version
  OBVIOUS
<1>2. /\ job[j].at = "rollback" /\ UNCHANGED <<kb, validity>>
      /\ alias'["serving"] = v /\ kb \in Seq(KbRow) /\ JobOne(job[j])
  BY <1>1 DEF RollbackFinish, SetAlias, IndInv, TypeOK, OneInv
<1>3. v \in PublishedVersions /\ Since(alias["serving"])
  BY <1>1, <1>2 DEF JobOne, Quiet, Publishing
<1>4. v \in 1..Len(kb) /\ v # 0
  BY <1>3, LatestIs
<1>5. PublishedVersions' = PublishedVersions /\ \A u : Active(u)' = Active(u)
  BY <1>2 DEF PublishedVersions, Status, Active
<1>6. Readable = PublishedVersions /\ Readable' = Readable
  BY <1>2, <1>3, <1>5 DEF Readable, Since
<1>7. Store!Rollback(v)
  BY <1>2, <1>3, <1>5, <1>6 DEF Store!Rollback
<1>8. v \in 1..MaxVersion
  BY <1>2, <1>4, BoundAssumption DEF Bounded
<1>9. QED
  BY <1>7, <1>8 DEF Store!Next

LEMMA JobStepStores ==
    ASSUME IndInv, Undecided, OneInv, Bounded, NEW j \in Job, Job = {j}, JobNext(j)
    PROVE  [Store!Next]_<<[v \in Readable |-> Active(v)], alias["serving"]>>
<1>1. CASE PublishServe(j)
  BY <1>1, ServePublishes
<1>2. CASE RollbackFinish(j)
  BY <1>2, RollbackRollsBack
<1>3. CASE PublishClose(j) \/ PublishOpen(j)
  <2>1. UNCHANGED <<kb, alias>>
    BY <1>3 DEF PublishClose, PublishOpen
  <2>2. Readable' = Readable
    BY <2>1 DEF Readable, PublishedVersions, Status
  <2>3. QED
    BY <1>3, <2>1, <2>2, IntervalsUnnoticed, Unnoticed
<1>4. CASE PublishFinish(j)
  <2>1. PICK v, sets : v = job[j].version /\ sets = job[j].sets
    OBVIOUS
  <2>2. /\ job[j].at = "finish" /\ UNCHANGED <<alias, validity>> /\ kb \in Seq(KbRow)
        /\ JobOne(job[j]) /\ v \in 1..Len(kb) /\ v \in Nat
    BY <1>4, <2>1, UnderWay DEF PublishFinish, IndInv, TypeOK
  <2>3. alias["serving"] = v
    BY <2>1, <2>2 DEF JobOne
  <2>4. PublishedVersions' = PublishedVersions \cup {v}
    <3>1. kb' = [kb EXCEPT ![v] = [@ EXCEPT !.status = "published"]]
      BY <1>4, <2>1 DEF PublishFinish, SetStatus
    <3>2. QED
      BY <2>2, <3>1 DEF PublishedVersions, Status, KbRow
  <2>5. Readable' = Readable /\ \A u : Active(u)' = Active(u)
    BY <2>2, <2>3, <2>4 DEF Readable, Active
  <2>6. QED
    BY <2>2, <2>5, Unnoticed
<1>5. CASE CreateInsert(j) \/ GateLink(j) \/ RejectFinish(j)
  <2>1. PublishedVersions' = PublishedVersions /\ UNCHANGED <<validity, alias>>
    BY <1>5, CandidateSteps
  <2>2. QED
    BY <2>1, Unnoticed DEF Readable, Active
<1>6. CASE \/ \E add, remove \in Batches, enc \in Encoding : CreateStart(j, add, remove, enc)
           \/ CreateNumber(j) \/ CreateConflict(j) \/ CreateAlias(j)
           \/ \E v \in DOMAIN kb : GateStart(j, v)
           \/ \E passed \in Outcome : GateReport(j, passed)
           \/ \E v \in DOMAIN kb : \E sets \in MatchingSets(v) : PublishStart(j, v, sets)
           \/ PublishCheck(j) \/ PublishPlan(j)
           \/ \E set \in ChunkSet : PublishStore(j, set)
           \/ \E v \in DOMAIN kb : RejectStart(j, v)
           \/ \E v \in DOMAIN kb : RollbackStart(j, v)
           \/ Crash(j)
  <2>1. UNCHANGED <<kb, validity>>
    BY <1>6 DEF CreateStart, CreateNumber, CreateConflict, CreateAlias, GateStart, GateReport,
       PublishStart, PublishCheck, PublishPlan, PublishStore, RejectStart, RollbackStart, Crash
  <2>2. alias'["serving"] = alias["serving"]
    BY <1>6 DEF CreateStart, CreateNumber, CreateConflict, CreateAlias, GateStart, GateReport,
       PublishStart, PublishCheck, PublishPlan, PublishStore, RejectStart, RollbackStart, Crash,
       SetAlias, IndInv, TypeOK
  <2>3. QED
    BY <2>1, <2>2, Unnoticed DEF Readable, PublishedVersions, Status, Active
<1>7. QED
  BY <1>1, <1>2, <1>3, <1>4, <1>5, <1>6 DEF JobNext

\* With one caller that finishes what it began, the platform calls implement the
\* store of VersionedStore: readers see versions appear whole, in order, and
\* stay what they are (publish, rollback).
THEOREM StoreImplemented ==
    ASSUME \A i, j \in Job : i = j, FreshManifests, Reruns
    PROVE  Spec => StoreSpec
<1>1. Init => Store!Init
  <2> SUFFICES ASSUME Init
               PROVE  Store!Init
    OBVIOUS
  <2>1. Readable = {} /\ alias["serving"] = 0
    BY DEF Init, Readable, PublishedVersions
  <2>2. QED
    BY <2>1 DEF Store!Init
<1>2. IndInv /\ Undecided /\ OneInv /\ Bounded /\ [Next]_vars =>
        [Store!Next]_<<[v \in Readable |-> Active(v)], alias["serving"]>>
  <2> SUFFICES ASSUME IndInv, Undecided, OneInv, Bounded, [Next]_vars
               PROVE  [Store!Next]_<<[v \in Readable |-> Active(v)], alias["serving"]>>
    OBVIOUS
  <2>1. CASE \E j \in Job : JobNext(j)
    <3>1. PICK j \in Job : JobNext(j)
      BY <2>1
    <3>2. Job = {j}
      OBVIOUS
    <3>3. QED
      BY <3>1, <3>2, JobStepStores
  <2>2. CASE UNCHANGED <<kb, alias, validity>>
    BY <2>2, Unnoticed DEF Readable, PublishedVersions, Status, Active
  <2>3. QED
    BY <2>1, <2>2 DEF Next, SmeDecide, Retract, vars
<1>3. QED
  BY <1>1, <1>2, OneCallerInductive, StaysBounded, PTL DEF Spec, StoreSpec, Store!Spec
=============================================================================
