--------------------------- MODULE MCKnowledgeBase ---------------------------
(* Instances of KnowledgeBase for TLC.                                     *)
EXTENDS KnowledgeBase, TLC

CONSTANTS d1, d2, d3, t1, t2

\* Unrelated documents.
NoCorrection == [d \in DocVersion |-> NoDoc]
OwnDocument == [d \in DocVersion |-> d]

\* One document uploaded three times: d3 corrects d2, d2 corrects d1.
Chain == [d \in DocVersion |-> IF d = d2 THEN d1 ELSE IF d = d3 THEN d2 ELSE NoDoc]
OneDocument == [d \in DocVersion |-> d1]

OneText == {{t1}}
TwoTexts == {{t1}, {t2}}

\* Nothing reads the candidate alias: states that differ in it only are merged.
WithoutCandidateAlias ==
    <<kb, reports, alias["serving"], retracted, stored, validity, job, vetted>>

\* Runs about the index look at a report only through the version it is linked
\* to, and only for what it still allows: reports nobody links to, the order
\* reports came in and the history in vetted are merged as well.
Verdict(r) == <<r.passed, r.sme, r.sme /\ r.decision = "approved">>

WithoutReports ==
    << [v \in DOMAIN kb |->
          <<kb[v].docs, kb[v].parent, kb[v].enc, kb[v].status,
            IF kb[v].gate = 0 THEN <<>> ELSE Verdict(reports[kb[v].gate])>>],
       Len(reports), alias["serving"], retracted, stored, validity,
       [j \in Job |->
          CASE job[j].at = "link" -> <<job[j].version, Verdict(reports[job[j].report])>>
            [] job[j].at = "check" -> [job[j] EXCEPT !.gate = Verdict(reports[job[j].gate])]
            [] OTHER -> job[j]] >>

JobSymmetry == Permutations(Job)
TextSymmetry == Permutations(Text)
DocSymmetry == Permutations(DocVersion)
DocAndTextSymmetry == Permutations(DocVersion) \cup Permutations(Text)
TextAndEncodingSymmetry == Permutations(Text) \cup Permutations(Encoding)
=============================================================================
