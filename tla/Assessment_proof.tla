--------------------------- MODULE Assessment_proof ---------------------------
(***************************************************************************)
(* Proofs about the modules between a recording and the verdict drawn from *)
(* it: what a domain result claims (NativeAssessment), how the results of  *)
(* runs add up (Aggregation), what a qualification bundle fixes            *)
(* (Qualification), and which code evaluates (Evaluators).  Each part has  *)
(* its own inductive invariant; the first two share Verdict_proof.         *)
(***************************************************************************)
EXTENDS NativeAssessment, Aggregation, Qualification, Evaluators,
        Verdict_proof, FiniteSetTheorems, SequenceTheorems, TLAPS

-----------------------------------------------------------------------------
(***************************************************************************)
(* NativeAssessment: from an evaluation to a qualified domain result.      *)
(***************************************************************************)

(***************************************************************************)
(* Types.                                                                  *)
(***************************************************************************)
AllRows == UNION (Measurements \cup Replies)

Works == [phase : {"evaluators"}, method : Methods, execution : Nat,
          file : SUBSET UNION {Bytes(c.index) : c \in Captures}, original : Nat,
          rows : SUBSET AllRows, left : SUBSET UNION {DOMAIN m.evaluators : m \in Methods},
          window : Windows \cup {<<>>}]

-----------------------------------------------------------------------------
(***************************************************************************)
(* The inductive invariant.                                                *)
(***************************************************************************)
\* What the rows of an assessment hold once some of the evaluators have run.
WorkHolds(w, p, c) ==
  LET m == w.method
      ran == DOMAIN m.evaluators \ w.left
  IN /\ ControlsValid(m) /\ ObservationLoads(c) /\ SourceFits(p, c)
     /\ WindowQualifies(w, c)
     /\ w.left \subseteq DOMAIN m.evaluators
     /\ w.file \subseteq OfKind(c.index, "metrics") /\ Cardinality(w.file) =< 1
     /\ IsFiniteSet(w.rows)
     /\ Ids(w.rows \ Products(w.rows)) = m.metrics \cup PolicyRows
     /\ \A row \in Products(w.rows) :
          /\ row.namespace \in ran /\ RowValid(m, c, row.namespace, row)
          /\ m.marked => row.id \in m.evaluators[row.namespace]
     /\ m.marked => \A n \in ran : m.evaluators[n] \subseteq Ids(Products(w.rows))

Done(w, p, c) == WorkHolds(w, p, c) /\ w.left = {} /\ Distinct(w.rows)

\* An original result is of the same execution, and of an unmarked method.
OriginalHolds(x, last, results) ==
  /\ x.original \in 0..last
  /\ x.original # 0 =>
       /\ results[x.original].execution = x.execution
       /\ ~results[x.original].method.marked

ResultHolds(r, p, executions) ==
  /\ r.execution \in 1..Len(executions)
  /\ \E w \in Works :
       /\ Done(w, p, executions[r.execution])
       /\ r = NativeResult(w, p, executions[r.execution])

NativeResults == {NativeResult(w, p, c) : w \in Works, p \in Profiles, c \in Captures}

NativeInv ==
  /\ profile \in Profiles /\ recorded \in Seq(Captures) /\ recorded # <<>>
  /\ nativeResults \in Seq(NativeResults)
  /\ assessment = NoWork \/
       /\ assessment \in Works /\ assessment.execution \in 1..Len(recorded)
       /\ WorkHolds(assessment, profile, recorded[assessment.execution])
       /\ OriginalHolds(assessment, Len(nativeResults), nativeResults)
  /\ \A k \in 1..Len(nativeResults) :
       /\ ResultHolds(nativeResults[k], profile, recorded)
       /\ OriginalHolds(nativeResults[k], k - 1, nativeResults)
-----------------------------------------------------------------------------
(***************************************************************************)
(* Rows.                                                                   *)
(***************************************************************************)
LEMMA RowType ==
  ASSUME NEW row \in AllRows
  PROVE  /\ row.status \in AssertionStatuses /\ row.source \in {"core", "product"}
         /\ row.source = "core" => row.value \in BOOLEAN
         /\ row.source = "product" =>
              \A c \in Captures : row.evidence \cap OfKind(c.index, "acceptance_observation") = {}
<1>1. row \in UNION Measurements \/ row \in UNION Replies BY DEF AllRows
<1>2. row.status \in AssertionStatuses BY NativeAssumption DEF AllRows
<1>3. CASE row \in UNION Measurements BY <1>2, <1>3, NativeAssumption
<1>4. CASE row \in UNION Replies BY <1>2, <1>4, NativeAssumption
<1> QED BY <1>1, <1>3, <1>4

LEMMA DistinctRows ==
  ASSUME NEW rows, IsFiniteSet(rows), Distinct(rows), NEW x \in rows, NEW y \in rows, x.id = y.id
  PROVE  x = y
<1> DEFINE f == [row \in rows |-> row.id]
<1>1. f \in Surjection(rows, Ids(rows)) BY DEF Surjection, Ids
<1>2. Cardinality(Ids(rows)) = Cardinality(rows) BY DEF Distinct
<1>3. f \in Injection(rows, Ids(rows)) BY <1>1, <1>2, FS_Surjection
<1> QED BY <1>3 DEF Injection, IsInjective

LEMMA ProductIds ==
  ASSUME NEW w, NEW p, NEW c, Done(w, p, c), w.method.marked
  PROVE  Ids(Products(w.rows)) = Expected(w.method)
BY DEF Done, WorkHolds, Expected, Range, Ids

LEMMA CoreIs ==
  ASSUME NEW w \in Works, NEW row \in w.rows
  PROVE  /\ row \in AllRows
         /\ row \in Products(w.rows) <=> row.source = "product"
         /\ row \notin Products(w.rows) <=> row.source = "core"
BY RowType DEF Products, Works

LEMMA NoCommonIds ==
  ASSUME NEW w \in Works, NEW p, NEW c, Done(w, p, c), NEW row \in w.rows, row.source = "core"
  PROVE  /\ row.id \notin Ids(Products(w.rows))
         /\ row.id \in w.method.metrics \cup PolicyRows
<1>1. row \notin Products(w.rows) BY DEF Products
<1>2. \A x \in Products(w.rows) : x.id # row.id
  BY <1>1, DistinctRows DEF Done, WorkHolds, Products
<1>3. row.id \in Ids(w.rows \ Products(w.rows)) BY <1>1 DEF Ids
<1> QED BY <1>2, <1>3 DEF Ids, Done, WorkHolds
-----------------------------------------------------------------------------
(***************************************************************************)
(* The evidence of a criterion.                                            *)
(***************************************************************************)
Declared(w) ==
  w.method.metrics \cup (IF w.method.marked THEN Expected(w.method) ELSE {})
    \cup Ids(Products(w.rows))

LEMMA CoverageIs ==
  ASSUME NEW w \in Works, NEW p, NEW c, Done(w, p, c)
  PROVE  /\ DOMAIN CriterionCoverage(w, c) = Declared(w)
         /\ \A row \in w.rows : row.id \in Declared(w) =>
              CriterionCoverage(w, c)[row.id] = CriterionEvidence(w, c, row)
         /\ \A id \in Declared(w) : CriterionCoverage(w, c)[id] # {} =>
              \E row \in w.rows : row.id = id /\ CriterionEvidence(w, c, row) # {}
<1>1. CriterionCoverage(w, c) =
        [id \in Declared(w) |->
           UNION {CriterionEvidence(w, c, row) : row \in {any \in w.rows : any.id = id}}]
  BY DEF CriterionCoverage, Declared
<1>2. ASSUME NEW row \in w.rows, row.id \in Declared(w)
      PROVE  CriterionCoverage(w, c)[row.id] = CriterionEvidence(w, c, row)
  <2>1. {any \in w.rows : any.id = row.id} = {row}
    BY DistinctRows DEF Done, WorkHolds
  <2>2. {CriterionEvidence(w, c, x) : x \in {row}} = {CriterionEvidence(w, c, row)} OBVIOUS
  <2>3. UNION {CriterionEvidence(w, c, row)} = CriterionEvidence(w, c, row) OBVIOUS
  <2> QED BY <1>1, <1>2, <2>1, <2>2, <2>3
<1>3. ASSUME NEW id \in Declared(w), CriterionCoverage(w, c)[id] # {}
      PROVE  \E row \in w.rows : row.id = id /\ CriterionEvidence(w, c, row) # {}
  <2>1. UNION {CriterionEvidence(w, c, row) : row \in {any \in w.rows : any.id = id}} # {}
    BY <1>1, <1>3
  <2> QED BY <2>1
<1> QED BY <1>1, <1>2, <1>3

LEMMA EvidenceIs ==
  ASSUME NEW w \in Works, NEW p, NEW c, Done(w, p, c), NEW row \in w.rows,
         CriterionEvidence(w, c, row) # {}
  PROVE  /\ row.status \in {"passed", "failed"}
         /\ CriterionEvidence(w, c, row) \subseteq Bytes(c.index)
         /\ row.source = "product" =>
              CriterionEvidence(w, c, row) = row.evidence \cap Bytes(c.index)
         /\ row.source = "core" => row.value /\ CriterionEvidence(w, c, row) = w.file
<1>1. w.file \subseteq Bytes(c.index)
  BY DEF Done, WorkHolds, OfKind, Bytes
<1> QED BY <1>1, CoreIs, RowType DEF CriterionEvidence

\* The parts of a result.
UnevaluatedIs(w, p, c) ==
  {<<"observations", n>> : n \in {m \in DOMAIN p :
       p[m] = "required" /\ Observed(p, c)[m] \in {"unobserved", "invalid"}}}
  \cup {x \in {<<"observations">>} : "measured" \notin Range(Observed(p, c))}
  \cup {x \in {<<"assertions">>} : w.method.metrics = {} /\ Products(w.rows) = {}}
  \cup {<<"assertions", id>> : id \in {i \in Declared(w) : CriterionCoverage(w, c)[i] = {}}}
  \cup {<<"assertions", row.id>> : row \in {any \in w.rows : any.status = "skipped"}}

ResultIs(r, w, p, c) ==
  /\ r.version = (IF w.method.marked THEN 3 ELSE 2) /\ r.calibration = w.method.calibration
  /\ r.execution = w.execution /\ r.original = w.original /\ r.method = w.method
  /\ r.window = w.window /\ r.observations = Observed(p, c) /\ r.rows = w.rows
  /\ DOMAIN r.covered = {id \in Declared(w) : CriterionCoverage(w, c)[id] # {}}
  /\ \A id \in DOMAIN r.covered : r.covered[id] = CriterionCoverage(w, c)[id]
  /\ r.uncovered = {id \in Declared(w) : CriterionCoverage(w, c)[id] = {}}
  /\ r.unevaluated = UnevaluatedIs(w, p, c)
  /\ r.status = WorstStatus(AssessmentStatuses(w.rows, r.unevaluated))

LEMMA ResultFields ==
  ASSUME NEW w \in Works, NEW p, NEW c, Done(w, p, c)
  PROVE  ResultIs(NativeResult(w, p, c), w, p, c)
<1> DEFINE r == NativeResult(w, p, c)
           evidence == CriterionCoverage(w, c)
           covered == {id \in DOMAIN evidence : evidence[id] # {}}
<1>1. DOMAIN evidence = Declared(w) BY CoverageIs
<1>2. covered = {id \in Declared(w) : evidence[id] # {}} BY <1>1
<1>3. DOMAIN evidence \ covered = {id \in Declared(w) : evidence[id] = {}} BY <1>1
<1>4. /\ r.execution = w.execution /\ r.original = w.original /\ r.method = w.method
      /\ r.window = w.window /\ r.observations = Observed(p, c) /\ r.rows = w.rows
      /\ r.covered = [id \in covered |-> evidence[id]] /\ r.uncovered = DOMAIN evidence \ covered
      /\ r.version = IF w.method.marked THEN 3 ELSE 2
      /\ r.calibration = IF w.method.selected THEN w.method.calibration ELSE {}
  BY DEF NativeResult
<1>5. r.unevaluated =
        {<<"observations", n>> : n \in {m \in DOMAIN p :
             p[m] = "required" /\ Observed(p, c)[m] \in {"unobserved", "invalid"}}}
        \cup {x \in {<<"observations">>} : "measured" \notin Range(Observed(p, c))}
        \cup {x \in {<<"assertions">>} : w.method.metrics = {} /\ Products(w.rows) = {}}
        \cup {<<"assertions", id>> : id \in DOMAIN evidence \ covered}
        \cup {<<"assertions", row.id>> : row \in {any \in w.rows : any.status = "skipped"}}
  BY DEF NativeResult
<1>6. r.status = WorstStatus(AssessmentStatuses(w.rows, r.unevaluated))
  BY DEF NativeResult
<1>7. r.unevaluated = UnevaluatedIs(w, p, c)
  BY <1>3, <1>5 DEF UnevaluatedIs
<1>8. w.method \in Methods BY DEF Works
<1>9. ~w.method.selected => w.method.calibration = {} BY <1>8, NativeAssumption
<1> HIDE DEF r, evidence
<1>10. r.calibration = w.method.calibration BY <1>4, <1>9
<1> QED BY <1>2, <1>3, <1>4, <1>6, <1>7, <1>10 DEF ResultIs, r, evidence
-----------------------------------------------------------------------------
(***************************************************************************)
(* A completed assessment keeps the rules of its contract.                 *)
(***************************************************************************)
LEMMA ResultAccepted ==
  ASSUME NEW w \in Works, NEW p, NEW c, Done(w, p, c), NEW r, ResultIs(r, w, p, c)
  PROVE  NativeAccepted(r, p, c)
<1> DEFINE m == w.method
           E(id) == CriterionCoverage(w, c)[id]
<1>1. /\ r.method = m /\ r.rows = w.rows /\ r.observations = Observed(p, c)
      /\ r.calibration = m.calibration
      /\ DOMAIN r.covered = {id \in Declared(w) : E(id) # {}}
      /\ \A id \in DOMAIN r.covered : r.covered[id] = E(id)
      /\ r.uncovered = {id \in Declared(w) : E(id) = {}}
      /\ r.unevaluated = UnevaluatedIs(w, p, c)
      /\ r.status = WorstStatus(AssessmentStatuses(w.rows, r.unevaluated))
  BY DEF ResultIs
<1>2. /\ ControlsValid(m) /\ SourceFits(p, c) /\ Distinct(w.rows)
      /\ Ids(w.rows \ Products(w.rows)) = m.metrics \cup PolicyRows
      /\ \A row \in Products(w.rows) :
           /\ row.namespace \in DOMAIN m.evaluators /\ RowValid(m, c, row.namespace, row)
           /\ m.marked => row.id \in m.evaluators[row.namespace]
  BY DEF Done, WorkHolds
<1>3. m.marked => Ids(Products(w.rows)) = Expected(m) BY ProductIds
<1>4. CoverageAccepted(r, c)
  <2>1. ASSUME m.marked, NEW row \in w.rows, row.source = "core" PROVE row.id \notin Expected(m)
    BY <1>3, <2>1, NoCommonIds
  <2>2. m.marked => \A row \in Products(w.rows) :
          row.namespace \in DOMAIN m.evaluators => row.id \in m.evaluators[row.namespace]
    BY <1>2
  <2>3. m.marked => Expected(m) \subseteq DOMAIN r.covered \cup r.uncovered
    BY <1>1 DEF Declared
  <2>4. m.marked => DOMAIN r.covered \cap Expected(m) \subseteq Ids(Products(w.rows))
    BY <1>3
  <2>5. DOMAIN r.covered \cap r.uncovered = {} BY <1>1
  <2>6. ASSUME NEW id \in DOMAIN r.covered
        PROVE  /\ \E row \in w.rows : row.id = id /\ row.status \in {"passed", "failed"}
               /\ r.covered[id] \subseteq Bytes(c.index)
    <3>1. id \in Declared(w) /\ E(id) # {} /\ r.covered[id] = E(id) BY <1>1
    <3>2. PICK row \in w.rows : row.id = id /\ CriterionEvidence(w, c, row) # {}
      BY <3>1, CoverageIs
    <3>3. E(id) = CriterionEvidence(w, c, row) BY <3>1, <3>2, CoverageIs
    <3> QED BY <3>1, <3>2, <3>3, EvidenceIs
  <2>7. \A id \in r.uncovered : <<"assertions", id>> \in r.unevaluated
    BY <1>1 DEF UnevaluatedIs
  <2> HIDE DEF m
  <2> QED BY <1>1, <2>1, <2>2, <2>3, <2>4, <2>5, <2>6, <2>7 DEF CoverageAccepted
<1>5. ApplicabilityKept(r, p) BY <1>1, <1>2 DEF ApplicabilityKept, SourceFits
<1>6. SourcesAccepted(r, c) BY <1>1, <1>2 DEF SourcesAccepted, RowValid
<1>7. (\A row \in w.rows : row.source = "core" /\ row.id \in PolicyRows)
        <=> m.metrics = {} /\ Products(w.rows) = {}
  <2>1. ASSUME m.metrics = {}, Products(w.rows) = {}, NEW row \in w.rows
        PROVE  row.source = "core" /\ row.id \in PolicyRows
    <3>1. row.source = "core" BY <2>1, CoreIs
    <3> QED BY <2>1, <3>1, NoCommonIds
  <2>2. ASSUME \A row \in w.rows : row.source = "core" /\ row.id \in PolicyRows
        PROVE  m.metrics = {} /\ Products(w.rows) = {}
    <3>1. Products(w.rows) = {} BY <2>2 DEF Products
    <3>2. Ids(w.rows \ Products(w.rows)) \subseteq PolicyRows BY <2>2 DEF Ids
    <3>3. m.metrics \cap PolicyRows = {} BY <1>2 DEF ControlsValid
    <3> QED BY <1>2, <3>1, <3>2, <3>3
  <2> QED BY <2>1, <2>2
<1> DEFINE missing ==
             ObservationsMissing(r, p)
             \cup {x \in {<<"observations">>} : "measured" \notin Range(r.observations)}
             \cup {x \in {<<"assertions">>} :
                     \A row \in r.rows : row.source = "core" /\ row.id \in PolicyRows}
             \cup {<<"assertions", row.id>> : row \in {any \in r.rows : any.status = "skipped"}}
             \cup {<<"assertions", id>> : id \in r.uncovered}
<1>8. r.unevaluated = missing
  <2>1. ObservationsMissing(r, p) =
          {<<"observations", n>> : n \in {k \in DOMAIN p :
             p[k] = "required" /\ Observed(p, c)[k] \in {"unobserved", "invalid"}}}
    BY <1>1 DEF ObservationsMissing
  <2>2. {x \in {<<"assertions">>} :
           \A row \in r.rows : row.source = "core" /\ row.id \in PolicyRows}
          = {x \in {<<"assertions">>} : m.metrics = {} /\ Products(w.rows) = {}}
    BY <1>1, <1>7
  <2>3. {<<"assertions", id>> : id \in r.uncovered}
          = {<<"assertions", id>> : id \in {i \in Declared(w) : E(i) = {}}}
    BY <1>1
  <2> QED BY <1>1, <2>1, <2>2, <2>3 DEF UnevaluatedIs
<1>9. Distinct(r.rows) /\ r.status = WorstStatus(AssessmentStatuses(r.rows, missing))
  BY <1>1, <1>2, <1>8
<1> QED BY <1>4, <1>5, <1>6, <1>8, <1>9 DEF NativeAccepted
-----------------------------------------------------------------------------
(***************************************************************************)
(* Qualification takes its result.                                         *)
(***************************************************************************)
LEMMA StatusesType ==
  ASSUME NEW w \in Works, NEW p, NEW c, Done(w, p, c), NEW r, ResultIs(r, w, p, c)
  PROVE  /\ AssessmentStatuses(w.rows, r.unevaluated) \in SUBSET Statuses
         /\ AssessmentStatuses(w.rows, r.unevaluated) # {}
<1> DEFINE S == AssessmentStatuses(w.rows, r.unevaluated)
<1>1. \A row \in w.rows : row.status \in AssertionStatuses BY CoreIs, RowType
<1>2. S \subseteq Statuses BY <1>1 DEF AssessmentStatuses, AssertionStatuses, Statuses
<1>3. w.rows # {} => S # {} BY DEF AssessmentStatuses
<1>4. w.rows = {} => <<"assertions">> \in r.unevaluated
  <2>1. SUFFICES ASSUME w.rows = {} PROVE <<"assertions">> \in r.unevaluated OBVIOUS
  <2>2. Products(w.rows) = {} /\ w.method.metrics = {}
    BY <2>1 DEF Done, WorkHolds, Products, Ids
  <2> QED BY <2>2 DEF ResultIs, UnevaluatedIs
<1>5. r.unevaluated # {} => S # {} BY DEF AssessmentStatuses
<1> QED BY <1>2, <1>3, <1>4, <1>5

\* A result with anything left unevaluated is no better than incomplete.
LEMMA UnevaluatedCounts ==
  ASSUME NEW w \in Works, NEW p, NEW c, Done(w, p, c), NEW r, ResultIs(r, w, p, c),
         r.unevaluated # {}
  PROVE  WorstStatus({r.status, "incomplete"}) = r.status
<1> DEFINE S == AssessmentStatuses(w.rows, r.unevaluated)
<1>1. S \in SUBSET Statuses /\ S # {} /\ r.status = WorstStatus(S)
  BY StatusesType DEF ResultIs
<1>2. "incomplete" \in S BY DEF AssessmentStatuses
<1>3. r.status \in Statuses /\ Priority["incomplete"] =< Priority[r.status]
  BY <1>1, <1>2, WorstStatusIsWorst
<1>4. Priority[r.status] \in Nat BY <1>3, Order DEF Statuses
<1>5. {r.status, "incomplete"} \in SUBSET Statuses BY <1>3 DEF Statuses
<1> QED BY <1>3, <1>4, <1>5, WorstStatusIs

LEMMA ResultClassified ==
  ASSUME NEW w \in Works, NEW p, NEW c \in Captures, Done(w, p, c), NEW r, ResultIs(r, w, p, c)
  PROVE  Classified(r, c)
<1> DEFINE m == w.method
           E(id) == CriterionCoverage(w, c)[id]
           raw == Bytes(c.index) \ OfKind(c.index, "acceptance_observation")
<1>1. /\ r.method = m /\ r.rows = w.rows
      /\ DOMAIN r.covered = {id \in Declared(w) : E(id) # {}}
      /\ \A id \in DOMAIN r.covered : r.covered[id] = E(id)
      /\ r.uncovered = {id \in Declared(w) : E(id) = {}}
  BY DEF ResultIs
<1>2. m.metrics \cap PolicyRows = {} /\ Ids(w.rows \ Products(w.rows)) = m.metrics \cup PolicyRows
  BY DEF Done, WorkHolds, ControlsValid
<1>3. m.marked => Ids(Products(w.rows)) = Expected(m) BY ProductIds
<1>4. Ids(Criteria(r)) = m.metrics \cup Ids(Products(w.rows))
  <2>1. ASSUME NEW row \in Criteria(r) PROVE row.id \in m.metrics \cup Ids(Products(w.rows))
    <3>1. row \in w.rows /\ (row.source = "product" \/ row.id \notin PolicyRows)
      BY <1>1 DEF Criteria
    <3>2. CASE row.source = "product" BY <3>1, <3>2 DEF Products, Ids
    <3>3. CASE row.source = "core" BY <3>1, <3>3, NoCommonIds
    <3> QED BY <3>1, <3>2, <3>3, CoreIs
  <2>2. ASSUME NEW id \in m.metrics PROVE id \in Ids(Criteria(r))
    <3>1. PICK row \in w.rows : row.id = id BY <1>2 DEF Ids
    <3>2. row \in Criteria(r) BY <1>1, <1>2, <3>1 DEF Criteria
    <3> QED BY <3>1, <3>2 DEF Ids
  <2>3. Ids(Products(w.rows)) \subseteq Ids(Criteria(r)) BY <1>1 DEF Ids, Products, Criteria
  <2> QED BY <2>1, <2>2, <2>3 DEF Ids
<1>5. /\ DOMAIN r.covered \cap r.uncovered = {}
      /\ DOMAIN r.covered \cup r.uncovered = Declared(w)
  BY <1>1
<1>6. Declared(w) = Ids(Criteria(r)) \cup (IF m.marked THEN Expected(m) ELSE {})
  BY <1>4 DEF Declared
<1>7. Declared(w) = Ids(Criteria(r)) BY <1>3, <1>4, <1>6
<1>8. ASSUME NEW row \in Criteria(r), row.id \in DOMAIN r.covered
      PROVE  /\ r.covered[row.id] # {} /\ row.status # "skipped"
             /\ IF row.source = "product" THEN r.covered[row.id] = row.evidence \cap raw
                ELSE /\ row.value /\ Cardinality(r.covered[row.id]) = 1
                     /\ r.covered[row.id] \subseteq OfKind(c.index, "metrics")
  <2>1. row \in w.rows BY <1>1 DEF Criteria
  <2>2. r.covered[row.id] = CriterionEvidence(w, c, row) /\ r.covered[row.id] # {}
    BY <1>1, <1>8, <2>1, CoverageIs
  <2>3. row.status # "skipped" BY <2>1, <2>2, EvidenceIs
  <2>4. CASE row.source = "product"
    <3>1. row.evidence \cap OfKind(c.index, "acceptance_observation") = {}
      BY <2>1, <2>4, CoreIs, RowType
    <3>2. r.covered[row.id] = row.evidence \cap Bytes(c.index) BY <2>1, <2>2, <2>4, EvidenceIs
    <3> QED BY <2>2, <2>3, <2>4, <3>1, <3>2
  <2>5. CASE row.source = "core"
    <3>1. row.value /\ r.covered[row.id] = w.file BY <2>1, <2>2, <2>5, EvidenceIs
    <3>2. w.file \subseteq OfKind(c.index, "metrics") /\ Cardinality(w.file) =< 1
      BY DEF Done, WorkHolds
    <3>3. IsFiniteSet(OfKind(c.index, "metrics"))
      <4> DEFINE entries == {entry \in c.index : entry.kind = "metrics"}
                 f == [l \in entries |-> l.of]
      <4>1. IsFiniteSet(c.index) BY NativeAssumption
      <4>2. IsFiniteSet(entries) BY <4>1, FS_Subset
      <4>3. f \in Surjection(entries, OfKind(c.index, "metrics")) BY DEF Surjection, OfKind
      <4> QED BY <4>2, <4>3, FS_Surjection
    <3>4. IsFiniteSet(w.file) BY <3>2, <3>3, FS_Subset
    <3>5. Cardinality(w.file) \in Nat /\ Cardinality(w.file) # 0
      BY <2>2, <3>1, <3>4, FS_CardinalityType, FS_EmptySet
    <3> QED BY <2>2, <2>3, <2>5, <3>1, <3>2, <3>5
  <2> QED BY <2>1, <2>4, <2>5, CoreIs, RowType
<1> HIDE DEF m, raw
<1> QED BY <1>1, <1>5, <1>6, <1>7, <1>8 DEF Classified, raw
LEMMA ResultQualifies ==
  ASSUME NEW w \in Works, NEW p, NEW c \in Captures, Done(w, p, c), NEW r, ResultIs(r, w, p, c)
  PROVE  Qualifies(r, p, c)
<1> DEFINE m == w.method
<1>1. /\ r.method = m /\ r.rows = w.rows /\ r.window = w.window
      /\ r.observations = Observed(p, c) /\ r.unevaluated = UnevaluatedIs(w, p, c)
      /\ DOMAIN r.covered \cup r.uncovered = Declared(w)
      /\ r.version = (IF m.marked THEN 3 ELSE 2) /\ r.calibration = m.calibration
  BY DEF ResultIs
<1>2. /\ ControlsValid(m) /\ ObservationLoads(c) /\ SourceFits(p, c)
      /\ WindowQualifies(w, c)
      /\ Ids(w.rows \ Products(w.rows)) = m.metrics \cup PolicyRows
      /\ \A row \in Products(w.rows) :
           row.namespace \in DOMAIN m.evaluators /\ RowValid(m, c, row.namespace, row)
  BY DEF Done, WorkHolds
<1>3. WindowQualifies(r, c) BY <1>1, <1>2 DEF WindowQualifies
<1>4. RegistryQualifies(r, c)
  <2>1. m.marked => Declared(w) \subseteq m.metrics \cup PolicyRows \cup Expected(m)
    BY ProductIds DEF Declared
  <2>2. \A row \in Products(r.rows) :
          /\ row.namespace \in DOMAIN m.evaluators /\ Under(row.id, row.namespace)
          /\ row.evidence \subseteq Bytes(c.index) \cup m.calibration
    BY <1>1, <1>2 DEF RowValid
  <2> HIDE DEF m
  <2> QED BY <1>1, <1>2, <2>1, <2>2 DEF RegistryQualifies
<1>5. Missing(r, p) \subseteq r.unevaluated
  <2>1. \A n \in DOMAIN p : p[n] = "required" /\ Observed(p, c)[n] # "measured"
          => Observed(p, c)[n] \in {"unobserved", "invalid"}
    <3>1. SUFFICES ASSUME NEW n \in DOMAIN p, p[n] = "required", Observed(p, c)[n] # "measured"
                   PROVE  Observed(p, c)[n] \in {"unobserved", "invalid"}
      OBVIOUS
    <3>2. Observed(p, c)[n] # "not_applicable" BY <1>2, <3>1 DEF SourceFits
    <3>3. Observed(p, c)[n] = IF n \in DOMAIN c.observed THEN c.observed[n] ELSE "unobserved"
      BY <3>1 DEF Observed
    <3> QED BY <3>1, <3>2, <3>3, NativeAssumption
  <2>2. ASSUME NEW x \in Missing(r, p) PROVE x \in UnevaluatedIs(w, p, c)
    <3>1. CASE \E n \in {k \in DOMAIN p : p[k] = "required" /\ r.observations[k] # "measured"} :
                 x = <<"observations", n>>
      BY <3>1, <2>1, <1>1 DEF UnevaluatedIs
    <3>2. CASE x = <<"observations">> /\ "measured" \notin Range(r.observations)
      BY <3>2, <1>1 DEF UnevaluatedIs
    <3>3. CASE x = <<"assertions">> /\ m.metrics = {} /\ Products(w.rows) = {}
      BY <3>3, <1>1 DEF UnevaluatedIs
    <3>4. CASE \E row \in {any \in w.rows : any.status = "skipped"} : x = <<"assertions", row.id>>
      BY <3>4, <1>1 DEF UnevaluatedIs
    <3> QED BY <2>2, <1>1, <3>1, <3>2, <3>3, <3>4 DEF Missing
  <2> QED BY <2>2, <1>1
<1>6. CoverageQualifies(r, p, c)
  <2>1. Missing(r, p) # {} => r.unevaluated # {} BY <1>5
  <2>2. Missing(r, p) # {} => WorstStatus({r.status, "incomplete"}) = r.status
    BY <2>1, UnevaluatedCounts
  <2>3. ResolvedFits(p, c)
    <3>1. \A n \in DOMAIN c.observed : Observed(p, c)[n] = c.observed[n]
      BY <1>2 DEF SourceFits, Observed
    <3> QED BY <1>2, <3>1 DEF SourceFits, ResolvedFits
  <2> QED BY <1>1, <1>5, <2>2, <2>3 DEF CoverageQualifies
<1>7. ObservationQualifies(c)
  <2>1. /\ Cardinality(OfKind(c.index, "acceptance_observation")) = 1
        /\ c.evidence \cap OfKind(c.index, "acceptance_observation") = {}
    BY <1>2, NativeAssumption DEF ObservationLoads
  <2>2. c.evidence \subseteq Bytes(c.index) BY <1>2 DEF SourceFits
  <2> QED BY <2>1, <2>2 DEF ObservationQualifies
<1>8. ControlsQualify(r)
  <2> HIDE DEF m
  <2> QED BY <1>1, <1>2 DEF ControlsQualify
<1> QED BY <1>3, <1>4, <1>6, <1>7, <1>8 DEF Qualifies

\* What a result has measured when it passes.
LEMMA ResultPassed ==
  ASSUME NEW w \in Works, NEW p, NEW c \in Captures, Done(w, p, c), NEW r, ResultIs(r, w, p, c),
         r.status = "passed"
  PROVE  /\ \A n \in DOMAIN p : p[n] = "required" => n \in DOMAIN c.observed /\ c.observed[n] = "measured"
         /\ Criteria(r) # {}
         /\ \A id \in r.method.metrics \cup IF r.method.marked THEN Expected(r.method) ELSE {} :
              id \in Ids(Criteria(r))
         /\ \A row \in Criteria(r) :
              /\ row.status = "passed"
              /\ IF row.source = "product" THEN row.evidence \cap Bytes(c.index) # {}
                 ELSE row.value /\ OfKind(c.index, "metrics") # {}
<1> DEFINE m == w.method
           S == AssessmentStatuses(w.rows, r.unevaluated)
<1>1. /\ r.method = m /\ r.rows = w.rows /\ r.observations = Observed(p, c)
      /\ r.unevaluated = UnevaluatedIs(w, p, c) /\ r.status = WorstStatus(S)
      /\ r.uncovered = {id \in Declared(w) : CriterionCoverage(w, c)[id] = {}}
  BY DEF ResultIs
<1>2. S \in SUBSET Statuses /\ S # {} BY StatusesType
<1>3. S \subseteq {"passed"}
  <2>1. \A x \in S : x \in Statuses /\ Priority[x] =< 0 BY <1>1, <1>2, WorstStatusIsWorst, Order
  <2> QED BY <2>1, Order DEF Statuses
<1>4. r.unevaluated = {} /\ \A row \in w.rows : row.status = "passed"
  BY <1>3 DEF AssessmentStatuses
<1>5. /\ \A n \in DOMAIN p : p[n] = "required" => Observed(p, c)[n] \notin {"unobserved", "invalid"}
      /\ ~(m.metrics = {} /\ Products(w.rows) = {})
      /\ \A id \in Declared(w) : CriterionCoverage(w, c)[id] # {}
  <2>1. UnevaluatedIs(w, p, c) = {} BY <1>1, <1>4
  <2>2. ASSUME NEW n \in DOMAIN p, p[n] = "required", Observed(p, c)[n] \in {"unobserved", "invalid"}
        PROVE  FALSE
    <3>1. <<"observations", n>> \in UnevaluatedIs(w, p, c) BY <2>2 DEF UnevaluatedIs
    <3> QED BY <2>1, <3>1
  <2>3. ASSUME m.metrics = {}, Products(w.rows) = {} PROVE FALSE
    <3>1. <<"assertions">> \in UnevaluatedIs(w, p, c) BY <2>3 DEF UnevaluatedIs
    <3> QED BY <2>1, <3>1
  <2>4. ASSUME NEW id \in Declared(w), CriterionCoverage(w, c)[id] = {} PROVE FALSE
    <3>1. <<"assertions", id>> \in UnevaluatedIs(w, p, c) BY <2>4 DEF UnevaluatedIs
    <3> QED BY <2>1, <3>1
  <2> QED BY <2>2, <2>3, <2>4
<1>6. ASSUME NEW n \in DOMAIN p, p[n] = "required"
      PROVE  n \in DOMAIN c.observed /\ c.observed[n] = "measured"
  <2>1. SourceFits(p, c) BY DEF Done, WorkHolds
  <2>2. Observed(p, c)[n] \notin {"not_applicable", "unobserved", "invalid"}
    BY <2>1, <1>5, <1>6 DEF SourceFits
  <2>3. Observed(p, c)[n] = IF n \in DOMAIN c.observed THEN c.observed[n] ELSE "unobserved"
    BY <1>6 DEF Observed
  <2> QED BY <2>2, <2>3, NativeAssumption
<1>7. Classified(r, c) BY ResultClassified
<1>8. DOMAIN r.covered = Declared(w) /\ Declared(w) = Ids(Criteria(r)) \cup (IF m.marked THEN Expected(m) ELSE {})
  <2>1. r.uncovered = {} BY <1>1, <1>5
  <2>2. DOMAIN r.covered = Declared(w) BY <1>5 DEF ResultIs
  <2> QED BY <1>1, <1>7, <2>1, <2>2 DEF Classified
<1>9. Declared(w) = Ids(Criteria(r)) BY <1>7, <1>8 DEF Classified
<1>10. Criteria(r) # {}
  <2>1. Declared(w) # {} BY <1>5 DEF Declared, Ids
  <2> QED BY <2>1, <1>9 DEF Ids
<1>11. ASSUME NEW row \in Criteria(r)
       PROVE  /\ row.status = "passed"
              /\ IF row.source = "product" THEN row.evidence \cap Bytes(c.index) # {}
                 ELSE row.value /\ OfKind(c.index, "metrics") # {}
  <2>1. row \in w.rows BY <1>1 DEF Criteria
  <2>2. row.id \in DOMAIN r.covered BY <1>8, <1>9 DEF Ids
  <2>3. /\ r.covered[row.id] # {}
        /\ IF row.source = "product"
           THEN r.covered[row.id]
                  = row.evidence \cap (Bytes(c.index) \ OfKind(c.index, "acceptance_observation"))
           ELSE /\ row.value /\ r.covered[row.id] \subseteq OfKind(c.index, "metrics")
    BY <1>7, <2>2 DEF Classified
  <2> QED BY <1>4, <2>1, <2>3
<1>12. \A id \in m.metrics \cup IF m.marked THEN Expected(m) ELSE {} : id \in Ids(Criteria(r))
  BY <1>9 DEF Declared
<1> QED BY <1>1, <1>6, <1>10, <1>11, <1>12
-----------------------------------------------------------------------------
(***************************************************************************)
(* The steps.                                                              *)
(***************************************************************************)
LEMMA NativeInitHolds == NativeInit => NativeInv
<1> SUFFICES ASSUME NativeInit PROVE NativeInv OBVIOUS
<1>1. PICK c \in Captures : recorded = <<c>> BY DEF NativeInit
<1>2. recorded \in Seq(Captures) /\ recorded # <<>> BY <1>1
<1>3. nativeResults = <<>> /\ nativeResults \in Seq(NativeResults) /\ Len(nativeResults) = 0
  BY DEF NativeInit
<1> QED BY <1>2, <1>3 DEF NativeInit, NativeInv

LEMMA ResultStays ==
  ASSUME NEW r, NEW p, NEW executions, NEW c, executions \in Seq(Captures), c \in Captures,
         ResultHolds(r, p, executions)
  PROVE  ResultHolds(r, p, Append(executions, c))
<1>1. r.execution \in 1..Len(executions) BY DEF ResultHolds
<1>2. /\ Append(executions, c)[r.execution] = executions[r.execution]
      /\ r.execution \in 1..Len(Append(executions, c))
  BY <1>1
<1> QED BY <1>2 DEF ResultHolds

LEMMA RecordKeeps == NativeInv /\ RecordAgain => NativeInv'
<1> SUFFICES ASSUME NativeInv, RecordAgain PROVE NativeInv' OBVIOUS
<1>1. PICK c \in Captures : recorded' = Append(recorded, c) BY DEF RecordAgain
<1>2. UNCHANGED <<profile, assessment, nativeResults>> BY DEF RecordAgain
<1>3. recorded \in Seq(Captures) BY DEF NativeInv
<1>4. /\ recorded' \in Seq(Captures) /\ recorded' # <<>>
      /\ \A i \in 1..Len(recorded) : recorded'[i] = recorded[i] /\ i \in 1..Len(recorded')
  BY <1>1, <1>3
<1>5. \A k \in 1..Len(nativeResults) : ResultHolds(nativeResults[k], profile, recorded')
  BY <1>1, <1>3, ResultStays DEF NativeInv
<1>6. assessment = NoWork \/
        /\ assessment \in Works /\ assessment.execution \in 1..Len(recorded')
        /\ WorkHolds(assessment, profile, recorded'[assessment.execution])
        /\ OriginalHolds(assessment, Len(nativeResults), nativeResults)
  BY <1>4 DEF NativeInv
<1> QED BY <1>2, <1>4, <1>5, <1>6 DEF NativeInv

\* An assessment goes on, or is given up.
LEMMA WorkKeeps ==
  ASSUME NativeInv, UNCHANGED <<profile, recorded, nativeResults>>,
         assessment' = NoWork \/
           /\ assessment' \in Works /\ assessment'.execution \in 1..Len(recorded)
           /\ WorkHolds(assessment', profile, recorded[assessment'.execution])
           /\ OriginalHolds(assessment', Len(nativeResults), nativeResults)
  PROVE  NativeInv'
BY DEF NativeInv

LEMMA AssessKeeps ==
  ASSUME NativeInv, NEW m \in Methods, NEW original \in 0..Len(nativeResults), Assess(m, original)
  PROVE  NativeInv'
<1> DEFINE v == Len(recorded)
           c == recorded[v]
<1>1. /\ ControlsValid(m) /\ OriginalFits(m, v, original)
      /\ ObservationLoads(c) /\ SourceFits(profile, c)
      /\ UNCHANGED <<profile, recorded, nativeResults>>
  BY DEF Assess
<1>2. PICK window \in Windows, file \in SUBSET OfKind(c.index, "metrics"), core \in Measurements :
        /\ WindowFits(m, c, window)
        /\ Cardinality(file) <= 1
        /\ Ids(core) = m.metrics \cup PolicyRows
        /\ assessment' = [phase |-> "evaluators", method |-> m, execution |-> v, file |-> file,
                          original |-> original, rows |-> core, left |-> DOMAIN m.evaluators,
                          window |-> IF c.window = <<>> THEN <<>> ELSE window]
  BY DEF Assess
<1> DEFINE shown == IF c.window = <<>> THEN <<>> ELSE window
           to == [phase |-> "evaluators", method |-> m, execution |-> v, file |-> file,
                  original |-> original, rows |-> core, left |-> DOMAIN m.evaluators,
                  window |-> shown]
<1>3. recorded \in Seq(Captures) /\ recorded # <<>> /\ v \in 1..Len(recorded) /\ c \in Captures
  BY DEF NativeInv
<1>4. to \in Works
  <2>1. core \in SUBSET AllRows BY DEF AllRows
  <2>2. file \in SUBSET UNION {Bytes(x.index) : x \in Captures}
    BY <1>3 DEF OfKind, Bytes
  <2>3. nativeResults \in Seq(NativeResults) BY DEF NativeInv
  <2>4. original \in Nat /\ v \in Nat BY <1>3, <2>3
  <2>5. DOMAIN m.evaluators \in SUBSET UNION {DOMAIN x.evaluators : x \in Methods} OBVIOUS
  <2>6. shown \in Windows \cup {<<>>} OBVIOUS
  <2> HIDE DEF shown, v, c
  <2> QED BY <2>1, <2>2, <2>4, <2>5, <2>6 DEF Works
<1>5. /\ to.method = m /\ to.execution = v /\ to.file = file /\ to.original = original
      /\ to.rows = core /\ to.left = DOMAIN m.evaluators /\ to.window = shown
  OBVIOUS
<1>6. Products(core) = {}
  BY NativeAssumption DEF Products
<1>7. WindowQualifies(to, c)
  <2>1. c.window # <<>> => shown # <<>> BY NativeAssumption
  <2>2. c.window = <<>> => shown = <<>> OBVIOUS
  <2>3. c.window # <<>> => shown = window OBVIOUS
  <2> HIDE DEF to, shown, c
  <2> QED BY <1>2, <1>5, <2>1, <2>2, <2>3 DEF WindowFits, WindowQualifies
<1>8. WorkHolds(to, profile, c)
  <2>1. IsFiniteSet(core) BY NativeAssumption
  <2>2. core \ Products(core) = core BY <1>6
  <2> HIDE DEF to, shown, c
  <2> QED BY <1>1, <1>2, <1>5, <1>6, <1>7, <2>1, <2>2 DEF WorkHolds
<1>9. OriginalHolds(to, Len(nativeResults), nativeResults)
  <2> HIDE DEF to
  <2> QED BY <1>1, <1>5 DEF OriginalHolds, OriginalFits
<1>10. assessment' = to BY <1>2
<1> HIDE DEF to
<1> QED BY <1>1, <1>3, <1>4, <1>5, <1>8, <1>9, <1>10, WorkKeeps

LEMMA EvaluatorKeeps ==
  ASSUME NativeInv, assessment.phase = "evaluators", NEW n \in assessment.left, RunEvaluator(n)
  PROVE  NativeInv'
<1> DEFINE w == assessment
           m == w.method
           c == recorded[w.execution]
<1>1. PICK reply \in Replies :
        assessment' = IF ReplyValid(m, c, n, reply)
                      THEN [w EXCEPT !.rows = @ \cup reply, !.left = @ \ {n}]
                      ELSE NoWork
  BY DEF RunEvaluator
<1>2. UNCHANGED <<profile, recorded, nativeResults>> BY DEF RunEvaluator
<1>3. /\ w \in Works /\ w.execution \in 1..Len(recorded) /\ WorkHolds(w, profile, c)
      /\ OriginalHolds(w, Len(nativeResults), nativeResults)
  BY DEF NativeInv, NoWork
<1>4. CASE ReplyValid(m, c, n, reply)
  <2> DEFINE to == [w EXCEPT !.rows = @ \cup reply, !.left = @ \ {n}]
             rows == w.rows \cup reply
             left == w.left \ {n}
  <2>1. rows \in SUBSET AllRows BY <1>3 DEF Works, AllRows
  <2>2. left \in SUBSET UNION {DOMAIN x.evaluators : x \in Methods} BY <1>3 DEF Works
  <2>3. /\ to \in Works /\ to.rows = rows /\ to.left = left /\ to.method = m
        /\ to.file = w.file /\ to.window = w.window /\ to.execution = w.execution
        /\ to.original = w.original
    BY <1>3, <2>1, <2>2 DEF Works
  <2>4. Products(rows) = Products(w.rows) \cup reply
    <3>1. \A row \in reply : row.source = "product" BY NativeAssumption
    <3> QED BY <3>1 DEF Products
  <2>5. rows \ Products(rows) = w.rows \ Products(w.rows)
    <3>1. \A row \in reply : row.source = "product" BY NativeAssumption
    <3> QED BY <3>1 DEF Products
  <2>6. IsFiniteSet(rows)
    <3>1. IsFiniteSet(reply) /\ IsFiniteSet(w.rows) BY <1>3, NativeAssumption DEF WorkHolds
    <3> QED BY <3>1, FS_Union
  <2>7. DOMAIN m.evaluators \ left = (DOMAIN m.evaluators \ w.left) \cup {n}
    BY <1>3 DEF WorkHolds
  <2>8. \A row \in reply :
          /\ row.namespace = n /\ RowValid(m, c, n, row)
          /\ m.marked => row.id \in m.evaluators[n]
    BY <1>4 DEF ReplyValid, RowValid, Ids
  <2>9. m.marked => m.evaluators[n] = Ids(reply) BY <1>4 DEF ReplyValid
  <2>10. WindowQualifies(to, c)
    <3> HIDE DEF to
    <3> QED BY <1>3, <2>3 DEF WorkHolds, WindowQualifies
  <2>11. \A row \in Products(rows) :
           /\ row.namespace \in DOMAIN m.evaluators \ left /\ RowValid(m, c, row.namespace, row)
           /\ m.marked => row.id \in m.evaluators[row.namespace]
    BY <1>3, <2>4, <2>7, <2>8 DEF WorkHolds
  <2>12. m.marked => \A o \in DOMAIN m.evaluators \ left : m.evaluators[o] \subseteq Ids(Products(rows))
    <3>1. SUFFICES ASSUME m.marked, NEW o \in DOMAIN m.evaluators \ left
                   PROVE  m.evaluators[o] \subseteq Ids(Products(rows))
      OBVIOUS
    <3>2. Ids(Products(rows)) = Ids(Products(w.rows)) \cup Ids(reply) BY <2>4 DEF Ids
    <3>3. CASE o = n BY <2>9, <3>1, <3>2, <3>3
    <3>4. CASE o \in DOMAIN m.evaluators \ w.left
      BY <1>3, <3>1, <3>2, <3>4 DEF WorkHolds
    <3> QED BY <2>7, <3>3, <3>4
  <2>13. WorkHolds(to, profile, c)
    <3>1. left \subseteq DOMAIN m.evaluators BY <1>3 DEF WorkHolds
    <3> HIDE DEF to, rows, left
    <3> QED BY <1>3, <2>3, <2>5, <2>6, <2>10, <2>11, <2>12, <3>1 DEF WorkHolds
  <2>14. OriginalHolds(to, Len(nativeResults), nativeResults)
    <3> HIDE DEF to
    <3> QED BY <1>3, <2>3 DEF OriginalHolds
  <2>15. assessment' = to BY <1>1, <1>4
  <2> HIDE DEF to
  <2> QED BY <1>2, <1>3, <2>3, <2>13, <2>14, <2>15, WorkKeeps
<1>5. CASE ~ReplyValid(m, c, n, reply) BY <1>1, <1>2, <1>5, WorkKeeps
<1> QED BY <1>4, <1>5

\* What is written keeps the rules: nothing completed is ever refused.
LEMMA ConcludeKeeps ==
  ASSUME NativeInv, Conclude
  PROVE  NativeInv'
<1> DEFINE w == assessment
           c == recorded[w.execution]
           r == NativeResult(w, profile, c)
<1>1. w.phase = "evaluators" /\ w.left = {} /\ UNCHANGED <<profile, recorded>>
  BY DEF Conclude
<1>2. /\ w \in Works /\ w.execution \in 1..Len(recorded) /\ WorkHolds(w, profile, c)
      /\ OriginalHolds(w, Len(nativeResults), nativeResults)
  BY <1>1 DEF NativeInv, NoWork
<1>3. c \in Captures /\ profile \in Profiles /\ nativeResults \in Seq(NativeResults)
  BY <1>2 DEF NativeInv
<1>4. CASE Calibrated(w, c) /\ Distinct(w.rows)
  <2>1. Done(w, profile, c) BY <1>1, <1>2, <1>4 DEF Done
  <2>2. ResultIs(r, w, profile, c) BY <1>2, <2>1, ResultFields
  <2>3. NativeAccepted(r, profile, c) BY <1>2, <2>1, <2>2, ResultAccepted
  <2>4. assessment' = NoWork /\ nativeResults' = Append(nativeResults, r)
    BY <1>4, <2>3 DEF Conclude
  <2>5. r \in NativeResults BY <1>2, <1>3 DEF NativeResults
  <2>6. r.execution = w.execution /\ r.original = w.original BY <2>2 DEF ResultIs
  <2>7. ResultHolds(r, profile, recorded) BY <1>2, <2>1, <2>6 DEF ResultHolds
  <2> DEFINE all == Append(nativeResults, r)
             last == Len(nativeResults)
  <2> HIDE DEF r
  <2>8. /\ all \in Seq(NativeResults) /\ Len(all) = last + 1 /\ all[last + 1] = r /\ last \in Nat
        /\ \A k \in 1..last : all[k] = nativeResults[k]
    BY <1>3, <2>5
  <2> HIDE DEF all
  <2>9. ASSUME NEW k \in 1..Len(all)
        PROVE  ResultHolds(all[k], profile, recorded) /\ OriginalHolds(all[k], k - 1, all)
    <3>1. CASE k = last + 1
      <4>1. OriginalHolds(r, last, nativeResults) BY <1>2, <2>6 DEF OriginalHolds
      <4>2. OriginalHolds(r, last, all) BY <4>1, <2>8 DEF OriginalHolds
      <4> QED BY <3>1, <4>2, <2>7, <2>8
    <3>2. CASE k # last + 1
      <4>1. k \in 1..last BY <3>2, <2>8
      <4>2. ResultHolds(nativeResults[k], profile, recorded)
              /\ OriginalHolds(nativeResults[k], k - 1, nativeResults)
        BY <4>1 DEF NativeInv
      <4>3. OriginalHolds(nativeResults[k], k - 1, all)
        BY <4>1, <4>2, <2>8 DEF OriginalHolds
      <4> QED BY <4>1, <4>2, <4>3, <2>8
    <3> QED BY <3>1, <3>2
  <2>10. nativeResults' = all BY <2>4 DEF all
  <2> QED BY <1>1, <2>4, <2>8, <2>9, <2>10 DEF NativeInv
<1>5. CASE ~(Calibrated(w, c) /\ Distinct(w.rows))
  <2>1. assessment' = NoWork /\ nativeResults' = nativeResults BY <1>5 DEF Conclude
  <2> QED BY <1>1, <2>1, WorkKeeps
<1> QED BY <1>4, <1>5

LEMMA NativeStepKeeps == NativeInv /\ [NativeNext]_nativeVars => NativeInv'
<1> SUFFICES ASSUME NativeInv, [NativeNext]_nativeVars PROVE NativeInv' OBVIOUS
<1>1. CASE \E m \in Methods, original \in 0..Len(nativeResults) : Assess(m, original)
  BY <1>1, AssessKeeps
<1>2. CASE assessment.phase = "evaluators" /\ \E n \in assessment.left : RunEvaluator(n)
  BY <1>2, EvaluatorKeeps
<1>3. CASE Conclude BY <1>3, ConcludeKeeps
<1>4. CASE RecordAgain BY <1>4, RecordKeeps
<1>5. CASE UNCHANGED nativeVars BY <1>5 DEF nativeVars, NativeInv
<1> QED BY <1>1, <1>2, <1>3, <1>4, <1>5 DEF NativeNext
-----------------------------------------------------------------------------
(***************************************************************************)
(* The specification.                                                      *)
(***************************************************************************)
LEMMA ResultFacts ==
  ASSUME NativeInv, NEW k \in 1..Len(nativeResults)
  PROVE  LET r == nativeResults[k]
             c == recorded[r.execution]
         IN /\ c \in Captures
            /\ \E w \in Works : Done(w, profile, c) /\ ResultIs(r, w, profile, c)
<1> DEFINE r == nativeResults[k]
           c == recorded[r.execution]
<1>1. PICK w \in Works : Done(w, profile, c) /\ r = NativeResult(w, profile, c)
  BY DEF NativeInv, ResultHolds
<1>2. r.execution \in 1..Len(recorded) /\ recorded \in Seq(Captures)
  BY DEF NativeInv, ResultHolds
<1>3. ResultIs(r, w, profile, c) BY <1>1, ResultFields
<1> QED BY <1>1, <1>2, <1>3

LEMMA InvQualifies == NativeInv => NativeResultQualifies
<1> SUFFICES ASSUME NativeInv PROVE NativeResultQualifies OBVIOUS
<1>1. assessment.phase # "invalid" BY DEF NativeInv, NoWork, Works
<1>2. ASSUME NEW k \in 1..Len(nativeResults)
      PROVE  /\ DomainQualifies(nativeResults[k], nativeResults[k].execution)
             /\ Classified(nativeResults[k], recorded[nativeResults[k].execution])
  BY ResultFacts, ResultQualifies, ResultClassified DEF DomainQualifies, BindingsQualify
<1>3. ASSUME NEW k \in 1..Len(nativeResults), nativeResults[k].original # 0
      PROVE  ArchiveAccepts(nativeResults[k].original, k,
                            nativeResults[nativeResults[k].original].execution)
  <2> DEFINE o == nativeResults[k].original
  <2>1. OriginalHolds(nativeResults[k], k - 1, nativeResults) BY DEF NativeInv
  <2>2. nativeResults \in Seq(NativeResults) BY DEF NativeInv
  <2>3. o \in 1..Len(nativeResults) /\ k # o
    BY <1>3, <2>1, <2>2 DEF OriginalHolds
  <2>4. nativeResults[k].execution = nativeResults[o].execution /\ ~nativeResults[o].method.marked
    BY <1>3, <2>1 DEF OriginalHolds
  <2>5. \A i \in {o, k} :
          /\ DomainQualifies(nativeResults[i], nativeResults[o].execution)
          /\ Classified(nativeResults[i], recorded[nativeResults[o].execution])
    BY <1>2, <2>3, <2>4
  <2>6. nativeResults[o].version = 2 BY <2>3, <2>4, ResultFacts DEF ResultIs
  <2> QED BY <2>3, <2>4, <2>5, <2>6 DEF ArchiveAccepts, IsOriginalPair, SourceBinding
<1>4. DOMAIN nativeResults = 1..Len(nativeResults) BY DEF NativeInv
<1> QED BY <1>1, <1>2, <1>3, <1>4 DEF NativeResultQualifies

LEMMA InvCovered == NativeInv => PassedIsCovered
<1> SUFFICES ASSUME NativeInv PROVE PassedIsCovered OBVIOUS
<1>1. DOMAIN nativeResults = 1..Len(nativeResults) BY DEF NativeInv
<1> QED BY <1>1, ResultFacts, ResultPassed DEF PassedIsCovered

\* Every behaviour keeps the inductive invariant: the rows of an assessment are
\* those of the evaluators which have run, on evidence of its own execution.
THEOREM NativeInvariance == NativeSpec => []NativeInv
<1>1. NativeInit => NativeInv BY NativeInitHolds
<1>2. NativeInv /\ [NativeNext]_nativeVars => NativeInv' BY NativeStepKeeps
<1> QED BY <1>1, <1>2, PTL DEF NativeSpec

\* What _evaluate_native writes passes the rules of its contract, and those of
\* qualification, alone and in an archive with its original.
THEOREM ResultsQualify == NativeSpec => []NativeResultQualifies
BY NativeInvariance, InvQualifies, PTL

\* _evaluate_native passes an assessment only if each required observation was
\* measured and each declared criterion passed on bytes of the execution.
THEOREM PassedResultsAreCovered == NativeSpec => []PassedIsCovered
BY NativeInvariance, InvCovered, PTL
-----------------------------------------------------------------------------
(***************************************************************************)
(* Aggregation: from the results of a run to the verdict of a campaign.    *)
(***************************************************************************)

(***************************************************************************)
(* Types.                                                                  *)
(***************************************************************************)
Contents == ContextDocuments \cup TransportDocuments \cup ResultDocuments \cup {Absent}

\* All files of a run.
States == {f \in [Paths -> Contents] : \A p \in Paths : f[p] \in DocumentsAt(p)}

Orders == {<<>>} \cup {<<"context">> \o Results \o more : more \in {<<>>, <<"transport">>}}

Readers == [phase : {"idle", "refused", "load", "recheck"}, order : Orders, k : Nat,
            read : Seq(Contents)]

Aggregates == [context : Nat, results : [ToSet(Results) -> ResultDocuments],
               domains : Statuses, cross : Statuses \cup {"unevaluated"},
               transport : TransportDocuments \cup {Absent}]

Campaigns == [phase : {"contexts", "aggregates", "refused",
                       "passed", "failed", "incomplete", "error"},
              contexts : Seq(ContextDocuments), aggregates : Seq(Aggregates)]

AggregationTypeOK ==
  /\ files \in [Runs -> States] /\ past \in [Runs -> SUBSET States]
  /\ rewrites \in [Runs -> Nat] /\ reader \in [Runs -> Readers]
  /\ aggregate \in [Runs -> Aggregates \cup {Absent}]
  /\ campaign \in Campaigns
-----------------------------------------------------------------------------
(***************************************************************************)
(* The inductive invariant.                                                *)
(***************************************************************************)
\* The number of a document identifies it among those the path ever held.
PastHolds(now, states, last) ==
  /\ now \in states
  /\ \A was \in states, p \in Paths : was[p] # Absent => was[p].v =< last
  /\ \A was, then \in states, p \in Paths :
       was[p] # Absent /\ then[p] # Absent /\ was[p].v = then[p].v => was[p] = then[p]

\* When all documents were loaded they were on disk together if the files that
\* are still to be read once more have not changed.
Snapshot(rd, now, states) ==
  \E was \in states : \A j \in 1..Len(rd.order) :
    j < rd.k \/ now[rd.order[j]] = rd.read[j] => was[rd.order[j]] = rd.read[j]

ReaderHolds(rd, now, states) ==
  /\ rd.phase \in {"load", "recheck"} =>
       /\ rd.order # <<>> /\ rd.k \in 1..Len(rd.order)
       /\ \A j \in 1..Len(rd.read) :
            rd.read[j] # Absent /\ \E was \in states : was[rd.order[j]] = rd.read[j]
  /\ rd.phase = "load" => Len(rd.read) = rd.k - 1
  /\ rd.phase = "recheck" =>
       Len(rd.read) = Len(rd.order) /\ Registered(rd) /\ Snapshot(rd, now, states)

\* An aggregate counts documents that were on disk together.
Sums(a, states) ==
  /\ StatusOfRun(a) = Outcome(a)
  /\ \E was \in states :
       /\ a.context = was["context"].v
       /\ Together(was["context"], a, was) /\ OfOneExecution(was["context"], a)

LoadedInv(c, states) ==
  /\ \A i \in 1..Len(c.contexts) : \E was \in states[RunOrder[i]] : was["context"] = c.contexts[i]
  /\ \A i \in 1..Len(c.aggregates) : Sums(c.aggregates[i], states[RunOrder[i]])

CampaignHolds(c) ==
  /\ Len(c.contexts) =< Len(RunOrder) /\ Len(c.aggregates) =< Len(RunOrder)
  /\ c.phase = "contexts" => c.aggregates = <<>> /\ Len(c.contexts) < Len(RunOrder)
  /\ c.phase = "aggregates" =>
       Len(c.contexts) = Len(RunOrder) /\ Len(c.aggregates) < Len(RunOrder)
  /\ c.phase \in {"passed", "failed", "incomplete", "error"} =>
       /\ Len(c.contexts) = Len(RunOrder) /\ Len(c.aggregates) = Len(RunOrder)
       /\ \A i \in 1..Len(RunOrder) : Linked(RunOrder[i], c.contexts[i], c.aggregates[i])
       /\ c.phase = CampaignVerdict(StatusesOf(c.aggregates))

AggregationInv ==
  /\ AggregationTypeOK
  /\ \A r \in Runs : PastHolds(files[r], past[r], rewrites[r])
  /\ \A r \in Runs : ReaderHolds(reader[r], files[r], past[r])
  /\ \A r \in Runs : aggregate[r] # Absent => Sums(aggregate[r], past[r])
  /\ LoadedInv(campaign, past) /\ CampaignHolds(campaign)
-----------------------------------------------------------------------------
(***************************************************************************)
(* Lemmas about what is loaded.                                            *)
(***************************************************************************)
LEMMA PathFacts ==
  /\ "context" \in Paths /\ "transport" \in Paths /\ ToSet(Results) \subseteq Paths
  /\ ToSet(Results) # {} /\ Results[1] \in ToSet(Results)
  /\ DocumentsAt("context") = ContextDocuments
  /\ DocumentsAt("transport") = TransportDocuments \cup {Absent}
  /\ \A p \in ToSet(Results) :
       p \notin {"context", "transport"} /\ DocumentsAt(p) = ResultDocuments
  /\ \A p \in Paths : DocumentsAt(p) \subseteq Contents
<1>1. /\ Results \in Seq(STRING) /\ Results # <<>>
      /\ {"context", "transport"} \cap ToSet(Results) = {}
  BY AggregationAssumption
<1>2. 1 \in DOMAIN Results BY <1>1
<1>3. Results[1] \in ToSet(Results) BY <1>2 DEF ToSet
<1> QED BY <1>1, <1>3 DEF Paths, DocumentsAt, Contents

LEMMA OrderFacts ==
  ASSUME NEW o \in Orders, o # <<>>
  PROVE  /\ o \in Seq(Paths) /\ Len(o) > 0
         /\ \A p \in {"context"} \cup ToSet(Results) : \E j \in 1..Len(o) : o[j] = p
<1>1. PICK more \in {<<>>, <<"transport">>} : o = <<"context">> \o Results \o more
  BY DEF Orders
<1>2. Results \in Seq(Paths) /\ more \in Seq(Paths) /\ <<"context">> \in Seq(Paths)
  <2>1. Results \in Seq(STRING) BY AggregationAssumption
  <2>2. \A i \in 1..Len(Results) : Results[i] \in Paths
    BY <2>1, PathFacts DEF ToSet
  <2>3. Results \in Seq(Paths) BY <2>1, <2>2
  <2>4. "context" \in Paths /\ "transport" \in Paths BY PathFacts
  <2>5. <<"context">> \in Seq(Paths) /\ <<"transport">> \in Seq(Paths) /\ <<>> \in Seq(Paths)
    BY <2>4
  <2> QED BY <2>3, <2>5
<1> DEFINE head == <<"context">> \o Results
<1>3. head \in Seq(Paths) /\ Len(head) = 1 + Len(Results) /\ head[1] = "context"
      /\ \A i \in 1..Len(Results) : head[i + 1] = Results[i]
  BY <1>2
<1>4. o = head \o more BY <1>1
<1> HIDE DEF head
<1>5. o \in Seq(Paths) /\ Len(o) = Len(head) + Len(more)
      /\ \A i \in 1..Len(head) : o[i] = head[i]
  <2>1. head \in Seq(Paths) /\ more \in Seq(Paths) BY <1>2, <1>3
  <2> QED BY <2>1, <1>4
<1>6. 1 \in 1..Len(head) /\ \A i \in 1..Len(Results) : i + 1 \in 1..Len(head)
  BY <1>3, <1>2
<1>7. Len(more) \in Nat /\ Len(head) \in Nat BY <1>2, <1>3
<1>8. \A i \in 1..Len(head) : i \in 1..Len(o) BY <1>5, <1>7
<1>9. o[1] = "context" /\ 1 \in 1..Len(o) BY <1>3, <1>5, <1>6, <1>8
<1>10. \A i \in 1..Len(Results) : o[i + 1] = Results[i] /\ i + 1 \in 1..Len(o)
  BY <1>3, <1>5, <1>6, <1>8
<1>11. \A p \in ToSet(Results) : \E i \in 1..Len(Results) : p = Results[i]
  BY <1>2 DEF ToSet
<1> QED BY <1>5, <1>9, <1>10, <1>11

\* A document of a path that was given is one that was read at this path.
LEMMA LoadedIs ==
  ASSUME NEW rd, NEW p, \E j \in 1..Len(rd.order) : rd.order[j] = p
  PROVE  \E j \in 1..Len(rd.order) : rd.order[j] = p /\ Loaded(rd, p) = rd.read[j]
BY DEF Loaded

LEMMA SameReading ==
  ASSUME NEW rd, NEW to, rd.order = to.order, rd.read = to.read
  PROVE  /\ Registered(rd) <=> Registered(to)
         /\ \A now, states : rd.k = to.k => (Snapshot(rd, now, states) <=> Snapshot(to, now, states))
<1>1. \A p : Loaded(rd, p) = Loaded(to, p) BY DEF Loaded
<1>2. ResultsOf(rd) = ResultsOf(to) BY <1>1 DEF ResultsOf
<1>3. WithTransport(rd) = WithTransport(to) BY DEF WithTransport
<1>4. RegistryHolds(rd) <=> RegistryHolds(to) BY <1>1, <1>2, <1>3 DEF RegistryHolds
<1>5. ResultsHold(rd) <=> ResultsHold(to)
  BY <1>1, <1>2 DEF ResultsHold, OneAssessment
<1>6. Registered(rd) <=> Registered(to)
  BY <1>1, <1>2, <1>3, <1>4, <1>5 DEF Registered
<1> QED BY <1>6 DEF Snapshot

\* All documents have been read.
Complete(rd, states) ==
  /\ rd.order \in Orders /\ rd.order # <<>> /\ Len(rd.read) = Len(rd.order)
  /\ \A j \in 1..Len(rd.read) :
       rd.read[j] # Absent /\ \E was \in states : was[rd.order[j]] = rd.read[j]

LEMMA ReadIs ==
  ASSUME NEW states \in SUBSET States, NEW rd, Complete(rd, states)
  PROVE  /\ \A p \in {"context"} \cup ToSet(Results) :
              \E j \in 1..Len(rd.order) : rd.order[j] = p /\ Loaded(rd, p) = rd.read[j]
         /\ WithTransport(rd) =>
              \E j \in 1..Len(rd.order) :
                rd.order[j] = "transport" /\ Loaded(rd, "transport") = rd.read[j]
<1>1. /\ rd.order \in Seq(Paths)
      /\ \A p \in {"context"} \cup ToSet(Results) : \E j \in 1..Len(rd.order) : rd.order[j] = p
  BY OrderFacts DEF Complete
<1>2. WithTransport(rd) => \E j \in 1..Len(rd.order) : rd.order[j] = "transport"
  BY <1>1 DEF WithTransport, ToSet
<1>3. ASSUME NEW p \in {"context"} \cup ToSet(Results)
      PROVE  \E j \in 1..Len(rd.order) : rd.order[j] = p /\ Loaded(rd, p) = rd.read[j]
  <2>1. \E j \in 1..Len(rd.order) : rd.order[j] = p BY <1>1
  <2> QED BY <2>1, LoadedIs
<1>4. WithTransport(rd) =>
        \E j \in 1..Len(rd.order) :
          rd.order[j] = "transport" /\ Loaded(rd, "transport") = rd.read[j]
  BY <1>2, LoadedIs
<1> QED BY <1>3, <1>4

LEMMA LoadedType ==
  ASSUME NEW states \in SUBSET States, NEW rd, Complete(rd, states)
  PROVE  /\ Loaded(rd, "context") \in ContextDocuments
         /\ \A p \in ToSet(Results) : Loaded(rd, p) \in ResultDocuments
         /\ WithTransport(rd) => Loaded(rd, "transport") \in TransportDocuments
<1>1. \A j \in 1..Len(rd.order) :
        /\ rd.read[j] # Absent /\ rd.order[j] \in Paths
        /\ rd.read[j] \in DocumentsAt(rd.order[j])
  <2>1. rd.order \in Seq(Paths) BY OrderFacts DEF Complete
  <2> QED BY <2>1 DEF Complete, States
<1>2. Loaded(rd, "context") \in ContextDocuments BY <1>1, ReadIs, PathFacts
<1>3. ASSUME NEW p \in ToSet(Results) PROVE Loaded(rd, p) \in ResultDocuments
  <2>1. \E j \in 1..Len(rd.order) : rd.order[j] = p /\ Loaded(rd, p) = rd.read[j]
    <3>1. p \in {"context"} \cup ToSet(Results) OBVIOUS
    <3> QED BY <3>1, ReadIs
  <2> QED BY <2>1, <1>1, PathFacts
<1>4. WithTransport(rd) => Loaded(rd, "transport") \in TransportDocuments
  BY <1>1, ReadIs, PathFacts
<1> QED BY <1>2, <1>3, <1>4
-----------------------------------------------------------------------------
(***************************************************************************)
(* The worst of the worst, and how a run is counted.                       *)
(***************************************************************************)
LEMMA WorstOfAll ==
  ASSUME NEW S \in SUBSET Statuses, S # {}, NEW t \in Statuses
  PROVE  WorstStatus({WorstStatus(S), t}) = WorstStatus(S \cup {t})
<1> DEFINE w == WorstStatus(S)
<1>1. w \in S /\ \A x \in S : Priority[x] =< Priority[w] BY WorstStatusIsWorst
<1>2. w \in Statuses BY <1>1
<1> HIDE DEF w
<1>3. \A x \in Statuses : Priority[x] \in Nat BY Order DEF Statuses
<1>4. PICK m \in {w, t} : \A x \in {w, t} : Priority[x] =< Priority[m]
  BY <1>2, <1>3
<1>5. WorstStatus({w, t}) = m
  <2>1. {w, t} \in SUBSET Statuses BY <1>2
  <2> QED BY <2>1, <1>4, WorstStatusIs
<1>6. \A x \in S \cup {t} : Priority[x] =< Priority[m]
  <2>1. SUFFICES ASSUME NEW x \in S PROVE Priority[x] =< Priority[m] BY <1>4
  <2>2. Priority[x] =< Priority[w] /\ Priority[w] =< Priority[m] BY <1>1, <1>4
  <2> QED BY <2>2, <1>1, <1>2, <1>3, <1>4
<1>7. m \in S \cup {t} BY <1>1, <1>4
<1>8. WorstStatus(S \cup {t}) = m
  <2>1. S \cup {t} \in SUBSET Statuses OBVIOUS
  <2> QED BY <2>1, <1>6, <1>7, WorstStatusIs
<1> QED BY <1>5, <1>8 DEF w

LEMMA WorstStatusType ==
  ASSUME NEW S \in SUBSET Statuses, S # {}
  PROVE  WorstStatus(S) \in Statuses
BY WorstStatusIsWorst

StatusesIn(a) == {a.results[p].status : p \in ToSet(Results)}

LEMMA StatusesInType ==
  ASSUME NEW a, a.results \in [ToSet(Results) -> ResultDocuments]
  PROVE  StatusesIn(a) \in SUBSET Statuses /\ StatusesIn(a) # {}
BY PathFacts DEF StatusesIn, ResultDocuments

LEMMA OutcomeIs ==
  ASSUME NEW a \in Aggregates,
         a.domains = WorstStatus(StatusesIn(a)),
         a.transport = Absent => a.cross = "unevaluated",
         a.transport # Absent => a.cross = Collapsed({a.domains, a.transport.status})
  PROVE  StatusOfRun(a) = Outcome(a)
<1>1. StatusesIn(a) \in SUBSET Statuses /\ StatusesIn(a) # {}
  BY StatusesInType DEF Aggregates
<1> DEFINE all == StatusesIn(a) \cup {x.status : x \in {a.transport} \ {Absent}}
<1>2. Outcome(a) = IF WorstStatus(all) \in {"skipped", "cancelled"} THEN "incomplete"
                   ELSE WorstStatus(all)
  BY DEF Outcome, StatusesIn
<1>3. CASE a.transport = Absent
  <2>1. all = StatusesIn(a) BY <1>3
  <2>2. WorstStatus(all) \in Statuses BY <2>1, <1>1, WorstStatusType
  <2>3. a.domains = WorstStatus(all) /\ a.cross = "unevaluated" BY <2>1, <1>3
  <2> QED BY <1>2, <2>2, <2>3 DEF StatusOfRun, Statuses
<1>4. CASE a.transport # Absent
  <2>1. a.transport.status \in Statuses BY <1>4 DEF Aggregates, TransportDocuments
  <2>2. all = StatusesIn(a) \cup {a.transport.status} BY <1>4
  <2>3. WorstStatus({a.domains, a.transport.status}) = WorstStatus(all)
    BY <1>1, <2>1, <2>2, WorstOfAll
  <2>4. WorstStatus(all) \in Statuses
    <3>1. all \in SUBSET Statuses /\ all # {} BY <1>1, <2>1, <2>2
    <3> QED BY <3>1, WorstStatusType
  <2>5. a.cross = IF WorstStatus(all) = "cancelled" THEN "incomplete" ELSE WorstStatus(all)
    BY <1>4, <2>3 DEF Collapsed
  <2> QED BY <1>2, <2>4, <2>5 DEF StatusOfRun, Statuses
<1> QED BY <1>3, <1>4

-----------------------------------------------------------------------------
(***************************************************************************)
(* The document that is written.                                           *)
(***************************************************************************)
LEMMA DocumentSums ==
  ASSUME NEW states \in SUBSET States, NEW rd, Complete(rd, states), Registered(rd),
         NEW was \in states, \A j \in 1..Len(rd.order) : was[rd.order[j]] = rd.read[j]
  PROVE  /\ Document(rd) \in Aggregates
         /\ Sums(Document(rd), states)
         /\ AggregateAccepted(Document(rd))
<1> DEFINE a == Document(rd)
           results == [p \in ToSet(Results) |-> Loaded(rd, p)]
           context == Loaded(rd, "context")
<1>1. /\ context \in ContextDocuments
      /\ results \in [ToSet(Results) -> ResultDocuments]
      /\ WithTransport(rd) => Loaded(rd, "transport") \in TransportDocuments
  BY LoadedType
<1>2. a.results = results /\ a.context = context.v
  BY DEF Document
<1>3. {x.status : x \in ResultsOf(rd)} = StatusesIn(a)
  BY <1>2 DEF StatusesIn, ResultsOf
<1>4. StatusesIn(a) \in SUBSET Statuses /\ StatusesIn(a) # {}
  <2>1. a.results \in [ToSet(Results) -> ResultDocuments] BY <1>1, <1>2
  <2> HIDE DEF a
  <2> QED BY <2>1, StatusesInType
<1>5. a.domains = WorstStatus(StatusesIn(a)) /\ a.domains \in Statuses
  BY <1>3, <1>4, WorstStatusType DEF Document
<1>6. /\ WithTransport(rd) => a.transport = Loaded(rd, "transport")
      /\ WithTransport(rd) => a.cross = Collapsed({a.domains, a.transport.status})
      /\ ~WithTransport(rd) => a.transport = Absent /\ a.cross = "unevaluated"
  BY DEF Document
<1>7. Absent \notin TransportDocuments BY AggregationAssumption
<1>8. a.cross \in Statuses \cup {"unevaluated"}
  <2>1. CASE WithTransport(rd)
    <3>1. a.transport.status \in Statuses BY <2>1, <1>1, <1>6 DEF TransportDocuments
    <3>2. {a.domains, a.transport.status} \in SUBSET Statuses BY <3>1, <1>5
    <3>3. WorstStatus({a.domains, a.transport.status}) \in Statuses BY <3>2, WorstStatusType
    <3> QED BY <2>1, <1>6, <3>3 DEF Collapsed, Statuses
  <2> QED BY <2>1, <1>6
<1>9. a \in Aggregates
  <2>1. a = [context |-> a.context, results |-> a.results, domains |-> a.domains,
             cross |-> a.cross, transport |-> a.transport]
    BY DEF Document
  <2>2. /\ a.context \in Nat /\ a.results \in [ToSet(Results) -> ResultDocuments]
        /\ a.domains \in Statuses /\ a.cross \in Statuses \cup {"unevaluated"}
        /\ a.transport \in TransportDocuments \cup {Absent}
    BY <1>1, <1>2, <1>5, <1>6, <1>8 DEF ContextDocuments
  <2> HIDE DEF a
  <2> QED BY <2>1, <2>2 DEF Aggregates
<1>10. AggregateAccepted(a)
  <2>1. DOMAIN a.results = ToSet(Results) BY <1>2
  <2>2. {a.results[p].status : p \in DOMAIN a.results} = StatusesIn(a) BY <2>1 DEF StatusesIn
  <2> HIDE DEF a
  <2> QED BY <2>2, <1>5, <1>6 DEF AggregateAccepted
<1>11. StatusOfRun(a) = Outcome(a)
  <2>1. a.transport = Absent => a.cross = "unevaluated" BY <1>1, <1>6, <1>7
  <2>2. a.transport # Absent => a.cross = Collapsed({a.domains, a.transport.status}) BY <1>6
  <2> HIDE DEF a
  <2> QED BY <1>5, <1>9, <2>1, <2>2, OutcomeIs
<1>12. was["context"] = context /\ \A p \in ToSet(Results) : was[p] = Loaded(rd, p)
  <2>1. \A p \in {"context"} \cup ToSet(Results) :
          \E j \in 1..Len(rd.order) : rd.order[j] = p /\ Loaded(rd, p) = rd.read[j]
    BY ReadIs
  <2>2. \A p \in {"context"} \cup ToSet(Results) : was[p] = Loaded(rd, p) BY <2>1
  <2> QED BY <2>2
<1>13. a.transport # Absent => was["transport"] = a.transport
  <2>1. WithTransport(rd) => was["transport"] = Loaded(rd, "transport") BY ReadIs
  <2> QED BY <2>1, <1>6
<1>14. Together(was["context"], a, was)
  BY <1>12, <1>13, <1>2 DEF Together
<1>15. OfOneExecution(was["context"], a)
  <2>1. SUFFICES ASSUME context.native PROVE OfOneExecution(context, a) BY <1>12 DEF OfOneExecution
  <2>2. OneAssessment(rd) BY <2>1 DEF Registered, ResultsHold
  <2>3. \A p \in ToSet(Results) :
          Loaded(rd, p).execution = context.v
            /\ Loaded(rd, p).assessed = Loaded(rd, Results[1]).assessed
    BY <2>2 DEF OneAssessment, ResultsOf
  <2>4. \A p \in ToSet(Results) : a.results[p] = Loaded(rd, p) BY <1>2
  <2> QED BY <2>3, <2>4 DEF OfOneExecution
<1> QED BY <1>2, <1>9, <1>10, <1>11, <1>12, <1>14, <1>15 DEF Sums
-----------------------------------------------------------------------------
(***************************************************************************)
(* The summary of a campaign.                                              *)
(***************************************************************************)
Counted4 == {"passed", "failed", "incomplete", "error"}

LEMMA CountIsPositive ==
  ASSUME NEW status \in [Runs -> Counted4], NEW s
  PROVE  /\ Count(status, s) \in Nat
         /\ Count(status, s) > 0 <=> s \in Range(status)
<1> DEFINE S == {r \in Runs : status[r] = s}
<1>1. IsFiniteSet(Runs) BY AggregationAssumption
<1>2. IsFiniteSet(S) BY <1>1, FS_Subset
<1>3. Cardinality(S) \in Nat /\ (Cardinality(S) = 0 <=> S = {})
  BY <1>2, FS_CardinalityType, FS_EmptySet
<1>4. S # {} <=> s \in Range(status) BY DEF Range
<1> QED BY <1>3, <1>4 DEF Count

LEMMA VerdictIsAccepted ==
  ASSUME NEW status \in [Runs -> Counted4]
  PROVE  /\ CampaignVerdict(status) \in Counted4
         /\ CampaignVerdict(status) = "passed" <=> Allowed(status)
         /\ CampaignAccepted(status, CampaignVerdict(status))
<1> DEFINE v == CampaignVerdict(status)
           worst == WorstStatus(Range(status))
<1>1. \A s : Count(status, s) \in Nat /\ (Count(status, s) > 0 <=> s \in Range(status))
  BY CountIsPositive
<1>2. v = IF Allowed(status) THEN "passed"
          ELSE IF "error" \in Range(status) THEN "error"
          ELSE IF "failed" \in Range(status) THEN "failed" ELSE "incomplete"
  BY <1>1 DEF CampaignVerdict
<1>3. Range(status) \subseteq Counted4 /\ Range(status) # {}
  <2>1. RunOrder[1] \in Runs
    <3>1. RunOrder \in Seq(Runs) /\ RunOrder # <<>> BY AggregationAssumption
    <3> QED BY <3>1
  <2> QED BY <2>1 DEF Range
<1>4. worst \in Range(status) /\ \A x \in Range(status) : Priority[x] =< Priority[worst]
  <2>1. Range(status) \in SUBSET Statuses BY <1>3 DEF Counted4, Statuses
  <2> QED BY <2>1, <1>3, WorstStatusIsWorst
<1>5. worst = IF "error" \in Range(status) THEN "error"
              ELSE IF "failed" \in Range(status) THEN "failed"
              ELSE IF "incomplete" \in Range(status) THEN "incomplete" ELSE "passed"
  BY <1>3, <1>4, Order DEF Counted4
<1> HIDE DEF v, worst
<1>6. CampaignAccepted(status, v) <=>
        \/ v = IF Allowed(status) THEN "passed" ELSE IF worst = "passed" THEN "failed" ELSE worst
        \/ /\ v = "incomplete" /\ Count(status, "passed") < Policy.passed
           /\ Count(status, "failed") = 0 /\ Count(status, "error") = 0
  BY DEF CampaignAccepted, worst
<1>7. ~Allowed(status) /\ Range(status) \cap {"error", "failed", "incomplete"} = {} =>
        /\ Count(status, "passed") < Policy.passed
        /\ Count(status, "failed") = 0 /\ Count(status, "error") = 0
  <2>1. Policy \in [Counted4 -> Nat] BY AggregationAssumption DEF Counted4
  <2>2. Policy.passed \in Nat /\ \A s \in Counted4 : Policy[s] \in Nat
    BY <2>1 DEF Counted4
  <2>3. SUFFICES ASSUME ~Allowed(status),
                        Range(status) \cap {"error", "failed", "incomplete"} = {}
                 PROVE  /\ Count(status, "passed") < Policy.passed
                        /\ Count(status, "failed") = 0 /\ Count(status, "error") = 0
    OBVIOUS
  <2>4. \A s \in {"error", "failed", "incomplete"} : Count(status, s) = 0
    BY <1>1, <2>3
  <2>5. \A s \in {"failed", "incomplete", "error"} : Count(status, s) =< Policy[s]
    BY <2>2, <2>4 DEF Counted4
  <2>6. ~(Count(status, "passed") >= Policy.passed) BY <2>3, <2>5 DEF Allowed
  <2> QED BY <2>2, <2>4, <2>6, <1>1
<1>8. CampaignAccepted(status, v)
  BY <1>2, <1>5, <1>6, <1>7
<1>9. v \in Counted4 /\ (v = "passed" <=> Allowed(status)) BY <1>2 DEF Counted4
<1> QED BY <1>8, <1>9 DEF v

LEMMA StatusesOfType ==
  ASSUME NEW taken PROVE StatusesOf(taken) \in [Runs -> Counted4]
BY DEF StatusesOf, StatusOfRun, Counted4

LEMMA PlaceIs ==
  ASSUME NEW r \in Runs
  PROVE  Place(r) \in 1..Len(RunOrder) /\ RunOrder[Place(r)] = r
<1>1. RunOrder \in Seq(Runs) BY AggregationAssumption
<1>2. \E i \in 1..Len(RunOrder) : RunOrder[i] = r BY <1>1 DEF Runs, ToSet
<1> QED BY <1>2 DEF Place

\* _hop_document: what a chain is written with is what its validation expects of
\* it (aggregate.py 384-392 against semantics.py 822-905).
LEMMA HopsAreAccepted ==
  ASSUME NEW q \in Qualifications, Admitted(q), NEW x \in q.chains
  PROVE  /\ KnownHops(q, Hops(x))
         /\ x.status = "passed" => HopsPass(x, Hops(x))
<1> DEFINE found == x.correlated
           hops == Hops(x)
<1>1. /\ x.channels \in Seq(ToSet(x.channels)) /\ found \in Seq(ToSet(x.channels))
      /\ IsInjective(found)
      /\ x.status = "passed" => found = x.channels
  BY AggregationAssumption DEF Admitted, ChainsCover, ListsOnce, Correlates
<1>2. DOMAIN hops = 1..Len(found) /\ DOMAIN found = 1..Len(found) BY <1>1 DEF Hops
<1>3. ASSUME NEW k \in DOMAIN hops
      PROVE  /\ found[k] \in q.channels /\ hops[k].channel = found[k]
             /\ hops[k].producer = found[k].source /\ hops[k].consumer = found[k].destination
             /\ hops[k].status = "passed" /\ found[k].source # found[k].destination
  <2>1. found[k] \in ToSet(x.channels) BY <1>1, <1>2
  <2>2. found[k] \in q.channels BY <2>1 DEF Admitted, ChainsCover
  <2>3. Crosses(found[k]) BY <2>2 DEF Admitted, ChainsCover
  <2>4. hops[k] = Hop(found[k]) BY <1>2 DEF Hops
  <2> QED BY <2>2, <2>3, <2>4 DEF Hop, Crosses
<1> HIDE DEF hops
<1>4. ASSUME NEW j \in DOMAIN hops, NEW k \in DOMAIN hops, hops[j].channel = hops[k].channel
      PROVE  j = k
  <2>1. found[j] = found[k] BY <1>3, <1>4
  <2>2. \A a, b \in DOMAIN found : found[a] = found[b] => a = b BY <1>1 DEF IsInjective
  <2>3. j \in DOMAIN found /\ k \in DOMAIN found BY <1>2, <1>4
  <2> HIDE DEF found
  <2> QED BY <2>1, <2>2, <2>3
<1>5. KnownHops(q, hops) BY <1>3, <1>4 DEF KnownHops
<1>6. ASSUME x.status = "passed" PROVE HopsPass(x, hops)
  <2>1. x.channels = [k \in 1..Len(found) |-> found[k]]
    <3>1. x.channels = found BY <1>1, <1>6
    <3> HIDE DEF found
    <3>2. found = [k \in 1..Len(found) |-> found[k]] BY <1>1
    <3> QED BY <3>1, <3>2
  <2>2. [k \in DOMAIN hops |-> hops[k].channel] = x.channels BY <2>1, <1>2, <1>3
  <2>3. \A k \in DOMAIN hops :
          /\ hops[k].status = "passed" /\ hops[k].producer # hops[k].consumer
          /\ hops[k].producer = hops[k].channel.source
          /\ hops[k].consumer = hops[k].channel.destination
    BY <1>3
  <2> QED BY <2>2, <2>3 DEF HopsPass
<1> QED BY <1>5, <1>6 DEF hops

\* The status of a transport qualification is the one its validation expects:
\* that also counts a passed status of its own (aggregate.py 699-702 against
\* semantics.py 968-984).
LEMMA TransportVerdictAgrees ==
  ASSUME NEW q \in Qualifications, Admitted(q)
  PROVE  VerdictAgrees(q, TransportStatus(q))
<1> DEFINE S == Range(q.observed) \cup {x.status : x \in q.chains} \cup ClockStatuses(q)
           T == {"passed"} \cup {x.status : x \in q.chains} \cup Range(q.observed)
                  \cup ClockStatuses(q)
<1>1. /\ Range(q.observed) \cup Range(q.relations) \subseteq Statuses
      /\ {x.status : x \in q.chains} \subseteq Statuses
  BY AggregationAssumption
<1>2. S \in SUBSET Statuses /\ T \in SUBSET Statuses BY <1>1 DEF ClockStatuses, Statuses
<1>3. S # {} BY DEF Admitted, ChainsCover
<1>4. T = S \cup {"passed"} OBVIOUS
<1> DEFINE w == WorstStatus(S)
<1>5. w \in S /\ \A x \in S : Priority[x] =< Priority[w] BY <1>2, <1>3, WorstStatusIsWorst
<1>6. \A x \in Statuses : Priority[x] \in Nat BY Order DEF Statuses
<1>7. \A x \in T : Priority[x] =< Priority[w]
  <2> HIDE DEF S, T, w
  <2>1. 0 =< Priority[w] BY <1>5, <1>6, <1>2
  <2> QED BY <2>1, <1>5, <1>4, Order
<1>8. w \in T BY <1>5, <1>4
<1>9. WorstStatus(T) = w
  <2> HIDE DEF S, T, w
  <2> QED BY <1>7, <1>8, <1>2, WorstStatusIs
<1>10. TransportStatus(q) = Collapsed(S) BY DEF TransportStatus
<1>11. Collapsed(T) = Collapsed(S)
  <2> HIDE DEF S, T
  <2> QED BY <1>9 DEF Collapsed
<1> QED BY <1>10, <1>11 DEF VerdictAgrees

\* A transport qualification of continuous chains is accepted with its status.
LEMMA QualificationIsAccepted ==
  ASSUME NEW q \in Qualifications, Admitted(q), \A x \in q.chains : Continuous(x)
  PROVE  TransportAccepted(q, TransportStatus(q))
<1>1. RegistersAgree(q)
  BY AggregationAssumption
  DEF RegistersAgree, Admitted, ChainsCover, TracesCover, RelationsFit, Crosses
<1>2. UNION {ToSet(x.channels) : x \in q.chains} = q.channels BY DEF Admitted, ChainsCover
<1> QED BY <1>1, <1>2, HopsAreAccepted, TransportVerdictAgrees DEF TransportAccepted
-----------------------------------------------------------------------------
(***************************************************************************)
(* A replaced file.                                                        *)
(***************************************************************************)
LEMMA SumsStay ==
  ASSUME NEW a, NEW states, NEW more, states \subseteq more, Sums(a, states)
  PROVE  Sums(a, more)
BY DEF Sums

LEMMA ReaderStays ==
  ASSUME NEW rd \in Readers, NEW now \in States, NEW states \in SUBSET States,
         ReaderHolds(rd, now, states),
         NEW p \in Paths, NEW c, \A was \in states : was[p] # c
  PROVE  ReaderHolds(rd, [now EXCEPT ![p] = c], states \cup {[now EXCEPT ![p] = c]})
<1> DEFINE then == [now EXCEPT ![p] = c]
           more == states \cup {then}
<1>1. \A q : q # p => then[q] = now[q] BY DEF States
<1>2. then[p] = c BY DEF States
<1> HIDE DEF then
<1>3. rd.phase \in {"load", "recheck"} =>
        /\ rd.order # <<>> /\ rd.k \in 1..Len(rd.order)
        /\ \A j \in 1..Len(rd.read) :
             rd.read[j] # Absent /\ \E was \in more : was[rd.order[j]] = rd.read[j]
  BY DEF ReaderHolds
<1>4. rd.phase = "load" => Len(rd.read) = rd.k - 1 BY DEF ReaderHolds
<1>5. rd.phase = "recheck" =>
        Len(rd.read) = Len(rd.order) /\ Registered(rd) /\ Snapshot(rd, then, more)
  <2>1. SUFFICES ASSUME rd.phase = "recheck" PROVE Snapshot(rd, then, more)
    BY DEF ReaderHolds
  <2>2. /\ Snapshot(rd, now, states) /\ Len(rd.read) = Len(rd.order)
        /\ \A j \in 1..Len(rd.read) : \E was \in states : was[rd.order[j]] = rd.read[j]
    BY <2>1 DEF ReaderHolds
  <2>3. PICK was \in states : \A j \in 1..Len(rd.order) :
          j < rd.k \/ now[rd.order[j]] = rd.read[j] => was[rd.order[j]] = rd.read[j]
    BY <2>2 DEF Snapshot
  <2>4. ASSUME NEW j \in 1..Len(rd.order), j < rd.k \/ then[rd.order[j]] = rd.read[j]
        PROVE  was[rd.order[j]] = rd.read[j]
    <3>1. CASE rd.order[j] = p
      <4>1. rd.read[j] # c BY <2>2, <3>1
      <4> QED BY <2>3, <2>4, <3>1, <4>1, <1>2
    <3>2. CASE rd.order[j] # p BY <2>3, <2>4, <3>2, <1>1
    <3> QED BY <3>1, <3>2
  <2> QED BY <2>4 DEF Snapshot
<1> QED BY <1>3, <1>4, <1>5 DEF ReaderHolds, then

LEMMA PastStays ==
  ASSUME NEW now \in States, NEW states \in SUBSET States, NEW last \in Nat,
         PastHolds(now, states, last),
         NEW p \in Paths, NEW c \in DocumentsAt(p), c # Absent, c.v = last + 1
  PROVE  /\ [now EXCEPT ![p] = c] \in States
         /\ \A was \in states : was[p] # c
         /\ PastHolds([now EXCEPT ![p] = c], states \cup {[now EXCEPT ![p] = c]}, last + 1)
<1> DEFINE then == [now EXCEPT ![p] = c]
<1>1. then \in States BY PathFacts DEF States
<1>2. \A q \in Paths : then[q] = IF q = p THEN c ELSE now[q] BY DEF States
<1>n. \A was \in states, q \in Paths : was[q] # Absent => was[q].v \in Nat
  BY DEF States, DocumentsAt, ContextDocuments, TransportDocuments, ResultDocuments
<1> HIDE DEF then
<1>3. \A was \in states, q \in Paths : was[q] # Absent => was[q].v =< last
  BY DEF PastHolds
<1>4. \A was \in states : was[p] # c BY <1>3, <1>n
<1>5. \A was \in states \cup {then}, q \in Paths : was[q] # Absent => was[q].v =< last + 1
  <2>1. ASSUME NEW was \in states, NEW q \in Paths, was[q] # Absent PROVE was[q].v =< last + 1
    BY <1>3, <1>n, <2>1
  <2>2. ASSUME NEW q \in Paths, then[q] # Absent PROVE then[q].v =< last + 1
    <3>1. CASE q = p BY <3>1, <1>2
    <3>2. CASE q # p
      <4>1. now \in states BY DEF PastHolds
      <4>2. then[q] = now[q] BY <1>2, <3>2
      <4> QED BY <2>1, <2>2, <4>1, <4>2
    <3> QED BY <3>1, <3>2
  <2> QED BY <2>1, <2>2
<1>6. ASSUME NEW was \in states \cup {then}, NEW to \in states \cup {then}, NEW q \in Paths,
             was[q] # Absent, to[q] # Absent, was[q].v = to[q].v
      PROVE  was[q] = to[q]
  <2>1. now \in states BY DEF PastHolds
  <2>2. ASSUME q = p, NEW x \in states, x[q] # Absent PROVE x[q].v # c.v
    <3>1. x[q].v \in Nat /\ x[q].v =< last BY <1>3, <1>n, <2>2
    <3> QED BY <3>1
  <2>3. CASE q = p
    <3>1. then[q] = c BY <1>2, <2>3
    <3>2. CASE was \in states /\ to = then BY <2>2, <2>3, <3>1, <3>2, <1>6
    <3>3. CASE was = then /\ to \in states BY <2>2, <2>3, <3>1, <3>3, <1>6
    <3>4. CASE was \in states /\ to \in states BY <3>4, <1>6 DEF PastHolds
    <3> QED BY <3>2, <3>3, <3>4
  <2>4. CASE q # p
    <3>1. PICK x \in states : x[q] = was[q] BY <2>1, <2>4, <1>2
    <3>2. PICK y \in states : y[q] = to[q] BY <2>1, <2>4, <1>2
    <3> QED BY <3>1, <3>2, <1>6 DEF PastHolds
  <2> QED BY <2>3, <2>4
<1>7. PastHolds(then, states \cup {then}, last + 1) BY <1>5, <1>6 DEF PastHolds
<1> QED BY <1>1, <1>4, <1>7 DEF then

Rewrite(r, p, c) ==
  LET now == [files[r] EXCEPT ![p] = c]
  IN /\ files' = [files EXCEPT ![r] = now]
     /\ past' = [past EXCEPT ![r] = past[r] \cup {now}]
     /\ rewrites' = [rewrites EXCEPT ![r] = rewrites[r] + 1]
     /\ UNCHANGED <<reader, aggregate, campaign>>

LEMMA RewriteKeeps ==
  ASSUME AggregationInv, NEW r \in Runs, NEW p \in Paths, NEW c \in DocumentsAt(p),
         c # Absent, c.v = rewrites[r] + 1, Rewrite(r, p, c)
  PROVE  AggregationInv'
<1> DEFINE now == [files[r] EXCEPT ![p] = c]
           more == past[r] \cup {now}
<1>t. AggregationTypeOK BY DEF AggregationInv
<1>1. /\ files' = [files EXCEPT ![r] = now] /\ past' = [past EXCEPT ![r] = more]
      /\ rewrites' = [rewrites EXCEPT ![r] = rewrites[r] + 1]
      /\ reader' = reader /\ aggregate' = aggregate /\ campaign' = campaign
  BY DEF Rewrite
<1>2. /\ files[r] \in States /\ past[r] \in SUBSET States /\ rewrites[r] \in Nat
      /\ PastHolds(files[r], past[r], rewrites[r])
  BY <1>t DEF AggregationTypeOK, AggregationInv
<1>3. /\ now \in States /\ \A was \in past[r] : was[p] # c
      /\ PastHolds(now, more, rewrites[r] + 1)
  BY <1>2, PastStays
<1>4. \A s \in Runs : reader[s] \in Readers /\ ReaderHolds(reader[s], files[s], past[s])
  BY <1>t DEF AggregationTypeOK, AggregationInv
<1>5. ReaderHolds(reader[r], now, more)
  BY <1>2, <1>3, <1>4, ReaderStays
<1> HIDE DEF now
<1>6. /\ files'[r] = now /\ past'[r] = more /\ rewrites'[r] = rewrites[r] + 1
      /\ \A s \in Runs \ {r} :
           files'[s] = files[s] /\ past'[s] = past[s] /\ rewrites'[s] = rewrites[s]
  BY <1>1, <1>t DEF AggregationTypeOK
<1>7. AggregationTypeOK'
  BY <1>1, <1>2, <1>3, <1>t DEF AggregationTypeOK
<1>8. \A s \in Runs : past[s] \subseteq past'[s]
  BY <1>6
<1>9. \A s \in Runs : PastHolds(files'[s], past'[s], rewrites'[s])
  BY <1>3, <1>6 DEF AggregationInv
<1>10. \A s \in Runs : ReaderHolds(reader[s], files'[s], past'[s])
  BY <1>4, <1>5, <1>6
<1>11. \A s \in Runs : aggregate[s] # Absent => Sums(aggregate[s], past'[s])
  BY <1>8, SumsStay DEF AggregationInv
<1>12. LoadedInv(campaign, past')
  <2>1. \A i \in 1..Len(RunOrder) : RunOrder[i] \in Runs
    BY AggregationAssumption
  <2>2. Len(campaign.contexts) \in Nat /\ Len(campaign.aggregates) \in Nat /\ Len(RunOrder) \in Nat
    BY <1>t, AggregationAssumption DEF AggregationTypeOK, Campaigns
  <2>3. LoadedInv(campaign, past) /\ CampaignHolds(campaign) BY DEF AggregationInv
  <2>4. /\ \A i \in 1..Len(campaign.contexts) : past[RunOrder[i]] \subseteq past'[RunOrder[i]]
        /\ \A i \in 1..Len(campaign.aggregates) : past[RunOrder[i]] \subseteq past'[RunOrder[i]]
    BY <1>8, <2>1, <2>2, <2>3 DEF CampaignHolds
  <2>5. \A i \in 1..Len(campaign.aggregates) :
          Sums(campaign.aggregates[i], past'[RunOrder[i]])
    BY <2>3, <2>4, SumsStay DEF LoadedInv
  <2> QED BY <2>3, <2>4, <2>5 DEF LoadedInv
<1>13. CampaignHolds(campaign) BY DEF AggregationInv
<1> QED BY <1>1, <1>7, <1>9, <1>10, <1>11, <1>12, <1>13 DEF AggregationInv
-----------------------------------------------------------------------------
(***************************************************************************)
(* A step of a reader.                                                     *)
(***************************************************************************)
LEMMA TurnKeeps ==
  ASSUME AggregationInv, NEW r \in Runs, NEW to \in Readers,
         ReaderHolds(to, files[r], past[r]),
         reader' = [reader EXCEPT ![r] = to],
         UNCHANGED <<files, past, rewrites, aggregate, campaign>>
  PROVE  AggregationInv'
<1>1. AggregationTypeOK BY DEF AggregationInv
<1>2. AggregationTypeOK' BY <1>1 DEF AggregationTypeOK
<1>3. \A s \in Runs : ReaderHolds(reader'[s], files[s], past[s])
  BY <1>1 DEF AggregationTypeOK, AggregationInv
<1> QED BY <1>2, <1>3 DEF AggregationInv

LEMMA IdleHolds ==
  ASSUME NEW now, NEW states, NEW phase \in {"idle", "refused"}
  PROVE  /\ [Idle EXCEPT !.phase = phase] \in Readers /\ Idle \in Readers
         /\ ReaderHolds([Idle EXCEPT !.phase = phase], now, states)
         /\ ReaderHolds(Idle, now, states)
<1>1. <<>> \in Seq(Contents) /\ <<>> \in Orders BY DEF Orders
<1>2. [Idle EXCEPT !.phase = phase]
        = [phase |-> phase, order |-> <<>>, k |-> 0, read |-> <<>>]
  BY DEF Idle
<1>3. Idle = [phase |-> "idle", order |-> <<>>, k |-> 0, read |-> <<>>] BY DEF Idle
<1> QED BY <1>1, <1>2, <1>3 DEF Readers, ReaderHolds

LEMMA StartKeeps ==
  ASSUME AggregationInv, NEW r \in Runs, Start(r)
  PROVE  AggregationInv'
<1>1. PICK more \in {<<>>, <<"transport">>} :
        reader' = [reader EXCEPT ![r] = [phase |-> "load", k |-> 1, read |-> <<>>,
                                         order |-> <<"context">> \o Results \o more]]
  BY DEF Start
<1> DEFINE order == <<"context">> \o Results \o more
           to == [phase |-> "load", order |-> order, k |-> 1, read |-> <<>>]
<1>2. order \in Orders BY DEF Orders
<1>3. order # <<>>
  <2>1. Results \in Seq(Paths) /\ more \in Seq(Paths) /\ <<"context">> \in Seq(Paths)
    <3>1. Results \in Seq(Paths)
      <4>1. Results \in Seq(STRING) BY AggregationAssumption
      <4>2. \A i \in 1..Len(Results) : Results[i] \in Paths
        BY <4>1, PathFacts DEF ToSet
      <4> QED BY <4>1, <4>2
    <3>2. "context" \in Paths /\ "transport" \in Paths BY PathFacts
    <3>3. <<"context">> \in Seq(Paths) /\ <<"transport">> \in Seq(Paths) /\ <<>> \in Seq(Paths)
      BY <3>2
    <3> QED BY <3>1, <3>3
  <2>2. <<"context">> \o Results \in Seq(Paths) /\ Len(<<"context">> \o Results) = 1 + Len(Results)
    BY <2>1
  <2>3. Len(order) = 1 + Len(Results) + Len(more) BY <2>1, <2>2
  <2>4. Len(Results) \in Nat /\ Len(more) \in Nat BY <2>1
  <2> QED BY <2>3, <2>4
<1> HIDE DEF order
<1>4. order \in Seq(Paths) /\ Len(order) > 0 BY <1>2, <1>3, OrderFacts
<1>5. <<>> \in Seq(Contents) /\ Len(<<>>) = 0 OBVIOUS
<1>6. 1 \in 1..Len(order) BY <1>4
<1>7. to \in Readers BY <1>2, <1>5 DEF Readers
<1>8. ReaderHolds(to, files[r], past[r])
  BY <1>3, <1>5, <1>6 DEF ReaderHolds
<1>9. reader' = [reader EXCEPT ![r] = to] BY <1>1 DEF order
<1>10. UNCHANGED <<files, past, rewrites, aggregate, campaign>> BY DEF Start
<1> HIDE DEF to
<1> QED BY <1>7, <1>8, <1>9, <1>10, TurnKeeps

LEMMA RefuseKeeps ==
  ASSUME AggregationInv, NEW r \in Runs, Refuse(r)
  PROVE  AggregationInv'
<1>1. "refused" \in {"idle", "refused"} OBVIOUS
<1>2. /\ [Idle EXCEPT !.phase = "refused"] \in Readers
      /\ ReaderHolds([Idle EXCEPT !.phase = "refused"], files[r], past[r])
  BY <1>1, IdleHolds
<1> QED BY <1>2, TurnKeeps DEF Refuse, Turn

\* One document is loaded, and when it was the last they are checked.
LEMMA LoadKeeps ==
  ASSUME AggregationInv, NEW r \in Runs, Load(r)
  PROVE  AggregationInv'
<1> DEFINE rd == reader[r]
           content == files[r][rd.order[rd.k]]
           read == Append(rd.read, content)
<1>t. AggregationTypeOK BY DEF AggregationInv
<1>1. /\ rd \in Readers /\ ReaderHolds(rd, files[r], past[r])
      /\ files[r] \in States /\ past[r] \in SUBSET States /\ files[r] \in past[r]
  BY <1>t DEF AggregationTypeOK, AggregationInv, PastHolds
<1>2. rd.phase = "load" BY DEF Load
<1>3. /\ rd.order \in Orders /\ rd.order # <<>> /\ rd.k \in 1..Len(rd.order)
      /\ rd.order \in Seq(Paths) /\ rd.read \in Seq(Contents) /\ Len(rd.read) = rd.k - 1
      /\ Len(rd.order) \in Nat /\ rd.k \in Nat
  <2>1. rd.order \in Orders /\ rd.order # <<>> BY <1>1, <1>2 DEF ReaderHolds, Readers
  <2>2. rd.order \in Seq(Paths) BY <2>1, OrderFacts
  <2> QED BY <2>1, <2>2, <1>1, <1>2 DEF ReaderHolds, Readers
<1>4. rd.order[rd.k] \in Paths BY <1>3
<1>5. content \in Contents BY <1>1, <1>4, PathFacts DEF States
<1> HIDE DEF content
<1>6. read \in Seq(Contents) /\ Len(read) = rd.k
      /\ read[rd.k] = content /\ \A j \in 1..Len(rd.read) : read[j] = rd.read[j]
  BY <1>3, <1>5
<1>7. content # Absent =>
        \A j \in 1..Len(read) :
          read[j] # Absent /\ \E was \in past[r] : was[rd.order[j]] = read[j]
  <2>1. SUFFICES ASSUME content # Absent, NEW j \in 1..Len(read)
                 PROVE  read[j] # Absent /\ \E was \in past[r] : was[rd.order[j]] = read[j]
    OBVIOUS
  <2>2. CASE j = rd.k BY <2>1, <2>2, <1>1, <1>6 DEF content
  <2>3. CASE j # rd.k
    <3>1. j \in 1..Len(rd.read) BY <2>3, <1>3, <1>6
    <3> QED BY <3>1, <1>1, <1>2, <1>6 DEF ReaderHolds
  <2> QED BY <2>2, <2>3
<1> HIDE DEF read
<1>8. CASE content # Absent /\ rd.k < Len(rd.order)
  <2> DEFINE to == [phase |-> "load", order |-> rd.order, k |-> rd.k + 1, read |-> read]
  <2>2. to \in Readers BY <1>3, <1>6 DEF Readers
  <2>3. ReaderHolds(to, files[r], past[r])
    <3>1. rd.k + 1 \in 1..Len(rd.order) /\ Len(read) = (rd.k + 1) - 1 BY <1>3, <1>6, <1>8
    <3> QED BY <3>1, <1>3, <1>7, <1>8 DEF ReaderHolds
  <2>4. Turn(r, to) /\ UNCHANGED aggregate
    BY <1>8 DEF Load, content, read
  <2>5. reader' = [reader EXCEPT ![r] = to] BY <2>4 DEF Turn
  <2>6. UNCHANGED <<files, past, rewrites, aggregate, campaign>> BY <2>4 DEF Turn
  <2> HIDE DEF to
  <2> QED BY <2>2, <2>3, <2>5, <2>6, TurnKeeps
<1>9. CASE content # Absent /\ ~(rd.k < Len(rd.order)) /\ Registered([rd EXCEPT !.read = read])
  <2> DEFINE to == [phase |-> "recheck", order |-> rd.order, k |-> 1, read |-> read]
  <2>2. to \in Readers BY <1>3, <1>6 DEF Readers
  <2>3. Registered(to)
    <3>1. [rd EXCEPT !.read = read].order = to.order /\ [rd EXCEPT !.read = read].read = to.read
      BY <1>1 DEF Readers
    <3> HIDE DEF to
    <3> QED BY <3>1, <1>9, SameReading
  <2>4. Snapshot(to, files[r], past[r])
    <3>1. \A j \in 1..Len(to.order) : ~(j < to.k) OBVIOUS
    <3> QED BY <3>1, <1>1 DEF Snapshot
  <2>5. ReaderHolds(to, files[r], past[r])
    <3>1. 1 \in 1..Len(rd.order) /\ Len(read) = Len(rd.order) BY <1>3, <1>6, <1>9
    <3>2. to.phase = "recheck" /\ to.order = rd.order /\ to.k = 1 /\ to.read = read OBVIOUS
    <3> HIDE DEF to
    <3> QED BY <3>1, <3>2, <2>3, <2>4, <1>3, <1>7, <1>9 DEF ReaderHolds
  <2>6. Turn(r, to) /\ UNCHANGED aggregate
    BY <1>9 DEF Load, content, read
  <2>7. reader' = [reader EXCEPT ![r] = to] BY <2>6 DEF Turn
  <2>8. UNCHANGED <<files, past, rewrites, aggregate, campaign>> BY <2>6 DEF Turn
  <2> HIDE DEF to
  <2> QED BY <2>2, <2>5, <2>7, <2>8, TurnKeeps
<1>10. CASE \/ content = Absent
            \/ ~(rd.k < Len(rd.order)) /\ ~Registered([rd EXCEPT !.read = read])
  <2>1. Refuse(r) BY <1>10 DEF Load, content, read
  <2> QED BY <2>1, RefuseKeeps
<1> QED BY <1>8, <1>9, <1>10
LEMMA RecheckKeeps ==
  ASSUME AggregationInv, NEW r \in Runs, Recheck(r)
  PROVE  AggregationInv'
<1> DEFINE rd == reader[r]
<1>t. AggregationTypeOK BY DEF AggregationInv
<1>1. /\ rd \in Readers /\ ReaderHolds(rd, files[r], past[r])
      /\ files[r] \in States /\ past[r] \in SUBSET States
  BY <1>t DEF AggregationTypeOK, AggregationInv
<1>2. rd.phase = "recheck" BY DEF Recheck
<1>3. /\ rd.order \in Orders /\ rd.order # <<>> /\ rd.k \in 1..Len(rd.order)
      /\ rd.order \in Seq(Paths) /\ rd.k \in Nat /\ Len(rd.order) \in Nat
      /\ Registered(rd) /\ Snapshot(rd, files[r], past[r])
  <2>1. rd.order \in Orders /\ rd.order # <<>> BY <1>1, <1>2 DEF ReaderHolds, Readers
  <2>2. rd.order \in Seq(Paths) BY <2>1, OrderFacts
  <2> QED BY <2>1, <2>2, <1>1, <1>2 DEF ReaderHolds, Readers
<1>4. Complete(rd, past[r]) BY <1>1, <1>2, <1>3 DEF Complete, ReaderHolds
<1>e. rd = [phase |-> rd.phase, order |-> rd.order, k |-> rd.k, read |-> rd.read]
  BY <1>1 DEF Readers
<1>5. CASE ~Unchanged(r)
  <2>1. Refuse(r) BY <1>5 DEF Recheck
  <2> QED BY <2>1, RefuseKeeps
<1>6. CASE Unchanged(r) /\ rd.k < Len(rd.order)
  <2> DEFINE to == [phase |-> "recheck", order |-> rd.order, k |-> rd.k + 1, read |-> rd.read]
  <2>1. [rd EXCEPT !.k = rd.k + 1] = to BY <1>e, <1>2
  <2>2. to \in Readers BY <1>1, <1>3 DEF Readers
  <2>3. to.phase = "recheck" /\ to.order = rd.order /\ to.k = rd.k + 1 /\ to.read = rd.read
    OBVIOUS
  <2>4. Turn(r, [rd EXCEPT !.k = rd.k + 1]) /\ UNCHANGED aggregate
    BY <1>6 DEF Recheck
  <2>5. reader' = [reader EXCEPT ![r] = to] BY <2>1, <2>4 DEF Turn
  <2>6. UNCHANGED <<files, past, rewrites, aggregate, campaign>> BY <2>4 DEF Turn
  <2> HIDE DEF to
  <2>7. Registered(to) BY <2>3, <1>3, SameReading
  <2>8. Snapshot(to, files[r], past[r])
    <3>1. files[r][rd.order[rd.k]] = rd.read[rd.k] BY <1>6 DEF Unchanged
    <3>2. PICK was \in past[r] : \A j \in 1..Len(rd.order) :
            j < rd.k \/ files[r][rd.order[j]] = rd.read[j] => was[rd.order[j]] = rd.read[j]
      BY <1>3 DEF Snapshot
    <3>3. \A j \in 1..Len(rd.order) : j < rd.k + 1 => j < rd.k \/ j = rd.k BY <1>3
    <3>4. \A j \in 1..Len(rd.order) :
            j < rd.k + 1 \/ files[r][rd.order[j]] = rd.read[j] => was[rd.order[j]] = rd.read[j]
      BY <3>1, <3>2, <3>3
    <3> QED BY <3>4, <2>3 DEF Snapshot
  <2>9. ReaderHolds(to, files[r], past[r])
    <3>1. rd.k + 1 \in 1..Len(rd.order) BY <1>3, <1>6
    <3> QED BY <3>1, <2>3, <2>7, <2>8, <1>1, <1>2 DEF ReaderHolds
  <2> QED BY <2>2, <2>5, <2>6, <2>9, TurnKeeps
<1>7. CASE Unchanged(r) /\ ~(rd.k < Len(rd.order))
  <2>1. PICK was \in past[r] : \A j \in 1..Len(rd.order) :
          j < rd.k \/ files[r][rd.order[j]] = rd.read[j] => was[rd.order[j]] = rd.read[j]
    BY <1>3 DEF Snapshot
  <2>2. files[r][rd.order[rd.k]] = rd.read[rd.k] BY <1>7 DEF Unchanged
  <2>3. \A j \in 1..Len(rd.order) : j < rd.k \/ j = rd.k BY <1>3, <1>7
  <2>4. \A j \in 1..Len(rd.order) : was[rd.order[j]] = rd.read[j] BY <2>1, <2>2, <2>3
  <2>5. /\ Document(rd) \in Aggregates /\ Sums(Document(rd), past[r])
        /\ AggregateAccepted(Document(rd))
    BY <1>1, <1>3, <1>4, <2>4, DocumentSums
  <2> DEFINE a == Document(rd)
  <2>6. Turn(r, Idle) /\ aggregate' = [aggregate EXCEPT ![r] = a]
    BY <1>7, <2>5 DEF Recheck
  <2> HIDE DEF a
  <2>7. reader' = [reader EXCEPT ![r] = Idle] /\ UNCHANGED <<files, past, rewrites, campaign>>
    BY <2>6 DEF Turn
  <2>8. Idle \in Readers /\ ReaderHolds(Idle, files[r], past[r]) BY IdleHolds
  <2>9. a \in Aggregates /\ Sums(a, past[r]) BY <2>5 DEF a
  <2>10. AggregationTypeOK' BY <1>t, <2>6, <2>7, <2>8, <2>9 DEF AggregationTypeOK
  <2>11. \A s \in Runs : ReaderHolds(reader'[s], files[s], past[s])
    BY <1>t, <2>7, <2>8 DEF AggregationTypeOK, AggregationInv
  <2>12. \A s \in Runs : aggregate'[s] # Absent => Sums(aggregate'[s], past[s])
    BY <1>t, <2>6, <2>9 DEF AggregationTypeOK, AggregationInv
  <2> QED BY <2>7, <2>10, <2>11, <2>12 DEF AggregationInv
<1> QED BY <1>5, <1>6, <1>7

-----------------------------------------------------------------------------
(***************************************************************************)
(* A step of the campaign.                                                 *)
(***************************************************************************)
LEMMA CampaignKeeps ==
  ASSUME AggregationInv, campaign' \in Campaigns, LoadedInv(campaign', past),
         CampaignHolds(campaign'),
         UNCHANGED <<files, past, rewrites, reader, aggregate>>
  PROVE  AggregationInv'
<1>1. AggregationTypeOK' BY DEF AggregationInv, AggregationTypeOK
<1> QED BY <1>1 DEF AggregationInv

LEMMA LoadContextKeeps ==
  ASSUME AggregationInv, LoadContext
  PROVE  AggregationInv'
<1> DEFINE c == campaign
           k == Len(c.contexts) + 1
           r == RunOrder[k]
           contexts == Append(c.contexts, files[r]["context"])
           phase == IF k = Len(RunOrder) THEN "aggregates" ELSE "contexts"
           to == [phase |-> phase, contexts |-> contexts, aggregates |-> <<>>]
<1>t. AggregationTypeOK BY DEF AggregationInv
<1>1. c \in Campaigns /\ LoadedInv(c, past) /\ CampaignHolds(c) /\ c.phase = "contexts"
  BY <1>t DEF AggregationInv, AggregationTypeOK, LoadContext
<1>2. /\ c.contexts \in Seq(ContextDocuments) /\ c.aggregates = <<>>
      /\ Len(c.contexts) \in Nat /\ Len(RunOrder) \in Nat /\ k \in 1..Len(RunOrder) /\ r \in Runs
  <2>1. RunOrder \in Seq(Runs) BY AggregationAssumption
  <2>2. /\ c.contexts \in Seq(ContextDocuments) /\ c.aggregates = <<>>
        /\ Len(c.contexts) < Len(RunOrder)
    BY <1>1 DEF Campaigns, CampaignHolds
  <2>3. Len(c.contexts) \in Nat /\ Len(RunOrder) \in Nat BY <2>1, <2>2
  <2>4. k \in 1..Len(RunOrder) BY <2>2, <2>3
  <2> QED BY <2>1, <2>2, <2>3, <2>4
<1>3. files[r] \in States /\ files[r] \in past[r]
  BY <1>2, <1>t DEF AggregationTypeOK, AggregationInv, PastHolds
<1>4. files[r]["context"] \in ContextDocuments BY <1>3, PathFacts DEF States
<1>e. c = [phase |-> c.phase, contexts |-> c.contexts, aggregates |-> c.aggregates]
  BY <1>1 DEF Campaigns
<1>5. campaign' = to BY <1>1, <1>2, <1>e DEF LoadContext
<1>6. /\ contexts \in Seq(ContextDocuments) /\ Len(contexts) = k
      /\ contexts[k] = files[r]["context"]
      /\ \A i \in 1..Len(c.contexts) : contexts[i] = c.contexts[i]
  BY <1>2, <1>4
<1>7. to.phase = phase /\ to.contexts = contexts /\ to.aggregates = <<>> OBVIOUS
<1>8. to \in Campaigns
  <2>1. <<>> \in Seq(Aggregates) OBVIOUS
  <2>2. phase \in {"contexts", "aggregates"} OBVIOUS
  <2> HIDE DEF phase, contexts
  <2> QED BY <1>6, <2>1, <2>2 DEF Campaigns
<1>9. LoadedInv(to, past)
  <2>1. ASSUME NEW i \in 1..Len(contexts)
        PROVE  \E was \in past[RunOrder[i]] : was["context"] = contexts[i]
    <3>1. CASE i = k BY <3>1, <1>3, <1>6
    <3>2. CASE i # k
      <4>1. i \in 1..Len(c.contexts) BY <3>2, <1>2, <1>6
      <4> QED BY <4>1, <1>1, <1>6 DEF LoadedInv
    <3> QED BY <3>1, <3>2
  <2>2. Len(to.aggregates) = 0 BY <1>7
  <2> HIDE DEF to, contexts
  <2> QED BY <2>1, <2>2, <1>7 DEF LoadedInv
<1>10. CampaignHolds(to)
  <2>1. phase = "aggregates" <=> k = Len(RunOrder) OBVIOUS
  <2>2. phase = "contexts" <=> k # Len(RunOrder) OBVIOUS
  <2>3. phase \in {"contexts", "aggregates"} OBVIOUS
  <2>4. Len(<<>>) = 0 OBVIOUS
  <2> HIDE DEF to, phase, contexts
  <2> QED BY <2>1, <2>2, <2>3, <2>4, <1>2, <1>6, <1>7 DEF CampaignHolds
<1>11. UNCHANGED <<files, past, rewrites, reader, aggregate>> BY DEF LoadContext
<1> HIDE DEF to
<1> QED BY <1>5, <1>8, <1>9, <1>10, <1>11, CampaignKeeps

LEMMA LoadAggregateKeeps ==
  ASSUME AggregationInv, LoadAggregate
  PROVE  AggregationInv'
<1> DEFINE c == campaign
           k == Len(c.aggregates) + 1
           r == RunOrder[k]
           taken == Append(c.aggregates, aggregate[r])
           verdict == CampaignVerdict(StatusesOf(taken))
           linked == \A i \in 1..k : Linked(RunOrder[i], c.contexts[i], taken[i])
           phase == IF k < Len(RunOrder) THEN "aggregates"
                    ELSE IF ~linked THEN "refused" ELSE verdict
           to == [phase |-> phase, contexts |-> c.contexts, aggregates |-> taken]
<1>t. AggregationTypeOK BY DEF AggregationInv
<1>1. c \in Campaigns /\ LoadedInv(c, past) /\ CampaignHolds(c) /\ c.phase = "aggregates"
  BY <1>t DEF AggregationInv, AggregationTypeOK, LoadAggregate
<1>2. /\ c.contexts \in Seq(ContextDocuments) /\ c.aggregates \in Seq(Aggregates)
      /\ Len(c.aggregates) \in Nat /\ Len(RunOrder) \in Nat /\ k \in 1..Len(RunOrder)
      /\ r \in Runs /\ Len(c.contexts) = Len(RunOrder)
  <2>1. RunOrder \in Seq(Runs) BY AggregationAssumption
  <2>2. /\ c.contexts \in Seq(ContextDocuments) /\ c.aggregates \in Seq(Aggregates)
        /\ Len(c.aggregates) < Len(RunOrder) /\ Len(c.contexts) = Len(RunOrder)
    BY <1>1 DEF Campaigns, CampaignHolds
  <2>3. Len(c.aggregates) \in Nat /\ Len(RunOrder) \in Nat BY <2>1, <2>2
  <2>4. k \in 1..Len(RunOrder) BY <2>2, <2>3
  <2> QED BY <2>1, <2>2, <2>3, <2>4
<1>3. aggregate[r] # Absent /\ aggregate[r] \in Aggregates /\ Sums(aggregate[r], past[r])
  BY <1>2, <1>t DEF AggregationTypeOK, AggregationInv, LoadAggregate
<1>4. /\ taken \in Seq(Aggregates) /\ Len(taken) = k /\ taken[k] = aggregate[r]
      /\ \A i \in 1..Len(c.aggregates) : taken[i] = c.aggregates[i]
  BY <1>2, <1>3
<1>5. StatusesOf(taken) \in [Runs -> Counted4] BY StatusesOfType
<1>6. verdict \in Counted4 /\ CampaignAccepted(StatusesOf(taken), verdict)
  BY <1>5, VerdictIsAccepted
<1>e. c = [phase |-> c.phase, contexts |-> c.contexts, aggregates |-> c.aggregates]
  BY <1>1 DEF Campaigns
<1>7. campaign' = to
  <2>1. CASE k < Len(RunOrder)
    <3>1. campaign' = [c EXCEPT !.aggregates = taken] BY <2>1 DEF LoadAggregate
    <3> HIDE DEF taken
    <3> QED BY <3>1, <2>1, <1>1, <1>e
  <2>2. CASE ~(k < Len(RunOrder))
    <3>1. campaign' = [c EXCEPT !.aggregates = taken,
                         !.phase = IF \E i \in 1..k : ~Linked(RunOrder[i], c.contexts[i], taken[i])
                                   THEN "refused"
                                   ELSE IF CampaignAccepted(StatusesOf(taken), verdict)
                                   THEN verdict ELSE "invalid"]
      BY <2>2 DEF LoadAggregate
    <3>2. (\E i \in 1..k : ~Linked(RunOrder[i], c.contexts[i], taken[i])) <=> ~linked OBVIOUS
    <3> HIDE DEF taken, verdict, linked
    <3>3. campaign' = [c EXCEPT !.aggregates = taken,
                         !.phase = IF ~linked THEN "refused" ELSE verdict]
      BY <3>1, <3>2, <1>6
    <3> QED BY <3>3, <2>2, <1>e
  <2> QED BY <2>1, <2>2
<1>8. to.phase = phase /\ to.contexts = c.contexts /\ to.aggregates = taken OBVIOUS
<1>9. /\ phase \in {"aggregates", "refused"} \cup Counted4
      /\ phase = "aggregates" => k < Len(RunOrder)
      /\ phase \in Counted4 => ~(k < Len(RunOrder)) /\ linked /\ phase = verdict
  <2> HIDE DEF verdict, linked, k
  <2> QED BY <1>6 DEF Counted4
<1>10. to \in Campaigns
  <2> HIDE DEF phase, taken
  <2> QED BY <1>2, <1>4, <1>9 DEF Campaigns, Counted4
<1>11. LoadedInv(to, past)
  <2>1. ASSUME NEW i \in 1..Len(taken) PROVE Sums(taken[i], past[RunOrder[i]])
    <3>1. CASE i = k BY <3>1, <1>3, <1>4
    <3>2. CASE i # k
      <4>1. i \in 1..Len(c.aggregates) BY <3>2, <1>2, <1>4
      <4> QED BY <4>1, <1>1, <1>4 DEF LoadedInv
    <3> QED BY <3>1, <3>2
  <2>2. \A i \in 1..Len(c.contexts) :
          \E was \in past[RunOrder[i]] : was["context"] = c.contexts[i]
    BY <1>1 DEF LoadedInv
  <2> HIDE DEF to, taken, c
  <2> QED BY <2>1, <2>2, <1>8 DEF LoadedInv
<1>12. CampaignHolds(to)
  <2>1. phase \in Counted4 => k = Len(RunOrder) /\ linked /\ phase = CampaignVerdict(StatusesOf(taken))
    BY <1>2, <1>9
  <2> HIDE DEF to, phase, taken, c
  <2> QED BY <2>1, <1>2, <1>4, <1>8, <1>9 DEF CampaignHolds, Counted4
<1>13. UNCHANGED <<files, past, rewrites, reader, aggregate>> BY DEF LoadAggregate
<1> HIDE DEF to
<1> QED BY <1>7, <1>10, <1>11, <1>12, <1>13, CampaignKeeps
-----------------------------------------------------------------------------
(***************************************************************************)
(* The specification.                                                      *)
(***************************************************************************)
LEMMA AggregationInitHolds == AggregationInit => AggregationInv
<1> SUFFICES ASSUME AggregationInit PROVE AggregationInv OBVIOUS
<1>1. files \in [Runs -> States] /\ \A r \in Runs, p \in Paths : files[r][p] # Absent => files[r][p].v = 0
  <2>1. files \in Finished BY DEF AggregationInit
  <2>2. /\ files = [r \in Runs |-> [p \in Paths |-> files[r][p]]]
        /\ \A r \in Runs, p \in Paths :
             files[r][p] \in DocumentsAt(p) /\ (files[r][p] # Absent => files[r][p].v = 0)
    BY <2>1, AggregationAssumption
  <2>3. \A r \in Runs : [p \in Paths |-> files[r][p]] \in States
    BY <2>2, PathFacts DEF States
  <2> QED BY <2>2, <2>3
<1>2. /\ past = [r \in Runs |-> {files[r]}] /\ rewrites = [r \in Runs |-> 0]
      /\ reader = [r \in Runs |-> Idle] /\ aggregate = [r \in Runs |-> Absent]
      /\ campaign = [phase |-> "contexts", contexts |-> <<>>, aggregates |-> <<>>]
  BY DEF AggregationInit
<1>3. Idle \in Readers /\ \A now, states : ReaderHolds(Idle, now, states) BY IdleHolds
<1>4. RunOrder \in Seq(Runs) /\ RunOrder # <<>> BY AggregationAssumption
<1>5. campaign \in Campaigns
  <2>1. <<>> \in Seq(ContextDocuments) /\ <<>> \in Seq(Aggregates) OBVIOUS
  <2> QED BY <2>1, <1>2 DEF Campaigns
<1>6. AggregationTypeOK BY <1>1, <1>2, <1>3, <1>5 DEF AggregationTypeOK
<1>7. \A r \in Runs : PastHolds(files[r], past[r], rewrites[r])
  BY <1>1, <1>2 DEF PastHolds
<1>8. LoadedInv(campaign, past) /\ CampaignHolds(campaign)
  <2>1. Len(campaign.contexts) = 0 /\ campaign.aggregates = <<>> /\ campaign.phase = "contexts"
    BY <1>2
  <2>2. Len(RunOrder) \in Nat /\ Len(RunOrder) > 0 /\ Len(campaign.aggregates) = 0 BY <1>4, <2>1
  <2> QED BY <2>1, <2>2 DEF LoadedInv, CampaignHolds
<1> QED BY <1>2, <1>3, <1>6, <1>7, <1>8 DEF AggregationInv

LEMMA ReplaceKeeps ==
  ASSUME AggregationInv, NEW r \in Runs, NEW p \in Paths, NEW contents,
         \A c \in contents : c \in DocumentsAt(p) /\ c # Absent /\ c.v = Fresh(r),
         Replace(r, p, contents)
  PROVE  AggregationInv'
<1>1. PICK c \in contents :
        LET now == [files[r] EXCEPT ![p] = c]
        IN files' = [files EXCEPT ![r] = now] /\ past' = [past EXCEPT ![r] = @ \cup {now}]
  BY DEF Replace
<1>2. c \in DocumentsAt(p) /\ c # Absent /\ c.v = rewrites[r] + 1 BY DEF Fresh
<1>3. Rewrite(r, p, c) BY <1>1 DEF Rewrite, Replace
<1> QED BY <1>2, <1>3, RewriteKeeps

LEMMA FreshType ==
  ASSUME AggregationInv, NEW r \in Runs
  PROVE  /\ Fresh(r) \in Nat /\ files[r] \in States
         /\ files[r]["context"] \in ContextDocuments
         /\ \A p \in ToSet(Results) : files[r][p] \in ResultDocuments
<1>1. files[r] \in States /\ rewrites[r] \in Nat BY DEF AggregationInv, AggregationTypeOK
<1> QED BY <1>1, PathFacts DEF States, Fresh

LEMMA QualifyKeeps ==
  ASSUME AggregationInv, NEW r \in Runs, Qualify(r)
  PROVE  AggregationInv'
<1> DEFINE Q == {x \in Qualifications : Admitted(x) /\ TransportAccepted(x, TransportStatus(x))}
           contents == {[v |-> Fresh(r), status |-> TransportStatus(q), domains |-> q.traces,
                         fits |-> q.fits] : q \in Q}
<1>1. ASSUME NEW q \in Q
      PROVE  /\ TransportStatus(q) \in Statuses /\ q.traces \in SUBSET STRING
             /\ q.fits \in BOOLEAN
  <2>1. /\ Range(q.observed) \cup Range(q.relations) \subseteq Statuses
        /\ {x.status : x \in q.chains} \subseteq Statuses
        /\ q.traces \subseteq STRING /\ q.fits \in BOOLEAN
    BY AggregationAssumption
  <2> DEFINE S == Range(q.observed) \cup {x.status : x \in q.chains} \cup ClockStatuses(q)
  <2>2. S \in SUBSET Statuses /\ S # {} BY <2>1 DEF Admitted, ChainsCover, ClockStatuses, Statuses
  <2>3. TransportStatus(q) = Collapsed(S) BY DEF TransportStatus
  <2> HIDE DEF S
  <2> QED BY <2>1, <2>2, <2>3, WorstStatusType DEF Collapsed, Statuses
<1>2. \A c \in contents : c \in DocumentsAt("transport") /\ c # Absent /\ c.v = Fresh(r)
  <2>1. SUFFICES ASSUME NEW q \in Q, NEW c,
                        c = [v |-> Fresh(r), status |-> TransportStatus(q), domains |-> q.traces,
                             fits |-> q.fits]
                 PROVE  c \in DocumentsAt("transport") /\ c # Absent /\ c.v = Fresh(r)
    OBVIOUS
  <2>2. c \in TransportDocuments /\ c.v = Fresh(r)
    BY <1>1, <2>1, FreshType DEF TransportDocuments
  <2>3. Absent \notin TransportDocuments BY AggregationAssumption
  <2> QED BY <2>2, <2>3, PathFacts
<1>3. Replace(r, "transport", contents) BY DEF Qualify
<1>4. "transport" \in Paths BY PathFacts
<1> HIDE DEF contents
<1> QED BY <1>2, <1>3, <1>4, ReplaceKeeps

LEMMA EvaluateKeeps ==
  ASSUME AggregationInv, NEW r \in Runs, Evaluate(r)
  PROVE  AggregationInv'
<1>1. PICK p \in ToSet(Results) :
        Replace(r, p,
          {[v |-> Fresh(r), domain |-> files[r][p].domain, execution |-> e, status |-> c.status,
            fits |-> c.fits, version |-> c.version, assessed |-> c.assessed] :
             c \in {x \in ResultContents : x.version = 1 <=> files[r][p].version = 1},
             e \in {files[r][p].execution, files[r]["context"].v}})
  BY DEF Evaluate
<1> DEFINE C == {x \in ResultContents : x.version = 1 <=> files[r][p].version = 1}
           E == {files[r][p].execution, files[r]["context"].v}
           contents ==
             {[v |-> Fresh(r), domain |-> files[r][p].domain, execution |-> e,
               status |-> c.status, fits |-> c.fits, version |-> c.version,
               assessed |-> c.assessed] : c \in C, e \in E}
<1>2. \A x \in contents : x \in DocumentsAt(p) /\ x # Absent /\ x.v = Fresh(r)
  <2>1. SUFFICES ASSUME NEW c \in C, NEW e \in E, NEW x,
                        x = [v |-> Fresh(r), domain |-> files[r][p].domain, execution |-> e,
                             status |-> c.status, fits |-> c.fits, version |-> c.version,
                             assessed |-> c.assessed]
                 PROVE  x \in DocumentsAt(p) /\ x # Absent /\ x.v = Fresh(r)
    OBVIOUS
  <2>2. /\ c.status \in Statuses /\ c.fits \in BOOLEAN
        /\ c.version \in 1..3 /\ c.assessed \in STRING
    BY AggregationAssumption
  <2>3. files[r]["context"].v \in Nat BY FreshType DEF ContextDocuments
  <2>4. files[r][p].domain \in STRING /\ files[r][p].execution \in Nat
    BY FreshType DEF ResultDocuments
  <2>5. Fresh(r) \in Nat BY FreshType
  <2>6. x \in ResultDocuments /\ x.v = Fresh(r)
    BY <2>1, <2>2, <2>3, <2>4, <2>5 DEF ResultDocuments
  <2>7. Absent \notin ResultDocuments BY AggregationAssumption
  <2> QED BY <2>6, <2>7, PathFacts
<1>3. p \in Paths BY PathFacts
<1>4. Replace(r, p, contents) BY <1>1
<1> HIDE DEF contents
<1> QED BY <1>2, <1>3, <1>4, ReplaceKeeps

LEMMA RunAgainKeeps ==
  ASSUME AggregationInv, NEW r \in Runs, RunAgain(r)
  PROVE  AggregationInv'
<1> DEFINE contents == {[v |-> Fresh(r), domains |-> D, native |-> files[r]["context"].native] :
                          D \in RunDomains}
<1>1. \A c \in contents : c \in DocumentsAt("context") /\ c # Absent /\ c.v = Fresh(r)
  <2>1. SUFFICES ASSUME NEW D \in RunDomains, NEW c,
                        c = [v |-> Fresh(r), domains |-> D, native |-> files[r]["context"].native]
                 PROVE  c \in DocumentsAt("context") /\ c # Absent /\ c.v = Fresh(r)
    OBVIOUS
  <2>2. D \in SUBSET STRING BY AggregationAssumption
  <2>3. Fresh(r) \in Nat /\ files[r]["context"].native \in BOOLEAN
    BY FreshType DEF ContextDocuments
  <2>4. c \in ContextDocuments /\ c.v = Fresh(r) BY <2>1, <2>2, <2>3 DEF ContextDocuments
  <2>5. Absent \notin ContextDocuments BY AggregationAssumption
  <2> QED BY <2>4, <2>5, PathFacts
<1>2. Replace(r, "context", contents) BY DEF RunAgain
<1>3. "context" \in Paths BY PathFacts
<1> HIDE DEF contents
<1> QED BY <1>1, <1>2, <1>3, ReplaceKeeps

LEMMA AggregationStepKeeps == AggregationInv /\ [AggregationNext]_aggregationVars => AggregationInv'
<1> SUFFICES ASSUME AggregationInv, [AggregationNext]_aggregationVars PROVE AggregationInv'
  OBVIOUS
<1>1. ASSUME NEW r \in Runs, Start(r) PROVE AggregationInv' BY <1>1, StartKeeps
<1>2. ASSUME NEW r \in Runs, Load(r) PROVE AggregationInv' BY <1>2, LoadKeeps
<1>3. ASSUME NEW r \in Runs, Recheck(r) PROVE AggregationInv' BY <1>3, RecheckKeeps
<1>4. CASE LoadContext BY <1>4, LoadContextKeeps
<1>5. CASE LoadAggregate BY <1>5, LoadAggregateKeeps
<1>6. ASSUME NEW r \in Runs, Qualify(r) PROVE AggregationInv' BY <1>6, QualifyKeeps
<1>7. ASSUME NEW r \in Runs, Evaluate(r) PROVE AggregationInv' BY <1>7, EvaluateKeeps
<1>8. ASSUME NEW r \in Runs, RunAgain(r) PROVE AggregationInv' BY <1>8, RunAgainKeeps
<1>9. CASE UNCHANGED aggregationVars
  BY <1>9 DEF aggregationVars, AggregationInv, AggregationTypeOK
<1> QED BY <1>1, <1>2, <1>3, <1>4, <1>5, <1>6, <1>7, <1>8, <1>9 DEF AggregationNext

LEMMA InvSound == AggregationInv => CampaignIsSound
<1> SUFFICES ASSUME AggregationInv, Judged PROVE CampaignIsSound 
  BY DEF CampaignIsSound
<1> DEFINE c == campaign
           Summed(r) == c.aggregates[Place(r)]
           ContextOf(r) == c.contexts[Place(r)]
<1>t. AggregationTypeOK BY DEF AggregationInv
<1>1. c \in Campaigns /\ LoadedInv(c, past) /\ CampaignHolds(c)
  BY <1>t DEF AggregationTypeOK, AggregationInv
<1>2. /\ Len(c.contexts) = Len(RunOrder) /\ Len(c.aggregates) = Len(RunOrder)
      /\ \A i \in 1..Len(RunOrder) : Linked(RunOrder[i], c.contexts[i], c.aggregates[i])
      /\ c.phase = CampaignVerdict(StatusesOf(c.aggregates))
  BY <1>1 DEF Judged, CampaignHolds
<1>3. ASSUME NEW r \in Runs
      PROVE  /\ StatusOfRun(Summed(r)) = Outcome(Summed(r))
             /\ OfOneExecution(ContextOf(r), Summed(r))
             /\ \E was \in past[r] : Together(ContextOf(r), Summed(r), was)
  <2>1. Place(r) \in 1..Len(RunOrder) /\ RunOrder[Place(r)] = r BY PlaceIs
  <2>2. Sums(Summed(r), past[r]) BY <1>1, <1>2, <2>1 DEF LoadedInv
  <2>3. PICK was \in past[r] :
          /\ Summed(r).context = was["context"].v
          /\ Together(was["context"], Summed(r), was) /\ OfOneExecution(was["context"], Summed(r))
    BY <2>2 DEF Sums
  <2>4. PICK then \in past[r] : then["context"] = ContextOf(r)
    BY <1>1, <1>2, <2>1 DEF LoadedInv
  <2>5. Summed(r).context = ContextOf(r).v BY <1>2, <2>1 DEF Linked
  <2>6. was \in States /\ then \in States BY <1>t DEF AggregationTypeOK
  <2>7. was["context"] # Absent /\ then["context"] # Absent
    <3>1. Absent \notin ContextDocuments BY AggregationAssumption
    <3> QED BY <2>6, <3>1, PathFacts DEF States
  <2>8. was["context"] = then["context"]
    <3>1. PastHolds(files[r], past[r], rewrites[r]) BY DEF AggregationInv
    <3>2. "context" \in Paths BY PathFacts
    <3>3. was["context"].v = then["context"].v BY <2>3, <2>4, <2>5
    <3> QED BY <2>7, <3>1, <3>2, <3>3 DEF PastHolds
  <2>9. StatusOfRun(Summed(r)) = Outcome(Summed(r)) BY <2>2 DEF Sums
  <2> QED BY <2>3, <2>4, <2>8, <2>9
<1>4. StatusesOf(c.aggregates) = [r \in Runs |-> Outcome(Summed(r))]
  BY <1>3 DEF StatusesOf
<1>5. c.phase = "passed" <=> Allowed([r \in Runs |-> Outcome(Summed(r))])
  <2>1. StatusesOf(c.aggregates) \in [Runs -> Counted4] BY StatusesOfType
  <2> QED BY <2>1, <1>2, <1>4, VerdictIsAccepted
<1> QED BY <1>3, <1>5 DEF CampaignIsSound

LEMMA InvAccepted == AggregationInv => SummariesAreAccepted
<1> SUFFICES ASSUME AggregationInv PROVE SummariesAreAccepted OBVIOUS
<1>1. AggregationTypeOK BY DEF AggregationInv
<1>2. \A r \in Runs : reader[r].phase # "invalid"
  BY <1>1 DEF AggregationTypeOK, Readers
<1>3. campaign.phase # "invalid" BY <1>1 DEF AggregationTypeOK, Campaigns
<1> QED BY <1>2, <1>3, QualificationIsAccepted DEF SummariesAreAccepted

\* Every behaviour keeps the inductive invariant: what an aggregation has read
\* was on disk, at once if it is written, and a campaign holds what it read.
THEOREM AggregationInvariance == AggregationSpec => []AggregationInv
<1>1. AggregationInit => AggregationInv BY AggregationInitHolds
<1>2. AggregationInv /\ [AggregationNext]_aggregationVars => AggregationInv' BY AggregationStepKeeps
<1> QED BY <1>1, <1>2, PTL DEF AggregationSpec

\* aggregate_campaign counts each run by what the documents of this execution
\* said together, however others replace them while they are read, and passes
\* just when the runs so counted keep its policy.
THEOREM CampaignsAreSound == AggregationSpec => []CampaignIsSound
BY AggregationInvariance, InvSound, PTL

\* aggregate_results, aggregate_campaign and evaluate_transport_qualification
\* never write a summary which validate_document refuses.
THEOREM SummariesPass == AggregationSpec => []SummariesAreAccepted
BY AggregationInvariance, InvAccepted, PTL
-----------------------------------------------------------------------------
(***************************************************************************)
(* Qualification: the documents of a bundle.                               *)
(***************************************************************************)

\* Every bundle is made of the subjects there are, and only valid bundles are
\* accepted.
QualificationInv ==
  /\ bundle \in SUBSET Subjects
  /\ \A B \in accepted : B \in SUBSET Subjects /\ Valid(B)

LEMMA QualificationInvariance == QualificationSpec => []QualificationInv
<1>1. QualificationInit => QualificationInv
  BY DEF QualificationInit, QualificationInv, Subjects
<1>2. QualificationInv /\ [QualificationNext]_qualificationVars => QualificationInv'
  <2> SUFFICES ASSUME QualificationInv, [QualificationNext]_qualificationVars
               PROVE  QualificationInv'
    OBVIOUS
  <2>1. CASE InspectLinks
    BY <2>1 DEF InspectLinks, QualificationInv
  <2>2. CASE Edit
    BY <2>2 DEF Edit, QualificationInv, Subjects
  <2>3. CASE UNCHANGED qualificationVars
    BY <2>3 DEF qualificationVars, QualificationInv
  <2> QED BY <2>1, <2>2, <2>3 DEF QualificationNext
<1> QED BY <1>1, <1>2, PTL DEF QualificationSpec
-----------------------------------------------------------------------------
\* A digest finds the one document that has it.
LEMMA DigestFinds ==
  ASSUME NEW B \in SUBSET Subjects, NEW kind, NEW s \in Of(B, kind)
  PROVE  /\ s.of \in Shas(B, kind)
         /\ ByDigest(B, kind, s.of) = s.doc
<1>1. s.of \in Shas(B, kind)
  BY DEF Shas
<1> DEFINE t == CHOOSE u \in Of(B, kind) : u.of = s.of
<1>2. t \in Of(B, kind) /\ t.of = s.of
  OBVIOUS
<1>3. t.doc = s.doc
  BY <1>2, QualificationAssumption DEF Of
<1> QED BY <1>1, <1>3 DEF ByDigest

\* In two bundles that hold it, it finds the same document.
LEMMA DigestFindsSame ==
  ASSUME NEW B \in SUBSET Subjects, NEW C \in SUBSET Subjects, NEW kind,
         NEW s \in Of(B, kind), NEW t \in Of(C, kind), s.of = t.of
  PROVE  s.doc = t.doc
BY QualificationAssumption DEF Of

LEMMA ByDigestSame ==
  ASSUME NEW B \in SUBSET Subjects, NEW C \in SUBSET Subjects, NEW kind,
         NEW sha \in Shas(B, kind), sha \in Shas(C, kind)
  PROVE  ByDigest(B, kind, sha) = ByDigest(C, kind, sha)
<1>1. PICK s \in Of(B, kind) : s.of = sha
  BY DEF Shas
<1>2. PICK t \in Of(C, kind) : t.of = sha
  BY DEF Shas
<1> QED BY <1>1, <1>2, DigestFinds, DigestFindsSame

LEMMA OfIsFinite ==
  ASSUME NEW B \in SUBSET Subjects, NEW kind
  PROVE  IsFiniteSet(Of(B, kind))
<1>1. Of(B, kind) \in SUBSET Subjects
  BY DEF Of
<1> QED BY <1>1, FS_Subset, QualificationAssumption

\* What _one returns is the only subject of its kind.
LEMMA SingleIs ==
  ASSUME NEW B \in SUBSET Subjects, NEW kind, Cardinality(Of(B, kind)) = 1
  PROVE  /\ Of(B, kind) = {Single(B, kind)}
         /\ Shas(B, kind) = {Single(B, kind).of}
<1>1. \E x : Of(B, kind) = {x}
  BY OfIsFinite, FS_Singleton
<1>2. Of(B, kind) = {Single(B, kind)}
  BY <1>1 DEF Single
<1> QED BY <1>2 DEF Shas

Labeled == {"runtime_manifest", "domain_result", "evidence_index"}

\* _labeled: each domain of the run has one subject of each kind, and there are
\* no others.
LEMMA SubjectIs ==
  ASSUME NEW B \in SUBSET Subjects, Valid(B), NEW kind \in Labeled
  PROVE  /\ Labels(B, kind) = Run(B).domains
         /\ \A d \in Run(B).domains : Subject(B, kind, d) \in Of(B, kind)
         /\ Shas(B, kind) = {Subject(B, kind, d).of : d \in Run(B).domains}
<1>1. Labels(B, kind) = Run(B).domains
  BY DEF Valid, DomainsHold, Labeled
<1>2. \A d \in Run(B).domains : Subject(B, kind, d) \in Of(B, kind) /\ Subject(B, kind, d).name[2] = d
  BY <1>1 DEF Labels, Subject
<1>3. \A s, t \in B : s.name = t.name => s = t
  BY DEF Valid, NamesAreUnique
<1>4. \A s \in Of(B, kind) : s.name[1] = kind /\ s.name = <<s.name[1], s.name[2]>> /\ s \in B
  BY QualificationAssumption DEF Valid, ContextHolds, Labeled, Of
<1>5. \A s \in Of(B, kind) : s.name[2] \in Run(B).domains
  BY <1>1 DEF Labels
<1>6. ASSUME NEW s \in Of(B, kind) PROVE s = Subject(B, kind, s.name[2])
  <2> DEFINE t == Subject(B, kind, s.name[2])
  <2>1. t \in Of(B, kind) /\ t.name[2] = s.name[2]
    BY <1>2, <1>5
  <2>2. t.name = <<kind, s.name[2]>> /\ s.name = <<kind, s.name[2]>>
    BY <1>4, <2>1
  <2> QED BY <1>3, <1>4, <2>1, <2>2
<1>7. Shas(B, kind) = {Subject(B, kind, d).of : d \in Run(B).domains}
  BY <1>2, <1>5, <1>6 DEF Shas
<1> QED BY <1>1, <1>2, <1>7
-----------------------------------------------------------------------------
(***************************************************************************)
(* Observations and permits.                                               *)
(***************************************************************************)
LEMMA OrderedFour ==
  ASSUME NEW a, NEW b, NEW c, NEW d, Ordered(<<a, b, c, d>>)
  PROVE  a <= b /\ b <= c /\ c <= d
<1>1. \A i \in 1..3 : <<a, b, c, d>>[i] <= <<a, b, c, d>>[i + 1]
  BY DEF Ordered
<1>2. /\ <<a, b, c, d>>[1] <= <<a, b, c, d>>[1 + 1]
      /\ <<a, b, c, d>>[2] <= <<a, b, c, d>>[2 + 1]
      /\ <<a, b, c, d>>[3] <= <<a, b, c, d>>[3 + 1]
  BY <1>1
<1> QED BY <1>2

\* A domain of a physical run was permitted to run from before its result
\* started until after it finished.
LEMMA ResultIsPermitted ==
  ASSUME NEW B \in SUBSET Subjects, Valid(B), Physical(B), NEW d \in Run(B).domains,
         NEW document, document.started \in Int, document.finished \in Int,
         Result(B, d).started <= document.started, document.finished <= Result(B, d).finished
  PROVE  Permitted(B, document, d)
<1> DEFINE r == Result(B, d)
           m == Runtime(B, d).authorization
           permit == ByDigest(B, "execution_permit", m.permit)
           verification == ByDigest(B, "execution_verification", m.verification)
<1>1. DomainAuthorized(B, d)
  BY DEF Valid, BindingsHold, AuthorizationHolds
<1>2. /\ m.permit \in Shas(B, "execution_permit")
      /\ m.verification \in Shas(B, "execution_verification")
      /\ Ordered(<<permit.issued, verification.verified, r.started, r.finished>>)
      /\ r.finished < permit.expires
  BY <1>1 DEF DomainAuthorized
<1>3. verification.verified <= r.started
  BY <1>2, OrderedFour
<1>4. r.started \in Int /\ r.finished \in Int
  <2>1. Subject(B, "domain_result", d) \in Of(B, "domain_result")
    BY SubjectIs DEF Labeled
  <2> QED BY <2>1, QualificationAssumption DEF Of, Result
<1>5. permit.expires \in Int
  <2>1. PICK s \in Of(B, "execution_permit") : s.of = m.permit
    BY <1>2 DEF Shas
  <2> QED BY <2>1, DigestFinds, QualificationAssumption DEF Of
<1>6. verification.verified \in Int
  <2>1. PICK s \in Of(B, "execution_verification") : s.of = m.verification
    BY <1>2 DEF Shas
  <2> QED BY <2>1, DigestFinds, QualificationAssumption DEF Of
<1>7. /\ verification.verified <= document.started
      /\ document.finished < permit.expires
  BY <1>2, <1>3, <1>4, <1>5, <1>6
<1> QED BY <1>7 DEF Permitted

LEMMA WithinIsPermitted ==
  ASSUME NEW B \in SUBSET Subjects, Valid(B), Physical(B), NEW domains, NEW document,
         WithinDomains(B, document, domains), NEW d \in domains, d \in Run(B).domains,
         document.started \in Int, document.finished \in Int
  PROVE  Permitted(B, document, d)
<1>1. Ordered(<<Result(B, d).started, document.started, document.finished, Result(B, d).finished>>)
  BY DEF WithinDomains
<1> QED BY <1>1, OrderedFour, ResultIsPermitted

LEMMA ValidIsPermitted ==
  ASSUME NEW B \in SUBSET Subjects, Valid(B), Physical(B), Aggregate(B).transport # None
  PROVE  /\ \A r \in Documents(B, "clock_relation") :
              Permitted(B, r, r.source) /\ Permitted(B, r, r.destination)
         /\ \A o \in Documents(B, "channel_observation") :
              LET channel == ChannelNamed(B, o.channel)
              IN Permitted(B, o, channel.source) /\ Permitted(B, o, channel.destination)
<1>1. /\ SourcesHold(B) /\ ReferencesKnown(B)
      /\ \A r \in Documents(B, "clock_relation") : RelationHolds(B, r)
      /\ \A o \in Documents(B, "channel_observation") : ObservationHolds(B, o)
  BY DEF Valid, BindingsHold, TransportHolds
<1>2. Labels(B, "domain_result") = Run(B).domains
  BY SubjectIs DEF Labeled
<1>3. \A kind \in {"clock_relation", "channel_observation"} : \A x \in Documents(B, kind) :
        x.started \in Int /\ x.finished \in Int
  BY QualificationAssumption DEF Documents, Of
<1>4. ASSUME NEW r \in Documents(B, "clock_relation")
      PROVE  Permitted(B, r, r.source) /\ Permitted(B, r, r.destination)
  <2>1. /\ WithinDomains(B, r, {r.source, r.destination})
        /\ r.source \in Run(B).domains /\ r.destination \in Run(B).domains
    BY <1>1, <1>2 DEF RelationHolds, RelationFits
  <2>2. r.started \in Int /\ r.finished \in Int
    BY <1>3
  <2> QED BY <2>1, <2>2, WithinIsPermitted
<1>5. ASSUME NEW o \in Documents(B, "channel_observation")
      PROVE  /\ Permitted(B, o, ChannelNamed(B, o.channel).source)
             /\ Permitted(B, o, ChannelNamed(B, o.channel).destination)
  <2> DEFINE channel == ChannelNamed(B, o.channel)
  <2>1. channel \in Documents(B, "channel_contract")
    BY <1>1 DEF SourcesHold, KnownChannel, ChannelNamed
  <2>2. channel.source \in Run(B).domains /\ channel.destination \in Run(B).domains
    BY <1>1, <1>2, <2>1 DEF ReferencesKnown
  <2>3. WithinDomains(B, o, {channel.source, channel.destination})
    BY <1>1 DEF ObservationHolds
  <2>4. o.started \in Int /\ o.finished \in Int
    BY <1>3
  <2> QED BY <2>2, <2>3, <2>4, WithinIsPermitted
<1> QED BY <1>4, <1>5

\* Whatever is observed between the domains of an accepted physical bundle is
\* observed while both are permitted to run (_validate_authorization and the
\* windows of the transport sources), for any subjects.
THEOREM ObservationsArePermitted == QualificationSpec => []ObservedUnderPermit
<1>1. QualificationInv => ObservedUnderPermit
  BY ValidIsPermitted DEF QualificationInv, ObservedUnderPermit
<1> QED BY <1>1, QualificationInvariance, PTL
-----------------------------------------------------------------------------
(***************************************************************************)
(* An aggregate and its bundle.                                            *)
(***************************************************************************)
\* _one: the run and the scenario are those that the aggregate leads to.
LEMMA ContextIsFixed ==
  ASSUME NEW B \in SUBSET Subjects, Valid(B)
  PROVE  /\ Of(B, "acceptance_aggregate") = {Single(B, "acceptance_aggregate")}
         /\ Of(B, "acceptance_run") = {Single(B, "acceptance_run")}
         /\ Of(B, "scenario") = {Single(B, "scenario")}
         /\ Shas(B, "acceptance_run") = {Aggregate(B).acceptance}
         /\ Shas(B, "scenario") = {Run(B).scenario}
<1>1. \A kind \in {"scenario", "acceptance_run", "acceptance_aggregate"} :
        /\ Of(B, kind) = {Single(B, kind)}
        /\ Shas(B, kind) = {Single(B, kind).of}
  BY SingleIs DEF Valid, ContextHolds
<1>2. /\ Run(B).scenario = Single(B, "scenario").of
      /\ Aggregate(B).acceptance = Single(B, "acceptance_run").of
  BY DEF Valid, IdentityHolds
<1> QED BY <1>1, <1>2

\* Both bundles have the same context, and the same results under it.
LEMMA SameContext ==
  ASSUME NEW B \in SUBSET Subjects, Valid(B), NEW C \in SUBSET Subjects, Valid(C),
         Of(B, "acceptance_aggregate") \subseteq C
  PROVE  /\ Aggregate(B) = Aggregate(C)
         /\ Run(B) = Run(C) /\ Scenario(B) = Scenario(C)
         /\ Shas(B, "acceptance_run") = Shas(C, "acceptance_run")
         /\ Shas(B, "scenario") = Shas(C, "scenario")
<1>1. Single(B, "acceptance_aggregate") \in Of(C, "acceptance_aggregate")
  BY ContextIsFixed DEF Of
<1>2. Aggregate(B) = Aggregate(C)
  BY <1>1, ContextIsFixed DEF Aggregate
<1>3. Shas(B, "acceptance_run") = Shas(C, "acceptance_run")
  BY <1>2, ContextIsFixed
<1>4. Run(B) = Run(C)
  <2>1. /\ Single(B, "acceptance_run") \in Of(B, "acceptance_run")
        /\ Single(C, "acceptance_run") \in Of(C, "acceptance_run")
        /\ Single(B, "acceptance_run").of = Single(C, "acceptance_run").of
    BY <1>3, ContextIsFixed DEF Shas
  <2> QED BY <2>1, DigestFindsSame DEF Run
<1>5. Shas(B, "scenario") = Shas(C, "scenario")
  BY <1>4, ContextIsFixed
<1>6. Scenario(B) = Scenario(C)
  <2>1. /\ Single(B, "scenario") \in Of(B, "scenario")
        /\ Single(C, "scenario") \in Of(C, "scenario")
        /\ Single(B, "scenario").of = Single(C, "scenario").of
    BY <1>5, ContextIsFixed DEF Shas
  <2> QED BY <2>1, DigestFindsSame DEF Scenario
<1> QED BY <1>2, <1>3, <1>4, <1>5, <1>6

\* Two bundles that agree on a labelled kind have the same documents of it.
LEMMA SameSubjects ==
  ASSUME NEW B \in SUBSET Subjects, Valid(B), NEW C \in SUBSET Subjects, Valid(C),
         Run(B) = Run(C), NEW kind \in Labeled,
         \A d \in Run(B).domains : Subject(B, kind, d).of = Subject(C, kind, d).of
  PROVE  /\ Shas(B, kind) = Shas(C, kind)
         /\ \A d \in Run(B).domains : Subject(B, kind, d).doc = Subject(C, kind, d).doc
<1>1. /\ Shas(B, kind) = {Subject(B, kind, d).of : d \in Run(B).domains}
      /\ Shas(C, kind) = {Subject(C, kind, d).of : d \in Run(B).domains}
  BY SubjectIs
<1>2. ASSUME NEW d \in Run(B).domains PROVE Subject(B, kind, d).doc = Subject(C, kind, d).doc
  BY SubjectIs, DigestFindsSame
<1>3. {Subject(B, kind, d).of : d \in Run(B).domains}
        = {Subject(C, kind, d).of : d \in Run(B).domains}
  OBVIOUS
<1> QED BY <1>1, <1>2, <1>3

LEMMA SameResults ==
  ASSUME NEW B \in SUBSET Subjects, Valid(B), NEW C \in SUBSET Subjects, Valid(C),
         Aggregate(B) = Aggregate(C), Run(B) = Run(C)
  PROVE  /\ Shas(B, "domain_result") = Shas(C, "domain_result")
         /\ Shas(B, "runtime_manifest") = Shas(C, "runtime_manifest")
         /\ \A d \in Run(B).domains : Result(B, d) = Result(C, d) /\ Runtime(B, d) = Runtime(C, d)
<1>1. \A d \in Run(B).domains :
        /\ Subject(B, "domain_result", d).of = Aggregate(B).results[d].of
        /\ Subject(C, "domain_result", d).of = Aggregate(C).results[d].of
  <2>1. /\ Labels(B, "domain_result") = Run(B).domains
        /\ Labels(C, "domain_result") = Run(B).domains
    BY SubjectIs DEF Labeled
  <2> QED BY <2>1 DEF Valid, ResultsMatch
<1>2. /\ Shas(B, "domain_result") = Shas(C, "domain_result")
      /\ \A d \in Run(B).domains : Result(B, d) = Result(C, d)
  BY <1>1, SameSubjects DEF Labeled, Result
<1>3. \A d \in Run(B).domains :
        /\ Subject(B, "runtime_manifest", d).of = Result(B, d).runtime
        /\ Subject(C, "runtime_manifest", d).of = Result(C, d).runtime
  <2>1. /\ Labels(B, "domain_result") = Run(B).domains
        /\ Labels(C, "domain_result") = Run(B).domains
    BY SubjectIs DEF Labeled
  <2> QED BY <2>1 DEF Valid, DomainHolds, ResultIdentity
<1>4. /\ Shas(B, "runtime_manifest") = Shas(C, "runtime_manifest")
      /\ \A d \in Run(B).domains : Runtime(B, d) = Runtime(C, d)
  BY <1>2, <1>3, SameSubjects DEF Labeled, Runtime
<1> QED BY <1>2, <1>4

\* The receipts that a bundle uses are those its results and its scenario name.
LEMMA ReceiptsNamed ==
  ASSUME NEW B \in SUBSET Subjects, Valid(B)
  PROVE  ReceiptsUsed(B) =
           {e.receipt : e \in {any \in UNION {Result(B, d).evidence : d \in Run(B).domains} :
                                any.receipt # None}}
           \cup {e.receipt : e \in Scenario(B).evaluators}
<1>1. /\ Labels(B, "domain_result") = Run(B).domains
      /\ Labels(B, "evidence_index") = Run(B).domains
  BY SubjectIs DEF Labeled
<1>2. \A d \in Run(B).domains :
        Result(B, d).evidence = {[of |-> a.of, kind |-> a.kind, receipt |-> a.receipt] :
                                   a \in IndexOf(B, d).artifacts}
  BY <1>1 DEF Valid, DomainHolds, EvidenceMatches
<1> DEFINE named == {any \in UNION {Result(B, d).evidence : d \in Run(B).domains} :
                       any.receipt # None}
<1>3. ASSUME NEW a \in RetainedArtifacts(B) PROVE \E e \in named : e.receipt = a.receipt
  <2>1. PICK d \in Run(B).domains : a \in IndexOf(B, d).artifacts
    BY <1>1 DEF RetainedArtifacts
  <2> DEFINE e == [of |-> a.of, kind |-> a.kind, receipt |-> a.receipt]
  <2>2. e \in Result(B, d).evidence
    BY <1>2, <2>1
  <2>3. e.receipt = a.receipt /\ a.receipt # None
    BY DEF RetainedArtifacts
  <2> HIDE DEF e
  <2> QED BY <2>2, <2>3
<1>4. ASSUME NEW e \in named PROVE \E a \in RetainedArtifacts(B) : e.receipt = a.receipt
  <2>1. PICK d \in Run(B).domains : e \in Result(B, d).evidence
    OBVIOUS
  <2>2. PICK a \in IndexOf(B, d).artifacts :
          e = [of |-> a.of, kind |-> a.kind, receipt |-> a.receipt]
    BY <1>2, <2>1
  <2>3. a.receipt = e.receipt /\ e.receipt # None
    BY <2>2
  <2> QED BY <1>1, <2>3 DEF RetainedArtifacts
<1> QED BY <1>3, <1>4 DEF ReceiptsUsed

LEMMA SameReceipts ==
  ASSUME NEW B \in SUBSET Subjects, Valid(B), NEW C \in SUBSET Subjects, Valid(C),
         ReceiptsUsed(B) = ReceiptsUsed(C)
  PROVE  /\ Shas(B, "artifact_receipt") = Shas(C, "artifact_receipt")
         /\ Shas(B, "artifact_verification") = Shas(C, "artifact_verification")
<1>1. \A D \in {B, C} :
        /\ Shas(D, "artifact_receipt") = ReceiptsUsed(D)
        /\ Shas(D, "artifact_verification")
             = {ByDigest(D, "artifact_receipt", sha).verification : sha \in ReceiptsUsed(D)}
  BY DEF Valid, BindingsHold, ReceiptsHold
<1>2. \A sha \in ReceiptsUsed(B) :
        ByDigest(B, "artifact_receipt", sha) = ByDigest(C, "artifact_receipt", sha)
  BY <1>1, ByDigestSame
<1> QED BY <1>1, <1>2

LEMMA OptionalFixes ==
  ASSUME NEW B \in SUBSET Subjects, NEW kind, NEW sha, Optional(B, kind, sha)
  PROVE  Shas(B, kind) = IF sha = None THEN {} ELSE {sha}
<1>1. CASE sha = None
  BY <1>1 DEF Optional, Shas
<1>2. CASE sha # None
  <2>1. Of(B, kind) = {Single(B, kind)} /\ Shas(B, kind) = {Single(B, kind).of}
    BY <1>2, SingleIs DEF Optional
  <2>2. {s \in Of(B, kind) : s.of = sha} # {}
    BY <1>2, FS_EmptySet DEF Optional, Identifies
  <2> QED BY <1>2, <2>1, <2>2
<1> QED BY <1>1, <1>2

\* Providers, model, dataset and permits are those that the same documents name.
LEMMA SameBindings ==
  ASSUME NEW B \in SUBSET Subjects, Valid(B), NEW C \in SUBSET Subjects, Valid(C),
         Run(B) = Run(C), Scenario(B) = Scenario(C),
         \A d \in Run(B).domains : Runtime(B, d) = Runtime(C, d)
  PROVE  \A kind \in {"qualification_profile", "provider_conformance", "model_manifest",
                       "dataset_manifest", "execution_permit", "execution_verification"} :
           Shas(B, kind) = Shas(C, kind)
<1>1. /\ Shas(B, "qualification_profile") = Shas(C, "qualification_profile")
      /\ Shas(B, "provider_conformance") = Shas(C, "provider_conformance")
  <2>1. UNION {Runtime(B, d).bindings : d \in Run(B).domains}
          = UNION {Runtime(C, d).bindings : d \in Run(C).domains}
    OBVIOUS
  <2> QED BY <2>1 DEF Valid, BindingsHold, ProvidersHold
<1>2. /\ Shas(B, "model_manifest") = Shas(C, "model_manifest")
      /\ Shas(B, "dataset_manifest") = Shas(C, "dataset_manifest")
  <2>1. \A D \in {B, C} :
          /\ Optional(D, "model_manifest", Scenario(B).model)
          /\ Optional(D, "dataset_manifest", Scenario(B).dataset)
    BY DEF Valid, BindingsHold, ModelAndDatasetHold
  <2> QED BY <2>1, OptionalFixes
<1>3. CASE ~Physical(B)
  BY <1>1, <1>2, <1>3 DEF Valid, BindingsHold, AuthorizationHolds, Physical, Shas
<1>4. CASE Physical(B)
  <2>1. /\ {Runtime(B, d).authorization.permit : d \in Run(B).domains}
             = {Runtime(C, d).authorization.permit : d \in Run(C).domains}
        /\ {Runtime(B, d).authorization.verification : d \in Run(B).domains}
             = {Runtime(C, d).authorization.verification : d \in Run(C).domains}
    OBVIOUS
  <2> QED BY <1>1, <1>2, <1>4, <2>1 DEF Valid, BindingsHold, AuthorizationHolds, Physical
<1> QED BY <1>3, <1>4

\* A list of digests with what else is said of them names just these digests.
LEMMA Listed ==
  ASSUME NEW S, NEW T, T = {[of |-> s.of, id |-> s.doc.id] : s \in S}
  PROVE  {s.of : s \in S} = {x.of : x \in T}
<1>1. ASSUME NEW s \in S PROVE \E x \in T : x.of = s.of
  <2> DEFINE x == [of |-> s.of, id |-> s.doc.id]
  <2>1. x \in T /\ x.of = s.of
    OBVIOUS
  <2> HIDE DEF x
  <2> QED BY <2>1
<1>2. ASSUME NEW x \in T PROVE \E s \in S : x.of = s.of
  OBVIOUS
<1> QED BY <1>1, <1>2

LEMMA ListedWithStatus ==
  ASSUME NEW S, NEW T,
         T = {[of |-> s.of, id |-> s.doc.id, status |-> s.doc.status] : s \in S}
  PROVE  {s.of : s \in S} = {x.of : x \in T}
<1>1. ASSUME NEW s \in S PROVE \E x \in T : x.of = s.of
  <2> DEFINE x == [of |-> s.of, id |-> s.doc.id, status |-> s.doc.status]
  <2>1. x \in T /\ x.of = s.of
    OBVIOUS
  <2> HIDE DEF x
  <2> QED BY <2>1
<1>2. ASSUME NEW x \in T PROVE \E s \in S : x.of = s.of
  OBVIOUS
<1> QED BY <1>1, <1>2

\* Without a transport result there are no sources of one, and with it they are
\* those it lists.
LEMMA SameTransport ==
  ASSUME NEW B \in SUBSET Subjects, Valid(B), NEW C \in SUBSET Subjects, Valid(C),
         Aggregate(B) = Aggregate(C)
  PROVE  /\ \A kind \in TransportSources \cup {"transport_qualification"} :
              Shas(B, kind) = Shas(C, kind)
         /\ Aggregate(B).transport # None => Transport(B) = Transport(C)
<1>1. CASE Aggregate(B).transport = None
  <2>1. \A D \in {B, C} : \A kind \in TransportSources \cup {"transport_qualification"} :
          Of(D, kind) = {}
    BY <1>1 DEF Valid, BindingsHold, TransportHolds
  <2> QED BY <1>1, <2>1 DEF Shas
<1>2. CASE Aggregate(B).transport # None
  <2>1. \A D \in {B, C} : PointerHolds(D) /\ ProjectionsHold(D)
    BY <1>2 DEF Valid, BindingsHold, TransportHolds
  <2>2. \A D \in {B, C} :
          /\ Of(D, "transport_qualification") = {Single(D, "transport_qualification")}
          /\ Shas(D, "transport_qualification") = {Single(D, "transport_qualification").of}
    BY <2>1, SingleIs DEF PointerHolds
  <2>3. \A D \in {B, C} : Single(D, "transport_qualification").of = Aggregate(B).transport.of
    <3>1. \A D \in {B, C} :
            Aggregate(B).transport = [of |-> Single(D, "transport_qualification").of,
                                      status |-> Transport(D).status]
      BY <2>1 DEF PointerHolds
    <3> QED BY <3>1
  <2>4. Transport(B) = Transport(C)
    BY <2>2, <2>3, DigestFindsSame DEF Transport
  <2>5. \A D \in {B, C} :
          /\ Shas(D, "clock_relation") = {x.of : x \in Transport(B).relations}
          /\ Shas(D, "causal_chain_contract") = {x.of : x \in Transport(B).contracts}
          /\ Shas(D, "channel_contract") = {x.of : x \in Transport(B).channels}
          /\ Shas(D, "channel_observation") = {x.of : x \in Transport(B).observations}
    <3> SUFFICES ASSUME NEW D \in {B, C}
                 PROVE  /\ Shas(D, "clock_relation") = {x.of : x \in Transport(B).relations}
                        /\ Shas(D, "causal_chain_contract") = {x.of : x \in Transport(B).contracts}
                        /\ Shas(D, "channel_contract") = {x.of : x \in Transport(B).channels}
                        /\ Shas(D, "channel_observation")
                             = {x.of : x \in Transport(B).observations}
      OBVIOUS
    <3>1. ProjectionsHold(D) /\ Transport(D) = Transport(B)
      BY <2>1, <2>4
    <3>2. Shas(D, "clock_relation") = {x.of : x \in Transport(B).relations}
      <4>1. Transport(B).relations = {[of |-> s.of, id |-> s.doc.id, status |-> s.doc.status] :
                                 s \in Of(D, "clock_relation")}
        BY <3>1 DEF ProjectionsHold
      <4>2. {s.of : s \in Of(D, "clock_relation")} = {x.of : x \in Transport(B).relations}
        BY <4>1, ListedWithStatus
      <4> QED BY <4>2 DEF Shas
    <3>3. Shas(D, "causal_chain_contract") = {x.of : x \in Transport(B).contracts}
      <4>1. Transport(B).contracts = {[of |-> s.of, id |-> s.doc.id] :
                                 s \in Of(D, "causal_chain_contract")}
        BY <3>1 DEF ProjectionsHold
      <4>2. {s.of : s \in Of(D, "causal_chain_contract")} = {x.of : x \in Transport(B).contracts}
        BY <4>1, Listed
      <4> QED BY <4>2 DEF Shas
    <3>4. Shas(D, "channel_contract") = {x.of : x \in Transport(B).channels}
      <4>1. Transport(B).channels = {[of |-> s.of, id |-> s.doc.id] :
                                 s \in Of(D, "channel_contract")}
        BY <3>1 DEF ProjectionsHold
      <4>2. {s.of : s \in Of(D, "channel_contract")} = {x.of : x \in Transport(B).channels}
        BY <4>1, Listed
      <4> QED BY <4>2 DEF Shas
    <3>5. Shas(D, "channel_observation") = {x.of : x \in Transport(B).observations}
      <4>1. Transport(B).observations = {[of |-> s.of, id |-> s.doc.id, status |-> s.doc.status] :
                                 s \in Of(D, "channel_observation")}
        BY <3>1 DEF ProjectionsHold
      <4>2. {s.of : s \in Of(D, "channel_observation")} = {x.of : x \in Transport(B).observations}
        BY <4>1, ListedWithStatus
      <4> QED BY <4>2 DEF Shas
    <3> QED BY <3>2, <3>3, <3>4, <3>5
  <2> QED BY <1>2, <2>2, <2>3, <2>4, <2>5 DEF TransportSources
<1> QED BY <1>1, <1>2

\* A transport result names the evidence indexes, and they the summaries.
LEMMA SameSummaries ==
  ASSUME NEW B \in SUBSET Subjects, Valid(B), NEW C \in SUBSET Subjects, Valid(C),
         Aggregate(B) = Aggregate(C), Run(B) = Run(C), Scenario(B) = Scenario(C),
         Aggregate(B).transport # None, Shas(B, "dataset_manifest") = Shas(C, "dataset_manifest")
  PROVE  /\ Shas(B, "evidence_index") = Shas(C, "evidence_index")
         /\ Shas(B, "recording_summary") = Shas(C, "recording_summary")
<1>1. \A D \in {B, C} : \A d \in Run(D).domains :
        Subject(D, "evidence_index", d).of = Transport(D).traces[d].index
  <2>1. \A D \in {B, C} : TracesHold(D)
    BY DEF Valid, BindingsHold, TransportHolds
  <2> QED BY <2>1, SubjectIs DEF TracesHold, Labeled
<1>2. /\ Shas(B, "evidence_index") = Shas(C, "evidence_index")
      /\ \A d \in Run(B).domains : IndexOf(B, d) = IndexOf(C, d)
  BY <1>1, SameTransport, SameSubjects DEF Labeled, IndexOf
<1>3. UNION {IndexOf(B, d).artifacts : d \in Labels(B, "evidence_index")}
        = UNION {IndexOf(C, d).artifacts : d \in Labels(C, "evidence_index")}
  <2>1. /\ Labels(B, "evidence_index") = Run(B).domains
        /\ Labels(C, "evidence_index") = Run(B).domains
    BY SubjectIs DEF Labeled
  <2> QED BY <1>2, <2>1
<1> DEFINE Datasets(D) == {any \in Of(D, "dataset_manifest") : any.of = Scenario(D).dataset}
<1>4. \A s \in Datasets(B) : \E t \in Datasets(C) : s.doc = t.doc
  BY DigestFindsSame DEF Shas
<1>5. \A s \in Datasets(C) : \E t \in Datasets(B) : s.doc = t.doc
  BY DigestFindsSame DEF Shas
<1>6. UNION {{[of |-> m.summary, source |-> m.recording] : m \in s.doc.members} : s \in Datasets(B)}
        = UNION {{[of |-> m.summary, source |-> m.recording] : m \in s.doc.members} :
                   s \in Datasets(C)}
  BY <1>4, <1>5
<1>7. SummaryReferences(B) = SummaryReferences(C)
  BY <1>3, <1>6 DEF SummaryReferences
<1>8. Shas(B, "recording_summary") = Shas(C, "recording_summary")
  BY <1>7 DEF Valid, BindingsHold, RecordingsHold
<1> QED BY <1>2, <1>8

LEMMA ValidIsFixed ==
  ASSUME NEW B \in SUBSET Subjects, Valid(B), NEW C \in SUBSET Subjects, Valid(C),
         Of(B, "acceptance_aggregate") \subseteq C, NEW kind \in FixedKinds(B)
  PROVE  Shas(B, kind) = Shas(C, kind)
<1>1. /\ Aggregate(B) = Aggregate(C) /\ Run(B) = Run(C) /\ Scenario(B) = Scenario(C)
      /\ Shas(B, "acceptance_run") = Shas(C, "acceptance_run")
      /\ Shas(B, "scenario") = Shas(C, "scenario")
  BY SameContext
<1>2. /\ Shas(B, "domain_result") = Shas(C, "domain_result")
      /\ Shas(B, "runtime_manifest") = Shas(C, "runtime_manifest")
      /\ \A d \in Run(B).domains : Result(B, d) = Result(C, d) /\ Runtime(B, d) = Runtime(C, d)
  BY <1>1, SameResults
<1>3. ReceiptsUsed(B) = ReceiptsUsed(C)
  <2>1. UNION {Result(B, d).evidence : d \in Run(B).domains}
          = UNION {Result(C, d).evidence : d \in Run(C).domains}
    BY <1>1, <1>2
  <2> QED BY <1>1, <2>1, ReceiptsNamed
<1>4. /\ Shas(B, "artifact_receipt") = Shas(C, "artifact_receipt")
      /\ Shas(B, "artifact_verification") = Shas(C, "artifact_verification")
  BY <1>3, SameReceipts
<1>5. \A k \in {"qualification_profile", "provider_conformance", "model_manifest",
                 "dataset_manifest", "execution_permit", "execution_verification"} :
        Shas(B, k) = Shas(C, k)
  BY <1>1, <1>2, SameBindings
<1>6. \A k \in TransportSources \cup {"transport_qualification"} : Shas(B, k) = Shas(C, k)
  BY <1>1, SameTransport
<1>7. Aggregate(B).transport # None =>
        /\ Shas(B, "evidence_index") = Shas(C, "evidence_index")
        /\ Shas(B, "recording_summary") = Shas(C, "recording_summary")
  BY <1>1, <1>5, SameSummaries
<1> QED BY <1>1, <1>2, <1>4, <1>5, <1>6, <1>7 DEF FixedKinds

\* Of two accepted bundles with the same aggregate, none holds a contract
\* document that the other does not (the used and supplied subjects of
\* _qualification.py), for any subjects whose digests identify them.
THEOREM BundleIsFixed == QualificationSpec => []AggregateFixesBundle
<1>1. QualificationInv => AggregateFixesBundle
  BY ValidIsFixed DEF QualificationInv, AggregateFixesBundle
<1> QED BY <1>1, QualificationInvariance, PTL
-----------------------------------------------------------------------------
(***************************************************************************)
(* Evaluators: the code of a verified suite.                               *)
(***************************************************************************)

(***************************************************************************)
(* The inductive invariant.                                                *)
(***************************************************************************)

IsEvaluation(e) ==
  /\ e = [phase |-> e.phase, suite |-> e.suite, k |-> e.k,
          inside |-> e.inside, asked |-> e.asked, stack |-> e.stack]
  /\ e.inside \in BOOLEAN

\* The shape of sys.modules and of an evaluation.
EvaluatorsTypeOK ==
  /\ loaded = [m \in Modules |-> loaded[m]]
  /\ finders \in {0, 1}
  /\ IsEvaluation(evaluation)

\* The finder is installed just while an evaluator is loaded or runs.
FinderInv ==
  /\ finders = IF evaluation.inside THEN 1 ELSE 0
  /\ evaluation.inside => evaluation.phase \in {"load", "evaluate"}

\* Then every owned module has verified bytes: those found on entering and
\* those the finder has served since.
VerifiedInv ==
  evaluation.inside =>
    \A m \in Modules :
      m \in Owned(evaluation.suite) /\ loaded[m] # NotLoaded =>
        loaded[m].bytes \in SourcesOf(evaluation.suite, <<loaded[m].place, m>>)

EvaluatorsInv == EvaluatorsTypeOK /\ FinderInv /\ VerifiedInv
-----------------------------------------------------------------------------
\* What the finder serves for an owned module are bytes verified for its file.
LEMMA ServedIsVerified ==
  ASSUME NEW s, NEW m \in Owned(s), finders = 1, FindSpec(s, m) # NotLoaded
  PROVE  FindSpec(s, m).bytes \in SourcesOf(s, <<FindSpec(s, m).place, m>>)
<1> DEFINE at == FoundAt(m, Package(m))
           b == CHOOSE c \in SourcesOf(s, <<at, m>>) : TRUE
<1>1. at # "none" /\ SourcesOf(s, <<at, m>>) # {}
      /\ FindSpec(s, m) = [place |-> at, bytes |-> b, verified |-> TRUE]
  BY DEF FindSpec
<1>2. b \in SourcesOf(s, <<at, m>>)
  BY <1>1
<1>3. FindSpec(s, m).bytes = b /\ FindSpec(s, m).place = at
  BY <1>1
<1> QED
  BY <1>2, <1>3

LEMMA OwnedAreModules ==
  ASSUME NEW s PROVE Owned(s) \subseteq Modules
BY DEF Owned

LEMMA EvaluatorsInitHolds == EvaluatorsInit => EvaluatorsInv
<1> SUFFICES ASSUME EvaluatorsInit PROVE EvaluatorsInv
  OBVIOUS
<1>1. loaded = [m \in Modules |-> NotLoaded] /\ finders = 0
      /\ evaluation = [phase |-> "rest", suite |-> CHOOSE s \in Suites : TRUE, k |-> 0,
                       inside |-> FALSE, asked |-> <<>>, stack |-> {}]
  BY DEF EvaluatorsInit, Resting
<1>2. EvaluatorsTypeOK
  BY <1>1 DEF EvaluatorsTypeOK, IsEvaluation
<1> QED
  BY <1>1, <1>2 DEF EvaluatorsInv, FinderInv, VerifiedInv

LEMMA RefusalShape == IsEvaluation(Refusal) /\ ~Refusal.inside
<1> DEFINE suite == CHOOSE s \in Suites : TRUE
<1> HIDE DEF suite
<1>1. Resting = [phase |-> "rest", suite |-> suite, k |-> 0,
                 inside |-> FALSE, asked |-> <<>>, stack |-> {}]
  BY DEF Resting, suite
<1>2. IsEvaluation(Resting) /\ ~Resting.inside
  BY <1>1 DEF IsEvaluation
<1>3. ASSUME NEW e, IsEvaluation(e), ~e.inside, NEW phase
      PROVE  IsEvaluation([e EXCEPT !.phase = phase]) /\ ~[e EXCEPT !.phase = phase].inside
  BY <1>3 DEF IsEvaluation
<1> QED
  BY <1>2, <1>3 DEF Refusal

\* Every step keeps the shape.
LEMMA ShapeIsKept == EvaluatorsInv /\ [EvaluatorsNext]_evaluatorVars => EvaluatorsTypeOK' /\ FinderInv'
<1> SUFFICES ASSUME EvaluatorsInv, [EvaluatorsNext]_evaluatorVars PROVE EvaluatorsTypeOK' /\ FinderInv'
  OBVIOUS
<1> USE DEF EvaluatorsInv, EvaluatorsTypeOK, FinderInv
<1>a. IsEvaluation(Refusal) /\ ~Refusal.inside
  BY RefusalShape
<1>1. CASE Begin
  BY <1>1, <1>a DEF Begin, Resting, IsEvaluation
<1>2. CASE EnterImports
  <2> DEFINE module == evaluation.suite.required[evaluation.k].module
             asked == IF evaluation.phase = "load" THEN <<module>> ELSE LateImportsOf[module]
  <2> HIDE DEF asked
  <2>1. CASE finders' = finders + 1 /\ loaded' = loaded /\ ~evaluation.inside
             /\ evaluation.phase \in {"load", "evaluate"}
             /\ evaluation' = [evaluation EXCEPT !.inside = TRUE, !.asked = asked]
    <3>1. IsEvaluation(evaluation') /\ evaluation'.inside /\ evaluation'.phase = evaluation.phase
      BY <2>1 DEF IsEvaluation
    <3> QED
      BY <3>1, <2>1
  <2>2. CASE evaluation' = Refusal /\ finders' = finders /\ loaded' = loaded /\ ~evaluation.inside
    BY <2>2, <1>a
  <2> QED
    BY <1>2, <2>1, <2>2 DEF EnterImports, asked
<1>3. CASE Import
  <2>1. CASE evaluation' = Refusal /\ finders' = finders - 1
             /\ loaded' = Unloaded(evaluation.stack) /\ evaluation.inside
    BY <2>1, <1>a DEF Unloaded
  <2>2. CASE /\ evaluation.inside /\ finders' = finders
             /\ \E asked, stack :
                  evaluation' = [evaluation EXCEPT !.asked = asked, !.stack = stack]
             /\ loaded' = loaded \/ \E m, found : loaded' = [loaded EXCEPT ![m] = found]
    <3>1. IsEvaluation(evaluation') /\ evaluation'.inside /\ evaluation'.phase = evaluation.phase
      BY <2>2 DEF IsEvaluation
    <3>2. loaded' = [m \in Modules |-> loaded'[m]]
      BY <2>2
    <3> QED
      BY <3>1, <3>2, <2>2
  <2> QED
    BY <1>3, <2>1, <2>2 DEF Import, Exit
<1>4. CASE Leave
  <2>1. CASE evaluation' = Refusal
    BY <1>4, <2>1, <1>a DEF Leave, Exit
  <2>2. CASE evaluation' # Refusal
    <3>1. \E k, phase : evaluation' = [evaluation EXCEPT !.inside = FALSE, !.k = k, !.phase = phase]
      BY <1>4, <2>2 DEF Leave, Exit
    <3>2. IsEvaluation(evaluation') /\ ~evaluation'.inside
      BY <3>1 DEF IsEvaluation
    <3> QED
      BY <1>4, <3>2 DEF Leave, Exit
  <2> QED
    BY <2>1, <2>2
<1>5. CASE WriteFile
  BY <1>5 DEF WriteFile
<1>6. CASE ImportElsewhere
  BY <1>6 DEF ImportElsewhere
<1>7. CASE UNCHANGED evaluatorVars
  BY <1>7 DEF evaluatorVars
<1> QED
  BY <1>1, <1>2, <1>3, <1>4, <1>5, <1>6, <1>7 DEF EvaluatorsNext

\* Owned modules and sources are those of the suite: no step changes them.
LEMMA VerifiedIsKept == EvaluatorsInv /\ [EvaluatorsNext]_evaluatorVars => VerifiedInv'
<1> SUFFICES ASSUME EvaluatorsInv, [EvaluatorsNext]_evaluatorVars, evaluation'.inside,
                    NEW m \in Modules, m \in Owned(evaluation'.suite), loaded'[m] # NotLoaded
             PROVE  loaded'[m].bytes \in SourcesOf(evaluation'.suite, <<loaded'[m].place, m>>)
  BY DEF VerifiedInv, Owned, SourcesOf, Admissions, NotLoaded
<1>1. ~Begin /\ ~Leave /\ ~ImportElsewhere
  BY ShapeIsKept DEF EvaluatorsInv, EvaluatorsTypeOK, FinderInv, IsEvaluation, Begin, Leave, ImportElsewhere, Exit, Resting, Refusal
<1>2. CASE EnterImports
  <2>1. evaluation'.suite = evaluation.suite /\ loaded' = loaded
    BY <1>2 DEF EnterImports, Refusal, Resting, EvaluatorsInv, EvaluatorsTypeOK, IsEvaluation
  <2>2. \A n \in Owned(evaluation.suite) :
          loaded[n] # NotLoaded => LoadedIsVerified(evaluation.suite, n)
    BY <1>2 DEF EnterImports, Refusal, Resting, EvaluatorsInv, EvaluatorsTypeOK, IsEvaluation
  <2> QED
    BY <2>1, <2>2 DEF LoadedIsVerified
<1>3. CASE Import
  <2>1. evaluation.inside /\ evaluation'.suite = evaluation.suite /\ finders = 1
    BY <1>3 DEF Import, Exit, Refusal, Resting, EvaluatorsInv, EvaluatorsTypeOK, IsEvaluation, FinderInv
  <2>2. CASE loaded' = loaded
    BY <2>1, <2>2 DEF EvaluatorsInv, VerifiedInv
  <2>3. CASE loaded' # loaded
    <3>1. PICK n : /\ FindSpec(evaluation.suite, n) # NotLoaded
                   /\ loaded' = [loaded EXCEPT ![n] = FindSpec(evaluation.suite, n)]
      BY <1>3, <2>3 DEF Import, Exit, Refusal, Resting
    <3>2. CASE m = n
      <4>1. loaded'[m] = FindSpec(evaluation.suite, m)
        BY <3>1, <3>2 DEF EvaluatorsInv, EvaluatorsTypeOK
      <4> QED
        BY <4>1, <3>1, <3>2, <2>1, ServedIsVerified
    <3>3. CASE m # n
      <4>1. loaded'[m] = loaded[m]
        BY <3>1, <3>3 DEF EvaluatorsInv, EvaluatorsTypeOK
      <4> QED
        BY <4>1, <2>1 DEF EvaluatorsInv, VerifiedInv
    <3> QED
      BY <3>2, <3>3
  <2> QED
    BY <2>2, <2>3
<1>4. CASE WriteFile
  BY <1>4 DEF WriteFile, EvaluatorsInv, VerifiedInv
<1>5. CASE UNCHANGED evaluatorVars
  BY <1>5 DEF evaluatorVars, EvaluatorsInv, VerifiedInv
<1> QED
  BY <1>1, <1>2, <1>3, <1>4, <1>5 DEF EvaluatorsNext

\* Verified bytes are the sources of a wheel this evaluation admitted.
LEMMA InvariantSuffices == EvaluatorsInv => OnlyVerifiedCodeRuns
<1> SUFFICES ASSUME EvaluatorsInv PROVE OnlyVerifiedCodeRuns
  OBVIOUS
<1>1. CASE ~evaluation.inside
  BY <1>1 DEF EvaluatorsInv, FinderInv, OnlyVerifiedCodeRuns
<1>2. CASE evaluation.inside
  <2> SUFFICES ASSUME NEW m \in Owned(evaluation.suite), loaded[m] # NotLoaded
               PROVE  \E a \in evaluation.suite.admitted :
                        <<loaded[m].place, m>> \in a.sources /\ loaded[m].bytes = a.version
    BY <1>2 DEF OnlyVerifiedCodeRuns
  <2>1. loaded[m].bytes \in SourcesOf(evaluation.suite, <<loaded[m].place, m>>)
    BY <1>2, OwnedAreModules DEF EvaluatorsInv, VerifiedInv
  <2> QED
    BY <2>1 DEF SourcesOf, Admissions
<1> QED
  BY <1>1, <1>2

\* While an evaluator is loaded or runs, every module under the roots of the
\* qualified wheels is code of a wheel this evaluation admitted, whatever was
\* written, hidden or imported before; outside no import is redirected
\* (evaluation.py 99-247 and 353-363).
THEOREM VerifiedCodeOnly == EvaluatorsSpec => []OnlyVerifiedCodeRuns
<1>1. EvaluatorsInit => EvaluatorsInv
  BY EvaluatorsInitHolds
<1>2. EvaluatorsInv /\ [EvaluatorsNext]_evaluatorVars => EvaluatorsInv'
  BY ShapeIsKept, VerifiedIsKept DEF EvaluatorsInv
<1>3. EvaluatorsInv => OnlyVerifiedCodeRuns
  BY InvariantSuffices
<1> QED
  BY <1>1, <1>2, <1>3, PTL DEF EvaluatorsSpec
=============================================================================
