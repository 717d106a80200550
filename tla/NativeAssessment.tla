--------------------------- MODULE NativeAssessment ---------------------------
(***************************************************************************)
(* Assessments of a recorded native execution, and the archive that holds  *)
(* an original assessment and a new one (packages/harness/.../native,      *)
(* evaluation, evaluator_json; the rules for what they write, which are    *)
(* written once more each, in contracts/.../semantics,                     *)
(* _qualification_native and _qualification_archive).                      *)
(*                                                                         *)
(* An execution leaves an index of evidence [of, kind], where `of` stands  *)
(* for bytes, and an observation.  It is assessed by a method: the one of  *)
(* its scenario or, later, selected controls, which are `marked` when they *)
(* have a version of their own and then run OCI evaluators.  Assertions    *)
(* and namespaces are sequences of names.  All is about one domain, times  *)
(* are left out; no evaluator cites an observation, and the OTLP file is   *)
(* indexed as metrics.                                                     *)
(***************************************************************************)
EXTENDS Verdict, Integers, FiniteSets, Sequences, SequencesExt, Functions

CONSTANTS
  Profiles,       \* [observation -> required | optional | not_applicable]
  Captures,       \* [index, observed, evidence, window] of an execution
  Methods,        \* [marked, selected, metrics, evaluators, calibration]
  Measurements,   \* sets of core rows a metric evaluation may have
  Replies,        \* sets of rows an evaluator may answer
  Windows,        \* <<start, end>> an assessment may ask for
  PolicyRows,     \* the IDs of evaluate_native_evidence_policy
  Recordings,     \* bound of the model: executions
  Assessments     \* bound of the model: results written

VARIABLES
  profile,
  recorded,       \* the executions recorded one after the other
  assessment,     \* _evaluate_native at work
  nativeResults   \* the results written, in this order

nativeVars == <<profile, recorded, assessment, nativeResults>>

NoWork == [phase |-> "idle"]
Bytes(index) == {l.of : l \in index}
OfKind(index, kind) == {l.of : l \in {entry \in index : entry.kind = kind}}
Under(id, namespace) == IsStrictPrefix(namespace, id)
Ids(rows) == {row.id : row \in rows}
Distinct(rows) == Cardinality(Ids(rows)) = Cardinality(rows)
Products(rows) == {row \in rows : row.source = "product"}
Expected(m) == UNION Range(m.evaluators)

\* The method of a scenario selects no calibration, an observation has one of four
\* outcomes, and an evaluator cites evidence that is not the observation.
ASSUME NativeAssumption ==
  /\ Recordings \in Nat \ {0} /\ Assessments \in Nat
  /\ Windows \subseteq Int \X Int
  /\ \A m \in Methods : ~m.selected => m.calibration = {}
  /\ \A c \in Captures :
       /\ IsFiniteSet(c.index)
       /\ \A n \in DOMAIN c.observed :
            c.observed[n] \in {"measured", "unobserved", "invalid", "not_applicable"}
       /\ c.evidence \cap OfKind(c.index, "acceptance_observation") = {}
  /\ \A rows \in Measurements \cup Replies :
       IsFiniteSet(rows) /\ \A row \in rows : row.status \in AssertionStatuses
  /\ \A row \in UNION Measurements : row.source = "core" /\ row.value \in BOOLEAN
  /\ \A row \in UNION Replies :
       /\ row.source = "product"
       /\ \A c \in Captures : row.evidence \cap OfKind(c.index, "acceptance_observation") = {}
-----------------------------------------------------------------------------
(***************************************************************************)
(* Admission of a method, an execution and, for a later assessment, the    *)
(* number of its original result (0 without).                              *)
(***************************************************************************)
ControlsValid(m) ==
  /\ m.metrics \cap PolicyRows = {}
  /\ m.marked =>
       /\ m.metrics \cap Expected(m) = {}
       /\ \A n \in DOMAIN m.evaluators :
            /\ \A id \in m.evaluators[n] : Under(id, n)
            /\ \A o \in DOMAIN m.evaluators \ {n} : m.evaluators[n] \cap m.evaluators[o] = {}
  /\ m.calibration # {} => m.metrics = {} /\ m.evaluators # <<>>

\* The operator's profile names the images of just the declared evaluators.
OperatorFits(m, images) ==
  IF m.marked THEN m.evaluators # <<>> => images = DOMAIN m.evaluators ELSE images = {}

Observed(p, c) ==
  [n \in DOMAIN p |-> IF n \in DOMAIN c.observed THEN c.observed[n]
                      ELSE IF p[n] = "not_applicable" THEN "not_applicable" ELSE "unobserved"]

\* _load_observation: the index names one observation.
ObservationLoads(c) == Cardinality(OfKind(c.index, "acceptance_observation")) = 1

SourceFits(p, c) ==
  /\ DOMAIN c.observed \subseteq DOMAIN p
  /\ c.evidence \subseteq Bytes(c.index)
  /\ \A n \in DOMAIN p : (p[n] = "not_applicable") = (Observed(p, c)[n] = "not_applicable")

WindowFits(m, c, window) ==
  IF c.window = <<>> THEN m.metrics = {}
  ELSE /\ c.window[1] <= window[1] /\ window[1] < window[2] /\ window[2] <= c.window[2]

\* A later assessment whose original may be of another recording.
OriginalIsPlain(m, v, original) ==
  IF original = 0 THEN ~m.selected ELSE m.selected /\ ~nativeResults[original].method.marked

\* A new assessment is of the same recording as its original.
OriginalFits(m, v, original) ==
  IF original = 0 THEN ~m.selected
  ELSE /\ m.selected /\ ~nativeResults[original].method.marked
       /\ nativeResults[original].execution = v

Assess(m, original) ==
  LET v == Len(recorded)
      c == recorded[v]
  IN /\ assessment.phase = "idle" /\ Len(nativeResults) < Assessments
     /\ ControlsValid(m) /\ OriginalFits(m, v, original)
     /\ ObservationLoads(c) /\ SourceFits(profile, c)
     /\ \E images \in SUBSET DOMAIN m.evaluators : OperatorFits(m, images)
     /\ \E window \in Windows, file \in SUBSET OfKind(c.index, "metrics"), core \in Measurements :
          /\ WindowFits(m, c, window)
          /\ Cardinality(file) <= 1
          /\ m.metrics # {} => file # {}
          /\ Ids(core) = m.metrics \cup PolicyRows
          /\ assessment' = [phase |-> "evaluators", method |-> m, execution |-> v, file |-> file,
                            original |-> original, rows |-> core, left |-> DOMAIN m.evaluators,
                            window |-> IF c.window = <<>> THEN <<>> ELSE window]
     /\ UNCHANGED <<profile, recorded, nativeResults>>
-----------------------------------------------------------------------------
(***************************************************************************)
(* The evaluators, one after the other.                                    *)
(***************************************************************************)
\* _validate_product_evaluation
RowValid(m, c, n, row) ==
  /\ row.namespace = n /\ Under(row.id, n)
  /\ row.evidence # {}
  /\ row.evidence \subseteq Bytes(c.index) \cup m.calibration

ReplyValid(m, c, n, reply) ==
  /\ \A row \in reply : RowValid(m, c, n, row)
  /\ m.marked => Distinct(reply) /\ Ids(reply) = m.evaluators[n]

RunEvaluator(n) ==
  LET w == assessment
  IN /\ w.phase = "evaluators" /\ n \in w.left
     /\ \E reply \in Replies :
          assessment' = IF ReplyValid(w.method, recorded[w.execution], n, reply)
                        THEN [w EXCEPT !.rows = @ \cup reply, !.left = @ \ {n}]
                        ELSE NoWork
     /\ UNCHANGED <<profile, recorded, nativeResults>>
-----------------------------------------------------------------------------
(***************************************************************************)
(* The result of work w, under profile p and of capture c.                 *)
(***************************************************************************)
\* _validate_calibration_bindings
Calibrated(w, c) ==
  LET products == Products(w.rows)
  IN \/ w.method.calibration = {}
     \/ products = {} /\ w.method.marked /\ Expected(w.method) # {}
     \/ /\ w.method.calibration \subseteq UNION {row.evidence : row \in products}
        /\ \A row \in products : row.evidence \cap Bytes(c.index) # {}

CriterionEvidence(w, c, row) ==
  IF row.status \notin {"passed", "failed"} THEN {}
  ELSE IF row.source = "product" THEN row.evidence \cap Bytes(c.index)
  ELSE IF row.value THEN w.file ELSE {}

\* The evidence of every criterion, and none when it is uncovered.
CriterionCoverage(w, c) ==
  LET declared == w.method.metrics \cup IF w.method.marked THEN Expected(w.method) ELSE {}
  IN [id \in declared \cup Ids(Products(w.rows)) |->
        UNION {CriterionEvidence(w, c, row) : row \in {any \in w.rows : any.id = id}}]

\* Only assertions make an assessment incomplete.
AssertionsAlone(rows, missing) ==
  {IF row.status = "skipped" THEN "incomplete" ELSE row.status : row \in rows}

AssessmentStatuses(rows, missing) ==
  {IF row.status = "skipped" THEN "incomplete" ELSE row.status : row \in rows}
  \cup {s \in {"incomplete"} : missing # {}}

NativeResult(w, p, c) ==
  LET observations == Observed(p, c)
      evidence == CriterionCoverage(w, c)
      covered == {id \in DOMAIN evidence : evidence[id] # {}}
      unevaluated ==
        {<<"observations", n>> : n \in {m \in DOMAIN p :
             p[m] = "required" /\ observations[m] \in {"unobserved", "invalid"}}}
        \cup {x \in {<<"observations">>} : "measured" \notin Range(observations)}
        \cup {x \in {<<"assertions">>} : w.method.metrics = {} /\ Products(w.rows) = {}}
        \cup {<<"assertions", id>> : id \in DOMAIN evidence \ covered}
        \cup {<<"assertions", row.id>> : row \in {any \in w.rows : any.status = "skipped"}}
  IN [version |-> IF w.method.marked THEN 3 ELSE 2,
      execution |-> w.execution, original |-> w.original, method |-> w.method,
      calibration |-> IF w.method.selected THEN w.method.calibration ELSE {},
      window |-> w.window, observations |-> observations, rows |-> w.rows,
      covered |-> [id \in covered |-> evidence[id]], uncovered |-> DOMAIN evidence \ covered,
      unevaluated |-> unevaluated, status |-> WorstStatus(AssessmentStatuses(w.rows, unevaluated))]

\* _validate_oci_assessment_coverage and _validate_native_assessment_coverage
CoverageAccepted(r, c) ==
  /\ r.method.marked =>
       /\ \A row \in r.rows : row.source = "core" => row.id \notin Expected(r.method)
       /\ \A row \in Products(r.rows) :
            row.namespace \in DOMAIN r.method.evaluators =>
              row.id \in r.method.evaluators[row.namespace]
       /\ Expected(r.method) \subseteq DOMAIN r.covered \cup r.uncovered
       /\ DOMAIN r.covered \cap Expected(r.method) \subseteq Ids(Products(r.rows))
  /\ DOMAIN r.covered \cap r.uncovered = {}
  /\ \A id \in DOMAIN r.covered :
       /\ \E row \in r.rows : row.id = id /\ row.status \in {"passed", "failed"}
       /\ r.covered[id] \subseteq Bytes(c.index)
  /\ \A id \in r.uncovered : <<"assertions", id>> \in r.unevaluated

\* _native_missing_observations, which also refuses what contradicts the profile
ObservationsMissing(r, p) ==
  {<<"observations", n>> : n \in {m \in DOMAIN p :
     p[m] = "required" /\ r.observations[m] \in {"unobserved", "invalid"}}}

ApplicabilityKept(r, p) ==
  \A n \in DOMAIN p :
    (p[n] = "not_applicable") = (r.observations[n] = "not_applicable")

\* _validate_native_assertion_sources
SourcesAccepted(r, c) ==
  \A row \in Products(r.rows) :
    /\ row.namespace \in DOMAIN r.method.evaluators /\ Under(row.id, row.namespace)
    /\ row.evidence \subseteq Bytes(c.index) \cup r.calibration

\* _validate_native_result
NativeAccepted(r, p, c) ==
  LET missing ==
        ObservationsMissing(r, p)
        \cup {x \in {<<"observations">>} : "measured" \notin Range(r.observations)}
        \cup {x \in {<<"assertions">>} :
                \A row \in r.rows : row.source = "core" /\ row.id \in PolicyRows}
        \cup {<<"assertions", row.id>> : row \in {any \in r.rows : any.status = "skipped"}}
        \cup {<<"assertions", id>> : id \in r.uncovered}
  IN /\ CoverageAccepted(r, c) /\ ApplicabilityKept(r, p) /\ Distinct(r.rows)
     /\ r.unevaluated = missing
     /\ r.status = WorstStatus(AssessmentStatuses(r.rows, missing))
     /\ SourcesAccepted(r, c)

\* evaluate_acceptance refuses IDs that occur twice; what does not pass its own
\* validation is not written.
Conclude ==
  LET w == assessment
      c == recorded[w.execution]
      result == NativeResult(w, profile, c)
      accepted == NativeAccepted(result, profile, c)
      fits == Calibrated(w, c) /\ Distinct(w.rows)
  IN /\ w.phase = "evaluators" /\ w.left = {}
     /\ assessment' = IF fits /\ ~accepted THEN [NoWork EXCEPT !.phase = "invalid"]
                      ELSE NoWork
     /\ nativeResults' = IF fits /\ accepted THEN Append(nativeResults, result)
                         ELSE nativeResults
     /\ UNCHANGED <<profile, recorded>>

\* Another execution under the same paths (external).
RecordAgain ==
  /\ Len(recorded) < Recordings
  /\ \E c \in Captures : recorded' = Append(recorded, c)
  /\ UNCHANGED <<profile, assessment, nativeResults>>

NativeInit ==
  /\ profile \in Profiles /\ recorded \in {<<c>> : c \in Captures}
  /\ assessment = NoWork /\ nativeResults = <<>>

NativeNext ==
  \/ \E m \in Methods, original \in 0..Len(nativeResults) : Assess(m, original)
  \/ assessment.phase = "evaluators" /\ \E n \in assessment.left : RunEvaluator(n)
  \/ Conclude \/ RecordAgain

NativeSpec == NativeInit /\ [][NativeNext]_nativeVars
-----------------------------------------------------------------------------
(***************************************************************************)
(* The qualification of a domain of a bundle with execution v.             *)
(***************************************************************************)
\* _method_controls: the captured controls are those of the result's version and
\* calibration.
ControlsQualify(r) ==
  /\ ControlsValid(r.method)
  /\ r.method.marked <=> r.version = 3
  /\ r.calibration = r.method.calibration

\* _resolved_observations: each stands under its declared applicability.
ResolvedFits(p, c) ==
  /\ DOMAIN c.observed \subseteq DOMAIN p
  /\ \A n \in DOMAIN c.observed :
       (p[n] = "not_applicable") = (c.observed[n] = "not_applicable")

\* _domain_window
WindowQualifies(r, c) ==
  IF r.window = <<>> THEN r.method.metrics = {}
  ELSE /\ c.window # <<>> /\ c.window[1] <= r.window[1] /\ r.window[1] < r.window[2]
       /\ r.window[2] <= c.window[2]

\* _domain_assertion_registry
RegistryQualifies(r, c) ==
  /\ Ids(r.rows \ Products(r.rows)) = r.method.metrics \cup PolicyRows
  /\ r.method.marked =>
       DOMAIN r.covered \cup r.uncovered
         \subseteq r.method.metrics \cup PolicyRows \cup Expected(r.method)
  /\ \A row \in Products(r.rows) :
       /\ row.namespace \in DOMAIN r.method.evaluators /\ Under(row.id, row.namespace)
       /\ row.evidence \subseteq Bytes(c.index) \cup r.method.calibration

\* _missing_observation_coverage and _missing_criterion_coverage
Missing(r, p) ==
  {<<"observations", n>> : n \in {m \in DOMAIN p :
     p[m] = "required" /\ r.observations[m] # "measured"}}
  \cup {x \in {<<"observations">>} : "measured" \notin Range(r.observations)}
  \cup {x \in {<<"assertions">>} : r.method.metrics = {} /\ Products(r.rows) = {}}
  \cup {<<"assertions", row.id>> : row \in {any \in r.rows : any.status = "skipped"}}

\* _domain_coverage
CoverageQualifies(r, p, c) ==
  LET missing == Missing(r, p)
  IN /\ ResolvedFits(p, c) /\ r.observations = Observed(p, c) /\ missing \subseteq r.unevaluated
     /\ missing # {} => WorstStatus({r.status, "incomplete"}) = r.status

\* _domain_observation_evidence
ObservationQualifies(c) ==
  /\ Cardinality(OfKind(c.index, "acceptance_observation")) = 1
  /\ c.evidence \subseteq Bytes(c.index) \ OfKind(c.index, "acceptance_observation")

\* _domain_bindings: digests and times tie a result to one execution.
BindingsQualify(r, v) == r.execution = v

Qualifies(r, p, c) ==
  /\ ControlsQualify(r) /\ WindowQualifies(r, c) /\ RegistryQualifies(r, c)
  /\ CoverageQualifies(r, p, c) /\ ObservationQualifies(c)

DomainQualifies(r, v) == BindingsQualify(r, v) /\ Qualifies(r, profile, recorded[v])

Criteria(r) == {row \in r.rows : row.source = "product" \/ row.id \notin PolicyRows}

\* _coverage: each criterion is classified once, by the evidence it has.
Classified(r, c) ==
  LET raw == Bytes(c.index) \ OfKind(c.index, "acceptance_observation")
  IN /\ DOMAIN r.covered \cap r.uncovered = {}
     /\ DOMAIN r.covered \cup r.uncovered
          = Ids(Criteria(r)) \cup IF r.method.marked THEN Expected(r.method) ELSE {}
     /\ DOMAIN r.covered \subseteq Ids(Criteria(r))
     /\ \A row \in Criteria(r) : row.id \in DOMAIN r.covered =>
          /\ r.covered[row.id] # {} /\ row.status # "skipped"
          /\ IF row.source = "product" THEN r.covered[row.id] = row.evidence \cap raw
             ELSE /\ row.value /\ Cardinality(r.covered[row.id]) = 1
                  /\ r.covered[row.id] \subseteq OfKind(c.index, "metrics")

\* _is_original_pair and _result_pair
IsOriginalPair(o, a) ==
  nativeResults[a].original = o /\ nativeResults[o].version = 2

\* _source_binding: another result of the very execution.
SourceBinding(o, a) ==
  a # o /\ nativeResults[a].execution = nativeResults[o].execution

ArchiveAccepts(o, a, v) ==
  /\ IsOriginalPair(o, a) /\ SourceBinding(o, a)
  /\ \A k \in {o, a} :
       DomainQualifies(nativeResults[k], v) /\ Classified(nativeResults[k], recorded[v])
-----------------------------------------------------------------------------
(***************************************************************************)
(* Properties.                                                             *)
(***************************************************************************)
\* The harness never refuses the result of an assessment it has completed, and
\* every result it wrote is one that qualification takes, alone or in an archive
\* with its original, even when the execution was recorded again in between:
\* rules written in three places classify the same criteria alike (native.py
\* 454-605; semantics.py 1422-1561; _qualification_native.py 272-441;
\* _qualification_archive.py 224-307).
NativeResultQualifies ==
  /\ assessment.phase # "invalid"
  /\ \A k \in DOMAIN nativeResults :
       LET r == nativeResults[k]
       IN IF r.original = 0
          THEN DomainQualifies(r, r.execution) /\ Classified(r, recorded[r.execution])
          ELSE ArchiveAccepts(r.original, k, nativeResults[r.original].execution)

\* An assessment passed only if every required observation was measured, and
\* every metric and every expected product assertion of its method passed on
\* bytes that the execution itself left behind: a calibration is no evidence of
\* the execution, and a method that asserts nothing passes nothing
\* (native.py 280-322 and 530-549).
PassedIsCovered ==
  \A k \in DOMAIN nativeResults :
    LET r == nativeResults[k]
        c == recorded[r.execution]
    IN r.status = "passed" =>
         /\ \A n \in DOMAIN profile :
              profile[n] = "required" => n \in DOMAIN c.observed /\ c.observed[n] = "measured"
         /\ Criteria(r) # {}
         /\ \A id \in r.method.metrics \cup IF r.method.marked THEN Expected(r.method) ELSE {} :
              id \in Ids(Criteria(r))
         /\ \A row \in Criteria(r) :
              /\ row.status = "passed"
              /\ IF row.source = "product" THEN row.evidence \cap Bytes(c.index) # {}
                 ELSE row.value /\ OfKind(c.index, "metrics") # {}
=============================================================================
