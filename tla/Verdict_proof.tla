--------------------------- MODULE Verdict_proof ---------------------------
(***************************************************************************)
(* Proofs about Verdict, for all findings.                                 *)
(***************************************************************************)
EXTENDS Verdict, TLAPS

\* The six statuses and their order.
LEMMA Order ==
  /\ Priority["passed"] = 0 /\ Priority["skipped"] = 1
  /\ Priority["cancelled"] = 2 /\ Priority["incomplete"] = 3
  /\ Priority["failed"] = 4 /\ Priority["error"] = 5
BY DEF Priority

\* worst_status returns one of the statuses, and none of them is worse.
LEMMA WorstStatusIsWorst ==
  ASSUME NEW S \in SUBSET Statuses, S # {}
  PROVE  /\ WorstStatus(S) \in S
         /\ \A x \in S : Priority[x] =< Priority[WorstStatus(S)]
<1>1. \E s \in S : \A x \in S : Priority[x] =< Priority[s]
  <2>1. CASE "error" \in S BY <2>1, Order DEF Statuses
  <2>2. CASE "error" \notin S /\ "failed" \in S
    BY <2>2, Order DEF Statuses
  <2>3. CASE S \cap {"error", "failed"} = {} /\ "incomplete" \in S
    BY <2>3, Order DEF Statuses
  <2>4. CASE S \cap {"error", "failed", "incomplete"} = {} /\ "cancelled" \in S
    BY <2>4, Order DEF Statuses
  <2>5. CASE S \subseteq {"passed", "skipped"} /\ "skipped" \in S
    BY <2>5, Order DEF Statuses
  <2>6. CASE S = {"passed"} BY <2>6, Order
  <2> QED BY <2>1, <2>2, <2>3, <2>4, <2>5, <2>6 DEF Statuses
<1> QED BY <1>1 DEF WorstStatus

LEMMA PriorityIsInjective ==
  \A a, b \in Statuses : Priority[a] = Priority[b] => a = b
BY Order DEF Statuses

\* worst_status is determined by the order: no two statuses share a priority.
LEMMA WorstStatusIs ==
  ASSUME NEW S \in SUBSET Statuses, NEW s \in S,
         \A x \in S : Priority[x] =< Priority[s]
  PROVE  WorstStatus(S) = s
<1>1. /\ WorstStatus(S) \in S
      /\ Priority[s] =< Priority[WorstStatus(S)]
      /\ Priority[WorstStatus(S)] =< Priority[s]
  BY WorstStatusIsWorst
<1>2. \A x \in Statuses : Priority[x] \in Nat
  BY Order DEF Statuses
<1>3. Priority[s] = Priority[WorstStatus(S)]
  BY <1>1, <1>2
<1> QED BY <1>1, <1>3, PriorityIsInjective

\* A further assertion never improves a verdict: worst_status of more
\* statuses is as bad or worse.
THEOREM WorstStatusIsMonotone ==
  \A S, T \in SUBSET Statuses :
    S # {} /\ S \subseteq T => Priority[WorstStatus(S)] =< Priority[WorstStatus(T)]
BY WorstStatusIsWorst

\* What _result_assertions lists is known, and is never empty.
LEMMA ResultAssertionsType ==
  ASSUME NEW o \in Findings
  PROVE  /\ AssertionResults(o) \subseteq AssertionStatuses
         /\ ResultAssertions(o) \subseteq AssertionStatuses
         /\ AssertionResults(o) \subseteq ResultAssertions(o)
         /\ o.authority \in AssertionResults(o)
<1>1. /\ TimingAssertion(o) \subseteq AssertionStatuses
      /\ GraphAssertion(o) \subseteq AssertionStatuses
  BY DEF TimingAssertion, GraphAssertion, Findings, AssertionStatuses
<1>2. AssertionResults(o) \subseteq AssertionStatuses
  BY <1>1 DEF AssertionResults, Given, Findings
<1>3. \A path, holds : Check(o, path, holds) \in AssertionStatuses
  BY DEF Check, AssertionStatuses
<1> QED BY <1>2, <1>3 DEF ResultAssertions, AssertionResults, AssertionStatuses

\* The counted statuses of a result, among which the worst is chosen.
LEMMA CountedType ==
  ASSUME NEW o \in Findings
  PROVE  /\ {Counted(s) : s \in ResultAssertions(o)} \in SUBSET Statuses
         /\ {Counted(s) : s \in ResultAssertions(o)} # {}
         /\ Status(o) \in {"passed", "incomplete", "failed", "error"}
<1> DEFINE C == {Counted(s) : s \in ResultAssertions(o)}
<1>1. C \subseteq {"passed", "incomplete", "failed", "error"}
  BY ResultAssertionsType DEF Counted, AssertionStatuses
<1>2. C # {}
  BY ResultAssertionsType
<1>3. C \in SUBSET Statuses
  BY <1>1 DEF Statuses
<1>4. WorstStatus(C) \in C
  BY <1>2, <1>3, WorstStatusIsWorst
<1> QED BY <1>1, <1>2, <1>3, <1>4 DEF Status

\* The status is at least as bad as any assertion that decides it.
LEMMA StatusBounds ==
  ASSUME NEW o \in Findings, NEW s \in ResultAssertions(o)
  PROVE  Priority[Counted(s)] =< Priority[Status(o)]
BY CountedType, WorstStatusIsWorst DEF Status

\* The status is the counted status of some assertion.
LEMMA StatusComesFrom ==
  ASSUME NEW o \in Findings
  PROVE  \E s \in ResultAssertions(o) : Status(o) = Counted(s)
BY CountedType, WorstStatusIsWorst DEF Status

\* A result passes only if nothing at all was skipped, failed or wrong.
LEMMA PassedAssertions ==
  ASSUME NEW o \in Findings, Status(o) = "passed"
  PROVE  ResultAssertions(o) = {"passed"}
<1>1. \A s \in ResultAssertions(o) : Priority[Counted(s)] =< 0
  BY StatusBounds, Order
<1>2. \A s \in ResultAssertions(o) : s = "passed"
  BY <1>1, ResultAssertionsType, Order DEF Counted, AssertionStatuses
<1> QED BY <1>2, ResultAssertionsType

\* What `passed` means (build_acceptance_result): the live findings are in
\* order, each of them, and every declared check was evaluated.
THEOREM PassedMeaning ==
  \A o \in Findings : Status(o) = "passed" =>
    /\ o.mode = "live" /\ Unevaluated(o) = {}
    /\ o.evaluated = {"passed"} /\ o.timing = {} /\ o.graph = {}
    /\ o.authority = "passed" /\ ~o.forbidden /\ o.hardware # "outside"
<1> SUFFICES ASSUME NEW o \in Findings, Status(o) = "passed"
             PROVE  /\ o.mode = "live" /\ Unevaluated(o) = {}
                    /\ o.evaluated = {"passed"} /\ o.timing = {} /\ o.graph = {}
                    /\ o.authority = "passed" /\ ~o.forbidden
                    /\ o.hardware # "outside"
  OBVIOUS
<1>1. ResultAssertions(o) = {"passed"}
  BY PassedAssertions
<1>2. Unevaluated(o) = {}
  BY <1>1 DEF ResultAssertions
<1>3. o.mode = "live"
  BY <1>2 DEF Unevaluated, OfflinePaths, Findings
<1>4. AssertionResults(o) \subseteq {"passed"}
  BY <1>1, ResultAssertionsType
<1>5. o.authority = "passed" /\ Given(o) \subseteq {"passed"}
  BY <1>4 DEF AssertionResults
<1>6. Given(o) # {}
  BY <1>2 DEF Unevaluated
<1>7. o.timing = {}
  <2>1. TimingAssertion(o) \subseteq {"passed"}
    BY <1>5 DEF Given
  <2>2. "violation" \notin o.timing
    BY <2>1 DEF TimingAssertion
  <2>3. "insufficient" \notin o.timing
    BY <1>2 DEF Unevaluated
  <2> QED BY <2>2, <2>3 DEF Findings
<1>8. o.graph = {}
  BY <1>5 DEF Given, GraphAssertion, Findings
<1>9. o.evaluated = {"passed"}
  BY <1>5, <1>6, <1>7, <1>8 DEF Given, TimingAssertion, GraphAssertion
<1>10. Check(o, "forbidden", ~o.forbidden) = "passed"
  BY <1>1 DEF ResultAssertions
<1>11. ~o.forbidden
  BY <1>10 DEF Check, Findings
<1>12. o.hardware # "outside"
  <2>1. CASE o.hardware = "outside"
    <3>1. Check(o, "hardware", o.hardware = "within") \in ResultAssertions(o)
      BY <2>1 DEF ResultAssertions
    <3>2. Check(o, "hardware", o.hardware = "within") # "passed"
      BY <2>1 DEF Check
    <3> QED BY <1>1, <3>1, <3>2
  <2> QED BY <2>1
<1> QED BY <1>2, <1>3, <1>5, <1>7, <1>8, <1>9, <1>11, <1>12

\* What `failed` and `error` mean: something that was evaluated was wrong.
THEOREM FailureMeaning ==
  \A o \in Findings : Status(o) \in {"failed", "error"} =>
    \/ (o.evaluated \cup {o.authority}) \cap {"failed", "error"} # {}
    \/ "violation" \in o.timing \/ o.graph # {} \/ o.forbidden
    \/ o.hardware = "outside"
<1> SUFFICES ASSUME NEW o \in Findings, Status(o) \in {"failed", "error"},
                    o.evaluated \cap {"failed", "error"} = {},
                    o.authority \notin {"failed", "error"},
                    "violation" \notin o.timing, o.graph = {}, ~o.forbidden,
                    o.hardware # "outside"
             PROVE  FALSE
  OBVIOUS
<1>1. PICK s \in ResultAssertions(o) : Status(o) = Counted(s)
  BY StatusComesFrom
<1>2. s \in {"failed", "error"}
  BY <1>1 DEF Counted
<1>3. TimingAssertion(o) \cap {"failed", "error"} = {}
  BY DEF TimingAssertion
<1>4. GraphAssertion(o) = {}
  BY DEF GraphAssertion
<1>5. s \notin AssertionResults(o)
  BY <1>2, <1>3, <1>4 DEF AssertionResults, Given
<1>6. Check(o, "forbidden", ~o.forbidden) \in {"passed", "skipped"}
  BY DEF Check
<1>7. o.hardware # "none" =>
        Check(o, "hardware", o.hardware = "within") \in {"passed", "skipped"}
  BY DEF Check, Findings
<1>8. Check(o, "authority", o.authority = "passed") \in {"passed", "skipped"}
  BY DEF Check, Unevaluated, Findings, AssertionStatuses
<1> QED BY <1>2, <1>5, <1>6, <1>7, <1>8 DEF ResultAssertions

\* build_acceptance_result never builds a status that validate_document
\* refuses, unless a passed result lacks a shutdown fact.
THEOREM StatusIsAccepted ==
  \A o \in Findings, shutdown \in BOOLEAN :
    ClockExplained(o) /\ (Status(o) = "passed" => shutdown)
      => Accepts(o, Status(o), shutdown)
<1> SUFFICES ASSUME NEW o \in Findings, NEW shutdown \in BOOLEAN,
                    ClockExplained(o), Status(o) = "passed" => shutdown
             PROVE  Accepts(o, Status(o), shutdown)
  OBVIOUS
<1>1. WorstStatus({Status(o)} \cup AssertionResults(o)) = Status(o)
  <2>1. /\ {Status(o)} \cup AssertionResults(o) \in SUBSET Statuses
        /\ Status(o) \in Statuses
    BY CountedType, ResultAssertionsType DEF Statuses, AssertionStatuses
  <2>2. \A s \in AssertionStatuses : Priority[s] =< Priority[Counted(s)]
    BY Order DEF AssertionStatuses, Counted
  <2>3. \A s \in AssertionResults(o) :
          /\ Priority[s] \in Nat /\ Priority[Counted(s)] \in Nat
          /\ Priority[Status(o)] \in Nat
    BY <2>1, ResultAssertionsType, Order DEF AssertionStatuses, Statuses, Counted
  <2>4. \A s \in AssertionResults(o) : Priority[s] =< Priority[Status(o)]
    BY <2>2, <2>3, StatusBounds, ResultAssertionsType
  <2>5. Priority[Status(o)] =< Priority[Status(o)]
    BY <2>1, Order DEF Statuses
  <2> QED BY <2>1, <2>4, <2>5, WorstStatusIs
<1>2. Status(o) = "incomplete" => Unevaluated(o) # {}
  <2> SUFFICES ASSUME Status(o) = "incomplete", Unevaluated(o) = {}
               PROVE  FALSE
    OBVIOUS
  <2>1. PICK s \in ResultAssertions(o) : Counted(s) = "incomplete"
    BY StatusComesFrom
  <2>2. s = "skipped"
    BY <2>1, ResultAssertionsType DEF Counted, AssertionStatuses
  <2>3. s \notin AssertionResults(o)
    BY <2>2 DEF Unevaluated
  <2>4. \A path, holds : Check(o, path, holds) # "skipped"
    BY DEF Check
  <2> QED BY <2>2, <2>3, <2>4 DEF ResultAssertions
<1>3. o.mode = "offline" => OfflinePaths \subseteq Unevaluated(o)
  BY DEF Unevaluated
<1>4. Status(o) = "passed" =>
        /\ o.mode = "live" /\ Unevaluated(o) = {}
        /\ AssertionResults(o) \subseteq {"passed"}
        /\ ~o.forbidden /\ o.monotonic
        /\ o.hardware # "outside" /\ o.authority = "passed"
        /\ shutdown
  <2> HAVE Status(o) = "passed"
  <2>1. AssertionResults(o) \subseteq {"passed"}
    BY PassedAssertions, ResultAssertionsType
  <2> QED BY <2>1, PassedMeaning DEF ClockExplained, HardwareExplained
<1>5. StatusAccepted(o, Status(o)) BY <1>1, <1>2 DEF StatusAccepted
<1>6. OfflineAccepted(o, Status(o)) BY <1>3, <1>4 DEF OfflineAccepted
<1>7. Status(o) = "passed" => PassAccepted(o, shutdown) BY <1>4 DEF PassAccepted
<1> QED BY <1>5, <1>6, <1>7 DEF Accepts
=============================================================================
