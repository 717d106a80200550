------------------------------ MODULE Verdict ------------------------------
(***************************************************************************)
(* How the findings of one verification become the status of its result:   *)
(* build_acceptance_result and _result_assertions of                       *)
(* packages/harness/.../result.py, worst_status of                         *)
(* packages/contracts/.../status.py, and the rules by which the contract   *)
(* of acceptance-result.v1 refuses a status (semantics.py and the schema). *)
(*                                                                         *)
(* A result lists assertions; only which statuses occur among them decides *)
(* the verdict, so a list of assertions is the set of their statuses.      *)
(***************************************************************************)
EXTENDS Naturals

Statuses == {"passed", "skipped", "cancelled", "incomplete", "failed", "error"}
AssertionStatuses == {"passed", "skipped", "failed", "error"}

\* The order of OutcomeStatus.
Priority == [passed |-> 0, skipped |-> 1, cancelled |-> 2,
             incomplete |-> 3, failed |-> 4, error |-> 5]

WorstStatus(S) == CHOOSE s \in S : \A x \in S : Priority[x] =< Priority[s]

(***************************************************************************)
(* What a verification found:                                              *)
(*   evaluated  statuses of the assertions of evaluate_acceptance          *)
(*   timing     kinds of issues of the timing evaluation                   *)
(*   graph      statuses of the issues of the expected graph               *)
(*   authority  status of the time-authority evaluation                    *)
(*   forbidden  a forbidden interface was seen                             *)
(*   hardware   the hardware clock: only physical runs have one            *)
(*   monotonic  clock_observation.monotonic                                *)
(***************************************************************************)
Findings ==
  [mode : {"live", "offline"},
   evaluated : SUBSET AssertionStatuses,
   timing : SUBSET {"violation", "insufficient"},
   graph : SUBSET {"failed", "error"},
   authority : AssertionStatuses,
   forbidden : BOOLEAN,
   hardware : {"none", "within", "outside"},
   monotonic : BOOLEAN]

\* hardware_clock_within_policy: time that is not monotonic is out of policy.
HardwareExplained(o) == o.monotonic \/ o.hardware = "outside"

\* A source clock that is not seen to be monotonic is a timing issue.  Offline
\* evaluation has no clock.
ClockExplained(o) ==
  \/ o.mode = "offline"
  \/ IF o.hardware = "none" THEN o.monotonic \/ o.timing # {} ELSE HardwareExplained(o)

\* The assertion "time-policy" that run_verification appends.
TimingAssertion(o) ==
  CASE "violation" \in o.timing -> {"failed"}
    [] o.timing = {"insufficient"} -> {"skipped"}
    [] OTHER -> {}

\* ExpectedGraphMonitor.assertions
GraphAssertion(o) ==
  IF "error" \in o.graph THEN {"error"} ELSE o.graph

Given(o) == o.evaluated \cup TimingAssertion(o) \cup GraphAssertion(o)

\* assertion_results: the time-authority evaluation is appended.
AssertionResults(o) == Given(o) \cup {o.authority}

OfflinePaths == {"clock", "forbidden", "graph", "shutdown"}

UnevaluatedSilently(o) ==
  {u \in OfflinePaths : o.mode = "offline"} \cup
  {u \in {"timing"} : "insufficient" \in o.timing} \cup
  {u \in {"assertions"} : Given(o) = {}} \cup
  {u \in {"authority"} : o.authority \in {"skipped", "error"}}

\* The paths `unevaluated` names, all skipped assertions under one name.
Unevaluated(o) ==
  {u \in OfflinePaths : o.mode = "offline"} \cup
  {u \in {"timing"} : "insufficient" \in o.timing} \cup
  {u \in {"assertions"} : Given(o) = {}} \cup
  {u \in {"authority"} : o.authority \in {"skipped", "error"}} \cup
  {u \in {"skipped"} : "skipped" \in AssertionResults(o)}

CheckUnevaluated(o, path, holds) == IF holds THEN "passed" ELSE "failed"

\* One of the `checks` on an observation of the result.
Check(o, path, holds) ==
  IF path \in Unevaluated(o) THEN "skipped"
  ELSE IF holds THEN "passed" ELSE "failed"

ResultAssertions(o) ==
  AssertionResults(o) \cup
  {Check(o, "forbidden", ~o.forbidden)} \cup
  {Check(o, "hardware", o.hardware = "within") :
     h \in {o.hardware} \ {"none"}} \cup
  {Check(o, "authority", o.authority = "passed")} \cup
  {s \in {"skipped"} : Unevaluated(o) # {}}

Counted(s) == IF s = "skipped" THEN "incomplete" ELSE s

Status(o) == WorstStatus({Counted(s) : s \in ResultAssertions(o)})

\* The status is no better than an assertion, and incomplete for a reason.
StatusAccepted(o, status) ==
  /\ WorstStatus({status} \cup AssertionResults(o)) = status
  /\ status = "incomplete" => Unevaluated(o) # {}

\* Offline, what nobody could observe is declared and no result is complete.
OfflineAccepted(o, status) ==
  o.mode = "offline" => OfflinePaths \subseteq Unevaluated(o) /\ status # "passed"

\* What a passed result must have evaluated and observed; `shutdown` says that
\* all its shutdown facts hold.
PassAccepted(o, shutdown) ==
  /\ Unevaluated(o) = {}
  /\ AssertionResults(o) \subseteq {"passed"}
  /\ ~o.forbidden /\ o.monotonic
  /\ o.hardware # "outside" /\ o.authority = "passed"
  /\ shutdown

\* What validate_document demands of a result with these findings and this
\* status.
Accepts(o, status, shutdown) ==
  /\ StatusAccepted(o, status) /\ OfflineAccepted(o, status)
  /\ status = "passed" => PassAccepted(o, shutdown)
=============================================================================
