------------------------- MODULE MCLiveVerification -------------------------
(***************************************************************************)
(* Small instances of LiveVerification for TLC.                            *)
(***************************************************************************)
EXTENDS LiveVerification, TLC

\* A topic without a message is given up before the readiness timeout, a
\* lifecycle node is not, and asks for more stability than the scenario.
TopicTwo == [k \in Topic |-> 2]
NodeThree == [n \in Node |-> 3]
NodeTwo == [n \in Node |-> 2]

\* None, or a passed assertion alone or with one that failed or was skipped;
\* errors come from the graph and the time authority.
Evaluation == {{}} \cup {{"passed", s} : s \in {"passed", "failed", "skipped"}}
TwoEvaluations == {{"passed"}, {"failed"}}

\* The live or the offline processes, the others killed before they began: they
\* share only the evidence index.
InitApart ==
  /\ \E S \in {Live, Offline} :
       pc = [p \in Proc |-> IF p \in S THEN "begin" ELSE "killed"]
  /\ clock = [p \in Proc |-> 0] /\ observer = [p \in Proc |-> "none"]
  /\ firstReady = [p \in Proc |-> None] /\ stable = [p \in Proc |-> 0]
  /\ issues = [p \in Proc |-> {}] /\ sampled = [p \in Proc |-> FALSE]
  /\ violations = [p \in Proc |-> {}]
  /\ lastIssue = [p \in Proc |-> None] /\ seen = [p \in Proc |-> {}]
  /\ findings = [p \in Proc |-> None] /\ status = [p \in Proc |-> "none"]
  /\ written = [p \in Proc |-> {}] /\ why = [p \in Proc |-> "none"]
  /\ marker \in BOOLEAN /\ creator = None /\ index = "missing"

FairSpecApart ==
  InitApart /\ [][Next]_vars /\ WF_vars(\E p \in Proc : Go(p))

Symmetry == Permutations(Live)
=============================================================================
