-------------------------- MODULE LiveVerification --------------------------
(***************************************************************************)
(* The acceptance run of the harness: run_verification with                *)
(* wait_for_readiness, the graph monitors, _wait_for_evidence and the      *)
(* report, and evaluate_from_evidence (packages/harness/...: application,  *)
(* readiness, graph_window, forbidden_graph and result).                   *)
(*                                                                         *)
(* Several processes may be started on one completion marker.  Each has    *)
(* its monotonic clock, counted from the start of the wait it is in; they  *)
(* share nothing but files.  A poll of a loop is one step, and the calls   *)
(* it makes (snapshot, load, sleep) take any time up to MaxLag, so that    *)
(* deadlines are missed.  What a snapshot shows and what the evaluators    *)
(* find is the environment's choice.                                       *)
(***************************************************************************)
EXTENDS Verdict

CONSTANTS
  Live,             \* processes of run_verification
  Offline,          \* processes of evaluate_from_evidence
  Topic, Endpoint, Node, \* the expected graph: topics, services and actions,
                         \* lifecycle nodes
  FirstMessageTimeout, NodeTimeout, NodeStable,  \* declared for each of them
  Forbidden,        \* names of the forbidden graph
  ReadyTimeout, StableFor, ExecutionTime, ShutdownTimeout,
  Poll,             \* poll_interval_sec
  Physical,         \* the target environment is hil or real_robot
  Evaluations,      \* what evaluate_acceptance may return
  MaxLag,           \* bound of the model: the longest delay of a call
  None

Proc == Live \cup Offline

ASSUME ProcessAssumption == Live \cap Offline = {} /\ None \notin Proc
ASSUME TimeAssumption ==
  /\ FirstMessageTimeout \in [Topic -> Nat]
  /\ NodeTimeout \in [Node -> Nat] /\ NodeStable \in [Node -> Nat]
  /\ {ReadyTimeout, StableFor, ShutdownTimeout, MaxLag} \subseteq Nat
  /\ ExecutionTime \in Nat \ {0} /\ Poll \in Nat \ {0}
  /\ None \notin Nat
ASSUME EvaluationAssumption ==
  Physical \in BOOLEAN /\ Evaluations \subseteq SUBSET AssertionStatuses

VARIABLES
  pc, clock,
  observer,    \* the ROS observer: "none", "open", "closed" or "stuck"
  firstReady,  \* wait_for_readiness: first_ready_at_ns
  stable,      \* ReadinessResult.stable_for_sec
  issues,      \* ExpectedGraphMonitor._issues
  sampled,     \* ExpectedGraphMonitor._samples > 0
  violations,  \* ForbiddenGraphMonitor._violations
  findings, status,  \* the result that was built
  written,     \* files of the result that are on disk
  marker,      \* measurement_complete exists
  index,       \* external: the evidence index
  \* auxiliary: what really happened
  creator,     \* the process that created the marker
  lastIssue,   \* when the readiness wait last saw an issue
  seen,        \* what the snapshots so far have shown
  why          \* why a process failed

loopVars == <<firstReady, stable, issues, sampled, violations, lastIssue, seen>>
resultVars == <<findings, status, written>>
fileVars == <<marker, creator, index>>
vars == <<pc, clock, observer, loopVars, resultVars, fileVars, why>>

Expected == Topic \cup Endpoint \cup Node
Issue == Expected \X {"failed", "error"}

Attached == {"ready", "start", "measure"}
Reporting == {"evidence", "evaluate", "result", "junit"}
Ended == {"done", "failed", "killed"}

TypeOK ==
  /\ pc \in [Proc -> {"begin", "close", "abort", "mark"} \cup Attached
                       \cup Reporting \cup Ended]
  /\ clock \in [Proc -> Nat]
  /\ observer \in [Proc -> {"none", "open", "closed", "stuck"}]
  /\ firstReady \in [Proc -> Nat \cup {None}]
  /\ lastIssue \in [Proc -> Nat \cup {None}]
  /\ stable \in [Proc -> Nat]
  /\ issues \in [Proc -> SUBSET Issue]
  /\ sampled \in [Proc -> BOOLEAN]
  /\ violations \in [Proc -> SUBSET Forbidden]
  /\ seen \in [Proc -> SUBSET {"sample", "issue", "forbidden"}]
  /\ findings \in [Proc -> Findings \cup {None}]
  /\ status \in [Proc -> Statuses \cup {"none"}]
  /\ written \in [Proc -> SUBSET {"result", "junit"}]
  /\ why \in [Proc -> {"none", "raised", "unready", "marker", "evidence",
                       "refused"}]
  /\ marker \in BOOLEAN /\ creator \in Proc \cup {None}
  /\ index \in {"missing", "partial", "final"}

Init ==
  /\ pc = [p \in Proc |-> "begin"] /\ clock = [p \in Proc |-> 0]
  /\ observer = [p \in Proc |-> "none"]
  /\ firstReady = [p \in Proc |-> None] /\ stable = [p \in Proc |-> 0]
  /\ issues = [p \in Proc |-> {}] /\ sampled = [p \in Proc |-> FALSE]
  /\ violations = [p \in Proc |-> {}]
  /\ lastIssue = [p \in Proc |-> None] /\ seen = [p \in Proc |-> {}]
  /\ findings = [p \in Proc |-> None] /\ status = [p \in Proc |-> "none"]
  /\ written = [p \in Proc |-> {}] /\ why = [p \in Proc |-> "none"]
  /\ marker \in BOOLEAN /\ creator = None /\ index = "missing"

Goto(p, l) == pc' = [pc EXCEPT ![p] = l]

Fail(p, reason) == Goto(p, "failed") /\ why' = [why EXCEPT ![p] = reason]

\* An exception inside the try block: the observer is closed on the way out.
Abort(p, reason) == Goto(p, "abort") /\ why' = [why EXCEPT ![p] = reason]

Earlier(a, b) == IF a < b THEN a ELSE b

StableTime(since, now) == now - since
-----------------------------------------------------------------------------
(***************************************************************************)
(* Snapshots and what evaluate_graph says of them.                         *)
(***************************************************************************)

\* listed: observed at all; fits: type, counts and QoS as declared; heard:
\* a message has arrived.
Snapshot ==
  [topics : [Topic -> [listed : BOOLEAN, fits : BOOLEAN, heard : BOOLEAN]],
   endpoints : [Endpoint -> [listed : BOOLEAN, fits : BOOLEAN]],
   nodes : [Node -> {"absent", "unknown", "other", "required"}],
   forbidden : SUBSET Forbidden]

TopicIssues(s) ==
  {<<k, "failed">> : k \in {k \in Topic : ~s.topics[k].listed \/ ~s.topics[k].fits}}
  \cup
  {<<k, "error">> : k \in {k \in Topic : s.topics[k].listed /\ ~s.topics[k].heard}}

EndpointIssues(s) ==
  {<<e, "failed">> :
     e \in {e \in Endpoint : ~s.endpoints[e].listed \/ ~s.endpoints[e].fits}}

LifecycleIssues(s) ==
  {<<n, "failed">> : n \in {n \in Node : s.nodes[n] \in {"absent", "other"}}}
  \cup
  {<<n, "error">> : n \in {n \in Node : s.nodes[n] = "unknown"}}

EvaluateGraph(s) == TopicIssues(s) \cup EndpointIssues(s) \cup LifecycleIssues(s)

\* _expired_readiness_issues
Expired(s, elapsed) ==
  \/ \E k \in Topic : /\ elapsed >= FirstMessageTimeout[k]
                      /\ ~s.topics[k].listed \/ ~s.topics[k].heard
  \/ \E n \in Node : elapsed >= NodeTimeout[n] /\ s.nodes[n] # "required"

\* At least required_stability.
StableEnough(time) == time >= StableFor /\ \A n \in Node : time >= NodeStable[n]
-----------------------------------------------------------------------------
(***************************************************************************)
(* run_verification.                                                       *)
(***************************************************************************)

\* The marker must not exist; then the observer is attached.
Begin(p) ==
  /\ pc[p] = "begin" /\ p \in Live
  /\ IF marker
     THEN Fail(p, "marker") /\ UNCHANGED observer
     ELSE /\ Goto(p, "ready")
          /\ observer' = [observer EXCEPT ![p] = "open"]
          /\ UNCHANGED why
  /\ UNCHANGED <<clock, loopVars, resultVars, fileVars>>

\* ForbiddenGraphMonitor.observe
ObserveForbidden(p, s) ==
  violations' = [violations EXCEPT ![p] = @ \cup s.forbidden]

ReadySinceFirst(p, s, time) ==
  IF firstReady[p] # None THEN firstReady[p]
  ELSE IF EvaluateGraph(s) # {} THEN None ELSE time

\* first_ready_at_ns after a snapshot evaluated at this time.
ReadySince(p, s, time) ==
  IF EvaluateGraph(s) # {} THEN None
  ELSE IF firstReady[p] = None THEN time ELSE firstReady[p]

\* One iteration of wait_for_readiness with snapshot s, which took `lag`.
ReadyPoll(p, s, lag) ==
  LET now == clock[p] + lag
      since == ReadySince(p, s, now)
      isReady == since # None /\ StableEnough(StableTime(since, now))
  IN
  /\ pc[p] = "ready"
  /\ ObserveForbidden(p, s)
  /\ firstReady' = [firstReady EXCEPT ![p] = since]
  /\ \/ Expired(s, now) /\ Abort(p, "unready") /\ UNCHANGED <<clock, stable>>
     \/ /\ ~Expired(s, now) /\ isReady
        /\ Goto(p, "start") /\ stable' = [stable EXCEPT ![p] = StableTime(since, now)]
        /\ UNCHANGED <<clock, why>>
     \/ /\ ~Expired(s, now) /\ ~isReady /\ now >= ReadyTimeout
        /\ Abort(p, "unready") /\ UNCHANGED <<clock, stable>>
     \/ /\ ~Expired(s, now) /\ ~isReady /\ now < ReadyTimeout
        /\ clock' = [clock EXCEPT ![p] = now + Poll]
        /\ UNCHANGED <<pc, why, stable>>
  /\ lastIssue' = [lastIssue EXCEPT ![p] = IF EvaluateGraph(s) # {} THEN now ELSE @]
  /\ seen' = [seen EXCEPT ![p] = @ \cup {f \in {"forbidden"} : s.forbidden # {}}]
  /\ UNCHANGED <<observer, issues, sampled, resultVars, fileVars>>

\* The clock observation and the measurement window start.
StartMeasurement(p) ==
  /\ pc[p] = "start"
  /\ Goto(p, "measure") /\ clock' = [clock EXCEPT ![p] = 0]
  /\ UNCHANGED <<observer, loopVars, resultVars, fileVars, why>>

\* ExpectedGraphMonitor.observe of a snapshot taken at this time.
ObserveExpected(p, s, at) ==
  IF at < ExecutionTime
  THEN /\ sampled' = [sampled EXCEPT ![p] = TRUE]
       /\ issues' = [issues EXCEPT ![p] = @ \cup EvaluateGraph(s)]
  ELSE UNCHANGED <<sampled, issues>>

\* One iteration of the measurement loop.  The snapshot is taken `gap` after
\* the deadline was checked and takes `lag`.
MeasurePoll(p, s, gap, lag) ==
  LET at == clock[p] + gap
      now == at + lag
  IN
  /\ pc[p] = "measure" /\ clock[p] < ExecutionTime
  /\ ObserveExpected(p, s, at)
  /\ ObserveForbidden(p, s)
  /\ clock' = [clock EXCEPT ![p] =
       IF now < ExecutionTime THEN Earlier(now + Poll, ExecutionTime) ELSE now]
  /\ seen' = [seen EXCEPT ![p] = @ \cup
       {f \in {"sample"} : at < ExecutionTime} \cup
       {f \in {"issue"} : at < ExecutionTime /\ EvaluateGraph(s) # {}} \cup
       {f \in {"forbidden"} : s.forbidden # {}}]
  /\ UNCHANGED <<pc, observer, firstReady, stable, lastIssue, resultVars,
                 fileVars, why>>

\* The window is over: the clock observation stops.
StopMeasurement(p) ==
  /\ pc[p] = "measure" /\ clock[p] >= ExecutionTime
  /\ Goto(p, "close")
  /\ UNCHANGED <<clock, observer, loopVars, resultVars, fileVars, why>>

\* The finally block, after the window or after an exception.
Close(p) ==
  /\ pc[p] \in {"close", "abort"}
  /\ \/ /\ observer' = [observer EXCEPT ![p] = "closed"]
        /\ Goto(p, IF pc[p] = "close" THEN "mark" ELSE "failed")
        /\ UNCHANGED why
     \/ /\ observer' = [observer EXCEPT ![p] = "stuck"]
        /\ Fail(p, "raised")
  /\ UNCHANGED <<clock, loopVars, resultVars, fileVars>>

MarkTwice(p) ==
  /\ pc[p] = "mark"
  /\ marker' = TRUE /\ creator' = p
  /\ Goto(p, "evidence") /\ clock' = [clock EXCEPT ![p] = 0]
  /\ UNCHANGED <<why, observer, loopVars, resultVars, index>>

\* touch(exist_ok=False), and the wait for evidence begins.
Mark(p) ==
  /\ pc[p] = "mark"
  /\ IF marker
     THEN Fail(p, "marker") /\ UNCHANGED <<marker, creator, clock>>
     ELSE /\ marker' = TRUE /\ creator' = p
          /\ Goto(p, "evidence") /\ clock' = [clock EXCEPT ![p] = 0]
          /\ UNCHANGED why
  /\ UNCHANGED <<observer, loopVars, resultVars, index>>

EvidencePollForEver(p, lag) ==
  /\ pc[p] = "evidence"
  /\ IF index = "final"
     THEN Goto(p, "evaluate") /\ UNCHANGED clock
     ELSE /\ clock' = [clock EXCEPT ![p] = Earlier(@ + lag + Poll, ShutdownTimeout)]
          /\ UNCHANGED pc
  /\ UNCHANGED <<why, observer, loopVars, resultVars, fileVars>>

\* One iteration of _wait_for_evidence; loading takes `lag`.
EvidencePoll(p, lag) ==
  LET now == clock[p] + lag IN
  /\ pc[p] = "evidence"
  /\ \/ index = "final" /\ Goto(p, "evaluate") /\ UNCHANGED <<clock, why>>
     \/ /\ index # "final" /\ now >= ShutdownTimeout
        /\ Fail(p, "evidence") /\ UNCHANGED clock
     \/ /\ index # "final" /\ now < ShutdownTimeout
        /\ clock' = [clock EXCEPT ![p] = Earlier(now + Poll, ShutdownTimeout)]
        /\ UNCHANGED <<pc, why>>
  /\ UNCHANGED <<observer, loopVars, resultVars, fileVars>>

GraphStatusesSeen(p) == {i[2] : i \in issues[p]}

\* ExpectedGraphMonitor.assertions: a window without a snapshot is an error.
GraphStatuses(p) ==
  {i[2] : i \in issues[p]} \cup
  {x \in {"error"} : ~sampled[p] /\ Expected # {}}

\* build_acceptance_result with findings o; its validation may refuse them.
Build(p, o) ==
  /\ findings' = [findings EXCEPT ![p] = o]
  /\ status' = [status EXCEPT ![p] = Status(o)]
  /\ IF Accepts(o, Status(o), marker \/ p \in Offline)
     THEN Goto(p, "result") /\ UNCHANGED why
     ELSE Fail(p, "refused")
  /\ UNCHANGED <<clock, observer, loopVars, written, fileVars>>

\* The findings of a live run, given what the evaluators return.
LiveFindings(p, evaluated, timing, authority, hardware, monotonic) ==
  [mode |-> "live", evaluated |-> evaluated, timing |-> timing,
   graph |-> GraphStatuses(p), authority |-> authority,
   forbidden |-> violations[p] # {}, hardware |-> hardware,
   monotonic |-> monotonic]

Evaluate(p) ==
  /\ pc[p] = "evaluate"
  /\ \E evaluated \in Evaluations, authority \in AssertionStatuses,
        timing \in SUBSET {"violation", "insufficient"},
        hardware \in {"none", "within", "outside"}, monotonic \in BOOLEAN :
       LET o == LiveFindings(p, evaluated, timing, authority, hardware, monotonic)
       IN /\ Physical => timing = {} /\ hardware # "none"
          /\ ~Physical => hardware = "none"
          /\ ClockExplained(o)
          /\ Build(p, o)

\* evaluate_from_evidence of a v1 scenario: no graph, no clock.  A physical
\* result without hardware timing is refused as an input.
EvaluateOffline(p) ==
  /\ pc[p] = "begin" /\ p \in Offline
  /\ IF index = "final" /\ ~Physical
     THEN \E evaluated \in Evaluations, authority \in AssertionStatuses :
            Build(p, [mode |-> "offline", evaluated |-> evaluated,
                      timing |-> {}, graph |-> {}, authority |-> authority,
                      forbidden |-> FALSE, hardware |-> "none",
                      monotonic |-> FALSE])
     ELSE /\ Fail(p, "evidence")
          /\ UNCHANGED <<clock, observer, loopVars, resultVars, fileVars>>

\* write_contract_json and write_junit_xml replace their files atomically.
WriteResult(p) ==
  /\ pc[p] = "result"
  /\ written' = [written EXCEPT ![p] = @ \cup {"result"}] /\ Goto(p, "junit")
  /\ UNCHANGED <<clock, observer, loopVars, findings, status, fileVars, why>>

WriteJunit(p) ==
  /\ pc[p] = "junit"
  /\ written' = [written EXCEPT ![p] = @ \cup {"junit"}] /\ Goto(p, "done")
  /\ UNCHANGED <<clock, observer, loopVars, findings, status, fileVars, why>>

\* An exception the state does not explain: a bad document, a dead executor,
\* a full clock buffer, a wall clock moved back, missing metrics, a full disk.
Raise(p) ==
  /\ pc[p] \in {"begin", "mark"} \cup Attached \cup Reporting
  /\ IF pc[p] \in Attached THEN Abort(p, "raised") ELSE Fail(p, "raised")
  /\ UNCHANGED <<clock, observer, loopVars, resultVars, fileVars>>

\* The process is killed.
Kill(p) ==
  /\ pc[p] \notin Ended
  /\ Goto(p, "killed")
  /\ UNCHANGED <<clock, observer, loopVars, resultVars, fileVars, why>>

\* external: the producers write the evidence index, which others may find
\* half written.
WriteIndex ==
  /\ \/ index = "missing" /\ index' = "partial"
     \/ index = "partial" /\ index' = "final"
  /\ UNCHANGED <<pc, clock, observer, loopVars, resultVars, marker, creator, why>>
-----------------------------------------------------------------------------
Lag == 0 .. MaxLag

Go(p) ==
  \/ Begin(p)
  \/ pc[p] = "ready" /\ \E s \in Snapshot, lag \in Lag : ReadyPoll(p, s, lag)
  \/ StartMeasurement(p)
  \/ /\ pc[p] = "measure"
     /\ \E s \in Snapshot, gap \in Lag, lag \in Lag : MeasurePoll(p, s, gap, lag)
  \/ StopMeasurement(p)
  \/ Close(p)
  \/ Mark(p)
  \/ \E lag \in Lag : EvidencePoll(p, lag)
  \/ Evaluate(p)
  \/ EvaluateOffline(p)
  \/ WriteResult(p)
  \/ WriteJunit(p)

Next ==
  \/ \E p \in Proc : Go(p) \/ Raise(p) \/ Kill(p)
  \/ WriteIndex

Spec == Init /\ [][Next]_vars

\* A process that is not killed goes on: its calls return and its sleeps end.
FairSpec == Spec /\ \A p \in Proc : WF_vars(Go(p))
-----------------------------------------------------------------------------
(***************************************************************************)
(* Properties.                                                             *)
(***************************************************************************)

Measured == {"start", "measure", "close", "mark", "done"} \cup Reporting

\* wait_for_readiness lets a measurement start only after one uninterrupted
\* ready window: no snapshot since first_ready_at_ns had an issue, and the
\* window is as long as the scenario and every lifecycle node ask for.
MeasuresOnlyWhenStable ==
  \A p \in Live : pc[p] \in Measured =>
    /\ StableEnough(stable[p]) /\ firstReady[p] # None
    /\ lastIssue[p] # None => lastIssue[p] < firstReady[p]

\* A live result is "passed" only if everything run_verification observed was
\* in order: a stable graph, a snapshot inside the window and none with an
\* issue, no forbidden interface in any snapshot since the observer was
\* attached, all evaluations passed, the observer closed, the marker its own
\* and the evidence final.  An offline result never passes.
PassedIsEarned ==
  \A p \in Proc : status[p] = "passed" =>
    /\ p \in Live /\ creator = p /\ observer[p] = "closed" /\ index = "final"
    /\ StableEnough(stable[p])
    /\ "issue" \notin seen[p] /\ "forbidden" \notin seen[p]
    /\ Expected # {} => "sample" \in seen[p]
    /\ findings[p].evaluated = {"passed"} /\ findings[p].timing = {}
    /\ findings[p].authority = "passed" /\ findings[p].hardware # "outside"

\* A verdict "failed" or "error" has a cause inside the measurement window or
\* in an evaluation: what the graph lacked while it was not ready yet, or
\* after the deadline, never counts.
FailureHasCause ==
  \A p \in Proc : status[p] \in {"failed", "error"} =>
    \/ "issue" \in seen[p] \/ "forbidden" \in seen[p]
    \/ p \in Live /\ Expected # {} /\ "sample" \notin seen[p]
    \/ findings[p].evaluated \cap {"failed", "error"} # {}
    \/ "violation" \in findings[p].timing
    \/ findings[p].authority \in {"failed", "error"}
    \/ findings[p].hardware = "outside"

\* build_acceptance_result never builds a status that its own contract
\* refuses: every verification with evidence gets a result.
NeverRefusesItself == \A p \in Proc : why[p] # "refused"

\* Of the processes started with one completion marker only the one that
\* created it reports, also when the others were past their first check.
OneReportPerMarker == \A p \in Live : written[p] # {} => creator = p

\* Producers that wait for the marker never overlap with an attached
\* observer, and no process that ended by itself has left one attached.
MarkerMeansDetached ==
  /\ creator # None => observer[creator] = "closed"
  /\ \A p \in Proc : pc[p] \in {"done", "failed"} => observer[p] # "open"

\* A marker is the last word on a measurement: one process reports it, and
\* its observer is closed.
MarkerIsFinal == OneReportPerMarker /\ MarkerMeansDetached

\* Every verification ends, whatever the graph and the producers do.
VerificationEnds == \A p \in Proc : <>(pc[p] \in Ended)
=============================================================================
