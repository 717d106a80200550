----------------------- MODULE LiveVerification_proof -----------------------
(***************************************************************************)
(* Proofs about LiveVerification, for all processes, graphs and times.     *)
(***************************************************************************)
EXTENDS LiveVerification, Verdict_proof

USE DEF loopVars, resultVars, fileVars

(***************************************************************************)
(* The inductive invariant: what holds of each process p.                  *)
(***************************************************************************)

\* Where the observer of a process is.
ObserverInv(p) ==
  /\ pc[p] = "begin" => observer[p] = "none"
  /\ pc[p] \in Attached \cup {"close", "abort"} =>
       observer[p] = "open" /\ p \in Live
  /\ pc[p] \in {"mark", "evidence", "evaluate"} =>
       observer[p] = "closed" /\ p \in Live
  /\ pc[p] \in {"result", "junit", "done"} =>
       IF p \in Live THEN observer[p] = "closed" ELSE observer[p] = "none"
  /\ pc[p] = "failed" => observer[p] # "open"

\* The monitors hold what the snapshots showed.
MonitorInv(p) ==
  /\ "issue" \in seen[p] <=> issues[p] # {}
  /\ "sample" \in seen[p] <=> sampled[p]
  /\ "forbidden" \in seen[p] <=> violations[p] # {}

\* The readiness wait, and what it leaves.
StableInv(p) ==
  /\ pc[p] = "ready" =>
       /\ lastIssue[p] # None => lastIssue[p] < clock[p]
       /\ lastIssue[p] # None /\ firstReady[p] # None =>
            lastIssue[p] < firstReady[p]
  /\ pc[p] = "begin" => lastIssue[p] = None /\ firstReady[p] = None
  /\ p \in Live /\ pc[p] \in Measured =>
       /\ StableEnough(stable[p]) /\ firstReady[p] # None
       /\ lastIssue[p] # None => lastIssue[p] < firstReady[p]

\* Who created the marker.
MarkerInv(p) ==
  /\ creator = p => /\ marker /\ observer[p] = "closed"
                    /\ pc[p] \in Reporting \cup Ended
  /\ p \in Live /\ pc[p] \in Reporting \cup {"done"} => creator = p
  /\ p \in Live /\ written[p] # {} => creator = p

\* What a result was built from; it is not built again.
ResultInv(p) ==
  /\ pc[p] \notin {"junit"} \cup Ended => written[p] = {}
  /\ pc[p] \notin {"result", "junit"} \cup Ended => status[p] = "none"
  /\ pc[p] \in {"evaluate", "result", "junit", "done"} => index = "final"
  /\ status[p] # "none" =>
       /\ findings[p] \in Findings /\ status[p] = Status(findings[p])
       /\ index = "final"
       /\ IF p \in Live
          THEN /\ creator = p /\ StableEnough(stable[p])
               /\ findings[p].mode = "live"
               /\ findings[p].graph = GraphStatuses(p)
               /\ findings[p].forbidden = (violations[p] # {})
          ELSE /\ findings[p].mode = "offline"
               /\ findings[p].graph = {} /\ ~findings[p].forbidden
  /\ why[p] # "refused"

IInv ==
  /\ TypeOK
  /\ \A p \in Proc : /\ ObserverInv(p) /\ MonitorInv(p) /\ StableInv(p)
                     /\ MarkerInv(p) /\ ResultInv(p)
-----------------------------------------------------------------------------
(***************************************************************************)
(* Operators.                                                              *)
(***************************************************************************)

\* evaluate_graph reports issues of the expected graph.
LEMMA EvaluateGraphType ==
  ASSUME NEW s PROVE EvaluateGraph(s) \in SUBSET Issue
BY DEF EvaluateGraph, TopicIssues, EndpointIssues, LifecycleIssues, Issue,
   Expected

\* No graph status means that nothing was wrong in the window.
LEMMA GraphStatusesType ==
  ASSUME TypeOK, NEW p \in Proc
  PROVE  /\ GraphStatuses(p) \in SUBSET {"failed", "error"}
         /\ GraphStatuses(p) = {} <=>
              issues[p] = {} /\ (sampled[p] \/ Expected = {})
<1>1. issues[p] \subseteq Issue
  BY DEF TypeOK
<1>2. \A i \in issues[p] : i[2] \in {"failed", "error"}
  BY <1>1 DEF Issue
<1>3. {i[2] : i \in issues[p]} \in SUBSET {"failed", "error"}
  BY <1>2
<1>4. {i[2] : i \in issues[p]} = {} <=> issues[p] = {}
  OBVIOUS
<1>5. {x \in {"error"} : ~sampled[p] /\ Expected # {}} = {}
        <=> sampled[p] \/ Expected = {}
  OBVIOUS
<1>6. GraphStatuses(p) = {i[2] : i \in issues[p]}
                           \cup {x \in {"error"} : ~sampled[p] /\ Expected # {}}
  BY DEF GraphStatuses
<1>7. GraphStatuses(p) \in SUBSET {"failed", "error"}
  BY <1>3, <1>6
<1>8. GraphStatuses(p) = {} <=> issues[p] = {} /\ (sampled[p] \/ Expected = {})
  BY <1>4, <1>5, <1>6
<1> QED BY <1>7, <1>8

\* The findings of a live run are findings.
LEMMA LiveFindingsType ==
  ASSUME TypeOK, NEW p \in Proc, NEW evaluated \in Evaluations,
         NEW timing \in SUBSET {"violation", "insufficient"},
         NEW authority \in AssertionStatuses,
         NEW hardware \in {"none", "within", "outside"},
         NEW monotonic \in BOOLEAN
  PROVE  /\ LiveFindings(p, evaluated, timing, authority, hardware, monotonic)
              \in Findings
         /\ LiveFindings(p, evaluated, timing, authority, hardware, monotonic).mode
              = "live"
         /\ LiveFindings(p, evaluated, timing, authority, hardware, monotonic).graph
              = GraphStatuses(p)
         /\ LiveFindings(p, evaluated, timing, authority, hardware, monotonic).forbidden
              = (violations[p] # {})
BY GraphStatusesType, EvaluationAssumption DEF LiveFindings, Findings

\* What Build does with findings, whoever made them.
LEMMA BuildType ==
  ASSUME TypeOK, NEW p \in Proc, NEW o \in Findings, Build(p, o)
  PROVE  TypeOK'
<1>1. Status(o) \in Statuses
  BY CountedType DEF Statuses
<1> QED BY <1>1 DEF Build, TypeOK, Goto, Fail, Reporting, Ended
-----------------------------------------------------------------------------
(***************************************************************************)
(* Types.                                                                  *)
(***************************************************************************)

LEMMA TypeStep ==
  ASSUME TypeOK, [Next]_vars PROVE TypeOK'
<1>1. CASE UNCHANGED vars
  BY <1>1 DEF vars, TypeOK
<1>16. CASE WriteIndex
  BY <1>16 DEF TypeOK, WriteIndex
<1> SUFFICES ASSUME NEW p \in Proc, Go(p) \/ Raise(p) \/ Kill(p)
             PROVE  TypeOK'
  BY <1>1, <1>16 DEF Next
<1>2. CASE Begin(p)
  BY <1>2 DEF TypeOK, Begin, Goto, Fail, Attached, Ended
<1>3. ASSUME NEW s \in Snapshot, NEW lag \in Lag, ReadyPoll(p, s, lag)
      PROVE  TypeOK'
  <2> DEFINE now == clock[p] + lag
             since == ReadySince(p, s, now)
  <2>1. now \in Nat /\ now + Poll \in Nat
    BY TimeAssumption DEF TypeOK, Lag
  <2>2. since \in Nat \cup {None}
    BY <2>1 DEF ReadySince, TypeOK
  <2>3. since # None /\ StableEnough(now - since) => now - since \in Nat
    BY <2>1, <2>2, TimeAssumption DEF StableEnough
  <2>4. s.forbidden \in SUBSET Forbidden
    BY DEF Snapshot
  <2>5. violations' \in [Proc -> SUBSET Forbidden]
    BY <1>3, <2>4 DEF ReadyPoll, ObserveForbidden, TypeOK
  <2>6. firstReady' \in [Proc -> Nat \cup {None}]
    BY <1>3, <2>2 DEF ReadyPoll, TypeOK
  <2>7. lastIssue' \in [Proc -> Nat \cup {None}]
    BY <1>3, <2>1 DEF ReadyPoll, TypeOK
  <2>8. seen' \in [Proc -> SUBSET {"sample", "issue", "forbidden"}]
    BY <1>3 DEF ReadyPoll, TypeOK
  <2>9. clock' \in [Proc -> Nat]
    BY <1>3, <2>1 DEF ReadyPoll, TypeOK
  <2>10. stable' \in [Proc -> Nat]
    BY <1>3, <2>2, <2>3 DEF ReadyPoll, StableTime, TypeOK
  <2>11. /\ pc' \in [Proc -> {"begin", "close", "abort", "mark"} \cup Attached
                              \cup Reporting \cup Ended]
         /\ why' \in [Proc -> {"none", "raised", "unready", "marker",
                               "evidence", "refused"}]
    BY <1>3 DEF ReadyPoll, TypeOK, Goto, Abort, Attached
  <2> QED BY <1>3, <2>5, <2>6, <2>7, <2>8, <2>9, <2>10, <2>11
          DEF ReadyPoll, TypeOK
<1>4. CASE StartMeasurement(p)
  BY <1>4 DEF TypeOK, StartMeasurement, Goto, Attached
<1>5. ASSUME NEW s \in Snapshot, NEW gap \in Lag, NEW lag \in Lag,
             MeasurePoll(p, s, gap, lag)
      PROVE  TypeOK'
  <2>1. /\ clock[p] + gap + lag \in Nat
        /\ Earlier(clock[p] + gap + lag + Poll, ExecutionTime) \in Nat
    BY TimeAssumption DEF TypeOK, Lag, Earlier
  <2>2. clock' \in [Proc -> Nat]
    BY <1>5, <2>1 DEF MeasurePoll, TypeOK
  <2>3. violations' \in [Proc -> SUBSET Forbidden]
    BY <1>5 DEF MeasurePoll, ObserveForbidden, TypeOK, Snapshot
  <2>4. issues' \in [Proc -> SUBSET Issue] /\ sampled' \in [Proc -> BOOLEAN]
    <3>1. EvaluateGraph(s) \in SUBSET Issue
      BY EvaluateGraphType
    <3>2. ObserveExpected(p, s, clock[p] + gap)
      BY <1>5 DEF MeasurePoll
    <3>3. /\ issues' = issues \/ issues' = [issues EXCEPT ![p] = @ \cup EvaluateGraph(s)]
          /\ sampled' = sampled \/ sampled' = [sampled EXCEPT ![p] = TRUE]
      BY <3>2 DEF ObserveExpected
    <3>4. issues[p] \cup EvaluateGraph(s) \in SUBSET Issue
      BY <3>1 DEF TypeOK
    <3>5. issues' \in [Proc -> SUBSET Issue]
      BY <3>3, <3>4 DEF TypeOK
    <3>6. sampled' \in [Proc -> BOOLEAN]
      BY <3>3 DEF TypeOK
    <3> QED BY <3>5, <3>6
  <2>5. seen' \in [Proc -> SUBSET {"sample", "issue", "forbidden"}]
    BY <1>5 DEF MeasurePoll, TypeOK
  <2> QED BY <1>5, <2>2, <2>3, <2>4, <2>5 DEF MeasurePoll, TypeOK
<1>6. CASE StopMeasurement(p)
  BY <1>6 DEF TypeOK, StopMeasurement, Goto
<1>7. CASE Close(p)
  BY <1>7 DEF TypeOK, Close, Goto, Fail, Ended
<1>8. CASE Mark(p)
  <2>1. creator' \in Proc \cup {None}
    BY <1>8 DEF Mark, TypeOK
  <2>2. CASE marker
    BY <1>8, <2>1, <2>2 DEF TypeOK, Mark, Goto, Fail, Ended
  <2>3. CASE ~marker
    BY <1>8, <2>1, <2>3 DEF TypeOK, Mark, Goto, Reporting
  <2> QED BY <2>2, <2>3
<1>9. ASSUME NEW lag \in Lag, EvidencePoll(p, lag) PROVE TypeOK'
  <2>1. Earlier(clock[p] + lag + Poll, ShutdownTimeout) \in Nat
    BY TimeAssumption DEF TypeOK, Lag, Earlier
  <2> QED BY <1>9, <2>1 DEF TypeOK, EvidencePoll, Goto, Fail, Reporting, Ended
<1>10. CASE Evaluate(p)
  BY <1>10, BuildType, LiveFindingsType, ZenonT(60) DEF Evaluate
<1>11. CASE EvaluateOffline(p)
  <2>1. ASSUME NEW evaluated \in Evaluations, NEW authority \in AssertionStatuses
        PROVE  [mode |-> "offline", evaluated |-> evaluated, timing |-> {},
                graph |-> {}, authority |-> authority, forbidden |-> FALSE,
                hardware |-> "none", monotonic |-> FALSE] \in Findings
    BY EvaluationAssumption DEF Findings
  <2>2. CASE /\ Fail(p, "evidence")
             /\ UNCHANGED <<clock, observer, loopVars, resultVars, fileVars>>
    BY <2>2 DEF TypeOK, Fail, Goto, Ended
  <2> QED BY <1>11, <2>1, <2>2, BuildType DEF EvaluateOffline
<1>12. CASE WriteResult(p)
  BY <1>12 DEF TypeOK, WriteResult, Goto, Reporting
<1>13. CASE WriteJunit(p)
  BY <1>13 DEF TypeOK, WriteJunit, Goto, Ended
<1>14. CASE Raise(p)
  BY <1>14 DEF TypeOK, Raise, Abort, Fail, Goto, Ended
<1>15. CASE Kill(p)
  BY <1>15 DEF TypeOK, Kill, Goto, Ended
<1> QED BY <1>2, <1>3, <1>4, <1>5, <1>6, <1>7, <1>8, <1>9, <1>10, <1>11,
           <1>12, <1>13, <1>14, <1>15 DEF Go
-----------------------------------------------------------------------------
(***************************************************************************)
(* Each part of the invariant is kept.                                     *)
(***************************************************************************)

\* build_acceptance_result does not refuse its own status when the findings
\* explain the clock and a passed result has its shutdown facts.
LEMMA BuildStep ==
  ASSUME NEW p \in Proc, NEW o \in Findings, marker \in BOOLEAN,
         ClockExplained(o), Status(o) = "passed" => marker, Build(p, o)
  PROVE  /\ pc' = [pc EXCEPT ![p] = "result"]
         /\ findings' = [findings EXCEPT ![p] = o]
         /\ status' = [status EXCEPT ![p] = Status(o)]
         /\ UNCHANGED <<clock, observer, loopVars, written, fileVars, why>>
<1>1. /\ (marker \/ p \in Offline) \in BOOLEAN
      /\ Status(o) = "passed" => (marker \/ p \in Offline)
  OBVIOUS
<1>2. Accepts(o, Status(o), marker \/ p \in Offline)
  BY <1>1, StatusIsAccepted
<1> QED BY <1>2 DEF Build, Goto

\* run_verification builds a result of what its monitors hold.
LEMMA EvaluateStep ==
  ASSUME TypeOK, NEW p \in Proc, marker, Evaluate(p)
  PROVE  /\ pc[p] = "evaluate" /\ pc' = [pc EXCEPT ![p] = "result"]
         /\ UNCHANGED <<clock, observer, loopVars, written, fileVars, why>>
         /\ \E o \in Findings :
              /\ o.mode = "live" /\ o.graph = GraphStatuses(p)
              /\ o.forbidden = (violations[p] # {})
              /\ findings' = [findings EXCEPT ![p] = o]
              /\ status' = [status EXCEPT ![p] = Status(o)]
<1>1. PICK evaluated \in Evaluations, authority \in AssertionStatuses,
           timing \in SUBSET {"violation", "insufficient"},
           hardware \in {"none", "within", "outside"}, monotonic \in BOOLEAN :
        LET o == LiveFindings(p, evaluated, timing, authority, hardware, monotonic)
        IN ClockExplained(o) /\ Build(p, o)
  BY DEF Evaluate
<1> DEFINE o == LiveFindings(p, evaluated, timing, authority, hardware, monotonic)
<1>2. /\ o \in Findings /\ o.mode = "live" /\ o.graph = GraphStatuses(p)
      /\ o.forbidden = (violations[p] # {})
  BY LiveFindingsType
<1>3. ClockExplained(o) /\ Build(p, o)
  BY <1>1
<1>4. pc[p] = "evaluate" /\ marker \in BOOLEAN
  BY DEF Evaluate, TypeOK
<1> HIDE DEF o
<1> QED BY <1>2, <1>3, <1>4, BuildStep

\* evaluate_from_evidence builds a result without a graph, or none.
LEMMA OfflineStep ==
  ASSUME TypeOK, NEW p \in Proc, EvaluateOffline(p)
  PROVE  /\ pc[p] = "begin" /\ p \in Offline
         /\ UNCHANGED <<clock, observer, loopVars, written, fileVars>>
         /\ \/ /\ index = "final" /\ pc' = [pc EXCEPT ![p] = "result"]
               /\ UNCHANGED why
               /\ \E o \in Findings :
                    /\ o.mode = "offline" /\ o.graph = {} /\ ~o.forbidden
                    /\ findings' = [findings EXCEPT ![p] = o]
                    /\ status' = [status EXCEPT ![p] = Status(o)]
            \/ /\ pc' = [pc EXCEPT ![p] = "failed"]
               /\ why' = [why EXCEPT ![p] = "evidence"]
               /\ UNCHANGED resultVars
<1>1. pc[p] = "begin" /\ p \in Offline
  BY DEF EvaluateOffline
<1>2. CASE index = "final" /\ ~Physical
  <2>1. PICK evaluated \in Evaluations, authority \in AssertionStatuses :
          Build(p, [mode |-> "offline", evaluated |-> evaluated,
                    timing |-> {}, graph |-> {}, authority |-> authority,
                    forbidden |-> FALSE, hardware |-> "none",
                    monotonic |-> FALSE])
    BY <1>2 DEF EvaluateOffline
  <2> DEFINE o == [mode |-> "offline", evaluated |-> evaluated,
                   timing |-> {}, graph |-> {}, authority |-> authority,
                   forbidden |-> FALSE, hardware |-> "none",
                   monotonic |-> FALSE]
  <2>2. o \in Findings
    BY EvaluationAssumption DEF Findings
  <2>3. /\ o.mode = "offline" /\ o.graph = {} /\ ~o.forbidden
        /\ ClockExplained(o)
    BY DEF ClockExplained
  <2>4. Status(o) # "passed" /\ marker \in BOOLEAN
    BY <2>2, <2>3, PassedMeaning DEF TypeOK
  <2>5. Build(p, o)
    BY <2>1
  <2> HIDE DEF o
  <2> QED BY <1>1, <1>2, <2>2, <2>3, <2>4, <2>5, BuildStep
<1>3. CASE ~(index = "final" /\ ~Physical)
  BY <1>1, <1>3 DEF EvaluateOffline, Fail, Goto
<1> QED BY <1>2, <1>3

\* The observer is opened once and closed on every way out of the try block.
LEMMA ObserverStep ==
  ASSUME IInv, [Next]_vars, NEW q \in Proc PROVE ObserverInv(q)'
<1>0. TypeOK /\ (\A r \in Proc : ObserverInv(r))
  BY DEF IInv
<1>1. CASE UNCHANGED vars
  BY <1>0, <1>1
     DEF vars, ObserverInv, Proc, Attached, Reporting, Ended
<1>2. CASE WriteIndex
  BY <1>0, <1>2
     DEF TypeOK, WriteIndex,
         ObserverInv, Proc, Attached, Reporting, Ended
<1> SUFFICES ASSUME NEW p \in Proc, Go(p) \/ Raise(p) \/ Kill(p)
             PROVE  ObserverInv(q)'
  BY <1>1, <1>2 DEF Next
<1>3. CASE Begin(p)
  BY <1>0, <1>3
     DEF TypeOK, Begin, Goto, Fail,
         ObserverInv, Proc, Attached, Reporting, Ended
<1>4. CASE \E s \in Snapshot, lag \in Lag : ReadyPoll(p, s, lag)
  BY <1>0, <1>4
     DEF TypeOK, ReadyPoll, Goto, Abort,
         ObserverInv, Proc, Attached, Reporting, Ended
<1>5. CASE StartMeasurement(p)
  BY <1>0, <1>5
     DEF TypeOK, StartMeasurement, Goto,
         ObserverInv, Proc, Attached, Reporting, Ended
<1>6. CASE \E s \in Snapshot, gap \in Lag, lag \in Lag : MeasurePoll(p, s, gap, lag)
  BY <1>0, <1>6
     DEF TypeOK, MeasurePoll,
         ObserverInv, Proc, Attached, Reporting, Ended
<1>7. CASE StopMeasurement(p)
  BY <1>0, <1>7
     DEF TypeOK, StopMeasurement, Goto,
         ObserverInv, Proc, Attached, Reporting, Ended
<1>8. CASE Close(p)
  BY <1>0, <1>8
     DEF TypeOK, Close, Goto, Fail,
         ObserverInv, Proc, Attached, Reporting, Ended
<1>9. CASE Mark(p)
  BY <1>0, <1>9
     DEF TypeOK, Mark, Goto, Fail,
         ObserverInv, Proc, Attached, Reporting, Ended
<1>10. CASE \E lag \in Lag : EvidencePoll(p, lag)
  BY <1>0, <1>10
     DEF TypeOK, EvidencePoll, Goto, Fail,
         ObserverInv, Proc, Attached, Reporting, Ended
<1>11. CASE Evaluate(p)
  BY <1>0, <1>11
     DEF TypeOK, Evaluate, Build, Goto, Fail,
         ObserverInv, Proc, Attached, Reporting, Ended
<1>12. CASE EvaluateOffline(p)
  <2>1. /\ pc[p] = "begin" /\ p \in Offline /\ p \notin Live
        /\ UNCHANGED <<clock, observer, loopVars, written, fileVars>>
    BY <1>12, OfflineStep, ProcessAssumption, <1>0
  <2>2. \/ pc' = [pc EXCEPT ![p] = "result"]
        \/ pc' = [pc EXCEPT ![p] = "failed"]
    BY <1>12, OfflineStep, <1>0
  <2> QED BY <1>0, <2>1, <2>2
          DEF TypeOK, ObserverInv, Proc, Attached, Reporting, Ended
<1>13. CASE WriteResult(p)
  BY <1>0, <1>13
     DEF TypeOK, WriteResult, Goto,
         ObserverInv, Proc, Attached, Reporting, Ended
<1>14. CASE WriteJunit(p)
  BY <1>0, <1>14
     DEF TypeOK, WriteJunit, Goto,
         ObserverInv, Proc, Attached, Reporting, Ended
<1>15. CASE Raise(p)
  BY <1>0, <1>15
     DEF TypeOK, Raise, Goto, Fail, Abort,
         ObserverInv, Proc, Attached, Reporting, Ended
<1>16. CASE Kill(p)
  BY <1>0, <1>16
     DEF TypeOK, Kill, Goto,
         ObserverInv, Proc, Attached, Reporting, Ended
<1> QED BY <1>3, <1>4, <1>5, <1>6, <1>7, <1>8, <1>9, <1>10, <1>11,
           <1>12, <1>13, <1>14, <1>15, <1>16 DEF Go

\* Every snapshot is seen by the monitors as it is.
LEMMA MonitorStep ==
  ASSUME IInv, [Next]_vars, NEW q \in Proc PROVE MonitorInv(q)'
<1>0. TypeOK /\ (\A r \in Proc : MonitorInv(r))
  BY DEF IInv
<1>1. CASE UNCHANGED vars
  BY <1>0, <1>1
     DEF vars, MonitorInv
<1>2. CASE WriteIndex
  BY <1>0, <1>2
     DEF TypeOK, WriteIndex,
         MonitorInv
<1> SUFFICES ASSUME NEW p \in Proc, Go(p) \/ Raise(p) \/ Kill(p)
             PROVE  MonitorInv(q)'
  BY <1>1, <1>2 DEF Next
<1>3. CASE Begin(p)
  BY <1>0, <1>3
     DEF TypeOK, Begin, Goto, Fail,
         MonitorInv
<1>4. ASSUME NEW s \in Snapshot, NEW lag \in Lag, ReadyPoll(p, s, lag)
      PROVE  MonitorInv(q)'
  <2>1. /\ violations' = [violations EXCEPT ![p] = @ \cup s.forbidden]
        /\ seen' = [seen EXCEPT ![p] = @ \cup {f \in {"forbidden"} : s.forbidden # {}}]
        /\ UNCHANGED <<issues, sampled>>
    BY <1>4 DEF ReadyPoll, ObserveForbidden
  <2> QED BY <1>0, <2>1 DEF TypeOK, MonitorInv
<1>5. CASE StartMeasurement(p)
  BY <1>0, <1>5
     DEF TypeOK, StartMeasurement, Goto,
         MonitorInv
<1>6. ASSUME NEW s \in Snapshot, NEW gap \in Lag, NEW lag \in Lag,
             MeasurePoll(p, s, gap, lag)
      PROVE  MonitorInv(q)'
  <2>1. CASE q # p
    BY <1>0, <1>6, <2>1 DEF TypeOK, MeasurePoll, ObserveExpected,
       ObserveForbidden, MonitorInv
  <2>2. CASE q = p
    <3>1. violations'[p] = violations[p] \cup s.forbidden
      BY <1>0, <1>6 DEF TypeOK, MeasurePoll, ObserveForbidden
    <3>2. CASE clock[p] + gap < ExecutionTime
      <4>1. /\ issues'[p] = issues[p] \cup EvaluateGraph(s) /\ sampled'[p]
        BY <1>0, <1>6, <3>2 DEF TypeOK, MeasurePoll, ObserveExpected
      <4>2. seen'[p] = seen[p] \cup {"sample"}
              \cup {f \in {"issue"} : EvaluateGraph(s) # {}}
              \cup {f \in {"forbidden"} : s.forbidden # {}}
        BY <1>0, <1>6, <3>2 DEF TypeOK, MeasurePoll
      <4> QED BY <1>0, <2>2, <3>1, <4>1, <4>2 DEF MonitorInv
    <3>3. CASE ~(clock[p] + gap < ExecutionTime)
      <4>1. issues'[p] = issues[p] /\ sampled'[p] = sampled[p]
        BY <1>6, <3>3 DEF MeasurePoll, ObserveExpected
      <4>2. seen'[p] = seen[p] \cup {f \in {"forbidden"} : s.forbidden # {}}
        BY <1>0, <1>6, <3>3 DEF TypeOK, MeasurePoll
      <4> QED BY <1>0, <2>2, <3>1, <4>1, <4>2 DEF MonitorInv
    <3> QED BY <3>2, <3>3
  <2> QED BY <2>1, <2>2
<1>7. CASE StopMeasurement(p)
  BY <1>0, <1>7
     DEF TypeOK, StopMeasurement, Goto,
         MonitorInv
<1>8. CASE Close(p)
  BY <1>0, <1>8
     DEF TypeOK, Close, Goto, Fail,
         MonitorInv
<1>9. CASE Mark(p)
  BY <1>0, <1>9
     DEF TypeOK, Mark, Goto, Fail,
         MonitorInv
<1>10. CASE \E lag \in Lag : EvidencePoll(p, lag)
  BY <1>0, <1>10
     DEF TypeOK, EvidencePoll, Goto, Fail,
         MonitorInv
<1>11. CASE Evaluate(p)
  BY <1>0, <1>11
     DEF TypeOK, Evaluate, Build, Goto, Fail,
         MonitorInv
<1>12. CASE EvaluateOffline(p)
  BY <1>0, <1>12, ZenonT(60)
     DEF TypeOK, EvaluateOffline, Build, Goto, Fail,
         MonitorInv
<1>13. CASE WriteResult(p)
  BY <1>0, <1>13
     DEF TypeOK, WriteResult, Goto,
         MonitorInv
<1>14. CASE WriteJunit(p)
  BY <1>0, <1>14
     DEF TypeOK, WriteJunit, Goto,
         MonitorInv
<1>15. CASE Raise(p)
  BY <1>0, <1>15
     DEF TypeOK, Raise, Goto, Fail, Abort,
         MonitorInv
<1>16. CASE Kill(p)
  BY <1>0, <1>16
     DEF TypeOK, Kill, Goto,
         MonitorInv
<1> QED BY <1>3, <1>4, <1>5, <1>6, <1>7, <1>8, <1>9, <1>10, <1>11,
           <1>12, <1>13, <1>14, <1>15, <1>16 DEF Go

\* The readiness wait ends only after an uninterrupted stable window.
LEMMA StableStep ==
  ASSUME IInv, [Next]_vars, NEW q \in Proc PROVE StableInv(q)'
<1>0. TypeOK /\ (\A r \in Proc : StableInv(r))
      /\ (\A r \in Proc : ObserverInv(r))
  BY DEF IInv
<1>1. CASE UNCHANGED vars
  BY <1>0, <1>1
     DEF vars, StableInv, Measured, Attached, Reporting, Ended
<1>2. CASE WriteIndex
  BY <1>0, <1>2
     DEF TypeOK, WriteIndex,
         StableInv, Measured, Attached, Reporting, Ended
<1> SUFFICES ASSUME NEW p \in Proc, Go(p) \/ Raise(p) \/ Kill(p)
             PROVE  StableInv(q)'
  BY <1>1, <1>2 DEF Next
<1>3. CASE Begin(p)
  BY <1>0, <1>3
     DEF TypeOK, Begin, Goto, Fail,
         StableInv, Measured, Attached, Reporting, Ended
<1>4. ASSUME NEW s \in Snapshot, NEW lag \in Lag, ReadyPoll(p, s, lag)
      PROVE  StableInv(q)'
  <2> DEFINE now == clock[p] + lag
             since == ReadySince(p, s, now)
  <2>1. CASE q # p
    BY <1>0, <1>4, <2>1 DEF TypeOK, ReadyPoll, Goto, Abort, StableInv,
       Measured, Reporting
  <2>2. CASE q = p
    <3>1. /\ now \in Nat /\ clock[p] =< now /\ clock[p] \in Nat
          /\ now < now + Poll
      BY <1>0, TimeAssumption DEF TypeOK, Lag
    <3>2. /\ firstReady'[p] = since
          /\ lastIssue'[p] = IF EvaluateGraph(s) # {} THEN now ELSE lastIssue[p]
      BY <1>0, <1>4 DEF TypeOK, ReadyPoll
    <3>3. lastIssue'[p] # None /\ firstReady'[p] # None =>
            lastIssue'[p] < firstReady'[p]
      <4>1. lastIssue[p] # None => lastIssue[p] \in Nat
        BY <1>0 DEF TypeOK
      <4> QED BY <1>0, <1>4, <3>1, <3>2, <4>1
              DEF ReadySince, StableInv, ReadyPoll
    <3>4. CASE pc'[p] = "ready"
      <4>1. pc' = pc \/ pc' = [pc EXCEPT ![p] = "start"]
                    \/ pc' = [pc EXCEPT ![p] = "abort"]
        BY <1>4 DEF ReadyPoll, Goto, Abort
      <4>2. clock'[p] = now + Poll
        BY <1>0, <1>4, <3>4 DEF TypeOK, ReadyPoll, Goto, Abort
      <4>3. lastIssue'[p] # None => lastIssue'[p] < clock'[p]
        <5>1. lastIssue[p] # None => lastIssue[p] \in Nat
          BY <1>0 DEF TypeOK
        <5>2. lastIssue[p] # None => lastIssue[p] < clock[p]
          BY <1>0, <1>4 DEF StableInv, ReadyPoll
        <5> QED BY <3>1, <3>2, <4>2, <5>1, <5>2, TimeAssumption
      <4> QED BY <2>2, <3>3, <3>4, <4>3 DEF StableInv, Measured, Reporting
    <3>5. CASE pc'[p] = "start"
      <4>1. since # None /\ StableEnough(now - since) /\ stable'[p] = now - since
        BY <1>0, <1>4, <3>5 DEF TypeOK, ReadyPoll, Goto, Abort, StableTime
      <4> QED BY <2>2, <3>2, <3>3, <3>5, <4>1 DEF StableInv
    <3>6. CASE pc'[p] = "abort"
      BY <2>2, <3>6 DEF StableInv, Measured, Reporting
    <3>7. pc'[p] \in {"ready", "start", "abort"}
      BY <1>0, <1>4 DEF TypeOK, ReadyPoll, Goto, Abort
    <3> QED BY <3>4, <3>5, <3>6, <3>7
  <2> QED BY <2>1, <2>2
<1>5. CASE StartMeasurement(p)
  BY <1>0, <1>5
     DEF TypeOK, StartMeasurement, Goto,
         StableInv, Measured, Attached, Reporting, Ended
<1>6. CASE \E s \in Snapshot, gap \in Lag, lag \in Lag : MeasurePoll(p, s, gap, lag)
  BY <1>0, <1>6
     DEF TypeOK, MeasurePoll,
         StableInv, Measured, Attached, Reporting, Ended
<1>7. CASE StopMeasurement(p)
  BY <1>0, <1>7
     DEF TypeOK, StopMeasurement, Goto,
         StableInv, Measured, Attached, Reporting, Ended
<1>8. CASE Close(p)
  BY <1>0, <1>8
     DEF TypeOK, Close, Goto, Fail,
         StableInv, Measured, Attached, Reporting, Ended
<1>9. CASE Mark(p)
  BY <1>0, <1>9
     DEF TypeOK, Mark, Goto, Fail,
         StableInv, Measured, Attached, Reporting, Ended
<1>10. CASE \E lag \in Lag : EvidencePoll(p, lag)
  BY <1>0, <1>10
     DEF TypeOK, EvidencePoll, Goto, Fail,
         StableInv, Measured, Attached, Reporting, Ended
<1>11. CASE Evaluate(p)
  BY <1>0, <1>11
     DEF TypeOK, Evaluate, Build, Goto, Fail,
         StableInv, Measured, Attached, Reporting, Ended
<1>12. CASE EvaluateOffline(p)
  <2>1. /\ pc[p] = "begin" /\ p \in Offline /\ p \notin Live
        /\ UNCHANGED <<clock, observer, loopVars, written, fileVars>>
    BY <1>12, OfflineStep, ProcessAssumption, <1>0
  <2>2. \/ pc' = [pc EXCEPT ![p] = "result"]
        \/ pc' = [pc EXCEPT ![p] = "failed"]
    BY <1>12, OfflineStep, <1>0
  <2> QED BY <1>0, <2>1, <2>2
          DEF TypeOK, StableInv, Measured, Attached, Reporting, Ended
<1>13. CASE WriteResult(p)
  BY <1>0, <1>13
     DEF TypeOK, WriteResult, Goto,
         StableInv, Measured, Attached, Reporting, Ended
<1>14. CASE WriteJunit(p)
  BY <1>0, <1>14
     DEF TypeOK, WriteJunit, Goto,
         StableInv, Measured, Attached, Reporting, Ended
<1>15. CASE Raise(p)
  BY <1>0, <1>15
     DEF TypeOK, Raise, Goto, Fail, Abort,
         StableInv, Measured, Attached, Reporting, Ended
<1>16. CASE Kill(p)
  BY <1>0, <1>16
     DEF TypeOK, Kill, Goto,
         StableInv, Measured, Attached, Reporting, Ended
<1> QED BY <1>3, <1>4, <1>5, <1>6, <1>7, <1>8, <1>9, <1>10, <1>11,
           <1>12, <1>13, <1>14, <1>15, <1>16 DEF Go

\* Only the process that created the marker goes on to report.
LEMMA MarkerStep ==
  ASSUME IInv, [Next]_vars, NEW q \in Proc PROVE MarkerInv(q)'
<1>0. TypeOK /\ (\A r \in Proc : MarkerInv(r))
      /\ (\A r \in Proc : ObserverInv(r))
      /\ (\A r \in Proc : ResultInv(r))
  BY DEF IInv
<1>1. CASE UNCHANGED vars
  BY <1>0, <1>1
     DEF vars, MarkerInv, ObserverInv, ResultInv,
         Proc, Attached, Reporting, Ended
<1>2. CASE WriteIndex
  BY <1>0, <1>2
     DEF TypeOK, WriteIndex,
         MarkerInv, ObserverInv, ResultInv,
         Proc, Attached, Reporting, Ended
<1> SUFFICES ASSUME NEW p \in Proc, Go(p) \/ Raise(p) \/ Kill(p)
             PROVE  MarkerInv(q)'
  BY <1>1, <1>2 DEF Next
<1>3. CASE Begin(p)
  BY <1>0, <1>3
     DEF TypeOK, Begin, Goto, Fail,
         MarkerInv, ObserverInv, ResultInv,
         Proc, Attached, Reporting, Ended
<1>4. CASE \E s \in Snapshot, lag \in Lag : ReadyPoll(p, s, lag)
  BY <1>0, <1>4
     DEF TypeOK, ReadyPoll, Goto, Abort,
         MarkerInv, ObserverInv, ResultInv,
         Proc, Attached, Reporting, Ended
<1>5. CASE StartMeasurement(p)
  BY <1>0, <1>5
     DEF TypeOK, StartMeasurement, Goto,
         MarkerInv, ObserverInv, ResultInv,
         Proc, Attached, Reporting, Ended
<1>6. CASE \E s \in Snapshot, gap \in Lag, lag \in Lag : MeasurePoll(p, s, gap, lag)
  BY <1>0, <1>6
     DEF TypeOK, MeasurePoll,
         MarkerInv, ObserverInv, ResultInv,
         Proc, Attached, Reporting, Ended
<1>7. CASE StopMeasurement(p)
  BY <1>0, <1>7
     DEF TypeOK, StopMeasurement, Goto,
         MarkerInv, ObserverInv, ResultInv,
         Proc, Attached, Reporting, Ended
<1>8. CASE Close(p)
  BY <1>0, <1>8
     DEF TypeOK, Close, Goto, Fail,
         MarkerInv, ObserverInv, ResultInv,
         Proc, Attached, Reporting, Ended
<1>9. CASE Mark(p)
  BY <1>0, <1>9
     DEF TypeOK, Mark, Goto, Fail,
         MarkerInv, ObserverInv, ResultInv,
         Proc, Attached, Reporting, Ended
<1>10. CASE \E lag \in Lag : EvidencePoll(p, lag)
  BY <1>0, <1>10
     DEF TypeOK, EvidencePoll, Goto, Fail,
         MarkerInv, ObserverInv, ResultInv,
         Proc, Attached, Reporting, Ended
<1>11. CASE Evaluate(p)
  BY <1>0, <1>11
     DEF TypeOK, Evaluate, Build, Goto, Fail,
         MarkerInv, ObserverInv, ResultInv,
         Proc, Attached, Reporting, Ended
<1>12. CASE EvaluateOffline(p)
  <2>1. /\ pc[p] = "begin" /\ p \in Offline /\ p \notin Live
        /\ UNCHANGED <<clock, observer, loopVars, written, fileVars>>
    BY <1>12, OfflineStep, ProcessAssumption, <1>0
  <2>2. \/ pc' = [pc EXCEPT ![p] = "result"]
        \/ pc' = [pc EXCEPT ![p] = "failed"]
    BY <1>12, OfflineStep, <1>0
  <2> QED BY <1>0, <2>1, <2>2
          DEF TypeOK, MarkerInv, ObserverInv, ResultInv,
         Proc, Attached, Reporting, Ended
<1>13. CASE WriteResult(p)
  BY <1>0, <1>13
     DEF TypeOK, WriteResult, Goto,
         MarkerInv, ObserverInv, ResultInv,
         Proc, Attached, Reporting, Ended
<1>14. CASE WriteJunit(p)
  BY <1>0, <1>14
     DEF TypeOK, WriteJunit, Goto,
         MarkerInv, ObserverInv, ResultInv,
         Proc, Attached, Reporting, Ended
<1>15. CASE Raise(p)
  BY <1>0, <1>15
     DEF TypeOK, Raise, Goto, Fail, Abort,
         MarkerInv, ObserverInv, ResultInv,
         Proc, Attached, Reporting, Ended
<1>16. CASE Kill(p)
  BY <1>0, <1>16
     DEF TypeOK, Kill, Goto,
         MarkerInv, ObserverInv, ResultInv,
         Proc, Attached, Reporting, Ended
<1> QED BY <1>3, <1>4, <1>5, <1>6, <1>7, <1>8, <1>9, <1>10, <1>11,
           <1>12, <1>13, <1>14, <1>15, <1>16 DEF Go

\* A result is built once, from what the process has seen.
LEMMA ResultStep ==
  ASSUME IInv, [Next]_vars, NEW q \in Proc PROVE ResultInv(q)'
<1>0. TypeOK /\ (\A r \in Proc : ResultInv(r))
      /\ (\A r \in Proc : ObserverInv(r))
      /\ (\A r \in Proc : MarkerInv(r))
      /\ (\A r \in Proc : StableInv(r))
  BY DEF IInv
<1>1. CASE UNCHANGED vars
  BY <1>0, <1>1
     DEF vars, ResultInv, MarkerInv,
         ObserverInv, StableInv, GraphStatuses, Proc, Attached, Reporting, Ended
<1>2. CASE WriteIndex
  BY <1>0, <1>2
     DEF TypeOK, WriteIndex,
         ResultInv, MarkerInv,
         ObserverInv, StableInv, GraphStatuses, Proc, Attached, Reporting, Ended
<1> SUFFICES ASSUME NEW p \in Proc, Go(p) \/ Raise(p) \/ Kill(p)
             PROVE  ResultInv(q)'
  BY <1>1, <1>2 DEF Next
<1>3. CASE Begin(p)
  BY <1>0, <1>3
     DEF TypeOK, Begin, Goto, Fail,
         ResultInv, MarkerInv,
         ObserverInv, StableInv, GraphStatuses, Proc, Attached, Reporting, Ended
<1>4. ASSUME NEW s \in Snapshot, NEW lag \in Lag, ReadyPoll(p, s, lag)
      PROVE  ResultInv(q)'
  <2>1. CASE q = p
    <3>1. /\ status[p] = "none" /\ written[p] = {} /\ why[p] # "refused"
      BY <1>0, <1>4 DEF ReadyPoll, ResultInv, Ended
    <3>2. /\ pc'[p] \in {"ready", "start", "abort"}
          /\ why'[p] # "refused" /\ UNCHANGED resultVars
      BY <1>0, <1>4, <3>1 DEF TypeOK, ReadyPoll, Goto, Abort
    <3> QED BY <2>1, <3>1, <3>2 DEF ResultInv, Ended
  <2>2. CASE q # p
    <3>1. /\ pc'[q] = pc[q] /\ why'[q] = why[q] /\ stable'[q] = stable[q]
          /\ violations'[q] = violations[q]
          /\ UNCHANGED <<issues, sampled, resultVars, fileVars>>
      BY <1>0, <1>4, <2>2 DEF TypeOK, ReadyPoll, Goto, Abort, ObserveForbidden
    <3> QED BY <1>0, <2>2, <3>1 DEF ResultInv, GraphStatuses
  <2> QED BY <2>1, <2>2
<1>5. CASE StartMeasurement(p)
  BY <1>0, <1>5
     DEF TypeOK, StartMeasurement, Goto,
         ResultInv, MarkerInv,
         ObserverInv, StableInv, GraphStatuses, Proc, Attached, Reporting, Ended
<1>6. ASSUME NEW s \in Snapshot, NEW gap \in Lag, NEW lag \in Lag,
             MeasurePoll(p, s, gap, lag)
      PROVE  ResultInv(q)'
  <2>1. UNCHANGED <<pc, stable, resultVars, fileVars, why>>
    BY <1>6 DEF MeasurePoll
  <2>2. CASE q = p
    BY <1>0, <1>6, <2>1, <2>2 DEF MeasurePoll, ResultInv, Ended
  <2>3. CASE q # p
    <3>1. /\ issues'[q] = issues[q] /\ sampled'[q] = sampled[q]
          /\ violations'[q] = violations[q]
      BY <1>0, <1>6, <2>3
         DEF TypeOK, MeasurePoll, ObserveExpected, ObserveForbidden
    <3> QED BY <1>0, <2>1, <3>1 DEF ResultInv, GraphStatuses
  <2> QED BY <2>2, <2>3
<1>7. CASE StopMeasurement(p)
  BY <1>0, <1>7
     DEF TypeOK, StopMeasurement, Goto,
         ResultInv, MarkerInv,
         ObserverInv, StableInv, GraphStatuses, Proc, Attached, Reporting, Ended
<1>8. CASE Close(p)
  BY <1>0, <1>8
     DEF TypeOK, Close, Goto, Fail,
         ResultInv, MarkerInv,
         ObserverInv, StableInv, GraphStatuses, Proc, Attached, Reporting, Ended
<1>9. CASE Mark(p)
  BY <1>0, <1>9
     DEF TypeOK, Mark, Goto, Fail,
         ResultInv, MarkerInv,
         ObserverInv, StableInv, GraphStatuses, Proc, Attached, Reporting, Ended
<1>10. CASE \E lag \in Lag : EvidencePoll(p, lag)
  BY <1>0, <1>10
     DEF TypeOK, EvidencePoll, Goto, Fail,
         ResultInv, MarkerInv,
         ObserverInv, StableInv, GraphStatuses, Proc, Attached, Reporting, Ended
<1>11. CASE Evaluate(p)
  <2>1. marker
    BY <1>0, <1>11 DEF Evaluate, MarkerInv, ObserverInv, Reporting
  <2>2. /\ p \in Live /\ creator = p /\ StableEnough(stable[p]) /\ index = "final"
    BY <1>0, <1>11 DEF Evaluate, MarkerInv, ObserverInv, StableInv, ResultInv,
                     Measured, Reporting
  <2>3. PICK o \in Findings :
          /\ o.mode = "live" /\ o.graph = GraphStatuses(p)
          /\ o.forbidden = (violations[p] # {})
          /\ findings' = [findings EXCEPT ![p] = o]
          /\ status' = [status EXCEPT ![p] = Status(o)]
    BY <1>0, <2>1, <1>11, EvaluateStep
  <2>4. /\ pc[p] = "evaluate" /\ pc' = [pc EXCEPT ![p] = "result"]
        /\ UNCHANGED <<clock, observer, loopVars, written, fileVars, why>>
    BY <1>0, <2>1, <1>11, EvaluateStep
  <2>5. CASE q = p
    BY <1>0, <2>2, <2>3, <2>4, <2>5 DEF TypeOK, ResultInv, GraphStatuses, Ended
  <2>6. CASE q # p
    BY <1>0, <2>3, <2>4, <2>6 DEF TypeOK, ResultInv, GraphStatuses, Ended
  <2> QED BY <2>5, <2>6
<1>12. CASE EvaluateOffline(p)
  <2>1. /\ pc[p] = "begin" /\ p \in Offline /\ p \notin Live
        /\ UNCHANGED <<clock, observer, loopVars, written, fileVars>>
    BY <1>12, OfflineStep, ProcessAssumption, <1>0
  <2>2. ASSUME NEW o \in Findings, index = "final",
               o.mode = "offline" /\ o.graph = {} /\ ~o.forbidden,
               findings' = [findings EXCEPT ![p] = o],
               status' = [status EXCEPT ![p] = Status(o)],
               pc' = [pc EXCEPT ![p] = "result"], UNCHANGED why
        PROVE  ResultInv(q)'
    BY <1>0, <2>1, <2>2 DEF TypeOK, ResultInv, GraphStatuses, Ended
  <2>3. CASE /\ pc' = [pc EXCEPT ![p] = "failed"]
             /\ why' = [why EXCEPT ![p] = "evidence"]
             /\ UNCHANGED resultVars
    BY <1>0, <2>1, <2>3 DEF TypeOK, ResultInv, GraphStatuses, Ended
  <2> QED BY <1>12, <1>0, <2>2, <2>3, OfflineStep
<1>13. CASE WriteResult(p)
  BY <1>0, <1>13
     DEF TypeOK, WriteResult, Goto,
         ResultInv, MarkerInv,
         ObserverInv, StableInv, GraphStatuses, Proc, Attached, Reporting, Ended
<1>14. CASE WriteJunit(p)
  BY <1>0, <1>14
     DEF TypeOK, WriteJunit, Goto,
         ResultInv, MarkerInv,
         ObserverInv, StableInv, GraphStatuses, Proc, Attached, Reporting, Ended
<1>15. CASE Raise(p)
  BY <1>0, <1>15
     DEF TypeOK, Raise, Goto, Fail, Abort,
         ResultInv, MarkerInv,
         ObserverInv, StableInv, GraphStatuses, Proc, Attached, Reporting, Ended
<1>16. CASE Kill(p)
  BY <1>0, <1>16
     DEF TypeOK, Kill, Goto,
         ResultInv, MarkerInv,
         ObserverInv, StableInv, GraphStatuses, Proc, Attached, Reporting, Ended
<1> QED BY <1>3, <1>4, <1>5, <1>6, <1>7, <1>8, <1>9, <1>10, <1>11,
           <1>12, <1>13, <1>14, <1>15, <1>16 DEF Go

-----------------------------------------------------------------------------
(***************************************************************************)
(* The invariant and the theorems.                                         *)
(***************************************************************************)

LEMMA InitialStates == Init => IInv
<1> SUFFICES ASSUME Init PROVE IInv
  OBVIOUS
<1>1. TypeOK
  BY TimeAssumption DEF Init, TypeOK, Attached, Reporting, Ended
<1>2. ASSUME NEW p \in Proc
      PROVE  /\ ObserverInv(p) /\ MonitorInv(p) /\ StableInv(p)
             /\ MarkerInv(p) /\ ResultInv(p)
  BY <1>2, ProcessAssumption
     DEF Init, ObserverInv, MonitorInv, StableInv, MarkerInv, ResultInv,
         Attached, Reporting, Ended, Measured
<1> QED BY <1>1, <1>2 DEF IInv

LEMMA InvariantStep == IInv /\ [Next]_vars => IInv'
<1> SUFFICES ASSUME IInv, [Next]_vars PROVE IInv'
  OBVIOUS
<1>1. TypeOK'
  BY TypeStep DEF IInv
<1>2. ASSUME NEW p \in Proc
      PROVE  /\ ObserverInv(p)' /\ MonitorInv(p)' /\ StableInv(p)'
             /\ MarkerInv(p)' /\ ResultInv(p)'
  BY <1>2, ObserverStep, MonitorStep, StableStep, MarkerStep, ResultStep
<1> QED BY <1>1, <1>2 DEF IInv

LEMMA Invariance == Spec => []IInv
BY InitialStates, InvariantStep, PTL DEF Spec

\* Every state of a verification has its type (run_verification and
\* evaluate_from_evidence).
THEOREM TypeCorrect == Spec => []TypeOK
<1>1. IInv => TypeOK
  BY DEF IInv
<1> QED BY <1>1, Invariance, PTL

\* wait_for_readiness lets a measurement start only after an uninterrupted
\* window as long as the scenario and every lifecycle node ask for.
THEOREM StabilityIsRequired == Spec => []MeasuresOnlyWhenStable
<1>1. IInv => MeasuresOnlyWhenStable
  BY DEF IInv, StableInv, MeasuresOnlyWhenStable, Proc
<1> QED BY <1>1, Invariance, PTL

\* A passed result of run_verification was earned by everything it observed;
\* evaluate_from_evidence never passes.
THEOREM PassIsEarned == Spec => []PassedIsEarned
<1>1. ASSUME IInv PROVE PassedIsEarned
  <2> SUFFICES ASSUME NEW p \in Proc, status[p] = "passed"
               PROVE  /\ p \in Live /\ creator = p /\ observer[p] = "closed"
                      /\ index = "final" /\ StableEnough(stable[p])
                      /\ "issue" \notin seen[p] /\ "forbidden" \notin seen[p]
                      /\ Expected # {} => "sample" \in seen[p]
                      /\ findings[p].evaluated = {"passed"}
                      /\ findings[p].timing = {}
                      /\ findings[p].authority = "passed"
                      /\ findings[p].hardware # "outside"
    BY DEF PassedIsEarned
  <2>1. /\ TypeOK /\ MonitorInv(p) /\ MarkerInv(p) /\ ResultInv(p)
    BY <1>1 DEF IInv
  <2>2. findings[p] \in Findings /\ Status(findings[p]) = "passed"
    BY <2>1 DEF ResultInv
  <2>3. /\ findings[p].mode = "live" /\ findings[p].graph = {}
        /\ ~findings[p].forbidden
        /\ findings[p].evaluated = {"passed"} /\ findings[p].timing = {}
        /\ findings[p].authority = "passed" /\ findings[p].hardware # "outside"
    BY <2>2, PassedMeaning
  <2>4. /\ p \in Live /\ creator = p /\ StableEnough(stable[p])
        /\ index = "final" /\ GraphStatuses(p) = {} /\ violations[p] = {}
    BY <2>1, <2>3 DEF ResultInv
  <2>5. issues[p] = {} /\ (sampled[p] \/ Expected = {})
    BY <2>1, <2>4, GraphStatusesType
  <2> QED BY <2>1, <2>3, <2>4, <2>5 DEF MonitorInv, MarkerInv
<1> QED BY <1>1, Invariance, PTL

\* A verdict "failed" or "error" of build_acceptance_result has a cause in the
\* measurement window or in an evaluation.
THEOREM FailureIsExplained == Spec => []FailureHasCause
<1>1. ASSUME IInv PROVE FailureHasCause
  <2> SUFFICES ASSUME NEW p \in Proc, status[p] \in {"failed", "error"}
               PROVE  \/ "issue" \in seen[p] \/ "forbidden" \in seen[p]
                      \/ p \in Live /\ Expected # {} /\ "sample" \notin seen[p]
                      \/ findings[p].evaluated \cap {"failed", "error"} # {}
                      \/ "violation" \in findings[p].timing
                      \/ findings[p].authority \in {"failed", "error"}
                      \/ findings[p].hardware = "outside"
    BY DEF FailureHasCause
  <2>1. TypeOK /\ MonitorInv(p) /\ ResultInv(p)
    BY <1>1 DEF IInv
  <2>2. /\ findings[p] \in Findings
        /\ Status(findings[p]) \in {"failed", "error"}
    BY <2>1 DEF ResultInv
  <2>3. \/ (findings[p].evaluated \cup {findings[p].authority})
              \cap {"failed", "error"} # {}
        \/ "violation" \in findings[p].timing \/ findings[p].graph # {}
        \/ findings[p].forbidden \/ findings[p].hardware = "outside"
    BY <2>2, FailureMeaning
  <2>4. findings[p].graph # {} => p \in Live /\ GraphStatuses(p) # {}
    BY <2>1, <2>2 DEF ResultInv
  <2>5. GraphStatuses(p) # {} => issues[p] # {} \/ (~sampled[p] /\ Expected # {})
    BY <2>1, GraphStatusesType
  <2>6. findings[p].forbidden => violations[p] # {}
    BY <2>1, <2>2 DEF ResultInv
  <2> QED BY <2>1, <2>3, <2>4, <2>5, <2>6 DEF MonitorInv
<1> QED BY <1>1, Invariance, PTL

\* The status that build_acceptance_result computes always satisfies the
\* contract that write_contract_json validates it against.
THEOREM ResultIsNeverRefused == Spec => []NeverRefusesItself
<1>1. IInv => NeverRefusesItself
  BY DEF IInv, ResultInv, NeverRefusesItself
<1> QED BY <1>1, Invariance, PTL

\* touch(exist_ok=False) admits one reporting process per completion marker.
THEOREM ReportIsUnique == Spec => []OneReportPerMarker
<1>1. IInv => OneReportPerMarker
  BY DEF IInv, MarkerInv, OneReportPerMarker, Proc
<1> QED BY <1>1, Invariance, PTL

\* The marker appears only after the observer of run_verification is closed,
\* and a process that ends by itself leaves none attached.
THEOREM MarkerFollowsDetach == Spec => []MarkerMeansDetached
<1>1. ASSUME IInv PROVE MarkerMeansDetached
  <2>1. creator # None => observer[creator] = "closed"
    BY <1>1 DEF IInv, TypeOK, MarkerInv
  <2>2. ASSUME NEW p \in Proc, pc[p] \in {"done", "failed"}
        PROVE  observer[p] # "open"
    BY <1>1, <2>2 DEF IInv, ObserverInv
  <2> QED BY <2>1, <2>2 DEF MarkerMeansDetached
<1> QED BY <1>1, Invariance, PTL

\* One process reports per completion marker, after it has detached.
THEOREM MarkersAreFinal == Spec => []MarkerIsFinal
BY ReportIsUnique, MarkerFollowsDetach, PTL DEF MarkerIsFinal
=============================================================================
