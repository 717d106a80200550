----------------------------- MODULE MCTelemetry -----------------------------
(* Small instances of MetricWindow, Traces and Clocks for TLC.  The three     *)
(* sources of telemetry share nothing, so each behaviour is one of the        *)
(* source it is about and the other two stay in one initial state.            *)
EXTENDS MetricWindow, Traces, Clocks, TLC

VARIABLE about

MCWindow == [start |-> 2, end |-> 5]
Late == [kind |-> "received", age |-> 3, inOrder |-> FALSE]
MCEarly == {Late}
MCEvent == {[kind |-> "received", age |-> 2, inOrder |-> TRUE], Late,
            [kind |-> "lost", age |-> 0, inOrder |-> TRUE]}
MCLayouts == {[bounds |-> <<2>>, records |-> TRUE],
              [bounds |-> <<1, 2>>, records |-> FALSE]}
MCSkews == {<<-1, 0>>}
MCMeasured == [start |-> 1, end |-> 6]
MCRates == {-1, 0, 2}
MCFactors == {<<1, 2>>, <<1, 1>>, <<2, 1>>}
Symmetry == Permutations(Series)

TelemetryInit ==
  \/ about = "metrics" /\ Init /\ TraceInit /\ shown = <<0>> /\ seen = {}
  \/ /\ about \in {"traces", "clocks"} /\ TraceInit /\ ClockInit
     /\ about = "traces" => seen = {}
     /\ temporality = "delta" /\ now = 0 /\ truth = <<>> /\ points = {}
     /\ process = None /\ first = None /\ collected = 0 /\ mishaps = 0

TelemetryNext ==
  \/ about = "metrics" /\ Next /\ UNCHANGED <<about, traceVars, clockVars>>
  \/ about = "traces" /\ TraceNext /\ UNCHANGED <<about, vars, clockVars>>
  \/ about = "clocks" /\ ClockNext /\ UNCHANGED <<about, vars, traceVars>>

TelemetrySpec == TelemetryInit /\ [][TelemetryNext]_<<about, vars, traceVars, clockVars>>
=============================================================================
