------------------------------- MODULE MCInputs -------------------------------
(* Small instances of Aggregation, NativeAssessment, Qualification, Adapter    *)
(* and Evaluators for TLC.                                                     *)
(* They share nothing, so each behaviour is one of the part it is `about` and  *)
(* the other parts stay in one initial state.                                  *)
EXTENDS Aggregation, NativeAssessment, MCQualification, Adapter, Evaluators

VARIABLE about

\* Aggregation: two runs of the domains x and y, one chain over them.
MCRunOrder == <<"a", "b">>
MCResults == <<"left", "right">>
Assessed(s, fits, version, by) ==
  [status |-> s, fits |-> fits, version |-> version, assessed |-> by]
File(domain, s, version) ==
  Assessed(s, TRUE, version, "first") @@ [v |-> 0, domain |-> domain, execution |-> 0]
MCFinished ==
  {[r \in {"a", "b"} |->
      [context |-> [v |-> 0, domains |-> {"x", "y"}, native |-> f[2] = 2],
       left |-> File("x", "passed", f[2]), right |-> File("y", f[1], f[2]),
       transport |-> Absent]] : f \in {<<"passed", 2>>, <<"cancelled", 1>>}}
MCResultContents ==
  {Assessed("failed", TRUE, 1, "first"), Assessed("passed", FALSE, 1, "first"),
   Assessed("passed", TRUE, 2, "first"), Assessed("failed", TRUE, 2, "again"),
   Assessed("passed", TRUE, 3, "first")}
MCRunDomains == {{"x", "y"}, {"x"}}
Channel(id, source, destination) == [id |-> id, source |-> source, destination |-> destination]
XY == Channel("c", "x", "y")
Again == Channel("d", "x", "y")
YX == Channel("e", "y", "x")
\* A chain of which all channels, or none, have messages.
Evidenced(directed, chain, s, traced, relations) ==
  [channels |-> directed, traces |-> traced, relations |-> relations, fits |-> TRUE,
   chains |-> {[channels |-> chain, required |-> {"x", "y"}, status |-> s,
                correlated |-> IF s = "passed" THEN chain ELSE <<>>]},
   observed |-> [c \in directed |-> "passed"]]
MCQualifications ==
  {Evidenced({XY}, <<XY>>, s, traced, relations) :
     s \in {"passed", "failed"}, traced \in {{"x", "y"}, {"x"}},
     relations \in {<<>>} \cup [{<<"x", "y">>} -> {"passed"}]}
  \cup {Evidenced({XY, YX, Again}, chain, "passed", {"x", "y"},
                  [d \in {<<"x", "y">>, <<"y", "x">>} |-> "passed"]) :
          chain \in {<<XY, YX, Again>>, <<XY, Again, YX>>, <<XY, YX>>}}
MCPolicy == [passed |-> 1, failed |-> 1, incomplete |-> 0, error |-> 0]
MCRewrites == [r \in {"a", "b"} |-> IF r = "a" THEN 2 ELSE 0]

\* NativeAssessment: one metric, one evaluator with the assertions Alpha and Beta.
Metric == <<"m">>
MCPolicyRows == {<<"policy">>}
Evaluator == <<"n">>
Alpha == <<"n", "a">>
Beta == <<"n", "b">>
Core(id, s, value) ==
  [id |-> id, source |-> "core", namespace |-> <<>>, status |-> s, value |-> value, evidence |-> {}]
Product(id, s, evidence) ==
  [id |-> id, source |-> "product", namespace |-> Evaluator, status |-> s, value |-> TRUE,
   evidence |-> evidence]
MCProfiles == {[x |-> "required", y |-> "not_applicable"], [x |-> "optional", y |-> "required"]}
Index == {[of |-> "otlp", kind |-> "metrics"], [of |-> "bag", kind |-> "bag"],
          [of |-> "seen", kind |-> "acceptance_observation"]}
CaptureOf(index, observed, window) ==
  [index |-> index, observed |-> observed, evidence |-> {"bag"}, window |-> window]
Capture(observed, window) == CaptureOf(Index, observed, window)
MCCaptures ==
  {CaptureOf(Index \cup {[of |-> "again", kind |-> "acceptance_observation"]},
             [x |-> "measured"], <<1, 3>>),
   Capture([x |-> "measured"], <<1, 3>>), Capture([x |-> "measured", y |-> "measured"], <<1, 3>>),
   Capture([x |-> "invalid"], <<>>), Capture([x |-> "measured"], <<2, 3>>)}
Method(selected, marked, metrics, evaluators, calibration) ==
  [selected |-> selected, marked |-> marked, metrics |-> metrics, evaluators |-> evaluators,
   calibration |-> calibration]
MCMethods ==
  {Method(FALSE, FALSE, {Metric}, <<>>, {}),
   Method(FALSE, FALSE, {}, Evaluator :> {}, {}),
   Method(TRUE, FALSE, {}, Evaluator :> {}, {"table"}),
   Method(TRUE, TRUE, {Metric}, Evaluator :> {Alpha}, {}),
   Method(TRUE, TRUE, {}, Evaluator :> {Alpha, Beta}, {"table"})}
MCMeasurements ==
  LET rows == {Core(id, "passed", TRUE) : id \in MCPolicyRows}
      measured == {Core(Metric, "passed", TRUE), Core(Metric, "failed", FALSE),
                   Core(Metric, "error", FALSE)}
  IN {rows} \cup {rows \cup {row} : row \in measured}
MCReplies ==
  LET alphas == {Product(Alpha, "passed", {"bag"}), Product(Alpha, "passed", {"table"}),
                 Product(Alpha, "skipped", {"bag", "table"}), Product(Alpha, "error", {"bag"})}
      betas == {Product(Beta, "failed", {"bag"}), Product(Beta, "passed", {"bag", "table"})}
  IN {{}, {Product(Beta, "passed", {"gone"})}} \cup {{a} : a \in alphas}
     \cup {{a, b} : a \in alphas, b \in betas}
MCWindows == {<<1, 2>>, <<2, 3>>}

\* Adapter: calls that read two artifacts, or may not, one more than may be active.
MCCalls == {<<"a", "b">>, <<"gone">>}
MCSize == [a \in Artifacts |-> 1]

\* Evaluators: the wheels a and b, and later another version of a.
MCPlaces == <<"first", "site">>
MCModules == {<<"a">>, <<"a", "util">>, <<"b">>}
MCImports == [m \in MCModules |-> IF m = <<"b">> THEN <<<<"a">>>> ELSE <<>>]
MCLateImports == [m \in MCModules |-> IF m = <<"a">> THEN <<<<"a", "util">>>> ELSE <<>>]
Requirement(name, v) == [name |-> name, module |-> <<name>>, version |-> v, receipt |-> <<name, v>>]
Wheel(name, v, contents, sources) ==
  [name |-> name, module |-> <<name>>, version |-> v, files |-> {"site"} \X contents,
   sources |-> {"site"} \X sources]
Suite(required, wheels) ==
  [required |-> required, admitted |-> wheels, receipts |-> {r.receipt : r \in ToSet(required)},
   installed |-> {[name |-> r.name, module |-> r.module, version |-> r.version] :
                    r \in ToSet(required)}]
WheelA(v) == Wheel("a", v, {<<"a">>, <<"a", "util">>}, {<<"a">>, <<"a", "util">>})
MCSuites ==
  {Suite(<<Requirement("a", "v1"), Requirement("b", "v1")>>,
         {WheelA("v1"), Wheel("b", "v1", {<<"b">>}, {<<"b">>})}),
   Suite(<<Requirement("a", "v2")>>, {WheelA("v2")}),
   Suite(<<Requirement("a", "v1")>>,
         {Wheel("a", "v1", {<<"a">>, <<"a", "util">>}, {<<"a">>})}),
   Suite(<<Requirement("a", "v2"), Requirement("b", "v1")>>, {WheelA("v2")})}

InputsInit ==
  /\ about \in {"aggregates", "assessments", "bundles", "calls", "evaluators"}
  /\ AggregationInit /\ NativeInit /\ QualificationInit /\ AdapterInit
  /\ EvaluatorsInit
  /\ about # "aggregates" => files = CHOOSE f \in Finished : TRUE
  /\ about # "assessments" =>
       profile = (CHOOSE p \in Profiles : TRUE) /\ recorded = <<CHOOSE c \in Captures : TRUE>>
  /\ about # "bundles" => bundle = CHOOSE b \in Bundles : TRUE
  /\ about # "calls" => \A a \in Artifacts : disk[a].registered
  /\ about # "evaluators" => \A f \in Files : site[f] # "v2" /\ (f[1] = "first" => site[f] = NoFile)

InputsNext ==
  \/ about = "aggregates" /\ AggregationNext
       /\ UNCHANGED <<about, nativeVars, qualificationVars, adapterVars, evaluatorVars>>
  \/ about = "assessments" /\ NativeNext
       /\ UNCHANGED <<about, aggregationVars, qualificationVars, adapterVars, evaluatorVars>>
  \/ about = "bundles" /\ QualificationNext
       /\ UNCHANGED <<about, aggregationVars, nativeVars, adapterVars, evaluatorVars>>
  \/ about = "calls" /\ AdapterNext
       /\ UNCHANGED <<about, aggregationVars, nativeVars, qualificationVars, evaluatorVars>>
  \/ about = "evaluators" /\ EvaluatorsNext
       /\ UNCHANGED <<about, aggregationVars, nativeVars, qualificationVars, adapterVars>>

InputsSpec ==
  InputsInit
  /\ [][InputsNext]_<<about, aggregationVars, nativeVars, qualificationVars, adapterVars, evaluatorVars>>
=============================================================================
