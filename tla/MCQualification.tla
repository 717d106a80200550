---------------------------- MODULE MCQualification ----------------------------
(* Bundles for TLC: a physical run of the domains x and y with a transport     *)
(* between them, and a simulated one that replays a bag.  A variant v differs   *)
(* from variant 0 in one thing, and every digest says of which variant it is,   *)
(* so that the subjects of all variants make up the library.                   *)
EXTENDS Qualification

S(kind, label, v, doc) ==
  [name |-> <<kind, label>>, kind |-> kind, of |-> <<kind, label, v>>, doc |-> doc]
Raw(kind, label, v) == S(kind, label, v, None)
Artifact(kind, label, v, receipt, summary) ==
  [of |-> <<kind, label, v>>, kind |-> kind, receipt |-> receipt, summary |-> summary]
Binding(v, plays) ==
  [profile |-> <<"qualification_profile", "p", v>>, capabilities |-> {"drive"}, plays |-> plays,
   conformance |-> <<"provider_conformance", "p", v>>,
   configuration |-> <<"other_evidence", "config", v>>]
Evidence(artifacts) == {[of |-> a.of, kind |-> a.kind, receipt |-> a.receipt] : a \in artifacts}

\* A run of `domains`: f holds what is particular to it.
CommonSubjects(v, f) ==
  {S("scenario", "", v, f.scenario),
   S("acceptance_run", "", v,
     [run |-> "run", scenario |-> <<"scenario", "", v>>, created |-> 1, domains |-> f.domains,
      clock |-> "ptp", configuration |-> {<<"other_evidence", "config", v>>}]),
   S("acceptance_aggregate", "", v,
     [run |-> "run", acceptance |-> <<"acceptance_run", "", v>>, generated |-> 9,
      results |-> [d \in f.domains |-> [of |-> <<"domain_result", d, v>>, status |-> "passed"]],
      transport |-> f.transport]),
   S("qualification_profile", "p", v, [capabilities |-> {"drive"}]),
   S("provider_conformance", "p", v,
     [run |-> "run", image |-> "image", profile |-> <<"qualification_profile", "p", v>>,
      capabilities |-> {"drive"}, status |-> "passed", generated |-> 1, evidence |-> f.played]),
   Raw("other_evidence", "config", v)}
  \cup UNION {
    {S("runtime_manifest", d, v,
       [execution |-> "e", generated |-> 2, workload |-> "w", image |-> "image", model |-> f.scenario.model,
        evaluators |-> f.scenario.evaluators, bindings |-> {Binding(v, f.scenario.playback)},
        configuration |-> {}, description |-> None, policies |-> {}, authorization |-> f.authorization,
        targets |-> {[target |-> "arm", scope |-> "joint", preflight |-> <<"other_evidence", "config", v>>]}]),
     S("domain_result", d, v,
       [run |-> "run", domain |-> d, scenario |-> <<"scenario", "", v>>,
        runtime |-> <<"runtime_manifest", d, v>>, execution |-> "e", workload |-> "w", image |-> "image",
        model |-> f.scenario.model, dataset |-> f.scenario.dataset, evaluators |-> f.scenario.evaluators,
        clock |-> [source |-> "ptp", meets |-> TRUE, within |-> TRUE], realtime |-> TRUE,
        started |-> 3, finished |-> 6, status |-> "passed", assertions |-> {"a"},
        evidence |-> Evidence(f.artifacts), authorization |-> f.authorization, target |-> "arm",
        checked |-> {}]),
     S("evidence_index", d, v, [run |-> "run", generated |-> 5, artifacts |-> f.artifacts])} :
    d \in f.domains}

\* Variant 1: a relation that outlasts its domains; 2: such an observation;
\* 3: permits that expire early; 4: no relation, and a verdict that says so.
PhysicalBundle(v) ==
  LET domains == {"x", "y"}
      relations == IF v = 4 THEN {} ELSE {"r"}
      permit == <<"execution_permit", "p", v>>
      verification == <<"execution_verification", "p", v>>
      policy == <<"policy", "trust", v>>
      common == CommonSubjects(v,
        [domains |-> domains, played |-> {},
         artifacts |-> {Artifact("traces", "spans", v, None, None)},
         authorization |-> [permit |-> permit, verification |-> verification, policy |-> policy],
         transport |-> [of |-> <<"transport_qualification", "", v>>,
                        status |-> IF v = 4 THEN "incomplete" ELSE "passed"],
         scenario |-> [environment |-> "physical", execution |-> "e", assertions |-> {"a"},
           evaluators |-> {}, providers |-> {"drive"}, model |-> None, dataset |-> None,
           playback |-> FALSE, configuration |-> {}, clock |-> "bound", policy |-> policy,
           scope |-> {"joint"}, forbidden |-> {}]])
  IN common \cup
     {Raw("policy", "trust", v), Raw("traces", "spans", v),
      S("execution_permit", "p", v,
        [scenario |-> <<"scenario", "", v>>, image |-> "image", policy |-> policy, target |-> "arm",
         signers |-> "s", scope |-> {"joint"}, issued |-> 0, expires |-> IF v = 3 THEN 5 ELSE 7,
         interlock |-> <<"other_evidence", "config", v>>]),
      S("execution_verification", "p", v,
        [permit |-> permit, policy |-> policy, target |-> "arm", signers |-> "s", verified |-> 2,
         files |-> {}]),
      S("channel_contract", "c", v,
        [id |-> "c", source |-> "x", destination |-> "y", relationship |-> "parent",
         configuration |-> <<"other_evidence", "config", v>>]),
      S("causal_chain_contract", "h", v,
        [id |-> "h", channels |-> <<[id |-> "c", of |-> <<"channel_contract", "c", v>>]>>,
         required |-> domains]),
      S("channel_observation", "o", v,
        [id |-> "o", run |-> "run", channel |-> "c", contract |-> <<"channel_contract", "c", v>>,
         started |-> 4, finished |-> IF v = 2 THEN 7 ELSE 5, violates |-> {}, violations |-> {},
         status |-> "passed"]),
      S("transport_qualification", "", v,
        [run |-> "run", scenario |-> <<"scenario", "", v>>, evaluated |-> 7, generated |-> 8,
         status |-> IF v = 4 THEN "incomplete" ELSE "passed",
         relations |-> {[of |-> <<"clock_relation", r, v>>, id |-> r, status |-> "passed"] : r \in relations},
         contracts |-> {[of |-> <<"causal_chain_contract", "h", v>>, id |-> "h"]},
         channels |-> {[of |-> <<"channel_contract", "c", v>>, id |-> "c"]},
         observations |-> {[of |-> <<"channel_observation", "o", v>>, id |-> "o", status |-> "passed"]},
         chains |-> {[id |-> "h", channels |-> <<"c">>, hops |-> <<[id |-> "c", relationship |-> "parent"]>>]},
         traces |-> [d \in domains |-> [index |-> <<"evidence_index", d, v>>,
                                        of |-> <<"traces", "spans", v>>]]])}
     \cup {S("clock_relation", r, v,
             [id |-> r, run |-> "run", scenario |-> <<"scenario", "", v>>, policy |-> "bound",
              source |-> "x", destination |-> "y", started |-> 3, finished |-> IF v = 1 THEN 7 ELSE 6,
              evidence |-> <<"traces", "spans", v>>, status |-> "passed"]) : r \in relations}

\* Variant 6 is another run of the same scenario as variant 5.
SimulatedBundle(v) ==
  LET receipt == <<"artifact_receipt", "r", v>>
      recording == <<"recording", "bag", v>>
      summary == <<"recording_summary", "bag", v>>
      metadata == <<"other_evidence", "metadata", v>>
      common == CommonSubjects(v,
        [domains |-> {"x"}, played |-> {metadata, recording, summary},
         artifacts |-> {Artifact("recording", "bag", v, receipt, summary)},
         authorization |-> None, transport |-> None,
         scenario |-> [environment |-> "simulation", execution |-> "e", assertions |-> {"a"},
           evaluators |-> {[package |-> <<"package", "e", v>>, receipt |-> <<"artifact_receipt", "e", v>>]},
           providers |-> {"drive"}, model |-> <<"model_manifest", "m", v>>,
           dataset |-> <<"dataset_manifest", "d", v>>, playback |-> TRUE, configuration |-> {},
           clock |-> None, policy |-> None, scope |-> {}, forbidden |-> {}]])
      Receipt(label, run, artifact) ==
        {S("artifact_receipt", label, v,
           [run |-> run, artifact |-> artifact, created |-> 3, statement |-> <<"attestation", "s", v>>,
            verification |-> <<"artifact_verification", label, v>>]),
         S("artifact_verification", label, v,
           [artifact |-> artifact, statement |-> <<"attestation", "s", v>>, verified |-> 2,
            policy |-> <<"policy", "trust", v>>, evidence |-> <<"verification", "v", v>>, files |-> {}])}
  IN common \cup Receipt("r", "run", recording) \cup Receipt("e", None, <<"package", "e", v>>)
     \cup {Raw("policy", "trust", v), Raw("attestation", "s", v), Raw("verification", "v", v),
           Raw("package", "e", v), Raw("recording", "bag", v), Raw("other_evidence", "metadata", v),
           \* a provider names the summary among its evidence, as retained bytes
           [name |-> <<"other_evidence", "summary">>, kind |-> "other_evidence", of |-> summary, doc |-> None],
           S("recording_summary", "bag", v, [source |-> recording]),
           S("model_manifest", "m", v, [files |-> {<<"other_evidence", "config", v>>}]),
           S("dataset_manifest", "d", v,
             [metadata |-> metadata, captured |-> {<<"other_evidence", "config", v>>},
              members |-> {[recording |-> recording, summary |-> summary]}])}

MCBundles == {PhysicalBundle(v) : v \in 0..4} \cup {SimulatedBundle(5)}
MCLibrary == UNION (MCBundles \cup {SimulatedBundle(6)})
=============================================================================
