---------------------------- MODULE Qualification ----------------------------
(***************************************************************************)
(* Qualification of a run from the artifacts it left                       *)
(* (packages/contracts/.../qualification, _qualification and               *)
(* _qualification_checks): the links that must hold between documents that *)
(* are each valid on their own, of version 1.                              *)
(*                                                                         *)
(* A bundle B is a set of subjects [name, kind, of, doc].  A name is a     *)
(* prefix and a label; `of` is the digest of the bytes, so no two documents have  *)
(* the same one, and sizes go with it.  doc holds what the checks compare: *)
(* references to other documents are their digests, `execution` stands for *)
(* all fields of the environment that must agree, times are integers, and  *)
(* a document of the recorded bag is the set of digests it refers to.      *)
(***************************************************************************)
EXTENDS Integers, FiniteSets, Sequences, FiniteSetsExt

CONSTANTS
  Bundles,        \* bundles to start from
  Library,        \* subjects there are
  Edits,          \* bound of the model: changes of the bundle
  None            \* for an optional field that is absent

Subjects == Library \cup UNION Bundles

\* Names are pairs, a digest identifies the document, and times are numbers.
ASSUME QualificationAssumption ==
  /\ IsFiniteSet(Subjects) /\ Edits \in Nat
  /\ \A s \in Subjects : s.name = <<s.name[1], s.name[2]>>
  /\ \A s, t \in Subjects : s.kind = t.kind /\ s.of = t.of => s.doc = t.doc
  /\ \A s \in Subjects :
       /\ s.kind \in {"domain_result", "clock_relation", "channel_observation"} =>
            {s.doc.started, s.doc.finished} \subseteq Int
       /\ s.kind = "execution_permit" => {s.doc.issued, s.doc.expires} \subseteq Int
       /\ s.kind = "execution_verification" => s.doc.verified \in Int

VARIABLES
  bundle,
  edits,
  accepted        \* the bundles that were found valid

qualificationVars == <<bundle, edits, accepted>>

RawKinds == {"metrics", "traces", "junit", "recording", "other_evidence", "policy", "package",
             "attestation", "verification"}

Of(B, kind) == {s \in B : s.kind = kind}
Shas(B, kind) == {s.of : s \in Of(B, kind)}
Identifies(B, kind, sha) == Cardinality({s \in Of(B, kind) : s.of = sha}) = 1
ByDigest(B, kind, sha) == (CHOOSE s \in Of(B, kind) : s.of = sha).doc
RetainedAs(B, kinds, sha) == Cardinality({s \in B : s.kind \in kinds /\ s.of = sha}) = 1
Retained(B, sha) == RetainedAs(B, RawKinds, sha)
AllRetained(B, shas) == \A sha \in shas : Retained(B, sha)
Ordered(times) == \A i \in 1..(Len(times) - 1) : times[i] <= times[i + 1]

Single(B, kind) == CHOOSE s \in Of(B, kind) : TRUE
Scenario(B) == Single(B, "scenario").doc
Run(B) == Single(B, "acceptance_run").doc
Aggregate(B) == Single(B, "acceptance_aggregate").doc
Labels(B, kind) == {s.name[2] : s \in Of(B, kind)}
Subject(B, kind, domain) == CHOOSE s \in Of(B, kind) : s.name[2] = domain
Runtime(B, d) == Subject(B, "runtime_manifest", d).doc
Result(B, d) == Subject(B, "domain_result", d).doc
IndexOf(B, d) == Subject(B, "evidence_index", d).doc
-----------------------------------------------------------------------------
(***************************************************************************)
(* The subjects every qualification has, and who they say they are.        *)
(***************************************************************************)
NamesAreUnique(B) == \A s, t \in B : s.name = t.name => s = t

\* _one and _labeled
ContextHolds(B) ==
  /\ \A kind \in {"scenario", "acceptance_run", "acceptance_aggregate"} :
       Cardinality(Of(B, kind)) = 1 /\ Single(B, kind).name = <<kind, "">>
  /\ \A kind \in {"runtime_manifest", "domain_result", "evidence_index", "recording_summary"} :
       \A s \in Of(B, kind) : s.name[1] = kind /\ s.name[2] # ""

IdentityHolds(B) ==
  /\ Run(B).scenario = Single(B, "scenario").of
  /\ Aggregate(B).run = Run(B).run
  /\ Aggregate(B).acceptance = Single(B, "acceptance_run").of

DomainsHold(B) ==
  \A kind \in {"runtime_manifest", "domain_result", "evidence_index"} :
    Labels(B, kind) = Run(B).domains

TimelineHolds(B, d) ==
  Ordered(<<Run(B).created, Runtime(B, d).generated, Result(B, d).started, IndexOf(B, d).generated,
            Result(B, d).finished, Aggregate(B).generated>>)

ResultIdentity(B, d) ==
  LET r == Result(B, d)
  IN /\ r.run = Run(B).run /\ r.domain = d
     /\ r.scenario = Single(B, "scenario").of
     /\ r.runtime = Subject(B, "runtime_manifest", d).of

\* _validate_execution_alignment: `meets` is the verdict on the figures of the
\* result, `within` the one it claims.
ExecutionHolds(B, d) ==
  LET r == Result(B, d)
      m == Runtime(B, d)
  IN /\ m.execution = Scenario(B).execution /\ r.execution = Scenario(B).execution
     /\ r.workload = m.workload /\ r.image = m.image
     /\ m.evaluators = Scenario(B).evaluators /\ r.evaluators = Scenario(B).evaluators
     /\ r.clock.source = Run(B).clock /\ r.clock.within = r.clock.meets
     /\ r.status = "passed" => r.realtime

EvidenceMatches(B, d) ==
  Result(B, d).evidence = {[of |-> a.of, kind |-> a.kind, receipt |-> a.receipt] :
                          a \in IndexOf(B, d).artifacts}

ResultsMatch(B) ==
  Aggregate(B).results =
    [d \in Labels(B, "domain_result") |->
       [of |-> Subject(B, "domain_result", d).of, status |-> Result(B, d).status]]
-----------------------------------------------------------------------------
(***************************************************************************)
(* What the run's documents refer to.  Providers, receipts, authorization  *)
(* and summaries must be referred to as well as present.                   *)
(***************************************************************************)
BindingHolds(B, d, b) ==
  LET result == ByDigest(B, "provider_conformance", b.conformance)
      needed == ByDigest(B, "qualification_profile", b.profile).capabilities
  IN /\ Identifies(B, "qualification_profile", b.profile)
     /\ Identifies(B, "provider_conformance", b.conformance)
     /\ result.run = Run(B).run /\ result.image = Runtime(B, d).image /\ result.profile = b.profile
     /\ result.capabilities = b.capabilities /\ result.status = "passed"
     /\ Ordered(<<Run(B).created, result.generated, Runtime(B, d).generated>>)
     /\ needed \subseteq result.capabilities
     /\ Retained(B, b.configuration) /\ AllRetained(B, result.evidence)

ProvidersHold(B) ==
  LET bindings == UNION {Runtime(B, d).bindings : d \in Run(B).domains}
  IN /\ \A d \in Run(B).domains :
          /\ \A b \in Runtime(B, d).bindings : BindingHolds(B, d, b)
          /\ Scenario(B).providers \subseteq UNION {b.capabilities : b \in Runtime(B, d).bindings}
     /\ Shas(B, "qualification_profile") = {b.profile : b \in bindings}
     /\ Shas(B, "provider_conformance") = {b.conformance : b \in bindings}

ReceiptHolds(B, sha, artifact, run) ==
  LET receipt == ByDigest(B, "artifact_receipt", sha)
      verification == ByDigest(B, "artifact_verification", receipt.verification)
  IN /\ Identifies(B, "artifact_receipt", sha)
     /\ RetainedAs(B, {"attestation"}, receipt.statement)
     /\ Identifies(B, "artifact_verification", receipt.verification)
     /\ verification.statement = receipt.statement /\ verification.artifact = receipt.artifact
     /\ verification.verified <= receipt.created
     /\ receipt.run # None =>
          Ordered(<<Run(B).created, verification.verified, receipt.created, Aggregate(B).generated>>)
     /\ RetainedAs(B, {"policy"}, verification.policy)
     /\ RetainedAs(B, {"verification"}, verification.evidence) /\ AllRetained(B, verification.files)
     /\ receipt.artifact = artifact
     /\ run # None => receipt.run = run

RetainedArtifacts(B) ==
  {a \in UNION {IndexOf(B, d).artifacts : d \in Labels(B, "evidence_index")} : a.receipt # None}

ReceiptsUsed(B) ==
  {a.receipt : a \in RetainedArtifacts(B)} \cup {e.receipt : e \in Scenario(B).evaluators}

ReceiptsPresent(B) ==
  /\ \A a \in RetainedArtifacts(B) : ReceiptHolds(B, a.receipt, a.of, Run(B).run)
  /\ \A e \in Scenario(B).evaluators :
       RetainedAs(B, {"package"}, e.package) /\ ReceiptHolds(B, e.receipt, e.package, None)

ReceiptsHold(B) ==
  /\ ReceiptsPresent(B)
  /\ Shas(B, "artifact_receipt") = ReceiptsUsed(B)
  /\ Shas(B, "artifact_verification")
       = {ByDigest(B, "artifact_receipt", sha).verification : sha \in ReceiptsUsed(B)}

\* _optional_artifact
Optional(B, kind, sha) ==
  IF sha = None THEN Of(B, kind) = {} ELSE Identifies(B, kind, sha) /\ Cardinality(Of(B, kind)) = 1

\* _validate_played_bag: one provider replayed these recordings and no other.
Played(B, d, bag) ==
  \E b \in Runtime(B, d).bindings :
    LET played == ByDigest(B, "provider_conformance", b.conformance).evidence
    IN /\ b.plays /\ Identifies(B, "provider_conformance", b.conformance)
       /\ {bag.metadata} \cup {m.recording : m \in bag.members} \cup {m.summary : m \in bag.members}
            \subseteq played
       /\ played \cap Shas(B, "recording") = {m.recording : m \in bag.members}

DatasetHolds(B, bag) ==
  /\ RetainedAs(B, {"other_evidence"}, bag.metadata)
  /\ \A m \in bag.members :
       /\ RetainedAs(B, {"recording"}, m.recording)
       /\ Identifies(B, "recording_summary", m.summary)
       /\ ByDigest(B, "recording_summary", m.summary).source = m.recording
  /\ \A sha \in bag.captured : RetainedAs(B, {"other_evidence"}, sha)
  /\ Scenario(B).playback => \A d \in Run(B).domains : Played(B, d, bag)

ModelAndDatasetHold(B) ==
  /\ Optional(B, "model_manifest", Scenario(B).model)
  /\ Optional(B, "dataset_manifest", Scenario(B).dataset)
  /\ \A d \in Run(B).domains :
       /\ Result(B, d).model = Scenario(B).model /\ Result(B, d).dataset = Scenario(B).dataset
       /\ Runtime(B, d).model = Scenario(B).model
  /\ Scenario(B).model # None =>
       AllRetained(B, ByDigest(B, "model_manifest", Scenario(B).model).files)
  /\ Scenario(B).dataset # None =>
       DatasetHolds(B, ByDigest(B, "dataset_manifest", Scenario(B).dataset))

\* _robot_description_bindings
DescriptionsHold(B) ==
  \A d \in Run(B).domains :
    Runtime(B, d).description # None => Identifies(B, "other_evidence", Runtime(B, d).description)

ConfigurationHolds(B) ==
  /\ AllRetained(B, Run(B).configuration \cup Scenario(B).configuration)
  /\ \A d \in Run(B).domains : AllRetained(B, Runtime(B, d).configuration)
-----------------------------------------------------------------------------
(***************************************************************************)
(* Permission to act on hardware.                                          *)
(***************************************************************************)
Physical(B) == Scenario(B).environment = "physical"

DomainAuthorized(B, d) ==
  LET m == Runtime(B, d)
      r == Result(B, d)
      permit == ByDigest(B, "execution_permit", m.authorization.permit)
      verification == ByDigest(B, "execution_verification", m.authorization.verification)
      target == CHOOSE t \in m.targets : t.target = permit.target
  IN /\ r.authorization = m.authorization /\ m.authorization.policy = Scenario(B).policy
     /\ m.authorization.permit \in Shas(B, "execution_permit")
     /\ m.authorization.verification \in Shas(B, "execution_verification")
     /\ permit.scenario = Single(B, "scenario").of /\ permit.image = m.image
     /\ permit.policy = Scenario(B).policy /\ verification.policy = Scenario(B).policy
     /\ verification.permit = m.authorization.permit /\ verification.target = permit.target
     /\ r.target = permit.target /\ verification.signers = permit.signers
     /\ Scenario(B).scope \subseteq permit.scope
     /\ \E t \in m.targets : t.target = permit.target
     /\ target.preflight = permit.interlock
     /\ Scenario(B).scope \subseteq {t.scope : t \in m.targets}
     /\ Ordered(<<permit.issued, verification.verified, r.started, r.finished>>)
     /\ r.finished < permit.expires
     /\ Retained(B, permit.interlock) /\ AllRetained(B, verification.files)
     /\ \A sha \in m.policies : RetainedAs(B, {"policy"}, sha)
     /\ \A t \in m.targets : Retained(B, t.preflight)
     /\ r.checked = Scenario(B).forbidden

AuthorizationHolds(B) ==
  IF ~Physical(B) THEN Of(B, "execution_permit") = {} /\ Of(B, "execution_verification") = {}
  ELSE /\ RetainedAs(B, {"policy"}, Scenario(B).policy)
       /\ \A d \in Run(B).domains : DomainAuthorized(B, d)
       /\ Shas(B, "execution_permit") = {Runtime(B, d).authorization.permit : d \in Run(B).domains}
       /\ Shas(B, "execution_verification")
            = {Runtime(B, d).authorization.verification : d \in Run(B).domains}

(***************************************************************************)
(* Recordings and their summaries.                                         *)
(***************************************************************************)
SummaryReferences(B) ==
  {[of |-> a.summary, source |-> a.of] :
     a \in {any \in UNION {IndexOf(B, d).artifacts : d \in Labels(B, "evidence_index")} :
              any.summary # None}}
  \cup UNION {{[of |-> m.summary, source |-> m.recording] : m \in s.doc.members} :
                s \in {any \in Of(B, "dataset_manifest") : any.of = Scenario(B).dataset}}

RecordingsHold(B) ==
  /\ \A d \in Labels(B, "evidence_index") : \A a \in IndexOf(B, d).artifacts :
       RetainedAs(B, IF a.kind = "recording" THEN {"recording"} ELSE RawKinds, a.of)
  /\ \A q, r \in SummaryReferences(B) : q.of = r.of => q = r
  /\ Shas(B, "recording_summary") = {q.of : q \in SummaryReferences(B)}
  /\ \A q \in SummaryReferences(B) : ByDigest(B, "recording_summary", q.of).source = q.source
-----------------------------------------------------------------------------
(***************************************************************************)
(* Transport between domains.                                              *)
(***************************************************************************)
TransportSources == {"causal_chain_contract", "channel_contract", "channel_observation",
                     "clock_relation"}
Transport(B) == Single(B, "transport_qualification").doc
Documents(B, kind) == {s.doc : s \in Of(B, kind)}
ChannelNamed(B, id) == CHOOSE c \in Documents(B, "channel_contract") : c.id = id
ChannelSha(B, id) == (CHOOSE s \in Of(B, "channel_contract") : s.doc.id = id).of
KnownChannel(B, id) == \E c \in Documents(B, "channel_contract") : c.id = id
OneOfEach(B, kind) == \A s, t \in Of(B, kind) : s.doc.id = t.doc.id => s = t
WithinDomains(B, document, domains) ==
  \A d \in domains :
    Ordered(<<Result(B, d).started, document.started, document.finished, Result(B, d).finished>>)

PointerHolds(B) ==
  /\ Cardinality(Of(B, "transport_qualification")) = 1
  /\ Single(B, "transport_qualification").name = <<"transport_qualification", "">>
  /\ Transport(B).run = Run(B).run
  /\ Ordered(<<Run(B).created, Transport(B).evaluated, Transport(B).generated,
               Aggregate(B).generated>>)
  /\ \A d \in Labels(B, "domain_result") : Result(B, d).finished <= Transport(B).evaluated
  /\ Aggregate(B).transport = [of |-> Single(B, "transport_qualification").of,
                            status |-> Transport(B).status]

SourcesHold(B) ==
  /\ \A kind \in {"channel_contract", "channel_observation", "causal_chain_contract"} :
       OneOfEach(B, kind)
  /\ \A o \in Documents(B, "channel_observation") :
       o.run = Run(B).run /\ KnownChannel(B, o.channel) /\ o.contract = ChannelSha(B, o.channel)
  /\ \A c \in Documents(B, "causal_chain_contract") : \A i \in DOMAIN c.channels :
       KnownChannel(B, c.channels[i].id) /\ c.channels[i].of = ChannelSha(B, c.channels[i].id)

\* What is between domains is between domains of the run, over known channels.
ReferencesKnown(B) ==
  /\ \A c \in Documents(B, "channel_contract") :
       {c.source, c.destination} \subseteq Labels(B, "domain_result")
  /\ \A chain \in Transport(B).chains : \A i \in DOMAIN chain.hops :
       KnownChannel(B, chain.hops[i].id)

\* A relation of this run and its policy, on retained evidence.
RelationFits(B, r) ==
  /\ r.run = Run(B).run /\ r.scenario = Single(B, "scenario").of /\ r.policy = Scenario(B).clock
  /\ Ordered(<<Run(B).created, r.started, r.finished, Transport(B).evaluated>>)
  /\ {r.source, r.destination} \subseteq Labels(B, "domain_result")
  /\ \E d \in Labels(B, "evidence_index") : r.evidence \in {a.of : a \in IndexOf(B, d).artifacts}

RelationHolds(B, r) == RelationFits(B, r) /\ WithinDomains(B, r, {r.source, r.destination})

PairsHold(B) ==
  LET required == {<<c.source, c.destination>> : c \in Documents(B, "channel_contract")}
      related == {<<r.source, r.destination>> : r \in Documents(B, "clock_relation")}
  IN /\ related \subseteq required
     /\ related # required => Transport(B).status \in {"incomplete", "error"}

\* What the transport result lists is what there is, under its own verdicts.
ProjectionsHold(B) ==
  /\ Transport(B).relations = {[of |-> s.of, id |-> s.doc.id, status |-> s.doc.status] :
                              s \in Of(B, "clock_relation")}
  /\ Transport(B).contracts = {[of |-> s.of, id |-> s.doc.id] : s \in Of(B, "causal_chain_contract")}
  /\ Transport(B).channels = {[of |-> s.of, id |-> s.doc.id] : s \in Of(B, "channel_contract")}
  /\ Transport(B).observations = {[of |-> s.of, id |-> s.doc.id, status |-> s.doc.status] :
                                 s \in Of(B, "channel_observation")}

\* channel_observation_status
ObservationStatus(violations) ==
  CASE violations = {} -> "passed"
    [] "error" \in violations -> "error"
    [] violations = {"incomplete"} -> "incomplete"
    [] OTHER -> "failed"

\* `violates` is what the contract's limits make of the counts, `violations` what
\* is reported.
DeliveryAgrees(o) == o.violations = o.violates /\ o.status = ObservationStatus(o.violates)

ObservationHolds(B, o) ==
  LET channel == ChannelNamed(B, o.channel)
  IN /\ Ordered(<<Run(B).created, o.started, o.finished, Transport(B).evaluated>>)
     /\ WithinDomains(B, o, {channel.source, channel.destination})
     /\ DeliveryAgrees(o)

ChainHolds(B, c) ==
  LET result == CHOOSE chain \in Transport(B).chains : chain.id = c.id
      channels == {ChannelNamed(B, c.channels[i].id) : i \in DOMAIN c.channels}
  IN /\ result.channels = [i \in DOMAIN c.channels |-> c.channels[i].id]
     /\ c.required = UNION {{channel.source, channel.destination} : channel \in channels}
     /\ \A i \in DOMAIN result.hops :
          result.hops[i].relationship = ChannelNamed(B, result.hops[i].id).relationship

TracesHold(B) ==
  /\ DOMAIN Transport(B).traces = Run(B).domains
  /\ \A d \in Labels(B, "evidence_index") :
       /\ Transport(B).traces[d].index = Subject(B, "evidence_index", d).of
       /\ Transport(B).traces[d].of \in {a.of : a \in IndexOf(B, d).artifacts}

TransportHolds(B) ==
  IF Aggregate(B).transport = None
  THEN \A kind \in TransportSources \cup {"transport_qualification"} : Of(B, kind) = {}
  ELSE /\ PointerHolds(B) /\ SourcesHold(B) /\ ReferencesKnown(B)
       /\ Transport(B).scenario = Single(B, "scenario").of /\ Scenario(B).clock # None
       /\ OneOfEach(B, "clock_relation")
       /\ \A r \in Documents(B, "clock_relation") : RelationHolds(B, r)
       /\ ProjectionsHold(B) /\ PairsHold(B)
       /\ \A c \in Documents(B, "channel_contract") : Retained(B, c.configuration)
       /\ \A o \in Documents(B, "channel_observation") : ObservationHolds(B, o)
       /\ \A c \in Documents(B, "causal_chain_contract") : ChainHolds(B, c)
       /\ TracesHold(B)
-----------------------------------------------------------------------------
(***************************************************************************)
(* inspect_links: what one failed check keeps from being tried.            *)
(***************************************************************************)
DomainHolds(B, d) ==
  TimelineHolds(B, d) /\ ResultIdentity(B, d) /\ ExecutionHolds(B, d)
  /\ Scenario(B).assertions \subseteq Result(B, d).assertions /\ EvidenceMatches(B, d)

BindingsHold(B) ==
  /\ DescriptionsHold(B) /\ ProvidersHold(B) /\ ReceiptsHold(B)
  /\ ModelAndDatasetHold(B) /\ ConfigurationHolds(B) /\ AuthorizationHolds(B)
  /\ RecordingsHold(B) /\ TransportHolds(B)

Valid(B) ==
  /\ NamesAreUnique(B) /\ ContextHolds(B) /\ IdentityHolds(B) /\ DomainsHold(B)
  /\ \A d \in Labels(B, "domain_result") : DomainHolds(B, d)
  /\ ResultsMatch(B)
  /\ \A s \in Of(B, "evidence_index") : s.doc.run = Run(B).run
  /\ BindingsHold(B)

\* inspect_qualification_artifacts reads every file once and inspects what it read.
InspectLinks ==
  /\ Valid(bundle) /\ bundle \notin accepted
  /\ accepted' = accepted \cup {bundle}
  /\ UNCHANGED <<bundle, edits>>

\* The files change before they are inspected again (external).
Edit ==
  /\ edits < Edits /\ edits' = edits + 1
  /\ \/ \E s \in bundle : bundle' = bundle \ {s}
     \/ \E s \in Library \ bundle : bundle' = bundle \cup {s}
     \/ \E s \in bundle : \E t \in Library \ bundle :
          s.name = t.name /\ bundle' = (bundle \ {s}) \cup {t}
  /\ UNCHANGED accepted

QualificationInit == bundle \in Bundles /\ edits = 0 /\ accepted = {}

QualificationNext == InspectLinks \/ Edit

QualificationSpec == QualificationInit /\ [][QualificationNext]_qualificationVars
-----------------------------------------------------------------------------
(***************************************************************************)
(* Properties.                                                             *)
(***************************************************************************)
\* The kinds of which an aggregate fixes every document.  Only a transport
\* result names the evidence indexes, and with them the summaries.
FixedKinds(B) ==
  {"scenario", "acceptance_run", "runtime_manifest", "domain_result", "qualification_profile",
   "provider_conformance", "artifact_receipt", "artifact_verification", "model_manifest",
   "dataset_manifest", "execution_permit", "execution_verification", "transport_qualification"}
  \cup TransportSources
  \cup IF Aggregate(B).transport = None THEN {} ELSE {"evidence_index", "recording_summary"}

\* Two bundles that are found valid with the same aggregate hold the same
\* contract documents: none can be left out, added or replaced without its
\* aggregate (the links of _qualification_checks.py 130-260 and the equalities of
\* used and supplied subjects in _qualification.py 618-621, 723-730 and 915).
AggregateFixesBundle ==
  \A B, C \in accepted :
    Of(B, "acceptance_aggregate") \subseteq C =>
      \A kind \in FixedKinds(B) : Shas(B, kind) = Shas(C, kind)

\* What was observed between domains lies in the time in which d was permitted
\* to run: after the permit was verified and before it expires.
Permitted(B, document, d) ==
  LET m == Runtime(B, d).authorization
  IN /\ ByDigest(B, "execution_verification", m.verification).verified <= document.started
     /\ document.finished < ByDigest(B, "execution_permit", m.permit).expires

\* In a valid physical bundle everything observed between domains was observed
\* while both of them were permitted to run (_qualification.py 868-875 with
\* 1110-1116 and 1221-1227).
ObservedUnderPermit ==
  \A B \in accepted :
    Physical(B) /\ Aggregate(B).transport # None =>
      /\ \A r \in Documents(B, "clock_relation") :
           Permitted(B, r, r.source) /\ Permitted(B, r, r.destination)
      /\ \A o \in Documents(B, "channel_observation") :
           LET channel == ChannelNamed(B, o.channel)
           IN Permitted(B, o, channel.source) /\ Permitted(B, o, channel.destination)
=============================================================================
