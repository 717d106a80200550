---------------------------- MODULE Aggregation ----------------------------
(***************************************************************************)
(* From domain results to the aggregate of a run and the summary of a      *)
(* campaign (packages/harness/.../aggregate, campaign; the rules of        *)
(* contracts/.../semantics for what they write).                           *)
(*                                                                         *)
(* Every document is a file of its own which others may replace at any     *)
(* time: a run is started again, a domain evaluated or a transport         *)
(* qualified once more.  Contents are numbered by v, as digests tell them  *)
(* apart.  The result of a native scenario names the run context of its    *)
(* execution and how it was assessed; all else that a document says of the *)
(* run, the scenario, its time authority and profile is one flag, `fits`.  *)
(***************************************************************************)
EXTENDS Verdict, Integers, FiniteSets, Sequences, SequencesExt, TLC

CONSTANTS
  RunOrder,       \* the runs of a campaign, as given to it
  Results,        \* the paths of the domain results of a run, as given
  Finished,       \* the files of all runs when they have finished
  ResultContents, \* [status, fits, version, assessed] of an evaluation
  RunDomains,     \* sets of domains a run may declare
  Qualifications, \* evidence of a transport qualification, see Admitted
  Policy,         \* [passed, failed, incomplete, error] of a campaign
  Rewrites,       \* bound of the model: files replaced, per run
  Attempts,       \* bound of the model: aggregations
  Absent

Runs == ToSet(RunOrder)
Paths == {"context", "transport"} \cup ToSet(Results)

ContextDocuments == [v : Nat, domains : SUBSET STRING, native : BOOLEAN]
TransportDocuments == [v : Nat, status : Statuses, domains : SUBSET STRING, fits : BOOLEAN]
ResultDocuments == [v : Nat, domain : STRING, execution : Nat, status : Statuses,
                    fits : BOOLEAN, version : 1..3, assessed : STRING]

\* What the file at a path may hold.
DocumentsAt(path) ==
  CASE path = "context" -> ContextDocuments
    [] path = "transport" -> TransportDocuments \cup {Absent}
    [] OTHER -> ResultDocuments

\* evaluate_causal_chain: it finds messages on some of a chain's channels, in
\* their order, and on each of them when the chain passed (see Traces).
Correlates(x) ==
  /\ x.channels \in Seq(ToSet(x.channels)) /\ x.correlated \in Seq(ToSet(x.channels))
  /\ IsInjective(x.channels) => IsInjective(x.correlated)
  /\ x.status = "passed" => x.correlated = x.channels

\* The contents are numbered from 0, and every chain and channel of evidence has
\* a status.
ASSUME AggregationAssumption ==
  /\ RunOrder \in Seq(Runs) /\ RunOrder # <<>> /\ IsFiniteSet(Runs)
  /\ Results \in Seq(STRING) /\ Results # <<>> /\ {"context", "transport"} \cap ToSet(Results) = {}
  /\ Rewrites \in [Runs -> Nat] /\ Attempts \in Nat
  /\ Policy \in [{"passed", "failed", "incomplete", "error"} -> Nat]
  /\ RunDomains \subseteq SUBSET STRING
  /\ Absent \notin ContextDocuments \cup TransportDocuments \cup ResultDocuments
  /\ \A f \in Finished :
       /\ f = [r \in Runs |-> [p \in Paths |-> f[r][p]]]
       /\ \A r \in Runs, p \in Paths :
            f[r][p] \in DocumentsAt(p) /\ (f[r][p] # Absent => f[r][p].v = 0)
  /\ \A c \in ResultContents :
       /\ c.status \in Statuses /\ c.fits \in BOOLEAN
       /\ c.version \in 1..3 /\ c.assessed \in STRING
  /\ \A q \in Qualifications :
       /\ q.traces \subseteq STRING /\ q.fits \in BOOLEAN /\ DOMAIN q.observed = q.channels
       /\ Range(q.observed) \cup Range(q.relations) \subseteq Statuses
       /\ {x.status : x \in q.chains} \subseteq Statuses
       /\ \A x \in q.chains : Correlates(x)

VARIABLES
  files,          \* files[r][path]
  past,           \* every state files[r] was in
  rewrites,
  reader,         \* reader[r]: aggregate_results of run r
  attempts,
  aggregate,      \* aggregate[r], as written
  campaign        \* aggregate_campaign

aggregationVars == <<files, past, rewrites, reader, attempts, aggregate, campaign>>
-----------------------------------------------------------------------------
(***************************************************************************)
(* evaluate_transport_qualification, on evidence                           *)
(* [channels, chains, traces, relations, observed, fits]: a channel is     *)
(* [id, source, destination] of two domains; a chain has its channels, the *)
(* domains it requires, the status of its search and the channels which it *)
(* found messages on; relations and observed give the status of a clock    *)
(* relation per pair of domains and of the observation of each channel.    *)
(***************************************************************************)
Touched(channels) == UNION {{c.source, c.destination} : c \in channels}

DomainPairs(channels) == {<<c.source, c.destination>> : c \in channels}

\* What a channel contract and a causal-chain contract must keep to be loaded; a
\* channel also carries one type of message, under other names at its two ends.
Crosses(c) == c.source # c.destination
ListsOnce(x) == IsInjective(x.channels)

\* The chains are of the channels given and of no other, and name their domains.
ChainsCover(q) ==
  /\ q.chains # {}
  /\ \A c \in q.channels : Crosses(c)
  /\ \A x \in q.chains : ListsOnce(x)
  /\ UNION {ToSet(x.channels) : x \in q.chains} = q.channels
  /\ \A x \in q.chains : x.required = Touched(ToSet(x.channels))

TracesCover(q) == Touched(q.channels) = q.traces

RelationsFit(q) == DOMAIN q.relations \subseteq DomainPairs(q.channels)

Admitted(q) == ChainsCover(q) /\ TracesCover(q) /\ RelationsFit(q)

\* A pair of domains without a relation leaves the qualification incomplete.
ClockStatuses(q) ==
  Range(q.relations)
    \cup {s \in {"incomplete"} : DOMAIN q.relations # DomainPairs(q.channels)}

Collapsed(S) == IF WorstStatus(S) = "cancelled" THEN "incomplete" ELSE WorstStatus(S)

TransportStatus(q) ==
  Collapsed(Range(q.observed) \cup {x.status : x \in q.chains} \cup ClockStatuses(q))

\* _hop_document: the spans of a hop are of the two domains of its channel.
Hop(c) == [channel |-> c, producer |-> c.source, consumer |-> c.destination, status |-> "passed"]
Hops(x) == [k \in 1..Len(x.correlated) |-> Hop(x.correlated[k])]

(***************************************************************************)
(* _validate_transport_qualification of what was written.                  *)
(***************************************************************************)
RegistersAgree(q) ==
  /\ q.traces = Touched(q.channels)
  /\ \A c \in q.channels : c.source # c.destination
  /\ DOMAIN q.relations \subseteq DomainPairs(q.channels) /\ DOMAIN q.observed = q.channels

\* Each chain goes on where its last channel ended.
Continuous(x) ==
  \A k \in 1..(Len(x.channels) - 1) : x.channels[k].destination = x.channels[k + 1].source

KnownHops(q, hops) ==
  /\ \A k \in DOMAIN hops : hops[k].channel \in q.channels
  /\ \A j, k \in DOMAIN hops : hops[j].channel = hops[k].channel => j = k

\* A chain that passed has one hop per channel in order, each of which passed
\* from the channel's source to its destination.  Its spans are told apart and
\* belong to one message as they are paired (see Traces).
HopsPass(x, hops) ==
  /\ [k \in DOMAIN hops |-> hops[k].channel] = x.channels
  /\ \A k \in DOMAIN hops :
       /\ hops[k].status = "passed" /\ hops[k].producer # hops[k].consumer
       /\ hops[k].producer = hops[k].channel.source
       /\ hops[k].consumer = hops[k].channel.destination

VerdictAgrees(q, status) ==
  status = Collapsed({"passed"} \cup {x.status : x \in q.chains}
             \cup Range(q.observed) \cup ClockStatuses(q))

TransportAccepted(q, status) ==
  /\ RegistersAgree(q)
  /\ \A x \in q.chains :
       /\ Continuous(x) /\ KnownHops(q, Hops(x))
       /\ x.status = "passed" => HopsPass(x, Hops(x))
  /\ UNION {ToSet(x.channels) : x \in q.chains} = q.channels
  /\ VerdictAgrees(q, status)
-----------------------------------------------------------------------------
(***************************************************************************)
(* aggregate_results of run r: load all documents, check them, read all    *)
(* files once more, write.                                                 *)
(***************************************************************************)
Idle == [phase |-> "idle", order |-> <<>>, k |-> 0, read |-> <<>>]

Loaded(rd, path) == rd.read[CHOOSE k \in 1..Len(rd.order) : rd.order[k] = path]
ResultsOf(rd) == {Loaded(rd, p) : p \in ToSet(Results)}
WithTransport(rd) == "transport" \in ToSet(rd.order)

\* _validate_registry_version
RegistryHolds(rd) ==
  LET native == Loaded(rd, "context").native
      versions == {x.version : x \in ResultsOf(rd)}
  IN /\ Cardinality(versions) = 1 /\ versions \subseteq IF native THEN {2, 3} ELSE {1}
     /\ native => ~WithTransport(rd)

\* _validate_native_result: of this run context, and assessed as the first is.
OneAssessment(rd) ==
  \A x \in ResultsOf(rd) :
    /\ x.execution = Loaded(rd, "context").v
    /\ x.assessed = Loaded(rd, Results[1]).assessed

\* _validate_aggregation_results
ResultsHold(rd) ==
  /\ \A x \in ResultsOf(rd) : x.fits
  /\ Loaded(rd, "context").native => OneAssessment(rd)

\* The results registered under the domains of the run, and all of one run.
Registered(rd) ==
  LET context == Loaded(rd, "context")
      transport == Loaded(rd, "transport")
  IN /\ RegistryHolds(rd)
     /\ {x.domain : x \in ResultsOf(rd)} = context.domains
     /\ \A p, o \in ToSet(Results) : p # o => Loaded(rd, p).domain # Loaded(rd, o).domain
     /\ ResultsHold(rd)
     /\ WithTransport(rd) => transport.fits /\ transport.domains = context.domains

Document(rd) ==
  LET worst == WorstStatus({x.status : x \in ResultsOf(rd)})
  IN [context |-> Loaded(rd, "context").v,
      results |-> [p \in ToSet(Results) |-> Loaded(rd, p)],
      domains |-> worst,
      cross |-> IF WithTransport(rd)
                THEN Collapsed({worst, Loaded(rd, "transport").status})
                ELSE "unevaluated",
      transport |-> IF WithTransport(rd) THEN Loaded(rd, "transport") ELSE Absent]

\* _validate_acceptance_aggregate
AggregateAccepted(a) ==
  LET expected == WorstStatus({a.results[p].status : p \in DOMAIN a.results})
  IN /\ a.domains = expected
     /\ a.cross # "unevaluated" => a.cross = Collapsed({expected, a.transport.status})

Start(r) ==
  /\ reader[r].phase \in {"idle", "refused"} /\ attempts < Attempts /\ attempts' = attempts + 1
  /\ \E more \in {<<>>, <<"transport">>} :
       reader' = [reader EXCEPT ![r] = [phase |-> "load", k |-> 1, read |-> <<>>,
                                        order |-> <<"context">> \o Results \o more]]
  /\ UNCHANGED <<files, past, rewrites, aggregate, campaign>>

Turn(r, next) ==
  /\ reader' = [reader EXCEPT ![r] = next]
  /\ UNCHANGED <<files, past, rewrites, attempts, campaign>>

Refuse(r) == Turn(r, [Idle EXCEPT !.phase = "refused"]) /\ UNCHANGED aggregate

Load(r) ==
  LET rd == reader[r]
      content == files[r][rd.order[rd.k]]
      read == Append(rd.read, content)
  IN /\ rd.phase = "load"
     /\ IF content = Absent THEN Refuse(r)
        ELSE IF rd.k < Len(rd.order)
        THEN Turn(r, [phase |-> "load", order |-> rd.order, k |-> rd.k + 1, read |-> read])
               /\ UNCHANGED aggregate
        ELSE IF Registered([rd EXCEPT !.read = read])
        THEN Turn(r, [phase |-> "recheck", order |-> rd.order, k |-> 1, read |-> read])
               /\ UNCHANGED aggregate
        ELSE Refuse(r)

\* The file still has the digest it was loaded with.
Unchanged(r) == LET rd == reader[r] IN files[r][rd.order[rd.k]] = rd.read[rd.k]

Recheck(r) ==
  LET rd == reader[r]
  IN /\ rd.phase = "recheck"
     /\ IF ~Unchanged(r) THEN Refuse(r)
        ELSE IF rd.k < Len(rd.order)
        THEN Turn(r, [rd EXCEPT !.k = rd.k + 1]) /\ UNCHANGED aggregate
        ELSE IF AggregateAccepted(Document(rd))
        THEN Turn(r, Idle) /\ aggregate' = [aggregate EXCEPT ![r] = Document(rd)]
        ELSE Turn(r, [Idle EXCEPT !.phase = "invalid"]) /\ UNCHANGED aggregate
-----------------------------------------------------------------------------
(***************************************************************************)
(* aggregate_campaign: load all contexts, then all aggregates, judge.      *)
(***************************************************************************)
StatusOfRun(a) ==
  LET s == IF a.cross = "unevaluated" THEN a.domains ELSE a.cross
  IN IF s \in {"passed", "failed", "incomplete", "error"} THEN s ELSE "incomplete"

Count(status, s) == Cardinality({r \in Runs : status[r] = s})

Allowed(status) ==
  /\ Count(status, "passed") >= Policy.passed
  /\ \A s \in {"failed", "incomplete", "error"} : Count(status, s) <= Policy[s]

VerdictByPriority(status) == WorstStatus(Range(status))

CampaignVerdict(status) ==
  IF Allowed(status) THEN "passed"
  ELSE CASE Count(status, "error") > 0 -> "error"
         [] Count(status, "error") = 0 /\ Count(status, "failed") > 0 -> "failed"
         [] OTHER -> "incomplete"

\* _validate_campaign_summary
CampaignAccepted(status, verdict) ==
  LET worst == WorstStatus(Range(status))
  IN \/ verdict = IF Allowed(status) THEN "passed"
                  ELSE IF worst = "passed" THEN "failed" ELSE worst
     \/ /\ verdict = "incomplete" /\ Count(status, "passed") < Policy.passed
        /\ Count(status, "failed") = 0 /\ Count(status, "error") = 0

SameRunOnly(r, context, a) == a # Absent

\* The aggregate is one of the run context that was given with it.
Linked(r, context, a) == a # Absent /\ a.context = context.v

LoadContext ==
  LET k == Len(campaign.contexts) + 1
  IN /\ campaign.phase = "contexts"
     /\ campaign' = [campaign EXCEPT !.contexts = Append(@, files[RunOrder[k]]["context"]),
                       !.phase = IF k = Len(RunOrder) THEN "aggregates" ELSE @]
     /\ UNCHANGED <<files, past, rewrites, reader, attempts, aggregate>>

\* The place of run r in the campaign, and the statuses of its runs.
Place(r) == CHOOSE i \in 1..Len(RunOrder) : RunOrder[i] = r
StatusesOf(loaded) == [r \in Runs |-> StatusOfRun(loaded[Place(r)])]

LoadAggregate ==
  LET k == Len(campaign.aggregates) + 1
      loaded == Append(campaign.aggregates, aggregate[RunOrder[k]])
      verdict == CampaignVerdict(StatusesOf(loaded))
  IN /\ campaign.phase = "aggregates"
     /\ aggregate[RunOrder[k]] # Absent
     /\ campaign' =
          IF k < Len(RunOrder) THEN [campaign EXCEPT !.aggregates = loaded]
          ELSE [campaign EXCEPT !.aggregates = loaded,
            !.phase = IF \E i \in 1..k : ~Linked(RunOrder[i], campaign.contexts[i], loaded[i])
                      THEN "refused"
                      ELSE IF CampaignAccepted(StatusesOf(loaded), verdict) THEN verdict
                      ELSE "invalid"]
     /\ UNCHANGED <<files, past, rewrites, reader, attempts, aggregate>>
-----------------------------------------------------------------------------
(***************************************************************************)
(* Others replace files (external, but for the transport qualification).   *)
(***************************************************************************)
Replace(r, path, contents) ==
  /\ rewrites[r] < Rewrites[r] /\ rewrites' = [rewrites EXCEPT ![r] = @ + 1]
  /\ \E c \in contents :
       LET now == [files[r] EXCEPT ![path] = c]
       IN files' = [files EXCEPT ![r] = now] /\ past' = [past EXCEPT ![r] = @ \cup {now}]
  /\ UNCHANGED <<reader, attempts, aggregate, campaign>>

\* The number of the next contents.
Fresh(r) == rewrites[r] + 1

Qualify(r) ==
  Replace(r, "transport",
    {[v |-> Fresh(r), status |-> TransportStatus(q), domains |-> q.traces, fits |-> q.fits] :
       q \in {x \in Qualifications : Admitted(x) /\ TransportAccepted(x, TransportStatus(x))}})

\* A native scenario has results of version 2 or 3, any other of version 1.
Evaluate(r) ==
  \E p \in ToSet(Results) :
    Replace(r, p,
      {[v |-> Fresh(r), domain |-> files[r][p].domain, execution |-> e, status |-> c.status,
        fits |-> c.fits, version |-> c.version, assessed |-> c.assessed] :
         c \in {x \in ResultContents : x.version = 1 <=> files[r][p].version = 1},
         e \in {files[r][p].execution, files[r]["context"].v}})

RunAgain(r) ==
  Replace(r, "context",
    {[v |-> Fresh(r), domains |-> D, native |-> files[r]["context"].native] : D \in RunDomains})

AggregationInit ==
  /\ files \in Finished
  /\ past = [r \in Runs |-> {files[r]}] /\ rewrites = [r \in Runs |-> 0]
  /\ reader = [r \in Runs |-> Idle] /\ attempts = 0
  /\ aggregate = [r \in Runs |-> Absent]
  /\ campaign = [phase |-> "contexts", contexts |-> <<>>, aggregates |-> <<>>]

AggregationNext ==
  \/ \E r \in Runs : Start(r) \/ Load(r) \/ Recheck(r)
  \/ LoadContext \/ LoadAggregate
  \/ \E r \in Runs : Qualify(r) \/ Evaluate(r) \/ RunAgain(r)

AggregationSpec == AggregationInit /\ [][AggregationNext]_aggregationVars
-----------------------------------------------------------------------------
(***************************************************************************)
(* Properties.                                                             *)
(***************************************************************************)
Judged == campaign.phase \in {"passed", "failed", "incomplete", "error"}

\* The worst outcome of the results and the transport qualification of a run.
Outcome(a) ==
  LET s == WorstStatus({a.results[p].status : p \in ToSet(Results)}
             \cup {x.status : x \in {a.transport} \ {Absent}})
  IN IF s \in {"skipped", "cancelled"} THEN "incomplete" ELSE s

\* All that an aggregate sums up was on disk together, under this run context.
Together(context, a, was) ==
  /\ was["context"] = context
  /\ \A p \in ToSet(Results) : was[p] = a.results[p]
  /\ a.transport # Absent => was["transport"] = a.transport

\* Results of a native run are of its execution, and assessed alike.
OfOneExecution(context, a) ==
  context.native =>
    /\ \A p \in ToSet(Results) : a.results[p].execution = context.v
    /\ \A p, o \in ToSet(Results) : a.results[p].assessed = a.results[o].assessed

\* A campaign counts each of its runs by the worst outcome that the results and
\* the transport qualification of this very run, not of an earlier or later one
\* under its name, had when all were on disk together, though they are read one
\* by one while others replace them; the results of a native run are of this
\* execution and of one assessment; and the campaign passes just when the runs
\* so counted keep its policy (aggregate.py 54-97, 157-177, 266-326 and
\* campaign.py 28-127).
CampaignIsSound ==
  Judged =>
    LET Summed(r) == campaign.aggregates[Place(r)]
        ContextOf(r) == campaign.contexts[Place(r)]
    IN /\ \A r \in Runs :
            /\ OfOneExecution(ContextOf(r), Summed(r))
            /\ \E was \in past[r] : Together(ContextOf(r), Summed(r), was)
       /\ campaign.phase = "passed" <=> Allowed([r \in Runs |-> Outcome(Summed(r))])

\* What the harness writes never contradicts the rules its contracts have for
\* it: an aggregate, a campaign summary, and a transport qualification of
\* continuous chains pass their own validation (aggregate.py 147 and 735-742
\* and campaign.py 91-98 against semantics.py 678-705, 721-986, 1019-1064).
SummariesAreAccepted ==
  /\ \A r \in Runs : reader[r].phase # "invalid"
  /\ campaign.phase # "invalid"
  /\ \A q \in Qualifications :
       Admitted(q) /\ (\A x \in q.chains : Continuous(x)) =>
         TransportAccepted(q, TransportStatus(q))
=============================================================================
