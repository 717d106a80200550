# TLA+ models of robotics-runtime

This directory models the parts of robotics-runtime whose correctness depends on
the order in which things happen, or on many documents that must agree: the run
lifecycle of the Cordis host; the custody of uploaded logs and the creation of
batches in the external-test API; the calls of the MCP adapter; and, in the
acceptance harness and its contracts, isolated evaluator attempts, the code of
installed evaluators, the live verification of a run, the assessment of a
recorded one, what is computed from its metrics, traces and clock, and the way
its results take into aggregates, campaigns and qualifications. TLC checks the
models on small instances; TLAPS proves their safety properties for every value
of the constants, those of the metric windows excepted. `PROJECT.json` maps
every definition to the lines it models.

## 1. The system

robotics-runtime runs acceptance tests of robots and retains their evidence.

| Part | State it keeps | Operations | Interacts with |
|---|---|---|---|
| **Host run owner** `host/src/plugins/run-owner` | reserved run IDs; per run: phase, next stage, errors, phases, the unsettled callback, resource records | `start`, `beginMeasurement`, `finish`, `retryExport`, `track`, disposers, `verify` | callbacks of providers, Cordis Fibers, `admission`, `within` |
| Host lifecycle `application-lifecycle` | none between calls | `within`, `referenceFile` | everything that has a deadline |
| Host admission, documents, evaluation | immutable profiles | `admit`, CLI calls | files, jobs |
| Host jobs | the set of running subprocesses | `run`, disposal | execa |
| Host mavsdk, media endpoint | open streams; one endpoint | `first`, `observe…`, disposal | gRPC, media server |
| **API domain** `api/src/domain.ts` | tables batches, jobs, uploads, proofs, branches, config snapshots | `createBatch`, `createJob`, `registerLog`, `closeJob`, `closeBatch`, `updateMetricsConfig` | PostgreSQL row and advisory locks, S3 versions, retention worker |
| API HTTP layer | none | routing, identity, GraphQL | the domain |
| MCP adapter `mcp/src` | number of active calls, closed flag, snapshots | `call`, `close` | jobs, files |
| **OCI evaluator** `_oci_executor.py` | the attempt record, `journal.json`, `container.cid`, `response.bin` | `run_oci_evaluator`, `command`, `recover` | Podman |
| Evaluator trust, tool capture | byte and time budgets | `_capture_tool`, `read_once` | subprocesses |
| **Installed evaluators** `evaluation.py` | `sys.modules`, the import finders | `_qualified_entry_points`, `_load_evaluator`, `_product_evaluations` | installed files, other code of the process |
| Live verification `application.py`, `readiness.py` | readiness window, monitors, evidence | `run_verification`, `wait_for_readiness` | ROS graph, files |
| Native assessment `native.py` | none between calls | `_evaluate_native`: assess a recorded execution, once or again | documents, evaluators |
| Verdicts `result.py`, `policy.py` | none | how assertion outcomes become statuses | documents |
| Aggregates and campaigns `aggregate.py`, `campaign.py` | none | `aggregate_results`, `aggregate_campaign` | documents that are replaced |
| Metrics, traces, timing | none | window aggregation, causal search, delivery counts, clock windows | OTLP and clock samples |
| Contracts package | none | semantic checks, qualification, writers | bundles of documents |
| Scripts, generated clients | none | developer tooling | – |

What is hard in it:

- *callbacks that outlive their deadline*: the host bounds its callers, not the
  provider. A callback that settles late must not be doubled, replayed or
  followed by destruction of what it still uses;
- *disposal at any time*: Cordis may unload a provider while evidence is not yet
  exported;
- *retries of what was done*: a lost COMMIT answer, a repeated close, a repeated
  creation, a retried export;
- *locks that vanish with a session* while the work they protect goes on;
- *kills between a journal entry and the command it announces*;
- *waiting*: callers on providers, transactions on each other, the harness on
  Podman, on a ROS graph and on evidence that others write;
- *verdicts put together from many observations*: one that was lost, skipped or
  taken outside its window must not turn into "passed" or "failed";
- *telemetry of a system that fails*: processes restart, points and spans get
  lost or are delivered twice, clocks are off;
- *documents that change between reads*, and documents that are each valid but do
  not belong together;
- *one rule written in several places*: what the harness writes is validated by
  its contracts, by qualification and by the archive with code of their own.

`PROJECT.json` lists these as hazards, each at its line, with the properties
that would catch it.

Per part, what makes it correct:

- **run owner**: evidence before destruction; one callback at a time; each stage
  once and in order; a run ID belongs to one run until nothing of it is left;
  `passed` means complete; a report is final; every call returns.
- **custody**: a closed job is fully retained with proofs about the bound object
  version; a closed batch has no open job; nothing is undone; a retried close ends.
- **creation**: one batch per key; a repeated request gets the same batch; a batch
  has the configuration its branch has when it is created; calls do not deadlock.
- **OCI attempt**: a response only for a settled and removed container; the journal
  is never behind the container; a failure is reported; removal is earned.
- **jobs, MCP**: an `ok` answer read the registered bytes, whatever happened to the
  files; a bounded number of calls; after `close` nothing is left that could
  still succeed.
- **evaluators**: under the roots of the admitted wheels only admitted bytes are
  executed, though `sys.modules` outlives an evaluation.
- **live verification**: the measurement window starts only after an uninterrupted
  stable graph; every graph sample of the window is judged and none outside it;
  one process reports per completion marker, after its observer is closed; every
  wait ends.
- **verdicts**: no combination of outcomes hides a failure, an error or a gap; the
  status built is one the contract accepts.
- **metrics, traces, clocks**: a verdict is true of what happened, not only of what
  was recorded; where the record does not tell, there is no verdict.
- **native assessments**: "passed" covers every requirement; no completed result is
  refused later, alone or in an archive.
- **campaigns**: an aggregate is about one state of one run; a campaign is as bad as
  its policy says; no summary contradicts its contract.
- **qualification**: an aggregate fixes the documents it is qualified with; what was
  observed was permitted.
- **ROS observer**: a lifecycle state is reported only as long as its node keeps
  answering; clock samples that were dropped are known to be.

## 2. Modules

| Module | Models | Lines of code |
|---|---|---|
| `RunOwner` | run owner, producer gate, `within`, run resources | `run-owner/index.ts`, `application-lifecycle/index.ts` |
| `RunCustody` | the abstract promise `RunOwner` implements | – |
| `MCRunOwner` | TLC instances | – |
| `RunOwner_proof` | theorems about `RunOwner` | – |
| `Custody`, `MCCustody`, `Custody_proof` | `createJob`, `registerLog`, `closeJob`, `closeBatch` | `domain.ts`, `uploads.ts`, `retention.ts`, `database.ts`, `001-external-tests.sql` |
| `Creation`, `MCCreation`, `Creation_proof` | `createBatch`, `updateMetricsConfig` | `domain.ts`, `idempotency.ts`, `003-creation-idempotency.sql` |
| `OciAttempt`, `OciAttempt_proof` | `run_oci_evaluator` | `_oci_executor.py`, `_capture_tool` |
| `Verdict`, `Verdict_proof` | from findings to the status of a v1 result, and what the contract accepts | `result.py`, `status.py`, `semantics.py`, `timing.py` |
| `LiveVerification`, `MCLiveVerification`, `LiveVerification_proof` | `run_verification`, `evaluate_from_evidence` (v1), over `Verdict` | `application.py`, `readiness.py`, `graph_window.py`, `forbidden_graph.py`, `result.py` |
| `MetricAggregates` | counters, histograms, gauges and their statistics over a window: operators | `metrics.py`, `_histogram_estimates.py` |
| `MetricWindow` | a process with instruments, and the verdicts on it | `metrics.py`, `policy.py`, `time_authority.py` |
| `Traces` | messages and their spans; causal chains and deliveries | `traces.py`, `qualification_policy.py` |
| `Clocks` | a source clock and its observer; clock assertions | `timing.py` |
| `MCTelemetry` | TLC instances of these three | – |
| `Aggregation` | aggregates, transport qualifications, campaigns, over `Verdict` | `aggregate.py`, `campaign.py`, `semantics.py` |
| `NativeAssessment` | assessments of a recorded execution, over `Verdict` | `native.py`, `evaluation.py`, `evaluator_json.py`, `semantics.py`, `_qualification_native.py`, `_qualification_archive.py` |
| `Qualification`, `MCQualification` | qualification of a bundle | `_qualification.py`, `_qualification_checks.py`, `qualification.py` |
| `Adapter` | calls of the MCP adapter on the host's jobs | `server.mjs`, `artifacts.mjs`, `jobs`, `documents`, `evaluation`, `application-lifecycle` |
| `Evaluators` | the imports of installed evaluators | `evaluation.py` |
| `MCInputs` | TLC instances of these five | – |
| `Inputs_proof` | theorems about `Adapter`, `Clocks`, `Traces` and `MetricWindow` | – |
| `Assessment_proof` | theorems about `NativeAssessment`, `Aggregation`, `Qualification` and `Evaluators`, over `Verdict_proof` | – |

Operators whose names say how they differ from the code next to them
(`ReportUndisposed`, `InsertNoWait`, `StopUnawaited`, …) are *mutants*: each is a
plausible bug. Substituting one for the definition it precedes makes TLC refute
the property `PROJECT.json` names. Some of them, like `StartCleanup` or
`InsertJob`, are also the unguarded part the real action is built from.

### RunOwner

A step is what the JavaScript event loop runs between two awaits. `pc[r]` is the
await at which the coroutine of run `r` stands; a callback and its deadline are
separate (`producer[r]`, `outcome[r]`), so a callback may settle before the
timer, after it, after the run went on, or never. `Retain`, `Produce`,
`RunStage`, `ExportAndCleanup` and `Resume` are the private methods of `OwnedRun`
and describe the code up to its next await; the actions `StartupFails`,
`Finish`, `RetryExport` and `StageContinue` are where that code is entered.
Cordis is external: its Fiber states move freely, except that a Fiber is
disposed only after its disposers returned. A resource may vanish by itself, a
cleanup may fail and still release, and `verifyCleanup` is trusted only in that
it does not report a release that did not happen. The auxiliary variables
`holds` and `invoked` remember who took an ID and which stages were called.

Two facts of the code that the properties leave room for: a host that is disposed
during admission keeps the reservation (`PluginThrows`; the host is gone with
it), and a run that never tracked a resource ends `incomplete` and keeps its ID.
`host/README.md` documents the latter: IDs stay reserved until disposal and
cleanup were observed.

### Custody

Each database transaction is one step, because it locks its row before it reads
and `registerLog`, `closeJob` and `closeBatch` write only under that lock.
`closeJob` is many steps: the claim, then per upload the advisory lock, the row,
HEAD, the binding, the worker, the checkpoint and the unlock, then the closing
transaction. Between any two of them the session may be lost (`LoseSession`: the
lock goes, the call goes on), the server may crash (`Fault`), or a commit may
succeed without an answer (`LoseAnswer`). The object store keeps versions;
`PutObject` adds one while a URL is valid.

### Creation

Here a statement is a step, since the point is what happens between the
statements of two transactions at READ COMMITTED, PostgreSQL's default level
(`database.ts` sets no other). `Waits` is PostgreSQL's rule that an INSERT waits
for an uncommitted row with the same unique key.

### OciAttempt

`pc` is the place in `_execute` or `recover`; `record` is in memory and
`journal` on disk, so that a failed save separates them; `Created`, `Settled`
and `Stopped` are what an inspection must have found before the next command. A
command has an effect (`podman` moves to `"done"`) separate from its answer.
`Raise` covers every way a command or a save ends the main path; `Crash` is a
kill, after which Podman goes on by itself. The module assumes that a command
the harness gave up on, which `_stop_tool` has killed, acts no more.

### Verdict

A result is a list of assertions, but its status depends only on which statuses
occur, so a list is a set. `Findings` is what `build_acceptance_result` gets;
`Unevaluated`, `ResultAssertions` and `Status` are its three stages, and
`Accepts` is what `_validate_result` and the schema demand of the status: of any
(`StatusAccepted`), of an offline result and of a passed one. That the two agree
is a theorem (`StatusIsAccepted`), under two facts the callers establish: a
clock not known to be monotonic has left a timing issue (`ClockExplained`), and
a passed live result has its marker and final evidence.

### LiveVerification

`pc[p]` is the place of process `p`; one poll of a loop is one step. Time is
per process, since only differences of its monotonic clock are used, and is
counted from the start of the wait it is in. There is no tick: each poll takes
`lag`, so that a slow call skips deadlines, and between the deadline check and
the snapshot of the measurement loop there is a `gap`, so that a snapshot may be
taken after the window. A snapshot says of each expected name what
`evaluate_graph` can tell apart. `Close` is the `finally` block, reached after
the window (`"close"`) or after an exception (`"abort"`). `Raise` is any
exception the state does not explain (a bad document, a dead executor, an
overflowing clock buffer, a wall clock moved back, metrics that are missing), and
`Kill` the loss of the process. `seen` and `lastIssue` are auxiliary: they
record what the snapshots really showed, independently of what the monitors
and the wait keep.

A killed process may leave the marker without a report, and an observer that
cannot be closed leaves neither; both are visible to the caller.

### MetricAggregates and MetricWindow

Time is slots between instants, in each of which one message is received, lost or
received out of order. `truth` is what happened; `points` is what the evidence
file tells of it after a process that collects when it likes (`Deliver`), restarts
with another series or other buckets (`Restart`), loses a point or one of its
instruments or delivers it twice (`Misdeliver`). `MetricAggregates`
holds the harness: selection and order of points, coverage of the window by the
intervals of each series, subtraction of a baseline, clipping, merging, and
`Statistic`, which gives bounds `[lower, upper]` because a histogram does not
tell more. `VerdictIsTrue` compares a verdict with `truth`: "passed" and
"failed" are right about every message the aggregate covers, and everything left
out is within the tolerated part of the window. A window narrower than the
evaluation's own (`window_sec` of an assertion) is left out, and so is the
parsing of OTLP.

### Traces

Spans carry the instants of the clock that recorded them and, as auxiliary fields,
the real instant and the real cause. A fault repeats a receipt, drops a link or a
message ID, uses an ID again, or has a span exported twice or never. `Related` is
what a parent or link names, `Loads` what the reader of the file refuses. The
search for a causal path visits spans until there are none left to visit:
`Visited[k]` is what it has seen after `k` spans, `Onward` the spans that follow.
`Surplus` counts a message that is sent more often than it is received once for
every send whose rank among those with its ID is beyond the receipts.
`ChainIsCaused` says that a passed chain was one of real causes in order and
within its budget; `DeliveryIsMeasured` that lost, repeated and overtaken messages
are counted as they happened, and that the counts of any observation add up as
its readers demand (`ObservationAccepted`). A span starts and ends at one instant.

### Clocks

`shown` is the clock at every instant, `seen` the instants of callbacks. The
assertions are about every interval of `RtfWindow`, also those that start and
end between two callbacks; `ClockVerdictIsTrue` quantifies over all of them,
where the code looks at those ending at a sample or one nanosecond before. The
verdict on stepped clocks means what it says of a clock that moves in whole
steps (`MovesInSteps`).
Deadline ratios and the observer without measurement bounds are left out.

### Aggregation

Every file is replaced at will (`Rewrites`), and `aggregate_results` reads them
one by one: one step of `reader[r]` is one file. `past` is auxiliary: all states
the files of a run were in. `CampaignIsSound` wants a state of `past` in which
everything the aggregate was made from was there together. All that documents
say of a run beyond its domains, its execution and the method of assessment is
the flag `fits`. The rules of the contract for these documents are translated
separately (`TransportAccepted`, `AggregateAccepted`, ...), so that
`SummariesAreAccepted` compares two texts and not one with itself. A channel is
[id, source, destination]: the contract looks for hops that lead from domain to
domain (`Continuous`), over declared channels (`KnownHops`), and for a clock
relation of each pair (`RelationsFit`).

### NativeAssessment

An execution leaves an index and an observation, which every operator takes as
parameters together with the profile; an assessment takes the method
of its scenario or selected controls, evaluates metrics and evaluators, covers
criteria, and writes a result. Between two assessments the execution may be
recorded again. What `semantics.py`, the qualification of a domain and the
archive of an original with a later assessment demand are three more sets of
operators, each translated from its own file.

### Qualification

A bundle is a set of subjects, a document is what the checks compare of it, and
a digest is a tuple that tells bytes apart. `Edit` exchanges, drops or adds
subjects between two inspections; `Valid` is the conjunction of the checks, one
operator per group, of which a failed one keeps the later ones from being tried.
`accepted` remembers every bundle that was found valid, so that
`AggregateFixesBundle` compares two valid ones.

### Adapter

`call[c].phase` is the await at which a call stands. `Enter` is everything up to
the first await, with the early throws; what follows are the steps of the capture
of each artifact between which a file may change (`Intact` compares the stats of
`referenceFile`), then the worker, the abort and the removal of the scratch
directory. `closing` is the progress of `close`,
`running` and `awaited` are the set of `Jobs` and what its disposer waits for. A
worker that starts after disposal has an aborted signal (`doomed`): it may run,
but it cannot succeed. That is what `NothingIsLeftBehind` allows and no more.

### Evaluators

A file is a place of `sys.path` and a module. `Begin` is the qualification of
entry points, `EnterImports` and `Exit` the context manager of verified imports,
`Import` one step of Python's import system (packages first; a module whose
imports fail leaves `sys.modules` with those on its stack), `Leave` the end of
loading or running one evaluator. Files may be replaced or hidden and others may
import at any time. `OnlyVerifiedCodeRuns` is about bytes in `sys.modules`, and
not about files: a file replaced later does no harm.

The model assumes that evaluator code does not catch a failed import, that every
package has an `__init__`, and that no other code imports while an evaluator
does; the check of loaded modules and the installation of the finder are one
step, since nothing of this process runs between them.

## 3. Runs

| Run | Instance | Shows |
|---|---|---|
| `run_completion` | 1 run, 2 resources, 2 bindings, fairness | order of stages, export and cleanup; honest and final reports; every call returns |
| `run_ids` | 2 start calls, 1 run ID, 1 resource | exact reservations; `RunOwner` implements `RunCustody` |
| `custody_close` | 2 jobs, 2 closers, 2 uploads, 2 versions, 2 faults, 2 claims | retained, permanent, protected by the lock, complete list; a closed batch has only closed jobs |
| `custody_retry` | 2 closers, 2 uploads, 1 fault, fairness | a retried close ends |
| `creation_keys` | 3 calls, 1 key, 2 branches, 2 names, 2 configurations | one batch per key, right answers, current configuration |
| `creation_ends` | 3 calls, 1 key, 2 branches, fairness | no call waits for ever |
| `oci_attempt` | one attempt, fairness | everything about an attempt |
| `live_verdict` | 1 live process or 1 offline one, a topic, a lifecycle node, a forbidden name; delays up to 2; fairness | what a measurement and a verdict rest on; the contract accepts it; offline never passes; every verification ends |
| `live_marker` | 2 processes, 1 marker, a topic, a forbidden name | one report per marker, after detaching |
| `telemetry` | 1 process with events in 5 slots, 1 restart or faulty delivery; 2 channels with 2 messages each, 1 fault; a clock of 7 instants | verdicts on metrics, traces and clocks are true of what happened |
| `counter_start` | as `telemetry` | a violation: see Findings |
| `inputs` | 2 runs of 2 domains, 2 files replaced; 2 recordings, 2 assessments; bundles with 2 edits; 2 calls of which 1 may be active; 3 modules in 2 places, 2 evaluations, 2 tamperings | documents, artifacts and code that change are read as one state, and the right one |

The parts of `telemetry` and of `inputs` share no state. Checking them in one
run would multiply their states, so `about` chooses one part in the initial
state and the others stay where they are.

Why the bounds are enough to be interesting. Properties of one run need one run;
two resources allow one to be cleaned while the other is refused, left or late;
two bindings make a startup fail half way. Two starts on one ID are the smallest
conflict. In custody, two closers make every race, two versions let the object
change between HEAD and download, two jobs let one stay open while the batch is
closed, and two faults let both calls fail, or one fail twice. In creation, three
calls with one key are a winner, a loser, and one that comes after a rollback. In
a verification, the node asks for more stability than the scenario and its own
timeout is later than the readiness timeout; delays are as long as the measurement
window and longer than a poll, so that readiness is interrupted, deadlines are
skipped and windows pass without a snapshot, while without a delay a window has
two; two processes are the smallest conflict on a marker. The theorems remove
these bounds for safety.

Three slots of a measured window after two before it have points that start
before, at and inside the window and end inside it and at its end; one mishap is a
restart, a lost point or a repeated one; two layouts differ in their buckets and
in whether sums are recorded. Two channels make a chain that can be broken in
the middle, two messages one that overtakes the other; the clock in the middle
is set back. Seven instants with windows of two make a clock stop, jump or go
back before, inside and after a window. Two files replaced let a document change
before and after it is read, or two change of one state. Two edits exchange a
document together with the one that refers to it. Two tamperings let a file be
hidden and a module be imported by others first; two evaluations let the second
find what the first one left, including another version of a wheel. Two calls
of which one may be active stand for five of which four may be.

`MaxVersions`, `MaxFaults`, `MaxLag`, `Mishaps`, `Early`, `Sends`, `Ticks`,
`SpanFaults`, `LastInstant`, `Rewrites`, `Attempts`, `Recordings`,
`Assessments`, `Edits`, `Changes`, `Failures`, `Tampering` and `Evaluations` are
bounds of the model; `MaxUploads` is `Domain.maximumUploads`, `Capacity` the
four calls of the adapter, `Limit` its byte limit. `run_ids` has a constraint
that leaves out logged errors: they change a status and nothing about IDs.
Deadlock is not checked: finished runs, calls, attempts, verifications and
recordings stop.

Fairness and why the code has it. `RunOwner`: the steps of the coroutine of a run,
because the event loop runs what is ready and every await is inside `within`,
whose timer fires; nothing is assumed of callers, callbacks, Fibers or resources.
`Custody`: a call goes on when it can, and the client of a claimed job retries as
the 503 answers ask it to; strong fairness for the retry, because a closer is
free again and again, and finitely many faults. `Creation`: statements are
executed, and PostgreSQL queues waiters for a row lock (strong fairness of
`LockBranch`). `OciAttempt`: the harness goes on, because every command has a
deadline; nothing is assumed of Podman. `LiveVerification`: the process goes on
unless it is killed, because every wait has a deadline and every sleep a positive
length (`Poll`); nothing is assumed of the graph or the producers of evidence.
`FairSpecApart` is the fair specification with initial states in which either
the live or the offline processes run: they share only the evidence index, which
moves freely, so that running both would show nothing new. The parts of
`telemetry` and `inputs` have no liveness properties and assume no fairness.

### Findings

`counter_start`: `counter_window_aggregate` (`metrics.py:691`) takes the value of
a cumulative counter that starts inside the window as its increase. OTLP marks
a counter of unknown start with a first point that starts when it is observed;
its value is history from before that. The docstring (`metrics.py:615`) promises
"a monotonic Sum increase and the exact intervals that produced it"; TLC finds a
process whose first point in the window has such a marker, and a total of events
from before the interval returned. The histogram code next to it handles the
marker (`metrics.py:417-421`).

Met while modelling, and not checked as runs, because no document says which side
is right:

- `native.py` indexes the observation document and lets a product assertion cite
  it, as `semantics.py` does; the coverage of `_qualification_archive.py`
  leaves out the kind `acceptance_observation`, so an archive refuses such a
  result. The model's evaluators do not cite it.
- A native run tolerates observations of other domains in its index, the
  qualification of its domain wants exactly one.
- Indexing the OTLP file goes by media type in `application.py` and by the kind
  `metrics` in the archive.
- Qualification refuses a provider or a receipt supplied twice under two names,
  but accepts such permits, verifications and recording summaries.
- An aggregate refuses two clock relations for one pair of domains; qualification
  does not.
- A transport channel without spans gets the window that ends at the evaluation;
  qualification refuses it when the domains had finished earlier.
- An observation with a span that lacks its message ID names that as its only
  violation (`traces.py:693-714`), though it counts all sends as lost: the
  qualification derives `loss_ratio_exceeded` from the counts and refuses it
  (`_qualification.py:960-978`).
- If every matched message was received before it was sent,
  `max_message_age_ms` is negative (`traces.py:822`), which the schema of the
  observation excludes: instead of an `invalid_observation` there is none.
- The calibration of a result by its scenario's method is "unobserved"
  (`native.py:562-569`), so an archive with such an original is never comparable
  (`_qualification_archive.py:309-342`).
- A gauge point delivered twice counts twice in statistics.
- An aggregate does not fix evidence indexes, recording summaries (without a
  transport) and observations of version 1: `FixedKinds` leaves them out.

## 4. Proofs

Every safety property a passing run checks is a theorem, and so is the
refinement; `KnownCountersAreExact` says besides when the property that
`counter_start` refutes does hold. Each proof shows an inductive
invariant, called `IInv` or after its module (`Init => IInv`, one lemma per part
for the step), and derives the properties from it.

- **RunOwner_proof**: `StagesNeverReplayed` states the order of stages and the
  single callback together. `IInv` adds to the types: a callback is at work only
  where its phase says so (`ProducerInv`), the stages before `nextStage` have
  reported (`StageInv`), cleanup is admitted only after an export with references
  and no callback follows it (`AdmittedInv`), an ID is held by exactly one run
  that still needs it (`HolderInv`), a disposer is waiting, running, refused or
  done (`ResourceInv`), and what a report says was observed (`ReportInv`). The
  properties alone are not inductive: that cleanup is last needs to know that no
  callback can start after admission, which is a fact about `pc`. The refinement
  `HostKeepsCustody` maps reservations, the furthest step of each run and the busy
  runs; each action is a step of `RunCustody` or a stutter.
- **Custody_proof**: `IInv` says who holds which lock (`LockInv`), what a call
  knows at each location (`CallInv`), how rows agree (`RowInv`), that bound
  versions exist (`UploadInv`), and what a claim freezes (`JobInv`).
  `ClosedIsComplete` is about jobs and their batch. `CloseMissesNoUpload` is part
  of it: it is why the last transaction of `closeJob` finds nothing left.
- **Creation_proof**: `IInv` says what an uncommitted row is (`DraftInv`) and that
  no two transactions have uncommitted rows with one key, nor one with a committed
  key (`KeyInv`).
- **OciAttempt_proof**: `IInv` ties `pc`, record and journal on the main path
  (`MainInv`), says what the command at work may still do (`PodmanInv`), which
  containers the journal admits (`ContainerInv`), and what the recovery knows
  (`RecoveryInv`).

- **Verdict_proof**: the order of the statuses determines `worst_status`; "passed"
  and "failed or error" are then read back to the findings (`PassedMeaning`,
  `FailureMeaning`), and `StatusIsAccepted` shows the agreement with the contract.
- **LiveVerification_proof**: `IInv` says where the observer is (`ObserverInv`),
  that the monitors hold what the snapshots showed (`MonitorInv`), that no issue
  is younger than `first_ready_at_ns` (`StableInv`), who created the marker
  (`MarkerInv`, from which `MarkersAreFinal`) and what a result was built from
  (`ResultInv`). `PassedIsEarned` is not inductive: it speaks of the past, which
  only the monitors remember, and it needs `PassedMeaning` to get from the status
  back to them.

- **Inputs_proof**, adapter: `AdapterInv` says which artifacts a call has captured
  at each of its awaits (`Captures`), that a success began before every abort
  (`Succeeds`), which directory and worker a call has (`Holds`), that `active` is
  the number of active calls (`CountInv`), and that the disposer waits for every
  worker that may succeed (`DisposalInv`). `StepOfCall` reduces each action to
  what it does to one call and `Effect`, what it may do beside it.
- **Inputs_proof**, clocks: `ClockInv` says that `seen` are instants of a clock
  that has been shown. `ClockVerdictIsTrue` is a statement about all intervals,
  and the code looks at few: the proof moves the end of an interval to the last
  sample before it, or just before the next one, and shows that the factor is
  bounded by that of an interval the code examines.
- **Inputs_proof**, traces: for chains, `TraceInv` says what a span may name. A
  search that ran to its end is closed under `Onward`; hence a set closed under
  `Onward`, like the spans that may come after a receipt (`Beyond`), contains what
  it arrived at from there. The links, instants and skew of a passed chain are
  then those of real causes. For deliveries, `KeyInv` says that spans have keys of
  their own, without gaps, and `OriginInv` gives every receipt a send, from which
  the counts of IDs are counts of messages: `FirstsCount` for what was lost,
  `LateAre` for what was overtaken. That the counts add up needs neither: a group of
  spans has each rank below its size once (`RanksAre`), so that matching by ID and
  rank pairs a span or leaves it over (`MatchedOrSurplus`), from either side alike
  (`MatchedMirrors`).
- **Inputs_proof**, gauges: `PointInv` says that points are numbered as they are in
  the file and that those of one instant tell the same, whence the samples that
  hold are a timeline (`TimelineIs`), and in each of its segments the latest sample
  is the one it starts with (`SegmentIs`). The gaps between neighbours are then the
  greatest ages of a sample (`GapsAreFresh`), and the lengths the code adds up from
  segment to segment are how long the predicate has kept its value (`LastingIs`, by
  the least segment for which they are not). Means and percentiles lie between the
  extremes because a sum does not depend on the order it is taken in
  (`SumUnique`).
- **Inputs_proof**, metric windows: `HistoryInv` says that there is an origin `F`
  of the points: a point tells of the slots after `F[p]` and up to its own instant
  (`Tells`: buckets, count, sum, extremes and counters are those of what was
  received there), two points tell of slots that are apart, or both begin where
  their stream began (`RelatedPoints`), the latter in the stream that is running
  (`Current`), and a start that is not known is the instant of a point in the
  evidence (`StartIs`). `F` is not in the evidence, and the verdicts alone are not
  inductive: that a baseline may be subtracted rests on both points having one
  origin. From it the verdicts follow in the order the code computes them. Counts
  and sums of sets that are apart add up (`SumOfParts`, `CountAdds`), so the
  difference of two points tells of the slots between them (`SubtractDescribes`)
  and merged contributions of all their slots (`MergeDescribes`). Covered
  intervals are the window but for the tolerance (`CoversMost`, `CoversLittleElse`).
  The message of a rank is in the bucket that the counts lead to (`RankBucketIs`),
  so the bounds of `Statistic` enclose the real percentile (`EstimateEncloses`,
  `StatisticEncloses`), and a comparison with both bounds decides as one with the
  real value (`CompareDecides`).
- **Assessment_proof**, `NativeAssessment`: `NativeInv` keeps for each completed
  result the execution it was made from. What the contract, the qualification and
  the archive ask of it is proved rule by rule, each from the operator that built
  that part, and the status by `StatusIsAccepted` and what `Verdict_proof` says of
  worst statuses; `PassedIsCovered` reads a passed status back to the
  requirements.
- **Assessment_proof**, `Aggregation`: `AggregationInv` says that what `reader`
  holds was in one file or another at some state of `past`, that files which name
  each other were there together, and that every summary was built by its operator
  from what was read. `CampaignIsSound` follows by the digests,
  `SummariesAreAccepted` from the two texts of each rule.
- **Assessment_proof**, `Qualification`: the only state is the bundle, so the
  theorems are about `Valid`: the checks that make a document of one bundle equal
  to that of another with the same aggregate follow the references from the
  aggregate down, one kind of document after the other.
- **Assessment_proof**, `Evaluators`: `EvaluatorsInv` says that the finder is installed
  just inside an evaluation (`FinderInv`) and that there every owned module has
  bytes that are sources of an admitted wheel for the very file it was found in
  (`VerifiedInv`); `ServedIsVerified` is what the finder serves. No bound on
  files, imports, suites or evaluations is left.

Induction is by the least element of a set of naturals (`Smallest`), since the
library's induction theorems cannot be used, and `RecursiveFunction` unfolds
functions defined by recursion.

Assumptions: a profile has at least one binding (`admission` refuses others);
uploads are finitely many ordered IDs; `None` is none of the values it stands
beside; the bounds are natural numbers; `execution_sec` and the poll interval are
positive; the processes of the two evaluation modes are disjoint; tool calls are
finitely many and name each artifact once; an evaluator does not cite the
observation of the execution; `Nothing` is not a value; bucket bounds are strictly
increasing (`HistogramSample` refuses others, `metrics.py:84`). TLC evaluates them in
every run.

Only model-checked, because the prover has no fairness and no ENABLED:
`CallerBounded`, `ClaimedJobCloses`, `CreationEnds`, `AttemptEnds` and
`VerificationEnds`.

## 5. Not modelled

- Cordis, PostgreSQL, S3, Podman, Python's importer, execa, gRPC and rclpy beyond
  the behaviour the code relies on.
- Contents: digests, signatures, schema and isolation checks are guards that
  hold or do not.
- Row-level security, identity and request parsing of the API; the key of
  `createJob`, which works as that of `createBatch` but under the batch lock.
- Helper processes that survive a killed Podman command.
- The 1000-entry bound of captured errors.
- Of a verification: a marker that others remove, results of several processes
  in one output directory, the fallback count of an inference workload and wall
  clocks set back after the window (both make the contract refuse a result).
- Of the adapter: schemas and registration of tools, and `readBootstrap`, which
  reads one file before the server exists. The host's `mavsdk` keeps a set of
  streams whose fate after disposal is decided by grpc-js; the media endpoint is
  one job whose report is read twice.
- Of the evaluators: namespace packages, symbolic links, and the admission of a
  wheel, whose outcome (a record of files and sources) is taken as given.
- Of telemetry: OTLP and MCAP decoding, hardware timing, clock relations between
  domains, deadline ratios.
- Of native assessments: several domains, times, calibration contents. Of
  qualification: version 2 documents other than the native checks of
  `NativeAssessment`, file checks and decoding. A playback needs each of its
  recording summaries as a document and as retained bytes; the bundles have both.
- The ROS observer (`ros.py`): its lifecycle cache and clock buffer are filled by
  callbacks whose order an rclpy executor decides; `LiveVerification` takes any
  snapshot from it.
- The parts marked `not_modelled` in `PROJECT.json`, with their reasons.

## 6. What is left

1. The ROS observer: a lifecycle state is not reported longer than the response
   timeout allows after its node stopped answering.
2. Clock relations between domains and hardware timing, next to `Clocks`.
3. Qualification of version 2 bundles with their archives, over
   `NativeAssessment`.
