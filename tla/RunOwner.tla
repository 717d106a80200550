------------------------------ MODULE RunOwner ------------------------------
(***************************************************************************)
(* The run lifecycle of the Cordis host: RunOwner.start, the OwnedRun it   *)
(* returns, the producer gate `produce`, the deadline wrapper `within` and *)
(* the RunResources service (host/src/plugins/run-owner/index.ts and       *)
(* host/src/plugins/application-lifecycle/index.ts).                       *)
(*                                                                         *)
(* One step is the code between two awaits of the JavaScript event loop.   *)
(* What a callback of a provider returns, when it returns and whether it   *)
(* returns at all is the environment's choice.  Error texts, phase         *)
(* diagnostics and evidence references are abstracted to the phase they    *)
(* are about and to "some" or "no" reference.                              *)
(***************************************************************************)
EXTENDS Naturals, Sequences

CONSTANTS
  Run,        \* calls of RunOwner.start, each the life of one OwnedRun
  RunId,      \* the run IDs callers pick
  Resource,   \* IDs of the resources a provider can track
  NBindings,  \* number of required backend bindings of the admitted profile
  None        \* "no value"

ASSUME NBindingsAssumption == NBindings \in Nat \ {0}
ASSUME NoneAssumption == None \notin RunId

VARIABLES
  \* RunOwner
  active,         \* run IDs reserved by this owner
  rid,            \* the run ID each start call was given
  holds,          \* auxiliary: calls whose reservation was not given back
  \* OwnedRun: where its coroutine awaits, and its fields
  pc, phase, nextStage, hooked, exporter, bound,
  errors,         \* phases that left an entry in OwnedRun.errors
  passed,         \* phases recorded with status 'passed'
  status,         \* status of the completion last returned
  \* produce / within
  producer,       \* phase of the callback that has not settled
  outcome,        \* how the race inside `within` was decided
  invoked,        \* auxiliary: completion stages whose callback was called
  cleanupAdmitted,
  \* the Fiber of the run, as Cordis drives it
  fiber, hostDisposed,
  captured,       \* runs whose Fiber tree logged an error
  \* RunResources
  records, effects, attempted, cleaning, cleanupError,
  probed,         \* the records RunResources.verify was called on
  observed,       \* those whose observation has come back,
  confirmed,      \* ... attempted and seen released with evidence,
  faulted,        \* ... with a cleanupError at that moment
  released        \* external: resources that are physically gone

ownerVars    == <<active, rid, holds>>
fieldVars    == <<nextStage, hooked, exporter, bound>>
reportVars   == <<errors, passed, status>>
produceVars  == <<producer, outcome, invoked>>
runVars      == <<pc, phase, fieldVars, reportVars, produceVars>>
fiberVars    == <<fiber, hostDisposed, captured>>
trackVars    == <<records, effects>>
cleanupVars  == <<attempted, cleaning, cleanupError, released>>
verifyVars   == <<probed, observed, confirmed, faulted>>
resourceVars == <<trackVars, cleanupVars, verifyVars>>
outerVars    == <<cleanupAdmitted, fiberVars, resourceVars>>
vars == <<ownerVars, runVars, outerVars>>

(***************************************************************************)
(* The completion stages, in the order OwnedRun.complete lists them.       *)
(***************************************************************************)
StageName == <<"closing-measurement", "capturing-last-state",
               "draining-recorders">>
Stages == {"closing-measurement", "capturing-last-state",
           "draining-recorders"}
Export == "exporting-evidence"

Phases == Stages \cup
  {"preloading", "ready", "measuring", Export, "disposing",
   "verifying-cleanup", "completed", "retained", "error"}

(***************************************************************************)
(* Where the coroutine of a run awaits.  "held": none is running and the   *)
(* OwnedRun is in its caller's hands; "refused": start threw before an     *)
(* OwnedRun existed; "done": completion returned its final report.         *)
(***************************************************************************)
Awaiting == {"probing", "stage", "exporting"}
Locations == Awaiting \cup {"idle", "refused", "admitting", "loading",
                            "binding", "held", "disposing", "verifying",
                            "done"}
Outcomes == {"pending", "refs", "empty", "error", "interrupted"}
FiberStates == {"absent", "loading", "serving", "active", "failed",
                "unloading", "disposed"}
Statuses == {"none", "incomplete", "passed", "error"}

TypeOK ==
  /\ active \in SUBSET RunId
  /\ rid \in [Run -> RunId \cup {None}]
  /\ holds \in SUBSET Run
  /\ pc \in [Run -> Locations]
  /\ phase \in [Run -> Phases]
  /\ nextStage \in [Run -> 0..3]
  /\ hooked \in [Run -> BOOLEAN]
  /\ exporter \in [Run -> BOOLEAN]
  /\ bound \in [Run -> 0..NBindings]
  /\ errors \in [Run -> SUBSET (Phases \cup {"cordis"})]
  /\ passed \in [Run -> SUBSET Phases]
  /\ status \in [Run -> Statuses]
  /\ producer \in [Run -> Stages \cup {"none", "preloading", Export}]
  /\ outcome \in [Run -> Outcomes]
  /\ invoked \in [Run -> SUBSET Stages]
  /\ cleanupAdmitted \in SUBSET Run
  /\ fiber \in [Run -> FiberStates]
  /\ hostDisposed \in BOOLEAN
  /\ captured \in SUBSET Run
  /\ records \in [Run -> SUBSET Resource]
  /\ effects \in [Run -> SUBSET Resource]
  /\ attempted \in [Run -> SUBSET Resource]
  /\ cleaning \in [Run -> SUBSET Resource]
  /\ cleanupError \in [Run -> SUBSET Resource]
  /\ probed \in [Run -> SUBSET Resource]
  /\ observed \in [Run -> SUBSET Resource]
  /\ confirmed \in [Run -> SUBSET Resource]
  /\ faulted \in [Run -> SUBSET Resource]
  /\ released \in [Run -> SUBSET Resource]

Init ==
  /\ active = {}
  /\ rid = [r \in Run |-> None]
  /\ holds = {}
  /\ pc = [r \in Run |-> "idle"]
  /\ phase = [r \in Run |-> "preloading"]
  /\ nextStage = [r \in Run |-> 0]
  /\ hooked = [r \in Run |-> FALSE]
  /\ exporter = [r \in Run |-> FALSE]
  /\ bound = [r \in Run |-> 0]
  /\ errors = [r \in Run |-> {}]
  /\ passed = [r \in Run |-> {}]
  /\ status = [r \in Run |-> "none"]
  /\ producer = [r \in Run |-> "none"]
  /\ outcome = [r \in Run |-> "pending"]
  /\ invoked = [r \in Run |-> {}]
  /\ cleanupAdmitted = {}
  /\ fiber = [r \in Run |-> "absent"]
  /\ hostDisposed = FALSE
  /\ captured = {}
  /\ records = [r \in Run |-> {}]
  /\ effects = [r \in Run |-> {}]
  /\ attempted = [r \in Run |-> {}]
  /\ cleaning = [r \in Run |-> {}]
  /\ cleanupError = [r \in Run |-> {}]
  /\ probed = [r \in Run |-> {}]
  /\ observed = [r \in Run |-> {}]
  /\ confirmed = [r \in Run |-> {}]
  /\ faulted = [r \in Run |-> {}]
  /\ released = [r \in Run |-> {}]

-----------------------------------------------------------------------------
(***************************************************************************)
(* RunOwner.start up to the creation of the OwnedRun.                      *)
(***************************************************************************)

TakeId(r, id) ==
  /\ pc[r] = "idle" /\ ~hostDisposed
  /\ active' = active \cup {id}
  /\ rid' = [rid EXCEPT ![r] = id]
  /\ holds' = holds \cup {r}
  /\ pc' = [pc EXCEPT ![r] = "admitting"]
  /\ UNCHANGED <<phase, fieldVars, reportVars, produceVars, outerVars>>

\* The ID is reserved before the first await; the call awaits admission.
Start(r, id) == id \notin active /\ TakeId(r, id)

\* 'run ID is already owned'
StartOwned(r, id) ==
  /\ pc[r] = "idle" /\ ~hostDisposed
  /\ id \in active
  /\ rid' = [rid EXCEPT ![r] = id]
  /\ pc' = [pc EXCEPT ![r] = "refused"]
  /\ UNCHANGED <<active, holds, phase, fieldVars, reportVars, produceVars,
                 outerVars>>

\* Admission rejects, is cancelled or misses its deadline: the ID is freed.
AdmitFails(r) ==
  /\ pc[r] = "admitting"
  /\ active' = active \ {rid[r]}
  /\ holds' = holds \ {r}
  /\ pc' = [pc EXCEPT ![r] = "refused"]
  /\ UNCHANGED <<rid, phase, fieldVars, reportVars, produceVars, outerVars>>

\* The profile is admitted: the OwnedRun and its Fiber are created.
AdmitOk(r) ==
  /\ pc[r] = "admitting" /\ ~hostDisposed
  /\ fiber' = [fiber EXCEPT ![r] = "loading"]
  /\ pc' = [pc EXCEPT ![r] = "loading"]
  /\ UNCHANGED <<ownerVars, phase, fieldVars, reportVars, produceVars,
                 cleanupAdmitted, hostDisposed, captured, resourceVars>>

\* The owner's context was disposed during admission: creating the Fiber
\* throws outside every try block, so the reservation is not given back.
PluginThrows(r) ==
  /\ pc[r] = "admitting" /\ hostDisposed
  /\ pc' = [pc EXCEPT ![r] = "refused"]
  /\ UNCHANGED <<ownerVars, phase, fieldVars, reportVars, produceVars,
                 outerVars>>
-----------------------------------------------------------------------------
(***************************************************************************)
(* OwnedRun.retained, resume and exportAndCleanup: what the coroutine does *)
(* until its next await.  h and e say whether the completion stages and    *)
(* the export have a callback, errs is the error list so far.              *)
(***************************************************************************)

\* Report 'incomplete' and leave the run to be retried.
Retain(r, errs) ==
  /\ errors' = [errors EXCEPT ![r] = errs]
  /\ phase' = [phase EXCEPT ![r] = "retained"]
  /\ status' = [status EXCEPT ![r] = "incomplete"]
  /\ pc' = [pc EXCEPT ![r] = "held"]
  /\ UNCHANGED <<producer, invoked>>

\* produce: call the callback of phase p and await it at location loc.
Produce(r, p, loc) ==
  /\ producer' = [producer EXCEPT ![r] = p]
  /\ pc' = [pc EXCEPT ![r] = loc]

RunStage(r, k, errs) ==
  /\ Produce(r, StageName[k], "stage")
  /\ phase' = [phase EXCEPT ![r] = StageName[k]]
  /\ nextStage' = [nextStage EXCEPT ![r] = k]
  /\ invoked' = [invoked EXCEPT ![r] = @ \cup {StageName[k]}]
  /\ errors' = [errors EXCEPT ![r] = errs]
  /\ UNCHANGED status

\* Stages without a callback are errors; the loop goes past them.
Missing(r, h) == IF h THEN {} ELSE {StageName[i] : i \in (nextStage[r] + 1)..3}

ExportAndCleanup(r, e, errs) ==
  /\ nextStage' = [nextStage EXCEPT ![r] = 3]
  /\ \/ /\ e
        /\ Produce(r, Export, "exporting")
        /\ phase' = [phase EXCEPT ![r] = Export]
        /\ errors' = [errors EXCEPT ![r] = errs]
        /\ UNCHANGED <<status, invoked>>
     \/ ~e /\ Retain(r, errs \cup {Export})

ResumeIgnoringProducer(r, h, e, errs) ==
  /\ outcome' = [outcome EXCEPT ![r] = "pending"]
  /\ \/ h /\ nextStage[r] < 3 /\ RunStage(r, nextStage[r] + 1, errs)
     \/ /\ ~h \/ nextStage[r] = 3
        /\ ExportAndCleanup(r, e, errs \cup Missing(r, h))

\* The loop of resume, entered anew or after a stage: a callback that has
\* not settled stops it.
Resume(r, h, e, errs) ==
  /\ outcome' = [outcome EXCEPT ![r] = "pending"]
  /\ \/ producer[r] # "none" /\ Retain(r, errs) /\ UNCHANGED nextStage
     \/ producer[r] = "none" /\ h /\ nextStage[r] < 3
        /\ RunStage(r, nextStage[r] + 1, errs)
     \/ /\ producer[r] = "none" /\ (~h \/ nextStage[r] = 3)
        /\ ExportAndCleanup(r, e, errs \cup Missing(r, h))
-----------------------------------------------------------------------------
(***************************************************************************)
(* The readiness phase of RunOwner.start.                                  *)
(***************************************************************************)

\* The run's Fiber and the Include Fiber were awaited and are ACTIVE.
Loaded(r) ==
  /\ pc[r] = "loading" /\ fiber[r] = "active"
  /\ pc' = [pc EXCEPT ![r] = "binding"]
  /\ UNCHANGED <<ownerVars, phase, fieldVars, reportVars, produceVars,
                 outerVars>>

\* The binding's Fiber is ACTIVE and its backend is asked for readiness.
Probe(r) ==
  /\ pc[r] = "binding"
  /\ Produce(r, "preloading", "probing")
  /\ UNCHANGED <<ownerVars, phase, fieldVars, reportVars, outcome, invoked,
                 outerVars>>

\* Readiness was observed with evidence: next binding, or the run is ready.
Probed(r) ==
  /\ pc[r] = "probing" /\ outcome[r] = "refs"
  /\ bound' = [bound EXCEPT ![r] = @ + 1]
  /\ outcome' = [outcome EXCEPT ![r] = "pending"]
  /\ \/ /\ bound[r] + 1 < NBindings
        /\ pc' = [pc EXCEPT ![r] = "binding"]
        /\ UNCHANGED <<phase, passed>>
     \/ /\ bound[r] + 1 = NBindings
        /\ pc' = [pc EXCEPT ![r] = "held"]
        /\ phase' = [phase EXCEPT ![r] = "ready"]
        /\ passed' = [passed EXCEPT ![r] = @ \cup {"preloading", "ready"}]
  /\ UNCHANGED <<ownerVars, nextStage, hooked, exporter, errors, status,
                 producer, invoked, outerVars>>

\* A deadline, a cancellation, a Fiber that is not ACTIVE, a missing binding
\* or a readiness without evidence: start calls finish() with no hooks.
StartupFails(r) ==
  /\ \/ pc[r] \in {"loading", "binding"}
     \/ pc[r] = "probing" /\ outcome[r] \in {"empty", "error", "interrupted"}
  /\ Resume(r, FALSE, FALSE, errors[r] \cup {"preloading", "measuring"})
  /\ UNCHANGED <<ownerVars, hooked, exporter, bound, passed, outerVars>>
-----------------------------------------------------------------------------
(***************************************************************************)
(* The callers of an OwnedRun.                                             *)
(***************************************************************************)

BeginMeasurement(r) ==
  /\ pc[r] = "held" /\ phase[r] = "ready"
  /\ phase' = [phase EXCEPT ![r] = "measuring"]
  /\ passed' = [passed EXCEPT ![r] = @ \cup {"measuring"}]
  /\ UNCHANGED <<ownerVars, pc, fieldVars, errors, status, produceVars,
                 outerVars>>

\* finish(hooks): only the first call starts the completion, and hooks has
\* either all four callbacks or is undefined.
Finish(r, h) ==
  /\ pc[r] = "held" /\ phase[r] \in {"ready", "measuring"}
  /\ hooked' = [hooked EXCEPT ![r] = h]
  /\ exporter' = [exporter EXCEPT ![r] = h]
  /\ Resume(r, h, h, errors[r] \cup
                     (IF phase[r] = "measuring" THEN {} ELSE {"measuring"}))
  /\ UNCHANGED <<ownerVars, bound, passed, outerVars>>

RetryExport(r) ==
  /\ pc[r] = "held" /\ phase[r] = "retained"
  /\ exporter' = [exporter EXCEPT ![r] = TRUE]
  /\ Resume(r, hooked[r], TRUE, errors[r])
  /\ UNCHANGED <<ownerVars, hooked, bound, passed, outerVars>>
-----------------------------------------------------------------------------
(***************************************************************************)
(* produce and within: the race of a callback against its deadline, and    *)
(* the code after each await on it.                                        *)
(***************************************************************************)

\* The callback settles: the producer entry is deleted.  A settlement that
\* lost the race is discarded; a late failure may leave an error.
Settle(r, o) ==
  /\ producer[r] # "none"
  /\ producer' = [producer EXCEPT ![r] = "none"]
  /\ \/ /\ pc[r] \in Awaiting /\ outcome[r] = "pending"
        /\ outcome' = [outcome EXCEPT ![r] = o]
        /\ UNCHANGED errors
     \/ /\ ~(pc[r] \in Awaiting /\ outcome[r] = "pending")
        /\ \/ UNCHANGED errors
           \/ /\ o = "error"
              /\ errors' = [errors EXCEPT ![r] = @ \cup {producer[r]}]
        /\ UNCHANGED outcome
  /\ UNCHANGED <<ownerVars, pc, phase, fieldVars, passed, status, invoked,
                 outerVars>>

DeadlineAwaitsProducer(r) ==
  /\ pc[r] \in Awaiting /\ outcome[r] = "pending" /\ producer[r] = "none"
  /\ outcome' = [outcome EXCEPT ![r] = "interrupted"]
  /\ UNCHANGED <<ownerVars, pc, phase, fieldVars, reportVars, producer,
                 invoked, outerVars>>

\* The timer, or the caller's cancel signal, decides the race first.
Deadline(r) ==
  /\ pc[r] \in Awaiting /\ outcome[r] = "pending"
  /\ outcome' = [outcome EXCEPT ![r] = "interrupted"]
  /\ UNCHANGED <<ownerVars, pc, phase, fieldVars, reportVars, producer,
                 invoked, outerVars>>

\* The await of a completion stage is over: back to the loop of resume.
StageContinue(r) ==
  /\ pc[r] = "stage" /\ outcome[r] # "pending"
  /\ \/ /\ outcome[r] \in {"refs", "empty"}
        /\ passed' = [passed EXCEPT ![r] = @ \cup {phase[r]}]
        /\ Resume(r, hooked[r], exporter[r], errors[r])
     \/ /\ outcome[r] \in {"error", "interrupted"}
        /\ UNCHANGED passed
        /\ Resume(r, hooked[r], exporter[r], errors[r] \cup {phase[r]})
  /\ UNCHANGED <<ownerVars, hooked, exporter, bound, outerVars>>

\* Fiber.dispose starts to unload whatever is left of the Fiber tree.
Unload(state) ==
  IF state \in {"absent", "disposed"} THEN state ELSE "unloading"

Exported(r) ==
  /\ pc[r] = "exporting"
  /\ cleanupAdmitted' = cleanupAdmitted \cup {r}
  /\ outcome' = [outcome EXCEPT ![r] = "pending"]
  /\ passed' = [passed EXCEPT ![r] = @ \cup {Export}]
  /\ phase' = [phase EXCEPT ![r] = "disposing"]
  /\ pc' = [pc EXCEPT ![r] = "disposing"]
  /\ fiber' = [fiber EXCEPT ![r] = Unload(@)]
  /\ UNCHANGED <<ownerVars, fieldVars, errors, status, producer, invoked,
                 hostDisposed, captured, resourceVars>>

ExportOkAtDeadline(r) == outcome[r] \in {"refs", "interrupted"} /\ Exported(r)

\* The export returned retained references: cleanup is admitted and the
\* Fiber is disposed.
ExportOk(r) == outcome[r] = "refs" /\ Exported(r)

ExportFails(r) ==
  /\ pc[r] = "exporting" /\ outcome[r] \in {"empty", "error", "interrupted"}
  /\ outcome' = [outcome EXCEPT ![r] = "pending"]
  /\ Retain(r, errors[r] \cup {Export})
  /\ UNCHANGED <<ownerVars, fieldVars, passed, outerVars>>

\* RunResources.verify is called on the records of this moment.
StartVerify(r) ==
  /\ phase' = [phase EXCEPT ![r] = "verifying-cleanup"]
  /\ pc' = [pc EXCEPT ![r] = "verifying"]
  /\ probed' = [probed EXCEPT ![r] = records[r]]
  /\ UNCHANGED <<ownerVars, fieldVars, status, produceVars, cleanupAdmitted,
                 fiberVars, trackVars, cleanupVars, observed, confirmed,
                 faulted>>

Disposed(r) ==
  /\ pc[r] = "disposing" /\ fiber[r] = "disposed"
  /\ passed' = [passed EXCEPT ![r] = @ \cup {"disposing"}]
  /\ UNCHANGED errors
  /\ StartVerify(r)

DisposeDeadline(r) ==
  /\ pc[r] = "disposing"
  /\ errors' = [errors EXCEPT ![r] = @ \cup {"disposing"}]
  /\ UNCHANGED passed
  /\ StartVerify(r)

\* verifyCleanup of one resource answers, fails or misses its deadline; it
\* is trusted to report a release (ok) only of a resource that is gone.
Observation(r, x, ok, confirms) ==
  /\ pc[r] = "verifying" /\ x \in probed[r] \ observed[r]
  /\ ok => x \in released[r]
  /\ observed' = [observed EXCEPT ![r] = @ \cup {x}]
  /\ confirmed' = [confirmed EXCEPT ![r] = IF confirms THEN @ \cup {x} ELSE @]
  /\ faulted' = [faulted EXCEPT ![r] = IF x \in cleanupError[r]
                                       THEN @ \cup {x} ELSE @]
  /\ UNCHANGED <<ownerVars, runVars, cleanupAdmitted, fiberVars, trackVars,
                 cleanupVars, probed>>

ObserveUnattempted(r, x, ok) == Observation(r, x, ok, ok)

\* Only a cleanup that was attempted and is seen released is confirmed.
Observe(r, x, ok) == Observation(r, x, ok, ok /\ x \in attempted[r])

\* The errors of the final report: an unconfirmed or failed cleanup, and
\* whatever the Fiber tree logged.
FinalErrors(r) ==
  errors[r] \cup (IF confirmed[r] # probed[r] \/ faulted[r] # {}
                  THEN {"verifying-cleanup"} ELSE {})
            \cup (IF r \in captured THEN {"cordis"} ELSE {})

FinalStatus(r) == IF FinalErrors(r) # {} THEN "error"
                  ELSE IF probed[r] # {} THEN "passed" ELSE "incomplete"

Reported(r) ==
  /\ pc[r] = "verifying" /\ observed[r] = probed[r]
  /\ errors' = [errors EXCEPT ![r] = FinalErrors(r)]
  /\ passed' = [passed EXCEPT ![r] =
       IF probed[r] # {} /\ confirmed[r] = probed[r] /\ faulted[r] = {}
          /\ r \notin captured
       THEN @ \cup {"verifying-cleanup"} ELSE @]
  /\ status' = [status EXCEPT ![r] = FinalStatus(r)]
  /\ phase' = [phase EXCEPT ![r] =
                 IF FinalStatus(r) = "passed" THEN "completed" ELSE "error"]
  /\ pc' = [pc EXCEPT ![r] = "done"]
  /\ UNCHANGED <<rid, fieldVars, produceVars, outerVars>>

ReleaseOwner(r) ==
  /\ active' = active \ {rid[r]}
  /\ holds' = holds \ {r}

ReleaseIf(r, clean) ==
  \/ clean /\ ReleaseOwner(r)
  \/ ~clean /\ UNCHANGED <<active, holds>>

ReportUndisposed(r) ==
  Reported(r) /\ ReleaseIf(r, probed[r] # {} /\ confirmed[r] = probed[r])

\* The final report.  The run ID is given back only when the Fiber was seen
\* disposed and every one of at least one resource is confirmed.
Report(r) ==
  /\ Reported(r)
  /\ ReleaseIf(r, /\ "disposing" \in passed[r] /\ probed[r] # {}
                  /\ confirmed[r] = probed[r])
-----------------------------------------------------------------------------
(***************************************************************************)
(* The Fiber of a run.  Cordis is external: the model keeps the states     *)
(* that run-owner reads and lets every transition happen at any time.      *)
(***************************************************************************)

FiberMoves(r, from, to) ==
  /\ fiber[r] \in from
  /\ fiber' = [fiber EXCEPT ![r] = to]
  /\ UNCHANGED <<ownerVars, runVars, cleanupAdmitted, hostDisposed, captured,
                 resourceVars>>

\* run.resources is set; the Loader starts the providers of the profile.
BindResources(r) == FiberMoves(r, {"loading"}, "serving")

FiberActive(r) == FiberMoves(r, {"serving"}, "active")

FiberFails(r) == FiberMoves(r, {"loading", "serving"}, "failed")

\* Every disposer has returned.
FiberDisposed(r) ==
  /\ effects[r] = {} /\ cleaning[r] = {}
  /\ FiberMoves(r, {"unloading"}, "disposed")

\* The host application is disposed, and with it every Fiber.
HostDispose ==
  /\ ~hostDisposed
  /\ hostDisposed' = TRUE
  /\ fiber' = [r \in Run |-> Unload(fiber[r])]
  /\ UNCHANGED <<ownerVars, runVars, cleanupAdmitted, captured, resourceVars>>

\* The logger exporter of an OwnedRun sees an error of its Fiber tree.
LogError(r) ==
  /\ fiber[r] # "absent" /\ pc[r] # "done" /\ r \notin captured
  /\ captured' = captured \cup {r}
  /\ UNCHANGED <<ownerVars, runVars, cleanupAdmitted, fiber, hostDisposed,
                 resourceVars>>
-----------------------------------------------------------------------------
(***************************************************************************)
(* RunResources.                                                           *)
(***************************************************************************)

\* track: a record and a disposer of the provider's Fiber.
Track(r, x) ==
  /\ fiber[r] \in {"serving", "active"} /\ x \notin records[r]
  /\ records' = [records EXCEPT ![r] = @ \cup {x}]
  /\ effects' = [effects EXCEPT ![r] = @ \cup {x}]
  /\ UNCHANGED <<ownerVars, runVars, cleanupAdmitted, fiberVars, cleanupVars,
                 verifyVars>>

\* A late track: the record is set before ctx.effect refuses the disposer.
TrackLate(r, x) ==
  /\ fiber[r] \in {"unloading", "disposed"} /\ x \notin records[r]
  /\ records' = [records EXCEPT ![r] = @ \cup {x}]
  /\ UNCHANGED <<ownerVars, runVars, cleanupAdmitted, fiberVars, effects,
                 cleanupVars, verifyVars>>

\* The disposer of x runs (with the run's Fiber, or because its provider
\* failed or was unloaded) and refuses.
RefuseCleanup(r, x) ==
  /\ x \in effects[r]
  /\ producer[r] # "none" \/ r \notin cleanupAdmitted
  /\ effects' = [effects EXCEPT ![r] = @ \ {x}]
  /\ cleanupError' = [cleanupError EXCEPT ![r] = @ \cup {x}]
  /\ errors' = [errors EXCEPT ![r] = @ \cup {"verifying-cleanup"}]
  /\ UNCHANGED <<ownerVars, pc, phase, fieldVars, passed, status, produceVars,
                 cleanupAdmitted, fiberVars, records, attempted, cleaning,
                 released, verifyVars>>

StartCleanup(r, x) ==
  /\ x \in effects[r]
  /\ effects' = [effects EXCEPT ![r] = @ \ {x}]
  /\ attempted' = [attempted EXCEPT ![r] = @ \cup {x}]
  /\ cleaning' = [cleaning EXCEPT ![r] = @ \cup {x}]
  /\ UNCHANGED <<ownerVars, runVars, cleanupAdmitted, fiberVars, records,
                 cleanupError, released, verifyVars>>

\* The disposer of x runs and calls resource.cleanup().
Cleanup(r, x) ==
  /\ producer[r] = "none" /\ r \in cleanupAdmitted
  /\ StartCleanup(r, x)

\* resource.cleanup() returns or throws; x may be gone in either case.
CleanupSettles(r, x, fails, gone) ==
  /\ x \in cleaning[r]
  /\ cleaning' = [cleaning EXCEPT ![r] = @ \ {x}]
  /\ cleanupError' = [cleanupError EXCEPT ![r] =
                        IF fails THEN @ \cup {x} ELSE @]
  /\ released' = [released EXCEPT ![r] = IF gone THEN @ \cup {x} ELSE @]
  /\ UNCHANGED <<ownerVars, runVars, cleanupAdmitted, fiberVars, trackVars,
                 attempted, verifyVars>>

\* A resource ends by itself.
Vanish(r, x) ==
  /\ x \in records[r] \ released[r]
  /\ released' = [released EXCEPT ![r] = @ \cup {x}]
  /\ UNCHANGED <<ownerVars, runVars, cleanupAdmitted, fiberVars, trackVars,
                 attempted, cleaning, cleanupError, verifyVars>>
-----------------------------------------------------------------------------
\* Steps of the coroutine of a run: timers and continuations.
Coroutine(r) ==
  \/ AdmitOk(r) \/ AdmitFails(r) \/ PluginThrows(r)
  \/ Loaded(r) \/ Probe(r) \/ Probed(r) \/ StartupFails(r)
  \/ Deadline(r) \/ StageContinue(r) \/ ExportOk(r) \/ ExportFails(r)
  \/ Disposed(r) \/ DisposeDeadline(r) \/ Report(r)
  \/ \E x \in Resource, ok \in BOOLEAN : Observe(r, x, ok)

Caller(r) ==
  \/ \E id \in RunId : Start(r, id) \/ StartOwned(r, id)
  \/ BeginMeasurement(r) \/ RetryExport(r)
  \/ \E h \in BOOLEAN : Finish(r, h)

Provider(r) ==
  \/ \E o \in {"refs", "empty", "error"} : Settle(r, o)
  \/ BindResources(r) \/ FiberActive(r) \/ FiberFails(r) \/ FiberDisposed(r)
  \/ LogError(r)
  \/ \E x \in Resource :
       \/ Track(r, x) \/ TrackLate(r, x) \/ Vanish(r, x)
       \/ RefuseCleanup(r, x) \/ Cleanup(r, x)
       \/ \E fails, gone \in BOOLEAN : CleanupSettles(r, x, fails, gone)

Next == HostDispose \/ \E r \in Run : Coroutine(r) \/ Caller(r) \/ Provider(r)

Spec == Init /\ [][Next]_vars

(***************************************************************************)
(* The event loop runs every continuation that is ready, and every await   *)
(* of a run is inside `within`, whose timer fires.  Nothing is assumed of  *)
(* callers, providers or Cordis.                                           *)
(***************************************************************************)
FairSpec == Spec /\ \A r \in Run : WF_vars(Coroutine(r))
-----------------------------------------------------------------------------
(***************************************************************************)
(* Properties.                                                             *)
(***************************************************************************)

\* cleanupAdmitted and produce: once the destructive cleanup of any resource
\* of a run was called, its evidence export had passed, every completion
\* stage had reported and no callback of the run is still at work.
CleanupIsLast ==
  \A r \in Run : attempted[r] # {} =>
    /\ Export \in passed[r]
    /\ Stages \subseteq passed[r] \cup errors[r]
    /\ producer[r] = "none"

\* ID reservations: `active` is exactly the set of IDs of the start calls
\* that hold one, no two of them share an ID (so a release never frees the
\* ID of another run), and while the host lives each holder still has an
\* OwnedRun or an admission under way.
ReservationsMatch ==
  /\ active = {rid[r] : r \in holds}
  /\ \A r, s \in holds : rid[r] = rid[s] => r = s
  /\ \A r \in holds : pc[r] \in {"idle", "refused"} => hostDisposed

\* The run ID is given back by a completed run only when its Fiber is gone,
\* none of its disposers is waiting, running or was refused, and every
\* resource a disposer was called for is physically released.
ReleasedRunIsClean ==
  \A r \in Run : pc[r] = "done" /\ r \notin holds =>
    /\ fiber[r] = "disposed"
    /\ effects[r] = {} /\ cleaning[r] = {}
    /\ cleanupError[r] \subseteq attempted[r]
    /\ probed[r] # {} /\ attempted[r] \subseteq released[r]

\* Status 'passed' is never reported for a run that skipped a phase, met an
\* error, left a resource behind or keeps its ID.
PassedIsComplete ==
  \A r \in Run : status[r] = "passed" =>
    /\ {"preloading", "ready", "measuring", Export, "disposing",
        "verifying-cleanup"} \cup Stages \subseteq passed[r]
    /\ errors[r] = {}
    /\ probed[r] # {} /\ probed[r] \subseteq released[r] \cap attempted[r]
    /\ r \notin holds

\* produce: while a callback is unsettled no other one is called for the run,
\* whatever deadlines, retries and finish calls come in between.
KeepsProducer ==
  \A r \in Run : producer[r] # "none" => producer'[r] \in {producer[r], "none"}

\* resume: a completion stage's callback is called at most once in the life
\* of a run, and only after every earlier stage has reported.
StartsStageInOrder ==
  \A r \in Run, k \in 1..3 :
    producer[r] # StageName[k] /\ producer'[r] = StageName[k] =>
      /\ StageName[k] \notin invoked[r]
      /\ \A i \in 1..3 : i < k => StageName[i] \in passed'[r] \cup errors'[r]

\* Callbacks of a run never overlap, and those of its stages run once and in
\* order, though a deadline stops no callback.
StagesRunOnceInOrder == [][KeepsProducer /\ StartsStageInOrder]_vars

\* The completion is final: after it nothing adds an error to the run or
\* changes its phases, so the returned report does not miss one.
KeepsReport ==
  \A r \in Run : pc[r] = "done" =>
    /\ pc'[r] = "done" /\ phase'[r] = phase[r] /\ errors'[r] = errors[r]
    /\ passed'[r] = passed[r] /\ status'[r] = status[r]

CompletionIsFinal == [][KeepsReport]_vars

\* "A deadline bounds the caller": every call of start, finish and
\* retryExport returns, even when no provider callback ever settles.
CallerBounded ==
  \A r \in Run : pc[r] \notin {"idle", "held"} ~>
                 pc[r] \in {"held", "refused", "done"}
-----------------------------------------------------------------------------
(***************************************************************************)
(* RunOwner implements RunCustody.                                         *)
(***************************************************************************)
OwnsBar == {<<rid[r], r>> : r \in holds}

StageBar == [r \in Run |->
  IF pc[r] = "idle" THEN "new"
  ELSE IF pc[r] = "refused" THEN "refused"
  ELSE IF pc[r] = "admitting" THEN "reserved"
  ELSE IF attempted[r] # {} THEN "destroyed"
  ELSE IF r \in cleanupAdmitted THEN "exported" ELSE "working"]

BusyBar == {r \in Run : producer[r] # "none"}

Custody == INSTANCE RunCustody WITH
  owns <- OwnsBar, stage <- StageBar, busy <- BusyBar

\* Every behaviour of RunOwner, seen through the mapping above, is one the
\* custody promise allows.
ImplementsCustody == Custody!CustodySpec
=============================================================================
