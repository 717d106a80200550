--------------------------- MODULE RunOwner_proof ---------------------------
(***************************************************************************)
(* Proofs about RunOwner, for every set of runs, IDs and resources and     *)
(* every number of bindings.                                               *)
(***************************************************************************)
EXTENDS RunOwner, TLAPS

USE DEF ownerVars, fieldVars, reportVars, produceVars, runVars, fiberVars,
        trackVars, cleanupVars, verifyVars, resourceVars, outerVars

\* The completion stages have three distinct names.
LEMMA StageNames ==
  /\ StageName[1] = "closing-measurement"
  /\ StageName[2] = "capturing-last-state"
  /\ StageName[3] = "draining-recorders"
  /\ \A k \in 1..3 : StageName[k] \in Stages
  /\ \A s \in Stages : \E k \in 1..3 : s = StageName[k]
  /\ \A k, l \in 1..3 : StageName[k] = StageName[l] => k = l
<1>1. /\ StageName[1] = "closing-measurement"
      /\ StageName[2] = "capturing-last-state"
      /\ StageName[3] = "draining-recorders"
  BY DEF StageName
<1>2. \A k \in 1..3 : k = 1 \/ k = 2 \/ k = 3
  OBVIOUS
<1> QED BY <1>1, <1>2 DEF Stages

\* What resume does to the types of the variables it writes.
LEMMA ResumeType ==
  ASSUME TypeOK, NEW r \in Run, NEW h \in BOOLEAN, NEW e \in BOOLEAN,
         NEW errs \in SUBSET (Phases \cup {"cordis"}), Resume(r, h, e, errs)
  PROVE  /\ pc' \in [Run -> Locations]
         /\ phase' \in [Run -> Phases]
         /\ nextStage' \in [Run -> 0..3]
         /\ errors' \in [Run -> SUBSET (Phases \cup {"cordis"})]
         /\ status' \in [Run -> Statuses]
         /\ producer' \in [Run -> Stages \cup {"none", "preloading", Export}]
         /\ outcome' \in [Run -> Outcomes]
         /\ invoked' \in [Run -> SUBSET Stages]
<1>1. outcome' \in [Run -> Outcomes]
  BY DEF Resume, TypeOK, Outcomes
<1>2. CASE Retain(r, errs) /\ UNCHANGED nextStage
  BY <1>1, <1>2 DEF Retain, TypeOK, Locations, Phases, Statuses
<1>3. CASE nextStage[r] < 3 /\ RunStage(r, nextStage[r] + 1, errs)
  <2>1. nextStage[r] + 1 \in 1..3
    BY <1>3 DEF TypeOK
  <2>2. PICK s \in Stages : s = StageName[nextStage[r] + 1]
    BY <2>1, StageNames
  <2> QED BY <1>1, <1>3, <2>1, <2>2
          DEF RunStage, Produce, TypeOK, Locations, Awaiting, Phases, Statuses
<1>4. CASE ExportAndCleanup(r, e, errs \cup Missing(r, h))
  <2>1. \A i \in (nextStage[r] + 1)..3 : i \in 1..3
    BY DEF TypeOK
  <2>2. errs \cup Missing(r, h) \in SUBSET (Phases \cup {"cordis"})
    BY <2>1, StageNames DEF Missing, Phases
  <2> QED BY <1>1, <1>4, <2>2
          DEF ExportAndCleanup, Retain, Produce, TypeOK, Locations, Awaiting,
              Phases, Statuses, Export
<1> QED BY <1>2, <1>3, <1>4 DEF Resume

\* A step keeps every variable in its type.
LEMMA TypeStep == TypeOK /\ [Next]_vars => TypeOK'
<1> SUFFICES ASSUME TypeOK, [Next]_vars PROVE TypeOK'
  OBVIOUS
<1> USE NBindingsAssumption
<1>1. ASSUME NEW r \in Run, Coroutine(r) PROVE TypeOK'
  <2>1. CASE AdmitOk(r)
    BY <2>1 DEF TypeOK, Locations, Awaiting, Phases, Stages, Export,
        Outcomes, Statuses, FiberStates, AdmitOk, FiberStates
  <2>2. CASE AdmitFails(r)
    BY <2>2 DEF TypeOK, Locations, Awaiting, Phases, Stages, Export,
        Outcomes, Statuses, FiberStates, AdmitFails
  <2>3. CASE PluginThrows(r)
    BY <2>3 DEF TypeOK, Locations, Awaiting, Phases, Stages, Export,
        Outcomes, Statuses, FiberStates, PluginThrows
  <2>4. CASE Loaded(r)
    BY <2>4 DEF TypeOK, Locations, Awaiting, Phases, Stages, Export,
        Outcomes, Statuses, FiberStates, Loaded
  <2>5. CASE Probe(r)
    BY <2>5 DEF TypeOK, Locations, Awaiting, Phases, Stages, Export,
        Outcomes, Statuses, FiberStates, Probe, Produce
  <2>6. CASE Probed(r)
    BY <2>6 DEF TypeOK, Locations, Awaiting, Phases, Stages, Export,
        Outcomes, Statuses, FiberStates, Probed
  <2>7. CASE StartupFails(r)
    <3>1. errors[r] \cup {"preloading", "measuring"} \in SUBSET (Phases \cup {"cordis"})
      BY DEF TypeOK, Phases
    <3> QED BY <2>7, <3>1, ResumeType DEF TypeOK, StartupFails
  <2>8. CASE Deadline(r)
    BY <2>8 DEF TypeOK, Locations, Awaiting, Phases, Stages, Export,
        Outcomes, Statuses, FiberStates, Deadline
  <2>9. CASE StageContinue(r)
    <3>1. errors[r] \in SUBSET (Phases \cup {"cordis"}) /\ phase[r] \in Phases
      BY DEF TypeOK
    <3>2. hooked[r] \in BOOLEAN /\ exporter[r] \in BOOLEAN
      BY DEF TypeOK
    <3>3. errors[r] \cup {phase[r]} \in SUBSET (Phases \cup {"cordis"})
      BY <3>1
    <3>4. passed' \in [Run -> SUBSET Phases]
      BY <2>9, <3>1 DEF TypeOK, StageContinue
    <3>5. CASE Resume(r, hooked[r], exporter[r], errors[r])
      BY <2>9, <3>1, <3>2, <3>4, <3>5, ResumeType DEF TypeOK, StageContinue
    <3>6. CASE Resume(r, hooked[r], exporter[r], errors[r] \cup {phase[r]})
      BY <2>9, <3>2, <3>3, <3>4, <3>6, ResumeType DEF TypeOK, StageContinue
    <3> QED BY <2>9, <3>5, <3>6 DEF StageContinue
  <2>10. CASE ExportOk(r)
    BY <2>10 DEF TypeOK, Locations, Awaiting, Phases, Stages, Export,
        Outcomes, Statuses, FiberStates, ExportOk, Exported, Unload,
        FiberStates
  <2>11. CASE ExportFails(r)
    BY <2>11 DEF TypeOK, Locations, Awaiting, Phases, Stages, Export,
        Outcomes, Statuses, FiberStates, ExportFails, Retain
  <2>12. CASE Disposed(r)
    BY <2>12 DEF TypeOK, Locations, Awaiting, Phases, Stages, Export,
        Outcomes, Statuses, FiberStates, Disposed, StartVerify
  <2>13. CASE DisposeDeadline(r)
    BY <2>13 DEF TypeOK, Locations, Awaiting, Phases, Stages, Export,
        Outcomes, Statuses, FiberStates, DisposeDeadline, StartVerify
  <2>14. CASE Report(r)
    BY <2>14 DEF TypeOK, Locations, Awaiting, Phases, Stages, Export,
        Outcomes, Statuses, FiberStates, Report, Reported, ReleaseIf,
        ReleaseOwner, FinalErrors, FinalStatus
  <2>15. ASSUME NEW x \in Resource, NEW ok \in BOOLEAN, Observe(r, x, ok) PROVE TypeOK'
    BY <2>15 DEF TypeOK, Locations, Awaiting, Phases, Stages, Export,
        Outcomes, Statuses, FiberStates, Observe, Observation
  <2> QED BY <1>1, <2>1, <2>2, <2>3, <2>4, <2>5, <2>6, <2>7, <2>8, <2>9,
      <2>10, <2>11, <2>12, <2>13, <2>14, <2>15 DEF Coroutine
<1>2. ASSUME NEW r \in Run, Caller(r) PROVE TypeOK'
  <2>1. ASSUME NEW id \in RunId, Start(r, id) PROVE TypeOK'
    BY <2>1 DEF TypeOK, Locations, Awaiting, Phases, Stages, Export,
        Outcomes, Statuses, FiberStates, Start, TakeId
  <2>2. ASSUME NEW id \in RunId, StartOwned(r, id) PROVE TypeOK'
    BY <2>2 DEF TypeOK, Locations, Awaiting, Phases, Stages, Export,
        Outcomes, Statuses, FiberStates, StartOwned
  <2>3. CASE BeginMeasurement(r)
    BY <2>3 DEF TypeOK, Locations, Awaiting, Phases, Stages, Export,
        Outcomes, Statuses, FiberStates, BeginMeasurement
  <2>4. CASE RetryExport(r)
    <3>1. errors[r] \in SUBSET (Phases \cup {"cordis"}) /\ hooked[r] \in BOOLEAN
      BY DEF TypeOK
    <3> QED BY <2>4, <3>1, ResumeType DEF TypeOK, RetryExport
  <2>5. ASSUME NEW h \in BOOLEAN, Finish(r, h) PROVE TypeOK'
    <3> DEFINE errs == errors[r] \cup
                 (IF phase[r] = "measuring" THEN {} ELSE {"measuring"})
    <3>1. errs \in SUBSET (Phases \cup {"cordis"})
      BY DEF TypeOK, Phases
    <3>2. Resume(r, h, h, errs)
      BY <2>5 DEF Finish
    <3> HIDE DEF errs
    <3> QED BY <2>5, <3>1, <3>2, ResumeType DEF TypeOK, Finish
  <2> QED BY <1>2, <2>1, <2>2, <2>3, <2>4, <2>5 DEF Caller
<1>3. ASSUME NEW r \in Run, Provider(r) PROVE TypeOK'
  <2>1. ASSUME NEW o \in {"refs", "empty", "error"}, Settle(r, o) PROVE TypeOK'
    BY <2>1 DEF TypeOK, Locations, Awaiting, Phases, Stages, Export,
        Outcomes, Statuses, FiberStates, Settle
  <2>2. CASE BindResources(r) \/ FiberActive(r) \/ FiberFails(r) \/ FiberDisposed(r)
    BY <2>2 DEF TypeOK, Locations, Awaiting, Phases, Stages, Export,
        Outcomes, Statuses, FiberStates, BindResources, FiberActive,
        FiberFails, FiberDisposed, FiberMoves
  <2>3. CASE LogError(r)
    BY <2>3 DEF TypeOK, Locations, Awaiting, Phases, Stages, Export,
        Outcomes, Statuses, FiberStates, LogError
  <2>4. ASSUME NEW x \in Resource, Track(r, x) \/ TrackLate(r, x) \/ Vanish(r, x) PROVE TypeOK'
    BY <2>4 DEF TypeOK, Locations, Awaiting, Phases, Stages, Export,
        Outcomes, Statuses, FiberStates, Track, TrackLate, Vanish
  <2>5. ASSUME NEW x \in Resource, RefuseCleanup(r, x) PROVE TypeOK'
    BY <2>5 DEF TypeOK, Locations, Awaiting, Phases, Stages, Export,
        Outcomes, Statuses, FiberStates, RefuseCleanup
  <2>6. ASSUME NEW x \in Resource, Cleanup(r, x) PROVE TypeOK'
    BY <2>6 DEF TypeOK, Locations, Awaiting, Phases, Stages, Export,
        Outcomes, Statuses, FiberStates, Cleanup, StartCleanup
  <2>7. ASSUME NEW x \in Resource, NEW fails \in BOOLEAN, NEW gone \in BOOLEAN,
               CleanupSettles(r, x, fails, gone) PROVE TypeOK'
    BY <2>7 DEF TypeOK, Locations, Awaiting, Phases, Stages, Export,
        Outcomes, Statuses, FiberStates, CleanupSettles
  <2> QED BY <1>3, <2>1, <2>2, <2>3, <2>4, <2>5, <2>6, <2>7 DEF Provider
<1>4. CASE HostDispose
  BY <1>4 DEF TypeOK, Locations, Awaiting, Phases, Stages, Export, Outcomes,
      Statuses, FiberStates, HostDispose, Unload
<1>5. CASE UNCHANGED vars
  BY <1>5 DEF TypeOK, Locations, Awaiting, Phases, Stages, Export, Outcomes,
      Statuses, FiberStates, vars
<1> QED BY <1>1, <1>2, <1>3, <1>4, <1>5 DEF Next
-----------------------------------------------------------------------------
(***************************************************************************)
(* The inductive invariant behind the safety properties.                   *)
(***************************************************************************)

\* A callback is unsettled only while it is awaited or after its deadline,
\* and an answer that won the race means that it is settled.
ProducerInv ==
  \A r \in Run :
    /\ pc[r] \notin Awaiting \cup {"held"} => producer[r] = "none"
    /\ pc[r] \notin Awaiting => outcome[r] = "pending"
    /\ outcome[r] \in {"refs", "empty", "error"} => producer[r] = "none"

\* Stages up to nextStage have reported, but for the one being awaited.
StageInv ==
  \A r \in Run :
    /\ pc[r] = "stage" => nextStage[r] # 0 /\ phase[r] = StageName[nextStage[r]]
    /\ \A k \in 1..3 : k <= nextStage[r] =>
         \/ StageName[k] \in passed[r] \cup errors[r]
         \/ pc[r] = "stage" /\ k = nextStage[r]
    /\ pc[r] \in {"exporting", "disposing", "verifying", "done"} =>
         nextStage[r] = 3
    /\ \A k \in 1..3 : StageName[k] \in invoked[r] => k <= nextStage[r]

\* Cleanup is admitted exactly from the successful export on.
AdmittedInv ==
  \A r \in Run :
    /\ r \in cleanupAdmitted <=> pc[r] \in {"disposing", "verifying", "done"}
    /\ attempted[r] # {} => r \in cleanupAdmitted
    /\ r \in cleanupAdmitted => Export \in passed[r]

\* Reservations are held from the first step of start to the release.
HolderInv ==
  /\ active = {rid[r] : r \in holds}
  /\ \A r \in holds : rid[r] \in RunId
  /\ \A r, s \in holds : rid[r] = rid[s] => r = s
  /\ \A r \in Run :
       /\ pc[r] = "idle" => r \notin holds
       /\ pc[r] = "refused" /\ r \in holds => hostDisposed
       /\ pc[r] \notin {"idle", "refused", "done"} => r \in holds

\* Disposers, cleanups and their verification only concern records, and a
\* disposed Fiber has no disposer left.
ResourceInv ==
  \A r \in Run :
    /\ effects[r] \cup attempted[r] \cup cleanupError[r] \subseteq records[r]
    /\ cleaning[r] \subseteq attempted[r]
    /\ fiber[r] = "disposed" => effects[r] = {} /\ cleaning[r] = {}
    /\ "disposing" \in passed[r] =>
         /\ pc[r] \in {"verifying", "done"} /\ fiber[r] = "disposed"
         /\ attempted[r] \cup cleanupError[r] \subseteq probed[r]
    /\ confirmed[r] \subseteq probed[r] \cap attempted[r] \cap released[r]
    /\ pc[r] = "done" /\ r \notin holds =>
         "disposing" \in passed[r] /\ probed[r] # {} /\ confirmed[r] = probed[r]

\* Each phase a completion went through left 'passed' or an error.
ReportInv ==
  \A r \in Run :
    /\ pc[r] \in {"held", "stage", "exporting", "disposing", "verifying",
                  "done"} =>
         {"preloading", "ready"} \subseteq passed[r] \/ "preloading" \in errors[r]
    /\ pc[r] = "held" => phase[r] \in {"ready", "measuring", "retained"}
    /\ \/ pc[r] \in {"stage", "exporting", "disposing", "verifying", "done"}
       \/ pc[r] = "held" /\ phase[r] \in {"measuring", "retained"}
       => "measuring" \in passed[r] \cup errors[r]
    /\ pc[r] \in {"verifying", "done"} => "disposing" \in passed[r] \cup errors[r]
    /\ status[r] = "passed" =>
         /\ pc[r] = "done" /\ errors[r] = {} /\ r \notin holds
         /\ "verifying-cleanup" \in passed[r]

IInv == TypeOK /\ ProducerInv /\ StageInv /\ AdmittedInv /\ HolderInv
        /\ ResourceInv /\ ReportInv

\* A step keeps ProducerInv.
LEMMA ProducerStep ==
  ASSUME TypeOK, ProducerInv, [Next]_vars
  PROVE  ProducerInv'
<1>1. CASE UNCHANGED <<pc, producer, outcome>>
  BY <1>1 DEF ProducerInv
<1>2. ASSUME NEW r \in Run, Coroutine(r) PROVE ProducerInv'
  <2>1. CASE AdmitOk(r)
    BY <2>1 DEF ProducerInv, AdmitOk, TypeOK, Awaiting
  <2>2. CASE AdmitFails(r)
    BY <2>2 DEF ProducerInv, AdmitFails, TypeOK, Awaiting
  <2>3. CASE PluginThrows(r)
    BY <2>3 DEF ProducerInv, PluginThrows, TypeOK, Awaiting
  <2>4. CASE Loaded(r)
    BY <2>4 DEF ProducerInv, Loaded, TypeOK, Awaiting
  <2>5. CASE Probe(r)
    BY <2>5 DEF ProducerInv, Probe, Produce, TypeOK, Awaiting
  <2>6. CASE Probed(r)
    BY <2>6 DEF ProducerInv, Probed, TypeOK, Awaiting
  <2>7. CASE StartupFails(r)
    BY <2>7 DEF ProducerInv, StartupFails, Resume, RunStage,
        ExportAndCleanup, Retain, Produce, Missing, TypeOK, Awaiting
  <2>8. CASE Deadline(r)
    BY <2>8 DEF ProducerInv, Deadline, TypeOK, Awaiting
  <2>9. CASE StageContinue(r)
    BY <2>9 DEF ProducerInv, StageContinue, Resume, RunStage,
        ExportAndCleanup, Retain, Produce, Missing, TypeOK, Awaiting
  <2>10. CASE ExportOk(r)
    BY <2>10 DEF ProducerInv, ExportOk, Exported, Unload, TypeOK, Awaiting
  <2>11. CASE ExportFails(r)
    BY <2>11 DEF ProducerInv, ExportFails, Retain, TypeOK, Awaiting
  <2>12. CASE Disposed(r)
    BY <2>12 DEF ProducerInv, Disposed, StartVerify, TypeOK, Awaiting
  <2>13. CASE DisposeDeadline(r)
    BY <2>13 DEF ProducerInv, DisposeDeadline, StartVerify, TypeOK, Awaiting
  <2>14. CASE Report(r)
    BY <2>14 DEF ProducerInv, Report, Reported, ReleaseIf, ReleaseOwner,
        FinalErrors, FinalStatus, TypeOK, Awaiting
  <2> QED BY <1>2, <1>1, <2>1, <2>2, <2>3, <2>4, <2>5, <2>6, <2>7, <2>8,
      <2>9, <2>10, <2>11, <2>12, <2>13, <2>14 DEF Coroutine, Observe,
      Observation
<1>3. ASSUME NEW r \in Run, Caller(r) PROVE ProducerInv'
  <2>1. ASSUME NEW id \in RunId, Start(r, id)
       PROVE  ProducerInv'
    BY <2>1 DEF ProducerInv, Start, TakeId, TypeOK, Awaiting
  <2>2. ASSUME NEW id \in RunId, StartOwned(r, id)
       PROVE  ProducerInv'
    BY <2>2 DEF ProducerInv, StartOwned, TypeOK, Awaiting
  <2>3. CASE RetryExport(r)
    BY <2>3 DEF ProducerInv, RetryExport, Resume, RunStage, ExportAndCleanup,
        Retain, Produce, Missing, TypeOK, Awaiting
  <2>4. ASSUME NEW h \in BOOLEAN, Finish(r, h)
       PROVE  ProducerInv'
    BY <2>4 DEF ProducerInv, Finish, Resume, RunStage, ExportAndCleanup,
        Retain, Produce, Missing, TypeOK, Awaiting
  <2> QED BY <1>3, <1>1, <2>1, <2>2, <2>3, <2>4 DEF Caller, BeginMeasurement
<1>4. ASSUME NEW r \in Run, Provider(r) PROVE ProducerInv'
  <2>1. ASSUME NEW o \in {"refs", "empty", "error"}, Settle(r, o)
       PROVE  ProducerInv'
    BY <2>1 DEF ProducerInv, Settle, TypeOK, Awaiting
  <2> QED BY <1>4, <1>1, <2>1 DEF Provider, BindResources, FiberMoves,
      FiberActive, FiberFails, FiberDisposed, LogError, Track, TrackLate,
      Vanish, RefuseCleanup, Cleanup, StartCleanup, CleanupSettles
<1>5. CASE HostDispose
  BY <1>1, <1>5 DEF HostDispose
<1> QED BY <1>1, <1>2, <1>3, <1>4, <1>5 DEF Next, vars

\* A step keeps StageInv.
LEMMA StageStep ==
  ASSUME TypeOK, ProducerInv, StageInv, [Next]_vars
  PROVE  StageInv'
<1>1. CASE UNCHANGED <<pc, phase, nextStage, passed, errors, invoked>>
  BY <1>1 DEF StageInv
<1>2. ASSUME NEW r \in Run, Coroutine(r) PROVE StageInv'
  <2>1. CASE AdmitOk(r)
    BY <2>1, StageNames DEF StageInv, AdmitOk, TypeOK
  <2>2. CASE AdmitFails(r)
    BY <2>2, StageNames DEF StageInv, AdmitFails, TypeOK
  <2>3. CASE PluginThrows(r)
    BY <2>3, StageNames DEF StageInv, PluginThrows, TypeOK
  <2>4. CASE Loaded(r)
    BY <2>4, StageNames DEF StageInv, Loaded, TypeOK
  <2>5. CASE Probe(r)
    BY <2>5, StageNames DEF StageInv, Probe, Produce, TypeOK
  <2>6. CASE Probed(r)
    BY <2>6, StageNames DEF StageInv, Probed, TypeOK
  <2>7. CASE StartupFails(r)
    BY <2>7, StageNames DEF StageInv, StartupFails, Resume, RunStage,
        ExportAndCleanup, Retain, Produce, Missing, TypeOK
  <2>8. CASE StageContinue(r)
    BY <2>8, StageNames DEF StageInv, StageContinue, Resume, RunStage,
        ExportAndCleanup, Retain, Produce, Missing, TypeOK
  <2>9. CASE ExportOk(r)
    BY <2>9, StageNames DEF StageInv, ExportOk, Exported, Unload, TypeOK
  <2>10. CASE ExportFails(r)
    BY <2>10, StageNames DEF StageInv, ExportFails, Retain, TypeOK
  <2>11. CASE Disposed(r)
    BY <2>11, StageNames DEF StageInv, Disposed, StartVerify, TypeOK
  <2>12. CASE DisposeDeadline(r)
    BY <2>12, StageNames DEF StageInv, DisposeDeadline, StartVerify, TypeOK
  <2>13. CASE Report(r)
    BY <2>13, StageNames DEF StageInv, Report, Reported, ReleaseIf,
        ReleaseOwner, FinalErrors, FinalStatus, TypeOK
  <2> QED BY <1>2, <1>1, <2>1, <2>2, <2>3, <2>4, <2>5, <2>6, <2>7, <2>8,
      <2>9, <2>10, <2>11, <2>12, <2>13 DEF Coroutine, Deadline, Observe,
      Observation
<1>3. ASSUME NEW r \in Run, Caller(r) PROVE StageInv'
  <2>1. ASSUME NEW id \in RunId, Start(r, id)
       PROVE  StageInv'
    BY <2>1, StageNames DEF StageInv, Start, TakeId, TypeOK
  <2>2. ASSUME NEW id \in RunId, StartOwned(r, id)
       PROVE  StageInv'
    BY <2>2, StageNames DEF StageInv, StartOwned, TypeOK
  <2>3. CASE BeginMeasurement(r)
    BY <2>3, StageNames DEF StageInv, BeginMeasurement, TypeOK
  <2>4. CASE RetryExport(r)
    BY <2>4, StageNames DEF StageInv, RetryExport, Resume, RunStage,
        ExportAndCleanup, Retain, Produce, Missing, TypeOK
  <2>5. ASSUME NEW h \in BOOLEAN, Finish(r, h)
       PROVE  StageInv'
    BY <2>5, StageNames DEF StageInv, Finish, Resume, RunStage,
        ExportAndCleanup, Retain, Produce, Missing, TypeOK
  <2> QED BY <1>3, <1>1, <2>1, <2>2, <2>3, <2>4, <2>5 DEF Caller
<1>4. ASSUME NEW r \in Run, Provider(r) PROVE StageInv'
  <2>1. ASSUME NEW o \in {"refs", "empty", "error"}, Settle(r, o)
       PROVE  StageInv'
    BY <2>1, StageNames DEF StageInv, Settle, TypeOK
  <2>2. ASSUME NEW x \in Resource, RefuseCleanup(r, x)
       PROVE  StageInv'
    BY <2>2, StageNames DEF StageInv, RefuseCleanup, TypeOK
  <2> QED BY <1>4, <1>1, <2>1, <2>2 DEF Provider, BindResources, FiberMoves,
      FiberActive, FiberFails, FiberDisposed, LogError, Track, TrackLate,
      Vanish, Cleanup, StartCleanup, CleanupSettles
<1>5. CASE HostDispose
  BY <1>1, <1>5 DEF HostDispose
<1> QED BY <1>1, <1>2, <1>3, <1>4, <1>5 DEF Next, vars

\* A step keeps AdmittedInv.
LEMMA AdmittedStep ==
  ASSUME TypeOK, AdmittedInv, [Next]_vars
  PROVE  AdmittedInv'
<1>1. CASE UNCHANGED <<pc, cleanupAdmitted, attempted, passed>>
  BY <1>1 DEF AdmittedInv
<1>2. ASSUME NEW r \in Run, Coroutine(r) PROVE AdmittedInv'
  <2>1. CASE AdmitOk(r)
    BY <2>1 DEF AdmittedInv, AdmitOk, TypeOK
  <2>2. CASE AdmitFails(r)
    BY <2>2 DEF AdmittedInv, AdmitFails, TypeOK
  <2>3. CASE PluginThrows(r)
    BY <2>3 DEF AdmittedInv, PluginThrows, TypeOK
  <2>4. CASE Loaded(r)
    BY <2>4 DEF AdmittedInv, Loaded, TypeOK
  <2>5. CASE Probe(r)
    BY <2>5 DEF AdmittedInv, Probe, Produce, TypeOK
  <2>6. CASE Probed(r)
    BY <2>6 DEF AdmittedInv, Probed, TypeOK
  <2>7. CASE StartupFails(r)
    BY <2>7 DEF AdmittedInv, StartupFails, Resume, RunStage,
        ExportAndCleanup, Retain, Produce, Missing, TypeOK
  <2>8. CASE StageContinue(r)
    BY <2>8 DEF AdmittedInv, StageContinue, Resume, RunStage,
        ExportAndCleanup, Retain, Produce, Missing, TypeOK
  <2>9. CASE ExportOk(r)
    BY <2>9 DEF AdmittedInv, ExportOk, Exported, Unload, TypeOK
  <2>10. CASE ExportFails(r)
    BY <2>10 DEF AdmittedInv, ExportFails, Retain, TypeOK
  <2>11. CASE Disposed(r)
    BY <2>11 DEF AdmittedInv, Disposed, StartVerify, TypeOK
  <2>12. CASE DisposeDeadline(r)
    BY <2>12 DEF AdmittedInv, DisposeDeadline, StartVerify, TypeOK
  <2>13. CASE Report(r)
    BY <2>13 DEF AdmittedInv, Report, Reported, ReleaseIf, ReleaseOwner,
        FinalErrors, FinalStatus, TypeOK
  <2> QED BY <1>2, <1>1, <2>1, <2>2, <2>3, <2>4, <2>5, <2>6, <2>7, <2>8,
      <2>9, <2>10, <2>11, <2>12, <2>13 DEF Coroutine, Deadline, Observe,
      Observation
<1>3. ASSUME NEW r \in Run, Caller(r) PROVE AdmittedInv'
  <2>1. ASSUME NEW id \in RunId, Start(r, id)
       PROVE  AdmittedInv'
    BY <2>1 DEF AdmittedInv, Start, TakeId, TypeOK
  <2>2. ASSUME NEW id \in RunId, StartOwned(r, id)
       PROVE  AdmittedInv'
    BY <2>2 DEF AdmittedInv, StartOwned, TypeOK
  <2>3. CASE BeginMeasurement(r)
    BY <2>3 DEF AdmittedInv, BeginMeasurement, TypeOK
  <2>4. CASE RetryExport(r)
    BY <2>4 DEF AdmittedInv, RetryExport, Resume, RunStage, ExportAndCleanup,
        Retain, Produce, Missing, TypeOK
  <2>5. ASSUME NEW h \in BOOLEAN, Finish(r, h)
       PROVE  AdmittedInv'
    BY <2>5 DEF AdmittedInv, Finish, Resume, RunStage, ExportAndCleanup,
        Retain, Produce, Missing, TypeOK
  <2> QED BY <1>3, <1>1, <2>1, <2>2, <2>3, <2>4, <2>5 DEF Caller
<1>4. ASSUME NEW r \in Run, Provider(r) PROVE AdmittedInv'
  <2>1. ASSUME NEW x \in Resource, Cleanup(r, x)
       PROVE  AdmittedInv'
    BY <2>1 DEF AdmittedInv, Cleanup, StartCleanup, TypeOK
  <2> QED BY <1>4, <1>1, <2>1 DEF Provider, Settle, BindResources,
      FiberMoves, FiberActive, FiberFails, FiberDisposed, LogError, Track,
      TrackLate, Vanish, RefuseCleanup, CleanupSettles
<1>5. CASE HostDispose
  BY <1>1, <1>5 DEF HostDispose
<1> QED BY <1>1, <1>2, <1>3, <1>4, <1>5 DEF Next, vars

\* A step keeps HolderInv.
LEMMA HolderStep ==
  ASSUME TypeOK, HolderInv, [Next]_vars
  PROVE  HolderInv'
<1>1. CASE UNCHANGED <<active, rid, holds, pc, hostDisposed>>
  BY <1>1 DEF HolderInv
<1>2. ASSUME NEW r \in Run, Coroutine(r) PROVE HolderInv'
  <2>1. CASE AdmitOk(r)
    BY <2>1 DEF HolderInv, AdmitOk, TypeOK
  <2>2. CASE AdmitFails(r)
    BY <2>2 DEF HolderInv, AdmitFails, TypeOK
  <2>3. CASE PluginThrows(r)
    BY <2>3 DEF HolderInv, PluginThrows, TypeOK
  <2>4. CASE Loaded(r)
    BY <2>4 DEF HolderInv, Loaded, TypeOK
  <2>5. CASE Probe(r)
    BY <2>5 DEF HolderInv, Probe, Produce, TypeOK
  <2>6. CASE Probed(r)
    BY <2>6 DEF HolderInv, Probed, TypeOK
  <2>7. CASE StartupFails(r)
    BY <2>7 DEF HolderInv, StartupFails, Resume, RunStage, ExportAndCleanup,
        Retain, Produce, Missing, TypeOK
  <2>8. CASE StageContinue(r)
    BY <2>8 DEF HolderInv, StageContinue, Resume, RunStage, ExportAndCleanup,
        Retain, Produce, Missing, TypeOK
  <2>9. CASE ExportOk(r)
    BY <2>9 DEF HolderInv, ExportOk, Exported, Unload, TypeOK
  <2>10. CASE ExportFails(r)
    BY <2>10 DEF HolderInv, ExportFails, Retain, TypeOK
  <2>11. CASE Disposed(r)
    BY <2>11 DEF HolderInv, Disposed, StartVerify, TypeOK
  <2>12. CASE DisposeDeadline(r)
    BY <2>12 DEF HolderInv, DisposeDeadline, StartVerify, TypeOK
  <2>13. CASE Report(r)
    BY <2>13 DEF HolderInv, Report, Reported, ReleaseIf, ReleaseOwner,
        FinalErrors, FinalStatus, TypeOK
  <2> QED BY <1>2, <1>1, <2>1, <2>2, <2>3, <2>4, <2>5, <2>6, <2>7, <2>8,
      <2>9, <2>10, <2>11, <2>12, <2>13 DEF Coroutine, Deadline, Observe,
      Observation
<1>3. ASSUME NEW r \in Run, Caller(r) PROVE HolderInv'
  <2>1. ASSUME NEW id \in RunId, Start(r, id)
       PROVE  HolderInv'
    BY <2>1 DEF HolderInv, Start, TakeId, TypeOK
  <2>2. ASSUME NEW id \in RunId, StartOwned(r, id)
       PROVE  HolderInv'
    BY <2>2 DEF HolderInv, StartOwned, TypeOK
  <2>3. CASE RetryExport(r)
    BY <2>3 DEF HolderInv, RetryExport, Resume, RunStage, ExportAndCleanup,
        Retain, Produce, Missing, TypeOK
  <2>4. ASSUME NEW h \in BOOLEAN, Finish(r, h)
       PROVE  HolderInv'
    BY <2>4 DEF HolderInv, Finish, Resume, RunStage, ExportAndCleanup,
        Retain, Produce, Missing, TypeOK
  <2> QED BY <1>3, <1>1, <2>1, <2>2, <2>3, <2>4 DEF Caller, BeginMeasurement
<1>4. ASSUME NEW r \in Run, Provider(r) PROVE HolderInv'
  <2> QED BY <1>4, <1>1 DEF Provider, Settle, BindResources, FiberMoves,
      FiberActive, FiberFails, FiberDisposed, LogError, Track, TrackLate,
      Vanish, RefuseCleanup, Cleanup, StartCleanup, CleanupSettles
<1>5. CASE HostDispose
  BY <1>5 DEF HolderInv, HostDispose, Unload, TypeOK
<1> QED BY <1>1, <1>2, <1>3, <1>4, <1>5 DEF Next, vars

\* A step keeps ResourceInv.
LEMMA ResourceStep ==
  ASSUME TypeOK, StageInv, AdmittedInv, HolderInv, ResourceInv, [Next]_vars
  PROVE  ResourceInv'
<1>1. CASE UNCHANGED <<pc, holds, passed, fiber, records, effects, attempted,
    cleaning, cleanupError, probed, confirmed, released>>
  BY <1>1 DEF ResourceInv
<1>2. ASSUME NEW r \in Run, Coroutine(r) PROVE ResourceInv'
  <2>1. CASE AdmitOk(r)
    BY <2>1 DEF ResourceInv, AdmitOk, TypeOK
  <2>2. CASE AdmitFails(r)
    BY <2>2 DEF ResourceInv, AdmitFails, TypeOK
  <2>3. CASE PluginThrows(r)
    BY <2>3 DEF ResourceInv, PluginThrows, TypeOK
  <2>4. CASE Loaded(r)
    BY <2>4 DEF ResourceInv, Loaded, TypeOK
  <2>5. CASE Probe(r)
    BY <2>5 DEF ResourceInv, Probe, Produce, TypeOK
  <2>6. CASE Probed(r)
    BY <2>6 DEF ResourceInv, Probed, TypeOK
  <2>7. CASE StartupFails(r)
    BY <2>7 DEF ResourceInv, StartupFails, Resume, RunStage,
        ExportAndCleanup, Retain, Produce, Missing, TypeOK
  <2>8. CASE StageContinue(r)
    <3>1. phase[r] \in Stages
      BY <2>8, StageNames DEF StageContinue, StageInv, TypeOK
    <3>2. phase[r] # "disposing"
      BY <3>1 DEF Stages
    <3> QED BY <2>8, <3>2
            DEF ResourceInv, StageContinue, Resume, RunStage,
                ExportAndCleanup, Retain, Produce, Missing, TypeOK
  <2>9. CASE ExportOk(r)
    BY <2>9 DEF ResourceInv, ExportOk, Exported, Unload, TypeOK, Export
  <2>10. CASE ExportFails(r)
    BY <2>10 DEF ResourceInv, ExportFails, Retain, TypeOK
  <2>11. CASE Disposed(r)
    BY <2>11 DEF ResourceInv, Disposed, StartVerify, TypeOK
  <2>12. CASE DisposeDeadline(r)
    BY <2>12 DEF ResourceInv, DisposeDeadline, StartVerify, TypeOK
  <2>13. CASE Report(r)
    BY <2>13 DEF ResourceInv, Report, Reported, ReleaseIf, ReleaseOwner,
        FinalErrors, FinalStatus, TypeOK, HolderInv
  <2>14. ASSUME NEW x \in Resource, NEW ok \in BOOLEAN, Observe(r, x, ok)
       PROVE  ResourceInv'
    BY <2>14 DEF ResourceInv, Observe, Observation, TypeOK
  <2> QED BY <1>2, <1>1, <2>1, <2>2, <2>3, <2>4, <2>5, <2>6, <2>7, <2>8,
      <2>9, <2>10, <2>11, <2>12, <2>13, <2>14 DEF Coroutine, Deadline
<1>3. ASSUME NEW r \in Run, Caller(r) PROVE ResourceInv'
  <2>1. ASSUME NEW id \in RunId, Start(r, id)
       PROVE  ResourceInv'
    BY <2>1 DEF ResourceInv, Start, TakeId, TypeOK
  <2>2. ASSUME NEW id \in RunId, StartOwned(r, id)
       PROVE  ResourceInv'
    BY <2>2 DEF ResourceInv, StartOwned, TypeOK
  <2>3. CASE BeginMeasurement(r)
    BY <2>3 DEF ResourceInv, BeginMeasurement, TypeOK
  <2>4. CASE RetryExport(r)
    BY <2>4 DEF ResourceInv, RetryExport, Resume, RunStage, ExportAndCleanup,
        Retain, Produce, Missing, TypeOK
  <2>5. ASSUME NEW h \in BOOLEAN, Finish(r, h)
       PROVE  ResourceInv'
    BY <2>5 DEF ResourceInv, Finish, Resume, RunStage, ExportAndCleanup,
        Retain, Produce, Missing, TypeOK
  <2> QED BY <1>3, <1>1, <2>1, <2>2, <2>3, <2>4, <2>5 DEF Caller
<1>4. ASSUME NEW r \in Run, Provider(r) PROVE ResourceInv'
  <2>1. CASE BindResources(r)
    BY <2>1 DEF ResourceInv, BindResources, FiberMoves, TypeOK
  <2>2. CASE FiberActive(r)
    BY <2>2 DEF ResourceInv, FiberActive, FiberMoves, TypeOK
  <2>3. CASE FiberFails(r)
    BY <2>3 DEF ResourceInv, FiberFails, FiberMoves, TypeOK
  <2>4. CASE FiberDisposed(r)
    BY <2>4 DEF ResourceInv, FiberDisposed, FiberMoves, TypeOK
  <2>5. ASSUME NEW x \in Resource, Track(r, x)
       PROVE  ResourceInv'
    BY <2>5 DEF ResourceInv, Track, TypeOK
  <2>6. ASSUME NEW x \in Resource, TrackLate(r, x)
       PROVE  ResourceInv'
    BY <2>6 DEF ResourceInv, TrackLate, TypeOK
  <2>7. ASSUME NEW x \in Resource, Vanish(r, x)
       PROVE  ResourceInv'
    BY <2>7 DEF ResourceInv, Vanish, TypeOK
  <2>8. ASSUME NEW x \in Resource, RefuseCleanup(r, x)
       PROVE  ResourceInv'
    BY <2>8 DEF ResourceInv, RefuseCleanup, TypeOK
  <2>9. ASSUME NEW x \in Resource, Cleanup(r, x)
       PROVE  ResourceInv'
    BY <2>9 DEF ResourceInv, Cleanup, StartCleanup, TypeOK
  <2>10. ASSUME NEW x \in Resource, NEW fails \in BOOLEAN,
               NEW gone \in BOOLEAN, CleanupSettles(r, x, fails, gone)
       PROVE  ResourceInv'
    BY <2>10 DEF ResourceInv, CleanupSettles, TypeOK
  <2> QED BY <1>4, <1>1, <2>1, <2>2, <2>3, <2>4, <2>5, <2>6, <2>7, <2>8,
      <2>9, <2>10 DEF Provider, Settle, LogError
<1>5. CASE HostDispose
  BY <1>5 DEF ResourceInv, HostDispose, Unload, TypeOK
<1> QED BY <1>1, <1>2, <1>3, <1>4, <1>5 DEF Next, vars

\* A step keeps ReportInv.
LEMMA ReportStep ==
  ASSUME TypeOK, ProducerInv, AdmittedInv, ResourceInv, ReportInv, [Next]_vars
  PROVE  ReportInv'
<1>1. CASE UNCHANGED <<pc, phase, holds, passed, errors, status>>
  BY <1>1 DEF ReportInv
<1>2. ASSUME NEW r \in Run, Coroutine(r) PROVE ReportInv'
  <2>1. CASE AdmitOk(r)
    BY <2>1 DEF ReportInv, AdmitOk, TypeOK
  <2>2. CASE AdmitFails(r)
    BY <2>2 DEF ReportInv, AdmitFails, TypeOK
  <2>3. CASE PluginThrows(r)
    BY <2>3 DEF ReportInv, PluginThrows, TypeOK
  <2>4. CASE Loaded(r)
    BY <2>4 DEF ReportInv, Loaded, TypeOK
  <2>5. CASE Probe(r)
    BY <2>5 DEF ReportInv, Probe, Produce, TypeOK
  <2>6. CASE Probed(r)
    BY <2>6 DEF ReportInv, Probed, TypeOK
  <2>7. CASE StartupFails(r)
    BY <2>7 DEF ReportInv, StartupFails, Resume, RunStage, ExportAndCleanup,
        Retain, Produce, Missing, TypeOK
  <2>8. CASE StageContinue(r)
    BY <2>8 DEF ReportInv, StageContinue, Resume, RunStage, ExportAndCleanup,
        Retain, Produce, Missing, TypeOK
  <2>9. CASE ExportOk(r)
    BY <2>9 DEF ReportInv, ExportOk, Exported, Unload, TypeOK
  <2>10. CASE ExportFails(r)
    BY <2>10 DEF ReportInv, ExportFails, Retain, TypeOK
  <2>11. CASE Disposed(r)
    BY <2>11 DEF ReportInv, Disposed, StartVerify, TypeOK
  <2>12. CASE DisposeDeadline(r)
    BY <2>12 DEF ReportInv, DisposeDeadline, StartVerify, TypeOK
  <2>13. CASE Report(r)
    BY <2>13, ZenonT(60) DEF ReportInv, Report, Reported, ReleaseIf, ReleaseOwner,
        FinalErrors, FinalStatus, TypeOK
  <2> QED BY <1>2, <1>1, <2>1, <2>2, <2>3, <2>4, <2>5, <2>6, <2>7, <2>8,
      <2>9, <2>10, <2>11, <2>12, <2>13 DEF Coroutine, Deadline, Observe,
      Observation
<1>3. ASSUME NEW r \in Run, Caller(r) PROVE ReportInv'
  <2>1. ASSUME NEW id \in RunId, Start(r, id)
       PROVE  ReportInv'
    BY <2>1 DEF ReportInv, Start, TakeId, TypeOK
  <2>2. ASSUME NEW id \in RunId, StartOwned(r, id)
       PROVE  ReportInv'
    BY <2>2 DEF ReportInv, StartOwned, TypeOK
  <2>3. CASE BeginMeasurement(r)
    BY <2>3 DEF ReportInv, BeginMeasurement, TypeOK
  <2>4. CASE RetryExport(r)
    BY <2>4 DEF ReportInv, RetryExport, Resume, RunStage, ExportAndCleanup,
        Retain, Produce, Missing, TypeOK
  <2>5. ASSUME NEW h \in BOOLEAN, Finish(r, h)
       PROVE  ReportInv'
    BY <2>5 DEF ReportInv, Finish, Resume, RunStage, ExportAndCleanup,
        Retain, Produce, Missing, TypeOK
  <2> QED BY <1>3, <1>1, <2>1, <2>2, <2>3, <2>4, <2>5 DEF Caller
<1>4. ASSUME NEW r \in Run, Provider(r) PROVE ReportInv'
  <2>1. ASSUME NEW o \in {"refs", "empty", "error"}, Settle(r, o)
       PROVE  ReportInv'
    BY <2>1 DEF ReportInv, Settle, TypeOK, ProducerInv, Awaiting
  <2>2. ASSUME NEW x \in Resource, RefuseCleanup(r, x)
       PROVE  ReportInv'
    BY <2>2 DEF ReportInv, RefuseCleanup, TypeOK, AdmittedInv, ProducerInv,
        Awaiting
  <2> QED BY <1>4, <1>1, <2>1, <2>2 DEF Provider, BindResources, FiberMoves,
      FiberActive, FiberFails, FiberDisposed, LogError, Track, TrackLate,
      Vanish, Cleanup, StartCleanup, CleanupSettles
<1>5. CASE HostDispose
  BY <1>1, <1>5 DEF HostDispose
<1> QED BY <1>1, <1>2, <1>3, <1>4, <1>5 DEF Next, vars

\* The invariant holds before the first call of start.
LEMMA InitialStates == Init => IInv
<1> SUFFICES ASSUME Init PROVE IInv
  OBVIOUS
<1>1. TypeOK
  <2>1. hooked \in [Run -> BOOLEAN] /\ exporter \in [Run -> BOOLEAN]
    BY DEF Init
  <2>2. bound \in [Run -> 0..NBindings] /\ nextStage \in [Run -> 0..3]
    BY NBindingsAssumption DEF Init
  <2>3. hostDisposed \in BOOLEAN
    BY DEF Init
  <2> QED BY <2>1, <2>2, <2>3
          DEF Init, TypeOK, Locations, Awaiting, Phases, Stages, Export,
              Statuses, Outcomes, FiberStates
<1>2. ProducerInv /\ StageInv /\ AdmittedInv
  BY DEF Init, ProducerInv, StageInv, AdmittedInv
<1>3. HolderInv /\ ResourceInv /\ ReportInv
  BY DEF Init, HolderInv, ResourceInv, ReportInv
<1> QED BY <1>1, <1>2, <1>3 DEF IInv

\* Every step keeps the invariant.
LEMMA InvariantStep == IInv /\ [Next]_vars => IInv'
BY TypeStep, ProducerStep, StageStep, AdmittedStep, HolderStep, ResourceStep,
   ReportStep DEF IInv

\* The inductive invariant holds in every reachable state of the host.
THEOREM Invariance == Spec => []IInv
BY InitialStates, InvariantStep, PTL DEF Spec

\* Every variable keeps its type (host/src/plugins/run-owner/index.ts).
THEOREM TypeCorrect == Spec => []TypeOK
<1>1. IInv => TypeOK
  BY DEF IInv
<1> QED BY <1>1, Invariance, PTL

\* Destructive cleanup comes last: after the evidence export, after every
\* completion stage, and with no callback of the run at work.
THEOREM CleanupComesLast == Spec => []CleanupIsLast
<1>1. IInv => CleanupIsLast
  <2> SUFFICES ASSUME IInv, NEW r \in Run, attempted[r] # {}
               PROVE  /\ Export \in passed[r]
                      /\ Stages \subseteq passed[r] \cup errors[r]
                      /\ producer[r] = "none"
    BY DEF CleanupIsLast
  <2>1. pc[r] \in {"disposing", "verifying", "done"} /\ Export \in passed[r]
    BY DEF IInv, AdmittedInv
  <2>2. producer[r] = "none"
    BY <2>1 DEF IInv, ProducerInv, Awaiting
  <2>3. nextStage[r] = 3 /\ pc[r] # "stage"
    BY <2>1 DEF IInv, StageInv
  <2>4. \A k \in 1..3 : StageName[k] \in passed[r] \cup errors[r]
    BY <2>3 DEF IInv, StageInv
  <2> QED BY <2>1, <2>2, <2>4, StageNames
<1> QED BY <1>1, Invariance, PTL

\* `active` and the runs that hold an ID always agree, without sharing.
THEOREM ReservationsAgree == Spec => []ReservationsMatch
<1>1. IInv => ReservationsMatch
  BY DEF IInv, TypeOK, HolderInv, ReservationsMatch
<1> QED BY <1>1, Invariance, PTL

\* A completed run gives its ID back only when nothing of it is left.
THEOREM ReleaseIsClean == Spec => []ReleasedRunIsClean
<1>1. IInv => ReleasedRunIsClean
  BY DEF IInv, ResourceInv, ReleasedRunIsClean
<1> QED BY <1>1, Invariance, PTL

\* 'passed' is only reported for a run that is complete, clean and released.
THEOREM PassedRunIsComplete == Spec => []PassedIsComplete
<1>1. IInv => PassedIsComplete
  <2> SUFFICES ASSUME IInv, NEW r \in Run, status[r] = "passed"
               PROVE  /\ {"preloading", "ready", "measuring", Export,
                          "disposing", "verifying-cleanup"} \cup Stages
                           \subseteq passed[r]
                      /\ errors[r] = {}
                      /\ probed[r] # {}
                      /\ probed[r] \subseteq released[r] \cap attempted[r]
                      /\ r \notin holds
    BY DEF PassedIsComplete
  <2>1. /\ pc[r] = "done" /\ errors[r] = {} /\ r \notin holds
        /\ "verifying-cleanup" \in passed[r]
    BY DEF IInv, ReportInv
  <2>2. {"preloading", "ready", "measuring", "disposing"} \subseteq passed[r]
    BY <2>1 DEF IInv, ReportInv
  <2>3. Export \in passed[r]
    BY <2>1 DEF IInv, AdmittedInv
  <2>4. \A k \in 1..3 : StageName[k] \in passed[r]
    BY <2>1 DEF IInv, StageInv
  <2>5. probed[r] # {} /\ probed[r] \subseteq released[r] \cap attempted[r]
    BY <2>1 DEF IInv, ResourceInv
  <2> QED BY <2>1, <2>2, <2>3, <2>4, <2>5, StageNames
<1> QED BY <1>1, Invariance, PTL

\* No step starts a callback while another one of the run is unsettled.
LEMMA ProducerKept ==
  ASSUME IInv, [Next]_vars
  PROVE  KeepsProducer
<1>1. CASE UNCHANGED <<producer>>
  BY <1>1 DEF KeepsProducer
<1>2. ASSUME NEW r \in Run, Coroutine(r) PROVE KeepsProducer
  <2>1. CASE Probe(r)
    BY <2>1 DEF KeepsProducer, Probe, Produce, TypeOK, IInv, ProducerInv,
        Awaiting
  <2>2. CASE StartupFails(r)
    BY <2>2 DEF KeepsProducer, StartupFails, Resume, RunStage,
        ExportAndCleanup, Retain, Produce, Missing, TypeOK, IInv,
        ProducerInv, Awaiting
  <2>3. CASE StageContinue(r)
    BY <2>3 DEF KeepsProducer, StageContinue, Resume, RunStage,
        ExportAndCleanup, Retain, Produce, Missing, TypeOK, IInv,
        ProducerInv, Awaiting
  <2> QED BY <1>2, <1>1, <2>1, <2>2, <2>3 DEF Coroutine, AdmitOk, AdmitFails,
      PluginThrows, Loaded, Probed, Deadline, ExportOk, Exported, Unload,
      ExportFails, Retain, Disposed, StartVerify, DisposeDeadline, Report,
      Reported, ReleaseIf, ReleaseOwner, FinalErrors, FinalStatus, Observe,
      Observation
<1>3. ASSUME NEW r \in Run, Caller(r) PROVE KeepsProducer
  <2>1. CASE RetryExport(r)
    BY <2>1 DEF KeepsProducer, RetryExport, Resume, RunStage,
        ExportAndCleanup, Retain, Produce, Missing, TypeOK, IInv,
        ProducerInv, Awaiting
  <2>2. ASSUME NEW h \in BOOLEAN, Finish(r, h)
       PROVE  KeepsProducer
    BY <2>2 DEF KeepsProducer, Finish, Resume, RunStage, ExportAndCleanup,
        Retain, Produce, Missing, TypeOK, IInv, ProducerInv, Awaiting
  <2> QED BY <1>3, <1>1, <2>1, <2>2 DEF Caller, Start, TakeId, StartOwned,
      BeginMeasurement
<1>4. ASSUME NEW r \in Run, Provider(r) PROVE KeepsProducer
  <2>1. ASSUME NEW o \in {"refs", "empty", "error"}, Settle(r, o)
       PROVE  KeepsProducer
    BY <2>1 DEF KeepsProducer, Settle, TypeOK, IInv, ProducerInv, Awaiting
  <2> QED BY <1>4, <1>1, <2>1 DEF Provider, BindResources, FiberMoves,
      FiberActive, FiberFails, FiberDisposed, LogError, Track, TrackLate,
      Vanish, RefuseCleanup, Cleanup, StartCleanup, CleanupSettles
<1>5. CASE HostDispose
  BY <1>1, <1>5 DEF HostDispose
<1> QED BY <1>1, <1>2, <1>3, <1>4, <1>5 DEF Next, vars

\* A step that calls the callback of a stage calls it for the first time and
\* in order.
LEMMA StageOrderKept ==
  ASSUME IInv, [Next]_vars
  PROVE  StartsStageInOrder
<1>1. CASE UNCHANGED <<producer>>
  BY <1>1 DEF StartsStageInOrder
<1>2. ASSUME NEW r \in Run, Coroutine(r) PROVE StartsStageInOrder
  <2>1. CASE Probe(r)
    BY <2>1, StageNames DEF StartsStageInOrder, Probe, Produce, TypeOK, IInv,
        StageInv, Export
  <2>2. CASE StartupFails(r)
    BY <2>2, StageNames DEF StartsStageInOrder, StartupFails, Resume,
        RunStage, ExportAndCleanup, Retain, Produce, Missing, TypeOK, IInv,
        StageInv, Export
  <2>3. CASE StageContinue(r)
    BY <2>3, StageNames DEF StartsStageInOrder, StageContinue, Resume,
        RunStage, ExportAndCleanup, Retain, Produce, Missing, TypeOK, IInv,
        StageInv, Export
  <2> QED BY <1>2, <1>1, <2>1, <2>2, <2>3 DEF Coroutine, AdmitOk, AdmitFails,
      PluginThrows, Loaded, Probed, Deadline, ExportOk, Exported, Unload,
      ExportFails, Retain, Disposed, StartVerify, DisposeDeadline, Report,
      Reported, ReleaseIf, ReleaseOwner, FinalErrors, FinalStatus, Observe,
      Observation
<1>3. ASSUME NEW r \in Run, Caller(r) PROVE StartsStageInOrder
  <2>1. CASE RetryExport(r)
    BY <2>1, StageNames DEF StartsStageInOrder, RetryExport, Resume,
        RunStage, ExportAndCleanup, Retain, Produce, Missing, TypeOK, IInv,
        StageInv, Export
  <2>2. ASSUME NEW h \in BOOLEAN, Finish(r, h)
       PROVE  StartsStageInOrder
    BY <2>2, StageNames DEF StartsStageInOrder, Finish, Resume, RunStage,
        ExportAndCleanup, Retain, Produce, Missing, TypeOK, IInv, StageInv,
        Export
  <2> QED BY <1>3, <1>1, <2>1, <2>2 DEF Caller, Start, TakeId, StartOwned,
      BeginMeasurement
<1>4. ASSUME NEW r \in Run, Provider(r) PROVE StartsStageInOrder
  <2>1. ASSUME NEW o \in {"refs", "empty", "error"}, Settle(r, o)
       PROVE  StartsStageInOrder
    BY <2>1, StageNames DEF StartsStageInOrder, Settle, TypeOK, IInv,
        StageInv, Export
  <2> QED BY <1>4, <1>1, <2>1 DEF Provider, BindResources, FiberMoves,
      FiberActive, FiberFails, FiberDisposed, LogError, Track, TrackLate,
      Vanish, RefuseCleanup, Cleanup, StartCleanup, CleanupSettles
<1>5. CASE HostDispose
  BY <1>1, <1>5 DEF HostDispose
<1> QED BY <1>1, <1>2, <1>3, <1>4, <1>5 DEF Next, vars

\* produce and resume: callbacks never overlap, and no completion stage is
\* replayed or runs before its predecessors.
THEOREM StagesNeverReplayed == Spec => StagesRunOnceInOrder
<1>1. IInv /\ [Next]_vars => [KeepsProducer /\ StartsStageInOrder]_vars
  BY ProducerKept, StageOrderKept
<1> QED BY <1>1, Invariance, PTL DEF Spec, StagesRunOnceInOrder

\* No step changes what a completed run has reported.
LEMMA ReportKept ==
  ASSUME IInv, [Next]_vars
  PROVE  KeepsReport
<1>1. CASE UNCHANGED <<pc, phase, errors, passed, status>>
  BY <1>1 DEF KeepsReport
<1>2. ASSUME NEW r \in Run, Coroutine(r) PROVE KeepsReport
  <2>1. CASE AdmitOk(r)
    BY <2>1 DEF KeepsReport, AdmitOk, TypeOK, IInv, AdmittedInv, ProducerInv,
        Awaiting
  <2>2. CASE AdmitFails(r)
    BY <2>2 DEF KeepsReport, AdmitFails, TypeOK, IInv, AdmittedInv,
        ProducerInv, Awaiting
  <2>3. CASE PluginThrows(r)
    BY <2>3 DEF KeepsReport, PluginThrows, TypeOK, IInv, AdmittedInv,
        ProducerInv, Awaiting
  <2>4. CASE Loaded(r)
    BY <2>4 DEF KeepsReport, Loaded, TypeOK, IInv, AdmittedInv, ProducerInv,
        Awaiting
  <2>5. CASE Probe(r)
    BY <2>5 DEF KeepsReport, Probe, Produce, TypeOK, IInv, AdmittedInv,
        ProducerInv, Awaiting
  <2>6. CASE Probed(r)
    BY <2>6 DEF KeepsReport, Probed, TypeOK, IInv, AdmittedInv, ProducerInv,
        Awaiting
  <2>7. CASE StartupFails(r)
    BY <2>7 DEF KeepsReport, StartupFails, Resume, RunStage,
        ExportAndCleanup, Retain, Produce, Missing, TypeOK, IInv,
        AdmittedInv, ProducerInv, Awaiting
  <2>8. CASE StageContinue(r)
    BY <2>8 DEF KeepsReport, StageContinue, Resume, RunStage,
        ExportAndCleanup, Retain, Produce, Missing, TypeOK, IInv,
        AdmittedInv, ProducerInv, Awaiting
  <2>9. CASE ExportOk(r)
    BY <2>9 DEF KeepsReport, ExportOk, Exported, Unload, TypeOK, IInv,
        AdmittedInv, ProducerInv, Awaiting
  <2>10. CASE ExportFails(r)
    BY <2>10 DEF KeepsReport, ExportFails, Retain, TypeOK, IInv, AdmittedInv,
        ProducerInv, Awaiting
  <2>11. CASE Disposed(r)
    BY <2>11 DEF KeepsReport, Disposed, StartVerify, TypeOK, IInv,
        AdmittedInv, ProducerInv, Awaiting
  <2>12. CASE DisposeDeadline(r)
    BY <2>12 DEF KeepsReport, DisposeDeadline, StartVerify, TypeOK, IInv,
        AdmittedInv, ProducerInv, Awaiting
  <2>13. CASE Report(r)
    BY <2>13 DEF KeepsReport, Report, Reported, ReleaseIf, ReleaseOwner,
        FinalErrors, FinalStatus, TypeOK, IInv, AdmittedInv, ProducerInv,
        Awaiting
  <2> QED BY <1>2, <1>1, <2>1, <2>2, <2>3, <2>4, <2>5, <2>6, <2>7, <2>8,
      <2>9, <2>10, <2>11, <2>12, <2>13 DEF Coroutine, Deadline, Observe,
      Observation
<1>3. ASSUME NEW r \in Run, Caller(r) PROVE KeepsReport
  <2>1. ASSUME NEW id \in RunId, Start(r, id)
       PROVE  KeepsReport
    BY <2>1 DEF KeepsReport, Start, TakeId, TypeOK, IInv, AdmittedInv,
        ProducerInv, Awaiting
  <2>2. ASSUME NEW id \in RunId, StartOwned(r, id)
       PROVE  KeepsReport
    BY <2>2 DEF KeepsReport, StartOwned, TypeOK, IInv, AdmittedInv,
        ProducerInv, Awaiting
  <2>3. CASE BeginMeasurement(r)
    BY <2>3 DEF KeepsReport, BeginMeasurement, TypeOK, IInv, AdmittedInv,
        ProducerInv, Awaiting
  <2>4. CASE RetryExport(r)
    BY <2>4 DEF KeepsReport, RetryExport, Resume, RunStage, ExportAndCleanup,
        Retain, Produce, Missing, TypeOK, IInv, AdmittedInv, ProducerInv,
        Awaiting
  <2>5. ASSUME NEW h \in BOOLEAN, Finish(r, h)
       PROVE  KeepsReport
    BY <2>5 DEF KeepsReport, Finish, Resume, RunStage, ExportAndCleanup,
        Retain, Produce, Missing, TypeOK, IInv, AdmittedInv, ProducerInv,
        Awaiting
  <2> QED BY <1>3, <1>1, <2>1, <2>2, <2>3, <2>4, <2>5 DEF Caller
<1>4. ASSUME NEW r \in Run, Provider(r) PROVE KeepsReport
  <2>1. ASSUME NEW o \in {"refs", "empty", "error"}, Settle(r, o)
       PROVE  KeepsReport
    BY <2>1 DEF KeepsReport, Settle, TypeOK, IInv, AdmittedInv, ProducerInv,
        Awaiting
  <2>2. ASSUME NEW x \in Resource, RefuseCleanup(r, x)
       PROVE  KeepsReport
    BY <2>2 DEF KeepsReport, RefuseCleanup, TypeOK, IInv, AdmittedInv,
        ProducerInv, Awaiting
  <2> QED BY <1>4, <1>1, <2>1, <2>2 DEF Provider, BindResources, FiberMoves,
      FiberActive, FiberFails, FiberDisposed, LogError, Track, TrackLate,
      Vanish, Cleanup, StartCleanup, CleanupSettles
<1>5. CASE HostDispose
  BY <1>1, <1>5 DEF HostDispose
<1> QED BY <1>1, <1>2, <1>3, <1>4, <1>5 DEF Next, vars

\* The report of a completed run is final.
THEOREM ReportIsFinal == Spec => CompletionIsFinal
<1>1. IInv /\ [Next]_vars => [KeepsReport]_vars
  BY ReportKept
<1> QED BY <1>1, Invariance, PTL DEF Spec, CompletionIsFinal

-----------------------------------------------------------------------------
(***************************************************************************)
(* RunOwner implements RunCustody.                                         *)
(***************************************************************************)
CustodyStepOrStutter == [Custody!CustodyNext]_(Custody!custodyVars)

\* The mapped variables depend on six variables only.
LEMMA MappedFrame ==
  ASSUME UNCHANGED <<rid, holds, pc, attempted, cleanupAdmitted, producer>>
  PROVE  CustodyStepOrStutter
<1>1. UNCHANGED OwnsBar
  BY DEF OwnsBar
<1>2. UNCHANGED StageBar
  BY DEF StageBar
<1>3. UNCHANGED BusyBar
  BY DEF BusyBar
<1> QED BY <1>1, <1>2, <1>3 DEF CustodyStepOrStutter, Custody!custodyVars

\* A run that was admitted moves on, and may call a callback on the way.
LEMMA MappedWork ==
  ASSUME TypeOK, NEW r \in Run, NEW l \in Locations, NEW p,
         pc[r] \notin {"idle", "refused", "admitting"},
         l \notin {"idle", "refused", "admitting"},
         pc' = [pc EXCEPT ![r] = l],
         UNCHANGED <<rid, holds, attempted, cleanupAdmitted>>,
         \/ producer' = producer
         \/ /\ producer' = [producer EXCEPT ![r] = p]
            /\ producer[r] = "none" /\ p # "none"
            /\ r \notin cleanupAdmitted /\ attempted[r] = {}
  PROVE  CustodyStepOrStutter
<1>1. UNCHANGED OwnsBar
  BY DEF OwnsBar
<1>2. UNCHANGED StageBar
  BY DEF StageBar, TypeOK
<1>3. CASE producer' = producer
  <2>1. UNCHANGED BusyBar
    BY <1>3 DEF BusyBar
  <2> QED BY <1>1, <1>2, <2>1 DEF CustodyStepOrStutter, Custody!custodyVars
<1>4. CASE producer' # producer
  <2>1. r \notin BusyBar /\ BusyBar' = BusyBar \cup {r}
    BY <1>4 DEF BusyBar, TypeOK
  <2>2. StageBar[r] = "working"
    BY <1>4 DEF StageBar
  <2>3. Custody!Work(r)
    BY <1>1, <1>2, <2>1, <2>2 DEF Custody!Work
  <2> QED BY <2>3 DEF CustodyStepOrStutter, Custody!CustodyNext
<1> QED BY <1>3, <1>4

\* resume leaves a run waiting at most for one new callback.
LEMMA MappedResume ==
  ASSUME TypeOK, NEW r \in Run, NEW h \in BOOLEAN, NEW e \in BOOLEAN, NEW errs,
         Resume(r, h, e, errs),
         pc[r] \notin {"idle", "refused", "admitting"},
         r \notin cleanupAdmitted, attempted[r] = {},
         UNCHANGED <<rid, holds, attempted, cleanupAdmitted>>
  PROVE  CustodyStepOrStutter
<1>1. CASE Retain(r, errs)
  BY <1>1, MappedWork DEF Retain, Locations
<1>2. CASE /\ producer[r] = "none" /\ nextStage[r] < 3
           /\ RunStage(r, nextStage[r] + 1, errs)
  <2>1. nextStage[r] + 1 \in 1..3
    BY <1>2 DEF TypeOK
  <2>2. StageName[nextStage[r] + 1] # "none"
    BY <2>1, StageNames DEF Stages
  <2> QED BY <1>2, <2>2, MappedWork DEF RunStage, Produce, Locations, Awaiting
<1>3. CASE /\ producer[r] = "none"
           /\ ExportAndCleanup(r, e, errs \cup Missing(r, h))
  <2>1. CASE Produce(r, Export, "exporting")
    BY <1>3, <2>1, MappedWork DEF Produce, Locations, Awaiting, Export
  <2>2. CASE Retain(r, errs \cup Missing(r, h) \cup {Export})
    BY <2>2, MappedWork DEF Retain, Locations
  <2> QED BY <1>3, <2>1, <2>2 DEF ExportAndCleanup
<1> QED BY <1>1, <1>2, <1>3 DEF Resume

LEMMA CustodyCoroutine ==
  ASSUME IInv, IInv', NEW r \in Run, Coroutine(r)
  PROVE  CustodyStepOrStutter
<1> USE DEF CustodyStepOrStutter
<1>0. TypeOK /\ TypeOK'
  BY DEF IInv
<1>1. CASE AdmitOk(r)
  <2>1. UNCHANGED OwnsBar /\ UNCHANGED BusyBar
    BY <1>1 DEF AdmitOk, OwnsBar, BusyBar
  <2>2. /\ r \notin cleanupAdmitted /\ attempted[r] = {}
        /\ UNCHANGED <<attempted, cleanupAdmitted>>
        /\ pc[r] = "admitting" /\ pc' = [pc EXCEPT ![r] = "loading"]
    BY <1>1 DEF AdmitOk, IInv, AdmittedInv
  <2>3. StageBar[r] = "reserved" /\ StageBar' = [StageBar EXCEPT ![r] = "working"]
    <3>1. StageBar[r] = "reserved" /\ StageBar'[r] = "working"
      BY <1>0, <2>2 DEF StageBar, TypeOK
    <3>2. \A s \in Run : s # r => StageBar'[s] = StageBar[s]
      BY <1>0, <2>2 DEF StageBar, TypeOK
    <3>3. StageBar = [s \in Run |-> StageBar[s]] /\ StageBar' = [s \in Run |-> StageBar'[s]]
      BY DEF StageBar
    <3> QED BY <3>1, <3>2, <3>3
  <2>4. Custody!Admit(r)
    BY <2>1, <2>3 DEF Custody!Admit, Custody!Becomes
  <2> QED BY <2>4 DEF Custody!CustodyNext
<1>2. CASE AdmitFails(r)
  <2>1. r \in holds /\ rid[r] \in RunId
    BY <1>2 DEF AdmitFails, IInv, HolderInv
  <2>2. OwnsBar' = OwnsBar \ {<<rid[r], r>>}
    BY <1>2, <2>1 DEF AdmitFails, OwnsBar
  <2>3. UNCHANGED BusyBar
    BY <1>2 DEF AdmitFails, BusyBar
  <2>4. StageBar[r] = "reserved" /\ StageBar' = [StageBar EXCEPT ![r] = "refused"]
    BY <1>0, <1>2 DEF AdmitFails, StageBar, TypeOK
  <2>5. Custody!GiveUp(r, rid[r])
    BY <2>2, <2>3, <2>4 DEF Custody!GiveUp, Custody!Becomes
  <2> QED BY <2>1, <2>5 DEF Custody!CustodyNext
<1>3. CASE PluginThrows(r)
  <2>1. UNCHANGED OwnsBar /\ UNCHANGED BusyBar
    BY <1>3 DEF PluginThrows, OwnsBar, BusyBar
  <2>2. StageBar[r] = "reserved" /\ StageBar' = [StageBar EXCEPT ![r] = "refused"]
    BY <1>0, <1>3 DEF PluginThrows, StageBar, TypeOK
  <2>3. Custody!Abandon(r)
    BY <2>1, <2>2 DEF Custody!Abandon, Custody!Becomes
  <2> QED BY <2>3 DEF Custody!CustodyNext
<1>4. CASE Loaded(r)
  BY <1>0, <1>4, MappedWork DEF Loaded, Locations
<1>5. CASE Probe(r)
  <2>1. r \notin cleanupAdmitted /\ attempted[r] = {} /\ producer[r] = "none"
    BY <1>5 DEF Probe, IInv, AdmittedInv, ProducerInv, Awaiting
  <2> QED BY <1>0, <1>5, <2>1, MappedWork DEF Probe, Produce, Locations,
      Awaiting
<1>6. CASE Probed(r)
  BY <1>0, <1>6, MappedWork DEF Probed, Locations
<1>7. CASE StartupFails(r)
  <2>1. r \notin cleanupAdmitted /\ attempted[r] = {}
    BY <1>7 DEF StartupFails, IInv, AdmittedInv
  <2> QED BY <1>0, <1>7, <2>1, MappedResume DEF StartupFails
<1>8. CASE StageContinue(r)
  <2>1. r \notin cleanupAdmitted /\ attempted[r] = {}
    BY <1>8 DEF StageContinue, IInv, AdmittedInv
  <2>2. hooked[r] \in BOOLEAN /\ exporter[r] \in BOOLEAN
    BY <1>0 DEF TypeOK
  <2> QED BY <1>0, <1>8, <2>1, <2>2, MappedResume DEF StageContinue
<1>9. CASE ExportOk(r)
  <2>1. /\ r \notin cleanupAdmitted /\ attempted[r] = {} /\ producer[r] = "none"
        /\ attempted' = attempted /\ cleanupAdmitted' = cleanupAdmitted \cup {r}
        /\ pc[r] = "exporting" /\ pc' = [pc EXCEPT ![r] = "disposing"]
    BY <1>9 DEF ExportOk, Exported, IInv, AdmittedInv, ProducerInv
  <2>2. UNCHANGED OwnsBar /\ UNCHANGED BusyBar /\ r \notin BusyBar
    BY <1>9, <2>1 DEF ExportOk, Exported, OwnsBar, BusyBar
  <2>3. StageBar[r] = "working" /\ StageBar' = [StageBar EXCEPT ![r] = "exported"]
    BY <1>0, <2>1 DEF StageBar, TypeOK
  <2>4. Custody!ExportEvidence(r)
    BY <2>2, <2>3 DEF Custody!ExportEvidence, Custody!Becomes
  <2> QED BY <2>4 DEF Custody!CustodyNext
<1>10. CASE ExportFails(r)
  BY <1>0, <1>10, MappedWork DEF ExportFails, Retain, Locations
<1>11. CASE Disposed(r) \/ DisposeDeadline(r)
  BY <1>0, <1>11, MappedWork DEF Disposed, DisposeDeadline, StartVerify,
      Locations
<1>12. CASE Report(r)
  <2>1. UNCHANGED StageBar /\ UNCHANGED BusyBar
    BY <1>0, <1>12 DEF Report, Reported, StageBar, BusyBar, TypeOK
  <2>2. CASE UNCHANGED <<active, holds>>
    <3>1. UNCHANGED OwnsBar
      BY <1>12, <2>2 DEF Report, Reported, OwnsBar
    <3> QED BY <2>1, <3>1 DEF Custody!custodyVars
  <2>3. CASE /\ "disposing" \in passed[r] /\ probed[r] # {}
             /\ confirmed[r] = probed[r] /\ ReleaseOwner(r)
    <3>1. r \in holds /\ rid[r] \in RunId
      BY <1>12 DEF Report, Reported, IInv, HolderInv
    <3>2. <<rid[r], r>> \in OwnsBar /\ OwnsBar' = OwnsBar \ {<<rid[r], r>>}
      BY <1>12, <2>3, <3>1 DEF Report, Reported, ReleaseOwner, OwnsBar
    <3>3. StageBar[r] = "destroyed"
      BY <1>12, <2>3 DEF Report, Reported, StageBar, IInv, ResourceInv
    <3>4. Custody!Release(r, rid[r])
      BY <2>1, <3>2, <3>3 DEF Custody!Release
    <3> QED BY <3>1, <3>4 DEF Custody!CustodyNext
  <2> QED BY <1>12, <2>2, <2>3 DEF Report, ReleaseIf
<1> QED BY <1>1, <1>2, <1>3, <1>4, <1>5, <1>6, <1>7, <1>8, <1>9, <1>10, <1>11,
           <1>12, MappedFrame DEF Coroutine, Deadline, Observe, Observation

LEMMA CustodyCaller ==
  ASSUME IInv, IInv', NEW r \in Run, Caller(r)
  PROVE  CustodyStepOrStutter
<1> USE DEF CustodyStepOrStutter
<1>0. TypeOK /\ TypeOK'
  BY DEF IInv
<1>1. ASSUME NEW id \in RunId, Start(r, id) PROVE CustodyStepOrStutter
  <2>1. \A s \in Run : <<id, s>> \notin OwnsBar
    BY <1>1 DEF Start, TakeId, IInv, HolderInv, OwnsBar
  <2>2. OwnsBar' = OwnsBar \cup {<<id, r>>}
    <3>1. r \notin holds
      BY <1>1 DEF Start, TakeId, IInv, HolderInv
    <3> QED BY <1>0, <1>1, <3>1 DEF Start, TakeId, OwnsBar, TypeOK
  <2>3. UNCHANGED BusyBar
    BY <1>1 DEF Start, TakeId, BusyBar
  <2>4. StageBar[r] = "new" /\ StageBar' = [StageBar EXCEPT ![r] = "reserved"]
    BY <1>0, <1>1 DEF Start, TakeId, StageBar, TypeOK
  <2>5. Custody!Reserve(r, id)
    BY <2>1, <2>2, <2>3, <2>4 DEF Custody!Reserve, Custody!Becomes
  <2> QED BY <2>5 DEF Custody!CustodyNext
<1>2. ASSUME NEW id \in RunId, StartOwned(r, id) PROVE CustodyStepOrStutter
  <2>1. r \notin holds
    BY <1>2 DEF StartOwned, IInv, HolderInv
  <2>2. UNCHANGED OwnsBar
    BY <1>0, <1>2, <2>1 DEF StartOwned, OwnsBar, TypeOK
  <2>3. UNCHANGED BusyBar
    BY <1>2 DEF StartOwned, BusyBar
  <2>4. StageBar[r] = "new" /\ StageBar' = [StageBar EXCEPT ![r] = "refused"]
    BY <1>0, <1>2 DEF StartOwned, StageBar, TypeOK
  <2>5. Custody!Reject(r)
    BY <2>2, <2>3, <2>4 DEF Custody!Reject, Custody!Becomes
  <2> QED BY <2>5 DEF Custody!CustodyNext
<1>3. CASE RetryExport(r)
  <2>1. r \notin cleanupAdmitted /\ attempted[r] = {}
    BY <1>3 DEF RetryExport, IInv, AdmittedInv
  <2>2. hooked[r] \in BOOLEAN
    BY <1>0 DEF TypeOK
  <2> QED BY <1>0, <1>3, <2>1, <2>2, MappedResume DEF RetryExport
<1>4. ASSUME NEW h \in BOOLEAN, Finish(r, h) PROVE CustodyStepOrStutter
  <2>1. r \notin cleanupAdmitted /\ attempted[r] = {}
    BY <1>4 DEF Finish, IInv, AdmittedInv
  <2> QED BY <1>0, <1>4, <2>1, MappedResume DEF Finish
<1> QED BY <1>1, <1>2, <1>3, <1>4, MappedFrame DEF Caller, BeginMeasurement

LEMMA CustodyProvider ==
  ASSUME IInv, IInv', NEW r \in Run, Provider(r)
  PROVE  CustodyStepOrStutter
<1> USE DEF CustodyStepOrStutter
<1>0. TypeOK /\ TypeOK'
  BY DEF IInv
<1>1. ASSUME NEW o \in {"refs", "empty", "error"}, Settle(r, o)
      PROVE  CustodyStepOrStutter
  <2>1. UNCHANGED OwnsBar /\ UNCHANGED StageBar
    BY <1>1 DEF Settle, OwnsBar, StageBar
  <2>2. r \in BusyBar /\ BusyBar' = BusyBar \ {r}
    BY <1>0, <1>1 DEF Settle, BusyBar, TypeOK
  <2>3. Custody!StopWork(r)
    BY <2>1, <2>2 DEF Custody!StopWork
  <2> QED BY <2>3 DEF Custody!CustodyNext
<1>2. ASSUME NEW x \in Resource, Cleanup(r, x) PROVE CustodyStepOrStutter
  <2>1. UNCHANGED OwnsBar /\ UNCHANGED BusyBar
    BY <1>2 DEF Cleanup, StartCleanup, OwnsBar, BusyBar
  <2>2. /\ pc[r] \in {"disposing", "verifying", "done"} /\ UNCHANGED pc
        /\ r \in cleanupAdmitted /\ UNCHANGED cleanupAdmitted
        /\ attempted' = [attempted EXCEPT ![r] = @ \cup {x}]
    BY <1>2 DEF Cleanup, StartCleanup, IInv, AdmittedInv
  <2>3. CASE attempted[r] = {}
    <3>1. /\ StageBar[r] = "exported"
          /\ StageBar' = [StageBar EXCEPT ![r] = "destroyed"]
      BY <1>0, <2>2, <2>3 DEF StageBar, TypeOK
    <3>2. Custody!Destroy(r)
      BY <2>1, <3>1 DEF Custody!Destroy, Custody!Becomes
    <3> QED BY <3>2 DEF Custody!CustodyNext
  <2>4. CASE attempted[r] # {}
    <3>1. UNCHANGED StageBar
      BY <1>0, <2>2, <2>4 DEF StageBar, TypeOK
    <3> QED BY <2>1, <3>1 DEF Custody!custodyVars
  <2> QED BY <2>3, <2>4
<1> QED BY <1>1, <1>2, MappedFrame
        DEF Provider, BindResources, FiberActive, FiberFails, FiberDisposed,
            FiberMoves, LogError, Track, TrackLate, Vanish, RefuseCleanup,
            CleanupSettles

\* The host keeps the custody promise: RunOwner implements RunCustody.
THEOREM HostKeepsCustody == Spec => ImplementsCustody
<1>1. Init => Custody!CustodyInit
  BY DEF Init, Custody!CustodyInit, OwnsBar, StageBar, BusyBar
<1>2. ASSUME IInv, IInv', [Next]_vars PROVE CustodyStepOrStutter
  <2>1. CASE HostDispose
    BY <2>1, MappedFrame DEF HostDispose
  <2>2. CASE UNCHANGED vars
    BY <2>2, MappedFrame DEF vars
  <2> QED BY <1>2, <2>1, <2>2, CustodyCoroutine, CustodyCaller,
      CustodyProvider
          DEF Next
<1>3. IInv /\ IInv' /\ [Next]_vars => [Custody!CustodyNext]_(Custody!custodyVars)
  BY <1>2 DEF CustodyStepOrStutter
<1> QED BY <1>1, <1>3, Invariance, PTL
        DEF Spec, ImplementsCustody, Custody!CustodySpec

=============================================================================
