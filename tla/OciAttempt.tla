----------------------------- MODULE OciAttempt -----------------------------
(***************************************************************************)
(* One attempt of the isolated evaluator: run_oci_evaluator, _execute and  *)
(* _Attempt of packages/harness/.../_oci_executor.py, which drive a local  *)
(* container through Podman commands and keep a journal of the attempt.    *)
(*                                                                         *)
(* Each command may miss its deadline, exit with an error or have its      *)
(* journal entry refused by the disk, before or after it had its effect;   *)
(* the harness process may be interrupted or killed anywhere.  A command   *)
(* whose harness was killed goes on by itself; one whose harness gave up   *)
(* on it was killed (_stop_tool) and acts no more.  The journal entries of *)
(* single commands and the digests are left out of the record.             *)
(***************************************************************************)
VARIABLES
  pc,        \* where run_oci_evaluator is
  record,    \* _Attempt.record
  journal,   \* journal.json: the record last saved
  cid,       \* _Attempt.cid is set
  retained,  \* response.bin is written
  \* external: Podman
  podman,    \* the command at work, "done" when it has had its effect
  cidfile,   \* container.cid
  container, \* the container with this attempt's label
  exit       \* how the evaluator in it ended

podmanVars == <<cidfile, container, exit>>
vars == <<pc, record, journal, cid, retained, podman, podmanVars>>

Main == {"preflight", "create", "inspect", "start", "wait", "rm", "check"}
Recovery == {"raised", "identify", "stop", "report"}
Ended == {"returned", "failed", "interrupted", "crashed"}

\* Phases in which run_oci_evaluator recovers: a container may exist.
Owned == {"creating", "created", "running", "settled"}
Phases == Owned \cup {"preflight", "removed", "unknown"}

\* cleanup: cleanup_error, or the container state seen after the stop.
Records == [phase : Phases, cid : BOOLEAN, response : BOOLEAN,
            cleanup : {"none", "error", "created", "exited"},
            journalError : BOOLEAN]

TypeOK ==
  /\ pc \in Main \cup Recovery \cup Ended
  /\ record \in Records /\ journal \in Records
  /\ cid \in BOOLEAN /\ retained \in BOOLEAN
  /\ podman \in {"none", "create", "cid", "start", "stop", "rm", "done"}
  /\ cidfile \in {"absent", "empty", "written"}
  /\ container \in {"none", "created", "running", "exited", "removed"}
  /\ exit \in {"none", "ok", "bad"}

Init ==
  /\ pc = "preflight"
  /\ record = [phase |-> "preflight", cid |-> FALSE, response |-> FALSE,
               cleanup |-> "none", journalError |-> FALSE]
  /\ journal = record
  /\ cid = FALSE /\ retained = FALSE
  /\ podman = "none" /\ cidfile = "absent"
  /\ container = "none" /\ exit = "none"

(***************************************************************************)
(* The journal.                                                            *)
(***************************************************************************)

\* The record becomes r and is saved before the attempt goes on to l; a save
\* that fails raises and leaves the journal as it was.
Checkpoint(r, l) ==
  /\ record' = r
  /\ \/ journal' = r /\ pc' = l
     \/ UNCHANGED journal /\ pc' = "raised"

\* `observe` while recovering: a save that fails is noted and goes on.
Observe(r, l) ==
  /\ pc' = l
  /\ \/ record' = r /\ journal' = r
     \/ record' = [r EXCEPT !.journalError = TRUE] /\ UNCHANGED journal

\* `command`: its start is in the journal before Podman is run.
Issue(l, op) ==
  /\ pc = l /\ podman = "none"
  /\ podman' = op
  /\ IF pc \in Main THEN journal' = record /\ UNCHANGED <<pc, record>>
                    ELSE Observe(record, l)
  /\ UNCHANGED <<cid, retained, container, exit>>
-----------------------------------------------------------------------------
(***************************************************************************)
(* run_oci_evaluator and _execute.                                         *)
(***************************************************************************)

PreflightUnannounced ==
  /\ pc = "preflight"
  /\ Checkpoint(record, "create")
  /\ UNCHANGED <<cid, retained, podman, podmanVars>>

\* The signature, Podman's facts and the image are as pinned.
Preflight ==
  /\ pc = "preflight"
  /\ Checkpoint([record EXCEPT !.phase = "creating"], "create")
  /\ UNCHANGED <<cid, retained, podman, podmanVars>>

Create == Issue("create", "create") /\ cidfile' = "empty"

\* The acknowledged container ID is the one in container.cid.
CreateReturns ==
  /\ pc = "create" /\ podman = "done" /\ cidfile = "written"
  /\ cid' = TRUE /\ podman' = "none"
  /\ Checkpoint([record EXCEPT !.phase = "created", !.cid = TRUE], "inspect")
  /\ UNCHANGED <<retained, podmanVars>>

\* `_created`, `_isolation`: the container that Podman describes is as
\* requested, isolated as required, and has not been started.
Created == container = "created"

InspectCreated ==
  /\ pc = "inspect" /\ Created
  /\ Checkpoint([record EXCEPT !.phase = "running"], "start")
  /\ UNCHANGED <<cid, retained, podman, podmanVars>>

Start == Issue("start", "start") /\ UNCHANGED cidfile

\* `start --attach` ends with the evaluator, whose output is the response.
Attached ==
  pc = "start" /\ podman = "done" /\ container = "exited" /\ exit = "ok"

StartReturnsUnretained ==
  /\ Attached
  /\ podman' = "none"
  /\ Checkpoint([record EXCEPT !.response = TRUE], "wait")
  /\ UNCHANGED <<cid, retained, podmanVars>>

StartReturns ==
  /\ Attached
  /\ podman' = "none" /\ retained' = TRUE
  /\ Checkpoint([record EXCEPT !.response = TRUE], "wait")
  /\ UNCHANGED <<cid, podmanVars>>

\* `_settled`: it has exited by itself, with exit code zero.
Settled == container = "exited" /\ exit = "ok"

\* `wait`, `_settled` and the deadline of the attempt.
WaitSettled ==
  /\ pc = "wait" /\ Settled
  /\ Checkpoint([record EXCEPT !.phase = "settled"], "rm")
  /\ UNCHANGED <<cid, retained, podman, podmanVars>>

Remove == Issue("rm", "rm") /\ UNCHANGED cidfile

RemoveUnconfirmed ==
  /\ pc = "rm" /\ podman # "none"
  /\ podman' = "none"
  /\ Checkpoint([record EXCEPT !.phase = "removed"], "check")
  /\ UNCHANGED <<cid, retained, podmanVars>>

\* `rm` succeeds and `container exists` says no.
RemoveReturns ==
  /\ pc = "rm" /\ podman = "done" /\ container = "removed"
  /\ podman' = "none"
  /\ Checkpoint([record EXCEPT !.phase = "removed"], "check")
  /\ UNCHANGED <<cid, retained, podmanVars>>

\* The cleanup met its deadline.
Return ==
  /\ pc = "check"
  /\ pc' = "returned"
  /\ UNCHANGED <<record, journal, cid, retained, podman, podmanVars>>

RaiseWhenAnswered ==
  /\ pc \in Main /\ podman \in {"none", "done"}
  /\ podman' = "none"
  /\ pc' = "raised"
  /\ journal' \in {journal, record}
  /\ UNCHANGED <<record, cid, retained, podmanVars>>

\* `_stop_tool`: no command outlives the harness's interest in it.
Stopped == podman' = "none"

\* A command misses its deadline, writes more than it may, exits with an error
\* or answers something else than it must; a save fails; the process is
\* interrupted.
Raise ==
  /\ pc \in Main
  /\ Stopped
  /\ pc' = "raised"
  /\ journal' \in {journal, record}
  /\ UNCHANGED <<record, cid, retained, podmanVars>>
-----------------------------------------------------------------------------
(***************************************************************************)
(* The except clause of run_oci_evaluator, and _Attempt.recover.           *)
(***************************************************************************)

\* No container can exist: the attempt only becomes unknown.
Abandon ==
  /\ pc = "raised" /\ record.phase \notin Owned
  /\ Observe([record EXCEPT !.phase = "unknown"], "failed")
  /\ UNCHANGED <<cid, retained, podman, podmanVars>>

\* The container is found by the ID in memory or in container.cid; an empty
\* file ends the recovery without an error.
RecoverFrom(phases) ==
  /\ pc = "raised" /\ record.phase \in phases
  /\ \/ /\ cid \/ cidfile = "written"
        /\ cid' = TRUE
        /\ Observe([record EXCEPT !.phase = "unknown"], "identify")
     \/ /\ ~cid /\ cidfile = "empty"
        /\ UNCHANGED cid
        /\ Observe([record EXCEPT !.phase = "unknown"], "report")
     \/ /\ ~cid /\ cidfile = "absent"
        /\ UNCHANGED cid
        /\ Observe([record EXCEPT !.phase = "unknown", !.cleanup = "error"],
                   "report")
  /\ UNCHANGED <<retained, podman, podmanVars>>

RecoverUnstarted == RecoverFrom({"creating", "created"}) \/
  /\ pc = "raised" /\ record.phase \in {"running", "settled"}
  /\ Observe([record EXCEPT !.phase = "unknown"], "failed")
  /\ UNCHANGED <<cid, retained, podman, podmanVars>>

Recover == RecoverFrom(Owned)

\* `inspect`: the container has this attempt's label and image.
Identify ==
  /\ pc = "identify" /\ container \in {"created", "running", "exited"}
  /\ Observe([record EXCEPT !.cid = TRUE], "stop")
  /\ UNCHANGED <<cid, retained, podman, podmanVars>>

Stop == Issue("stop", "stop") /\ UNCHANGED cidfile

\* `stop` succeeds and the state of the container is inspected again.
StopReturns ==
  /\ pc = "stop" /\ podman = "done"
  /\ podman' = "none" /\ pc' = "report"
  /\ record' = [record EXCEPT !.cleanup = container]
  /\ journal' \in {journal, record}
  /\ UNCHANGED <<cid, retained, podmanVars>>

\* A command of the recovery fails: cleanup_error.
RecoverFails ==
  /\ pc \in {"identify", "stop"}
  /\ Stopped /\ pc' = "report"
  /\ record' = [record EXCEPT !.cleanup = "error"]
  /\ journal' \in {journal, record}
  /\ UNCHANGED <<cid, retained, podmanVars>>

\* `finally`, and the attempt's error is raised.
Report ==
  /\ pc = "report"
  /\ Observe(record, "failed")
  /\ UNCHANGED <<cid, retained, podman, podmanVars>>

\* KeyboardInterrupt or SystemExit inside the recovery.
Interrupt ==
  /\ pc \in Recovery
  /\ Stopped
  /\ pc' = "interrupted"
  /\ journal' \in {journal, record}
  /\ UNCHANGED <<record, cid, retained, podmanVars>>

\* The harness process is killed.
Crash ==
  /\ pc \notin Ended
  /\ pc' = "crashed"
  /\ UNCHANGED <<record, journal, cid, retained, podman, podmanVars>>
-----------------------------------------------------------------------------
(***************************************************************************)
(* External: Podman and the evaluator.                                     *)
(***************************************************************************)

PodmanActs(from, to) ==
  /\ podman = from /\ podman' = to
  /\ UNCHANGED <<pc, record, journal, cid, retained>>

\* The container exists before its ID is in container.cid.
PodmanCreates ==
  /\ PodmanActs("create", "cid")
  /\ container' = "created"
  /\ UNCHANGED <<cidfile, exit>>

PodmanWritesId ==
  /\ PodmanActs("cid", "done")
  /\ cidfile' = "written"
  /\ UNCHANGED <<container, exit>>

PodmanStarts ==
  /\ PodmanActs("start", "done")
  /\ container = "created" /\ container' = "running"
  /\ UNCHANGED <<cidfile, exit>>

PodmanStops ==
  /\ PodmanActs("stop", "done")
  /\ \/ /\ container = "running"
        /\ container' = "exited" /\ exit' = "bad"
     \/ container # "running" /\ UNCHANGED <<container, exit>>
  /\ UNCHANGED cidfile

\* Without --force only a container that is not running is removed.
PodmanRemoves ==
  /\ PodmanActs("rm", "done")
  /\ container = "exited" /\ container' = "removed"
  /\ UNCHANGED <<cidfile, exit>>

EvaluatorExits ==
  /\ container = "running"
  /\ container' = "exited" /\ exit' \in {"ok", "bad"}
  /\ UNCHANGED <<pc, record, journal, cid, retained, podman, cidfile>>
-----------------------------------------------------------------------------
Harness ==
  \/ Preflight \/ Create \/ CreateReturns \/ InspectCreated \/ Start
  \/ StartReturns \/ WaitSettled \/ Remove \/ RemoveReturns \/ Return \/ Raise
  \/ Abandon \/ Recover \/ Identify \/ Stop \/ StopReturns \/ RecoverFails
  \/ Report

Next ==
  \/ Harness \/ Interrupt \/ Crash
  \/ PodmanCreates \/ PodmanWritesId \/ PodmanStarts \/ PodmanStops
  \/ PodmanRemoves \/ EvaluatorExits

Spec == Init /\ [][Next]_vars

\* Every command has a deadline (_capture_tool), so the harness goes on
\* whatever Podman does; nothing is assumed of Podman.
FairSpec == Spec /\ WF_vars(Harness)
-----------------------------------------------------------------------------
(***************************************************************************)
(* Properties.                                                             *)
(***************************************************************************)

\* run_oci_evaluator: "Return raw stdout only after this local attempt has
\* settled and been removed", with both of it in the journal and the
\* response on disk.
ResponseIsSettled ==
  pc = "returned" =>
    /\ container = "removed" /\ exit = "ok" /\ retained
    /\ journal.phase = "removed" /\ journal.response /\ journal.cid

\* _execute journals each phase before the command that needs it: whenever
\* the harness dies, a container left behind is one the journal admits.
JournalCoversContainer ==
  container \in {"created", "running", "exited"} =>
    journal.phase \notin {"preflight", "removed"}

\* A container that was ever started is one whose full ID is in the journal.
StartedIsTraceable ==
  container \in {"running", "exited", "removed"} => journal.cid

\* recover: an attempt that raised has no running container, or says that
\* its cleanup failed; and what it says is in the journal or the journal's
\* own error is in the exception.
FailureIsReported ==
  pc = "failed" =>
    /\ container = "running" => record.cleanup = "error"
    /\ record.phase = "unknown"
    /\ journal = record \/ record.journalError

\* recover never removes: a container goes only after the evaluator ended
\* well and its response was retained and journaled.
Earned ==
  container' = "removed" /\ container # "removed" =>
    exit = "ok" /\ retained /\ journal.response

RemovalIsEarned == [][Earned]_vars

\* Every attempt ends, whatever Podman and the evaluator do.
AttemptEnds == <>(pc \in Ended)
=============================================================================
