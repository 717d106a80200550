-------------------------------- MODULE Adapter --------------------------------
(***************************************************************************)
(* The offline MCP adapter (mcp/src: server, artifacts) on the host's Jobs, *)
(* Documents and Evaluation (host/src/plugins): a call captures the        *)
(* registered artifacts it needs into a scratch directory of its own, has  *)
(* a worker read the copies, and removes the directory.  Calls interleave  *)
(* at their awaits with each other, with close(), with requests that are   *)
(* canceled and with changes of the registered files.                      *)
(*                                                                         *)
(* A file is [stamp, registered]: stamp stands for dev, ino, size and      *)
(* times, of which every change makes a new one, and registered says       *)
(* whether the bytes are those of the catalog.                             *)
(***************************************************************************)
EXTENDS Integers, Sequences, FiniteSets, SequencesExt

CONSTANTS
  Calls,          \* tool calls clients will make
  Artifacts,      \* registered artifact IDs
  Inputs,         \* sequences of the names of artifacts a tool needs
  Size, Limit,    \* bytes of an artifact, and what a call may capture
  Capacity,       \* calls that may be active
  Changes,        \* bound of the model: changes of registered files
  Failures        \* bound of the model: file operations that fail

ASSUME AdapterAssumption ==
  /\ Capacity \in Nat /\ Changes \in Nat /\ Failures \in Nat
  /\ Size \in [Artifacts -> Nat] /\ Limit \in Nat
  /\ IsFiniteSet(Calls)
  /\ \A ids \in Inputs : ids \in Seq(ToSet(ids)) /\ IsInjective(ids)

VARIABLES
  disk,           \* the files under artifactRoot
  failures,
  call,           \* call[c]: one run of call()
  active,
  scratch,        \* calls whose directory exists
  canceled,       \* calls whose request was canceled
  closing,        \* close(): "open", "closed" (called), "aborted" or "settled"
  running,        \* calls whose worker runs, in the order of Jobs.running
  awaited         \* what the disposer of Jobs waits for

adapterVars == <<disk, failures, call, active, scratch, canceled, closing, running, awaited>>

Waiting == "idle"
NewCall == [phase |-> Waiting, ids |-> <<>>, k |-> 0, before |-> 0, copy |-> FALSE,
            captured |-> {}, ok |-> FALSE, started |-> FALSE, doomed |-> FALSE]
Active == {c \in Calls : call[c].phase \notin {Waiting, "answered"}}
Continue(c, next) == call' = [call EXCEPT ![c] = next]

AdapterInit ==
  /\ disk \in [Artifacts -> {[stamp |-> 0, registered |-> b] : b \in BOOLEAN}]
  /\ failures = 0 /\ call = [c \in Calls |-> NewCall] /\ active = 0
  /\ scratch = {} /\ canceled = {} /\ closing = "open" /\ running = {} /\ awaited = {}
-----------------------------------------------------------------------------
(***************************************************************************)
(* call() up to its first await.                                           *)
(***************************************************************************)
\* Whatever is thrown before there is a snapshot goes through finally as well.
RefusedCall(c) == Continue(c, [call[c] EXCEPT !.phase = "answered", !.ok = FALSE])

\* Every name is registered, and together they are within the byte limit.
Capturable(ids) ==
  /\ ToSet(ids) \subseteq Artifacts
  /\ FoldSeq(LAMBDA id, total : total + Size[id], 0, ids) <= Limit

Enter(c) ==
  /\ call[c].phase = Waiting
  /\ \E ids \in Inputs :
       IF closing # "open" \/ active >= Capacity \/ ~Capturable(ids) \/ c \in canceled
       THEN RefusedCall(c) /\ UNCHANGED active
       ELSE /\ Continue(c, [NewCall EXCEPT !.phase = "mkdtemp", !.ids = ids])
            /\ active' = active + 1
  /\ UNCHANGED <<disk, failures, scratch, canceled, closing, running, awaited>>

Failing == failures < Failures /\ failures' = failures + 1

MakeDirectory(c) ==
  /\ call[c].phase = "mkdtemp"
  /\ \/ /\ Continue(c, [call[c] EXCEPT !.phase = "open", !.k = 1])
        /\ scratch' = scratch \cup {c} /\ UNCHANGED <<failures, active>>
     \/ Failing /\ RefusedCall(c) /\ active' = active - 1 /\ UNCHANGED scratch
  /\ UNCHANGED <<disk, canceled, closing, running, awaited>>
-----------------------------------------------------------------------------
(***************************************************************************)
(* snapshot: one file after the other.                                     *)
(***************************************************************************)
Progress(c, next) ==
  /\ Continue(c, next)
  /\ UNCHANGED <<disk, active, scratch, canceled, closing, running, awaited>>

GiveUp(c) == [call[c] EXCEPT !.phase = "drop"]
Source(c) == call[c].ids[call[c].k]

\* From lstat to the first stat of the opened file.
OpenSource(c) ==
  /\ call[c].phase = "open"
  /\ \/ /\ UNCHANGED failures
        /\ Progress(c, IF call[c].k > Len(call[c].ids)
                   THEN [call[c] EXCEPT !.phase = "worker"]
                   ELSE [call[c] EXCEPT !.phase = "read", !.before = disk[Source(c)].stamp])
     \/ Failing /\ Progress(c, GiveUp(c))

ReadSource(c) ==
  /\ call[c].phase = "read" /\ UNCHANGED failures
  /\ Progress(c, IF c \in canceled THEN GiveUp(c)
             ELSE [call[c] EXCEPT !.phase = "check", !.copy = disk[Source(c)].registered])

SameFile(c) == disk[Source(c)].stamp = call[c].before

\* The file is the one that was opened, and the copy has the registered digest.
Intact(c) == SameFile(c) /\ call[c].copy

CheckCopy(c) ==
  /\ call[c].phase = "check" /\ UNCHANGED failures
  /\ Progress(c, IF ~Intact(c) THEN GiveUp(c)
             ELSE [call[c] EXCEPT !.phase = "open", !.k = @ + 1,
                     !.captured = IF call[c].copy THEN @ \cup {Source(c)} ELSE @])

Answer(c, answer) ==
  /\ Continue(c, [answer EXCEPT !.phase = "answered", !.k = 0, !.before = 0, !.copy = FALSE])
  /\ active' = active - 1

\* Answered without looking at the directory again.
LeaveDirectory(c) ==
  /\ call[c].phase = "drop" /\ Answer(c, [call[c] EXCEPT !.ok = FALSE])
  /\ UNCHANGED <<scratch, failures>>

\* Removal after a failed capture; when it fails too, its error is answered.
RemoveDirectory(c) ==
  /\ call[c].phase = "drop" /\ Answer(c, [call[c] EXCEPT !.ok = FALSE])
  /\ \/ scratch' = scratch \ {c} /\ UNCHANGED failures
     \/ Failing /\ UNCHANGED scratch

Abandon(c) == RemoveDirectory(c) /\ UNCHANGED <<disk, canceled, closing, running, awaited>>
-----------------------------------------------------------------------------
(***************************************************************************)
(* The worker.  The service was taken when the call began; what its Jobs   *)
(* does once disposed is external: it throws, or runs a worker under a     *)
(* signal that is aborted already.                                         *)
(***************************************************************************)
\* Only the signal of the request.
RequestAborted(c) == c \in canceled

\* The signal of the request or the controller of Jobs.
Aborted(c) == c \in canceled \/ closing \in {"aborted", "settled"}

Disposed == closing \in {"aborted", "settled"}

StartWorker(c) ==
  /\ call[c].phase = "worker"
  /\ \/ /\ running' = running \cup {c}
        /\ Continue(c, [call[c] EXCEPT !.phase = "await", !.started = ~(c \in canceled \/ Disposed),
                                       !.doomed = Aborted(c)])
     \/ /\ Disposed /\ UNCHANGED running
        /\ Continue(c, [call[c] EXCEPT !.phase = "close"])
  /\ UNCHANGED <<disk, failures, active, scratch, canceled, closing, awaited>>

\* A worker that began under an aborted signal has failed; one that is aborted
\* later fails unless it has ended by then.
WorkerResults(c) == IF call[c].doomed THEN {FALSE} ELSE BOOLEAN

EndWorker(c) ==
  /\ call[c].phase = "await"
  /\ \E ok \in WorkerResults(c) : Continue(c, [call[c] EXCEPT !.phase = "close", !.ok = ok])
  /\ running' = running \ {c} /\ awaited' = awaited \ {c}
  /\ UNCHANGED <<disk, failures, active, scratch, canceled, closing>>

CloseSnapshot(c) ==
  /\ call[c].phase = "close"
  /\ \/ Answer(c, call[c]) /\ scratch' = scratch \ {c} /\ UNCHANGED failures
     \/ Failing /\ Answer(c, [call[c] EXCEPT !.ok = FALSE]) /\ UNCHANGED scratch
  /\ UNCHANGED <<disk, canceled, closing, running, awaited>>
-----------------------------------------------------------------------------
(***************************************************************************)
(* Others.                                                                 *)
(***************************************************************************)
CloseAdapter ==
  /\ closing = "open" /\ closing' = "closed"
  /\ UNCHANGED <<disk, failures, call, active, scratch, canceled, running, awaited>>

\* The disposer of Jobs: the controller, then those who run at this time.
AbortJobs ==
  /\ closing = "closed" /\ closing' = "aborted" /\ awaited' = running
  /\ UNCHANGED <<disk, failures, call, active, scratch, canceled, running>>

Settled == closing = "aborted" /\ awaited = {} /\ closing' = "settled"

Settle ==
  /\ Settled
  /\ UNCHANGED <<disk, failures, call, active, scratch, canceled, running, awaited>>

\* The client cancels a request (external).
CancelRequest(c) ==
  /\ c \notin canceled /\ canceled' = canceled \cup {c}
  /\ UNCHANGED <<disk, failures, call, active, scratch, closing, running, awaited>>

\* A registered file is written or replaced (external).
ChangeFile ==
  /\ \E a \in Artifacts, b \in BOOLEAN :
       /\ disk[a].stamp < Changes
       /\ disk' = [disk EXCEPT ![a] = [stamp |-> @.stamp + 1, registered |-> b]]
  /\ UNCHANGED <<failures, call, active, scratch, canceled, closing, running, awaited>>

AdapterNext ==
  \/ \E c \in Calls : \/ Enter(c) \/ MakeDirectory(c) \/ OpenSource(c) \/ ReadSource(c) \/ CheckCopy(c)
                      \/ Abandon(c) \/ StartWorker(c) \/ EndWorker(c) \/ CloseSnapshot(c)
                      \/ CancelRequest(c)
  \/ CloseAdapter \/ AbortJobs \/ Settle \/ ChangeFile

AdapterSpec == AdapterInit /\ [][AdapterNext]_adapterVars
-----------------------------------------------------------------------------
(***************************************************************************)
(* Properties.                                                             *)
(***************************************************************************)
\* An ok answer comes from a worker that began before its request was canceled
\* and before the adapter's jobs were disposed, over the registered bytes of
\* every artifact the tool needs, whatever happened to the files meanwhile; and
\* its copies are gone (artifacts.mjs 64-92, server.mjs 112-131, jobs 35-51).
OkIsRegistered ==
  \A c \in Calls : call[c].phase = "answered" /\ call[c].ok =>
    /\ call[c].started /\ c \notin scratch
    /\ call[c].captured = ToSet(call[c].ids)

\* Directories and workers belong to one of at most Capacity active calls, and
\* what outlives its call because the removal failed is answered as an error.
\* Once close() has settled, a worker that runs began after the abort: no
\* disposer waits for it, but it cannot succeed (server.mjs 88-90, 127-130,
\* 147-152; jobs 31, 37 and 51).
NothingIsLeftBehind ==
  /\ Cardinality(Active) = active /\ active <= Capacity
  /\ running \subseteq Active
  /\ \A c \in scratch \ Active : ~call[c].ok
  /\ failures = 0 => scratch \subseteq Active
  /\ closing = "settled" => \A c \in running : ~call[c].started
=============================================================================
