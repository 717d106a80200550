------------------------------ MODULE Custody -------------------------------
(***************************************************************************)
(* Custody of uploaded logs in the external-test API (api/src/domain.ts):  *)
(* createJob, registerLog, closeJob and closeBatch of one batch, on the    *)
(* tables of api/sql/001-external-tests.sql, with uploads.ts and           *)
(* retention.ts as closeJob uses them.                                     *)
(*                                                                         *)
(* A database transaction is one step: each one takes its row lock first   *)
(* and PostgreSQL serialises the rest.  closeJob is a sequence of such     *)
(* transactions, S3 requests and worker runs between which other calls,    *)
(* lost connections and crashes interleave.  A call that answers with an   *)
(* error has no effect; only where closeJob stops because of one it shows. *)
(***************************************************************************)
EXTENDS Naturals, FiniteSets

CONSTANTS
  Job,         \* jobs that can be created in the batch
  Upload,      \* IDs of uploads, ordered as ORDER BY id orders them
  Closer,      \* concurrent calls of closeJob; a client retries one of them
  Status,      \* close claims: status and error message
  MaxUploads,  \* Domain.maximumUploads
  MaxVersions, \* bound: object versions per upload
  MaxFaults,   \* bound: lost sessions, crashes and refused operations
  None

ASSUME UploadAssumption == Upload \subseteq Nat /\ IsFiniteSet(Upload)
ASSUME BoundAssumption ==
  /\ MaxUploads \in Nat \ {0}
  /\ MaxVersions \in Nat \ {0}
  /\ MaxFaults \in Nat
ASSUME NoneAssumption ==
  None \notin Job \cup Upload \cup Closer \cup Status \cup Nat

VARIABLES
  \* api.batches, api.jobs, api.uploads, api.upload_proofs
  batchClosed, jobs, claim, closed,
  uploadJob, version, retained, proof,
  \* external: the versioned S3 bucket and the presigned URLs still valid
  objects, presigned,
  \* external: session advisory locks of PostgreSQL
  lock,
  \* a closeJob call: where it is, its job, the uploads left, the upload in
  \* work, the version it works with, and whether its session still lives
  pc, job, todo, cur, seen, alive,
  faults

jobVars    == <<batchClosed, jobs, claim, closed>>
uploadVars == <<uploadJob, version, retained, proof>>
s3Vars     == <<objects, presigned>>
callVars   == <<pc, job, todo, cur, seen, alive>>
vars == <<jobVars, uploadVars, s3Vars, lock, callVars, faults>>

\* Locations of a closeJob call; the ones in Session hold a lock session.
Session == {"read", "head", "bind", "retain", "checkpoint", "release"}
Locations == Session \cup {"idle", "next"}

TypeOK ==
  /\ batchClosed \in BOOLEAN
  /\ jobs \in SUBSET Job
  /\ claim \in [Job -> Status \cup {None}]
  /\ closed \in SUBSET Job
  /\ uploadJob \in [Upload -> Job \cup {None}]
  /\ version \in [Upload -> 1..MaxVersions \cup {None}]
  /\ retained \in SUBSET Upload
  /\ proof \in [Upload -> 1..MaxVersions \cup {None}]
  /\ objects \in [Upload -> 0..MaxVersions]
  /\ presigned \in SUBSET Upload
  /\ lock \in [Upload -> Closer \cup {None}]
  /\ pc \in [Closer -> Locations]
  /\ job \in [Closer -> Job \cup {None}]
  /\ todo \in [Closer -> SUBSET Upload]
  /\ cur \in [Closer -> Upload \cup {None}]
  /\ seen \in [Closer -> 1..MaxVersions \cup {None}]
  /\ alive \in [Closer -> BOOLEAN]
  /\ faults \in 0..MaxFaults

Init ==
  /\ batchClosed = FALSE
  /\ jobs = {} /\ closed = {}
  /\ claim = [j \in Job |-> None]
  /\ uploadJob = [u \in Upload |-> None]
  /\ version = [u \in Upload |-> None]
  /\ retained = {}
  /\ proof = [u \in Upload |-> None]
  /\ objects = [u \in Upload |-> 0]
  /\ presigned = {}
  /\ lock = [u \in Upload |-> None]
  /\ pc = [c \in Closer |-> "idle"]
  /\ job = [c \in Closer |-> None]
  /\ todo = [c \in Closer |-> {}]
  /\ cur = [c \in Closer |-> None]
  /\ seen = [c \in Closer |-> None]
  /\ alive = [c \in Closer |-> TRUE]
  /\ faults = 0

UploadsOf(j) == {u \in Upload : uploadJob[u] = j}
-----------------------------------------------------------------------------
(***************************************************************************)
(* createJob, registerLog and closeBatch, one transaction each.            *)
(***************************************************************************)

InsertJob(j) ==
  /\ j \notin jobs
  /\ jobs' = jobs \cup {j}
  /\ UNCHANGED <<batchClosed, claim, closed, uploadVars, s3Vars, lock,
                 callVars, faults>>

\* Under the lock of the batch row.
CreateJob(j) == ~batchClosed /\ InsertJob(j)

InsertLog(j, u) ==
  /\ j \in jobs /\ uploadJob[u] = None
  /\ Cardinality(UploadsOf(j)) < MaxUploads
  /\ uploadJob' = [uploadJob EXCEPT ![u] = j]
  /\ presigned' = presigned \cup {u}
  /\ UNCHANGED <<jobVars, version, retained, proof, objects, lock, callVars,
                 faults>>

\* A new name, under the lock of the job row: refused once a close claim is
\* on the job or the job has its maximum of uploads.
RegisterLog(j, u) == claim[j] = None /\ InsertLog(j, u)

\* The same name and identity again: another URL, unless the job has a close
\* claim and is closed or the upload is bound or retained.
RenewLog(u) ==
  /\ uploadJob[u] # None /\ u \notin presigned
  /\ \/ claim[uploadJob[u]] = None
     \/ /\ uploadJob[u] \notin closed /\ version[u] = None /\ u \notin retained
  /\ presigned' = presigned \cup {u}
  /\ UNCHANGED <<jobVars, uploadVars, objects, lock, callVars, faults>>

\* Under the lock of the batch row.
CloseBatch ==
  /\ ~batchClosed /\ jobs \subseteq closed
  /\ batchClosed' = TRUE
  /\ UNCHANGED <<jobs, claim, closed, uploadVars, s3Vars, lock, callVars,
                 faults>>

\* External: the client PUTs the registered bytes; each PUT is a new version.
PutObject(u) ==
  /\ u \in presigned /\ objects[u] < MaxVersions
  /\ objects' = [objects EXCEPT ![u] = @ + 1]
  /\ UNCHANGED <<jobVars, uploadVars, presigned, lock, callVars, faults>>

\* External: a presigned URL is valid for 120 seconds.
UrlExpires(u) ==
  /\ u \in presigned
  /\ presigned' = presigned \ {u}
  /\ UNCHANGED <<jobVars, uploadVars, objects, lock, callVars, faults>>
-----------------------------------------------------------------------------
(***************************************************************************)
(* closeJob.                                                               *)
(***************************************************************************)

\* Moves the call c to location l and keeps the rest of its state.
Goto(c, l) ==
  /\ pc' = [pc EXCEPT ![c] = l]
  /\ UNCHANGED <<job, todo, cur, seen, alive>>

\* The call ends, with an answer or an error; the locals are gone.
Return(c) ==
  /\ pc' = [pc EXCEPT ![c] = "idle"]
  /\ job' = [job EXCEPT ![c] = None]
  /\ todo' = [todo EXCEPT ![c] = {}]
  /\ cur' = [cur EXCEPT ![c] = None]
  /\ seen' = [seen EXCEPT ![c] = None]
  /\ alive' = [alive EXCEPT ![c] = TRUE]

ClaimAs(c, j, s) ==
  /\ pc[c] = "idle" /\ j \in jobs
  /\ claim' = [claim EXCEPT ![j] = s]
  /\ pc' = [pc EXCEPT ![c] = "next"]
  /\ job' = [job EXCEPT ![c] = j]
  /\ todo' = [todo EXCEPT ![c] = IF j \in closed THEN {} ELSE UploadsOf(j)]
  /\ UNCHANGED <<batchClosed, jobs, closed, uploadVars, s3Vars, lock, cur,
                 seen, alive, faults>>

\* Under the lock of the job row: record the claim, or repeat the same one,
\* and list the uploads.
Claim(c, j, s) == claim[j] \in {None, s} /\ ClaimAs(c, j, s)

AnswerBusy(c, u) ==
  /\ lock[u] # None
  /\ Return(c)
  /\ UNCHANGED lock

EnterCustody(c, u) ==
  /\ lock' = [lock EXCEPT ![u] = c]
  /\ pc' = [pc EXCEPT ![c] = "read"]
  /\ cur' = [cur EXCEPT ![c] = u]
  /\ UNCHANGED <<job, todo, seen, alive>>

NextUpload(c, u) ==
  /\ pc[c] = "next" /\ u \in todo[c] /\ \A v \in todo[c] : u <= v
  /\ UNCHANGED <<jobVars, uploadVars, s3Vars, faults>>

TryLockUnchecked(c, u) == NextUpload(c, u) /\ EnterCustody(c, u)

\* The next upload by ID: a session tries its advisory lock, and answers
\* 'custody is active; retry the same close' when another one holds it.
TryLock(c, u) ==
  /\ NextUpload(c, u)
  /\ AnswerBusy(c, u) \/ (lock[u] = None /\ EnterCustody(c, u))

ReadForgettingBound(c) ==
  /\ pc[c] = "read" /\ alive[c]
  /\ Goto(c, IF cur[c] \in retained THEN "release" ELSE "head")
  /\ UNCHANGED <<jobVars, uploadVars, s3Vars, lock, faults>>

\* The row of the upload: retained uploads are skipped, bound ones keep
\* their version.
Read(c) ==
  /\ pc[c] = "read" /\ alive[c]
  /\ \/ cur[c] \in retained /\ Goto(c, "release")
     \/ cur[c] \notin retained /\ version[cur[c]] = None /\ Goto(c, "head")
     \/ /\ cur[c] \notin retained /\ version[cur[c]] # None
        /\ pc' = [pc EXCEPT ![c] = "retain"]
        /\ seen' = [seen EXCEPT ![c] = version[cur[c]]]
        /\ UNCHANGED <<job, todo, cur, alive>>
  /\ UNCHANGED <<jobVars, uploadVars, s3Vars, lock, faults>>

HeadUnchecked(c) ==
  /\ pc[c] = "head"
  /\ seen' = [seen EXCEPT ![c] = objects[cur[c]]]
  /\ pc' = [pc EXCEPT ![c] = "bind"]
  /\ UNCHANGED <<jobVars, uploadVars, s3Vars, lock, job, todo, cur, alive,
                 faults>>

\* UploadStorage.version: HEAD names the latest version; every version has
\* the registered checksum because the signed headers require it.
Head(c) == pc[c] = "head" /\ objects[cur[c]] # 0 /\ HeadUnchecked(c)

\* The session is lost after a commit and before its answer.
LoseAnswer(c) ==
  /\ faults < MaxFaults /\ faults' = faults + 1
  /\ Return(c)
  /\ lock' = [lock EXCEPT ![cur[c]] = None]

\* UPDATE ... SET version_id WHERE version_id IS NULL
Bind(c) ==
  /\ pc[c] = "bind" /\ alive[c] /\ version[cur[c]] = None
  /\ version' = [version EXCEPT ![cur[c]] = seen[c]]
  /\ \/ Goto(c, "retain") /\ UNCHANGED <<lock, faults>>
     \/ LoseAnswer(c)
  /\ UNCHANGED <<jobVars, uploadJob, retained, proof, s3Vars>>

\* Retention.retain: download that version, sign, verify, make a receipt.
Retain(c) ==
  /\ pc[c] = "retain"
  /\ Goto(c, "checkpoint")
  /\ UNCHANGED <<jobVars, uploadVars, s3Vars, lock, faults>>

\* The proofs and retained_at, if the row is still the one that was read.
Checkpoint(c) ==
  /\ pc[c] = "checkpoint" /\ alive[c]
  /\ version[cur[c]] = seen[c] /\ cur[c] \notin retained
  /\ proof' = [proof EXCEPT ![cur[c]] = seen[c]]
  /\ retained' = retained \cup {cur[c]}
  /\ \/ Goto(c, "release") /\ UNCHANGED <<lock, faults>>
     \/ LoseAnswer(c)
  /\ UNCHANGED <<jobVars, uploadJob, version, s3Vars>>

\* `finally`: the advisory lock is released and the loop goes on.
Release(c) ==
  /\ pc[c] = "release"
  /\ lock' = [lock EXCEPT ![cur[c]] = IF lock[cur[c]] = c THEN None ELSE @]
  /\ pc' = [pc EXCEPT ![c] = "next"]
  /\ todo' = [todo EXCEPT ![c] = @ \ {cur[c]}]
  /\ cur' = [cur EXCEPT ![c] = None]
  /\ seen' = [seen EXCEPT ![c] = None]
  /\ alive' = [alive EXCEPT ![c] = TRUE]
  /\ UNCHANGED <<jobVars, uploadVars, s3Vars, job, faults>>

\* Why a step inside the custody of an upload answers with an error: the
\* session is lost, the object is not there, or the row has changed (409).
Blocked(c) ==
  \/ pc[c] \in {"read", "bind", "checkpoint"} /\ ~alive[c]
  \/ pc[c] = "head" /\ objects[cur[c]] = 0
  \/ pc[c] = "bind" /\ version[cur[c]] # None
  \/ pc[c] = "checkpoint" /\ (version[cur[c]] # seen[c] \/ cur[c] \in retained)

Refused(c) ==
  /\ Blocked(c)
  /\ lock' = [lock EXCEPT ![cur[c]] = IF @ = c THEN None ELSE @]
  /\ Return(c)
  /\ UNCHANGED <<jobVars, uploadVars, s3Vars, faults>>

\* The worker or S3 refuses, the operation is aborted or the server crashes.
Fault(c) ==
  /\ pc[c] # "idle" /\ faults < MaxFaults
  /\ faults' = faults + 1
  /\ lock' = [u \in Upload |-> IF lock[u] = c THEN None ELSE lock[u]]
  /\ Return(c)
  /\ UNCHANGED <<jobVars, uploadVars, s3Vars>>

\* The database connection is lost, and with it the advisory lock, while
\* the call goes on.
LoseSession(c) ==
  /\ pc[c] \in Session /\ alive[c] /\ faults < MaxFaults
  /\ faults' = faults + 1
  /\ alive' = [alive EXCEPT ![c] = FALSE]
  /\ lock' = [lock EXCEPT ![cur[c]] = None]
  /\ UNCHANGED <<jobVars, uploadVars, s3Vars, pc, job, todo, cur, seen>>

\* Under the lock of the job row: closed if every upload is retained, and
\* otherwise 'custody remains incomplete; retry the same close'.
CloseJob(c) ==
  /\ pc[c] = "next" /\ todo[c] = {}
  /\ closed' = IF UploadsOf(job[c]) \subseteq retained
               THEN closed \cup {job[c]} ELSE closed
  /\ Return(c)
  /\ UNCHANGED <<batchClosed, jobs, claim, uploadVars, s3Vars, lock, faults>>
-----------------------------------------------------------------------------
\* The steps of a closeJob call after its claim.
Progress(c) ==
  \/ \E u \in Upload : TryLock(c, u)
  \/ Read(c) \/ Head(c) \/ Bind(c) \/ Retain(c) \/ Checkpoint(c)
  \/ Release(c) \/ Refused(c) \/ CloseJob(c)

Next ==
  \/ CloseBatch
  \/ \E j \in Job : CreateJob(j) \/ \E u \in Upload : RegisterLog(j, u)
  \/ \E u \in Upload : RenewLog(u) \/ PutObject(u) \/ UrlExpires(u)
  \/ \E c \in Closer : \/ \E j \in Job, s \in Status : Claim(c, j, s)
                       \/ Progress(c) \/ Fault(c) \/ LoseSession(c)

Spec == Init /\ [][Next]_vars

\* A claimed close is called again, with the same claim, as the 503 answers
\* ask the client to.
Retry(j) ==
  /\ j \notin closed
  /\ \E c \in Closer : claim[j] # None /\ Claim(c, j, claim[j])

(***************************************************************************)
(* A call that has its turn goes on, and the client of a claimed job does  *)
(* not give up.  Faults are finitely many (MaxFaults).                     *)
(***************************************************************************)
FairSpec ==
  /\ Spec
  /\ \A c \in Closer : WF_vars(Progress(c))
  /\ \A j \in Job : SF_vars(Retry(j))
-----------------------------------------------------------------------------
(***************************************************************************)
(* Properties.                                                             *)
(***************************************************************************)

\* closeJob: a closed job has a claim, and all its uploads are retained with
\* proofs about the very object version bound to them, which exists.
ClosedJobIsRetained ==
  \A j \in closed :
    /\ claim[j] # None
    /\ \A u \in UploadsOf(j) :
         /\ u \in retained /\ proof[u] = version[u]
         /\ version[u] \in 1..objects[u]

\* closeBatch and createJob: no job of a closed batch is or becomes open.
ClosedBatchIsComplete == batchClosed => jobs \subseteq closed

\* Closed means complete: nothing of a closed job or batch was left behind,
\* though uploads are renewed and jobs created while it is being closed.
CustodyIsComplete == ClosedJobIsRetained /\ ClosedBatchIsComplete

\* closeJob: a session that still lives never meets the 409 answers "upload
\* version binding changed" and "upload custody checkpoint changed": the
\* advisory lock keeps every other call away from its upload.
LockProtectsCustody ==
  \A c \in Closer : alive[c] =>
    /\ pc[c] = "bind" => version[cur[c]] = None
    /\ pc[c] = "checkpoint" =>
         version[cur[c]] = seen[c] /\ cur[c] \notin retained

\* closeJob works from a list of uploads read in its first transaction: it
\* still names every upload that is not retained, so a call that reaches its
\* last transaction closes the job.
CloseMissesNoUpload ==
  \A c \in Closer :
    pc[c] # "idle" => UploadsOf(job[c]) \ todo[c] \subseteq retained

\* Claims, bound versions, proofs and closings are permanent (GRANTs and the
\* trigger keep_object_version state it of the database for the version).
KeepsCustody ==
  /\ \A j \in Job : claim[j] # None => claim'[j] = claim[j]
  /\ closed \subseteq closed' /\ (batchClosed => batchClosed')
  /\ \A u \in Upload :
       /\ uploadJob[u] # None => uploadJob'[u] = uploadJob[u]
       /\ version[u] # None => version'[u] = version[u]
       /\ u \in retained => u \in retained' /\ proof'[u] = proof[u]

CustodyIsPermanent == [][KeepsCustody]_vars

\* Retrying a claimed close ends with the job closed, if all its objects
\* were uploaded, whatever sessions are lost and answers are missed.
ClaimedJobCloses ==
  \A j \in Job :
    (claim[j] # None /\ \A u \in UploadsOf(j) : objects[u] # 0) ~> j \in closed
=============================================================================
