--------------------------- MODULE Custody_proof ----------------------------
(***************************************************************************)
(* Proofs about Custody, for every set of jobs, uploads, concurrent close  *)
(* calls and claims, and every bound.                                      *)
(***************************************************************************)
EXTENDS Custody, TLAPS

USE DEF jobVars, uploadVars, s3Vars, callVars

(***************************************************************************)
(* The inductive invariant.                                                *)
(***************************************************************************)

\* A living session holds the lock of its upload, and nothing else does.
LockInv ==
  /\ \A c \in Closer :
       /\ pc[c] \in Session => cur[c] \in todo[c]
       /\ pc[c] \in Session /\ alive[c] => lock[cur[c]] = c
       /\ pc[c] \notin Session => alive[c]
  /\ \A u \in Upload, c \in Closer :
       lock[u] = c => pc[c] \in Session /\ alive[c] /\ cur[c] = u

\* A call works on uploads of a claimed job and has not lost one of them.
CallInv ==
  \A c \in Closer : pc[c] # "idle" =>
    /\ job[c] \in jobs /\ claim[job[c]] # None
    /\ \A u \in todo[c] : uploadJob[u] = job[c]
    /\ \A u \in Upload : uploadJob[u] = job[c] => u \in todo[c] \cup retained

\* What a call in the custody of an upload knows of its row.
RowInv ==
  \A c \in Closer :
    /\ pc[c] \in {"head", "bind"} /\ alive[c] =>
         version[cur[c]] = None /\ cur[c] \notin retained
    /\ pc[c] = "bind" => seen[c] \in 1..objects[cur[c]]
    /\ pc[c] \in {"retain", "checkpoint"} => seen[c] # None
    /\ pc[c] \in {"retain", "checkpoint"} /\ alive[c] =>
         version[cur[c]] = seen[c] /\ cur[c] \notin retained
    /\ pc[c] = "release" => cur[c] \in retained

\* Bound versions exist, and proofs are about them.
UploadInv ==
  \A u \in Upload :
    /\ version[u] # None => version[u] \in 1..objects[u]
    /\ u \in retained => proof[u] = version[u] /\ version[u] # None
    /\ uploadJob[u] # None => uploadJob[u] \in jobs

\* Claimed and closed jobs exist, and closed ones are settled.
JobInv ==
  /\ \A j \in Job : claim[j] # None => j \in jobs
  /\ \A j \in closed : claim[j] # None /\ UploadsOf(j) \subseteq retained
  /\ batchClosed => jobs \subseteq closed

IInv == TypeOK /\ LockInv /\ CallInv /\ RowInv /\ UploadInv /\ JobInv

\* Where a call ends, its state keeps its type.
LEMMA ReturnType ==
  ASSUME TypeOK, NEW c \in Closer, Return(c)
  PROVE  /\ pc' \in [Closer -> Locations]
         /\ job' \in [Closer -> Job \cup {None}]
         /\ todo' \in [Closer -> SUBSET Upload]
         /\ cur' \in [Closer -> Upload \cup {None}]
         /\ seen' \in [Closer -> 1..MaxVersions \cup {None}]
         /\ alive' \in [Closer -> BOOLEAN]
<1>1. pc' \in [Closer -> Locations] /\ job' \in [Closer -> Job \cup {None}]
  BY DEF TypeOK, Return, Locations
<1>2. todo' \in [Closer -> SUBSET Upload]
  BY DEF TypeOK, Return
<1>3. cur' \in [Closer -> Upload \cup {None}]
  BY DEF TypeOK, Return
<1>4. seen' \in [Closer -> 1..MaxVersions \cup {None}]
  BY DEF TypeOK, Return
<1>5. alive' \in [Closer -> BOOLEAN]
  BY DEF TypeOK, Return
<1> QED BY <1>1, <1>2, <1>3, <1>4, <1>5

\* A step keeps every variable in its type.
LEMMA TypeStep ==
  ASSUME TypeOK, LockInv, CallInv, [Next]_vars
  PROVE  TypeOK'
<1>1. CASE UNCHANGED <<batchClosed, jobs, claim, closed, uploadJob, version,
             retained, proof, objects, presigned, lock, pc, job, todo, cur,
             seen, alive, faults>>
  BY <1>1 DEF TypeOK
<1>2. CASE CloseBatch
  BY <1>2, BoundAssumption, NoneAssumption DEF TypeOK, CloseBatch, Locations,
      Session, LockInv
<1>3. ASSUME NEW j \in Job, CreateJob(j)
      PROVE  TypeOK'
  BY <1>3, BoundAssumption, NoneAssumption DEF TypeOK, CreateJob, InsertJob,
      Locations, Session, LockInv
<1>4. ASSUME NEW j \in Job, NEW u \in Upload, RegisterLog(j, u)
      PROVE  TypeOK'
  BY <1>4, BoundAssumption, NoneAssumption DEF TypeOK, RegisterLog,
      InsertLog, Locations, Session, LockInv
<1>5. ASSUME NEW u \in Upload, RenewLog(u)
      PROVE  TypeOK'
  BY <1>5, BoundAssumption, NoneAssumption DEF TypeOK, RenewLog, Locations,
      Session, LockInv
<1>6. ASSUME NEW u \in Upload, PutObject(u)
      PROVE  TypeOK'
  BY <1>6, BoundAssumption, NoneAssumption DEF TypeOK, PutObject, Locations,
      Session, LockInv
<1>7. ASSUME NEW u \in Upload, UrlExpires(u)
      PROVE  TypeOK'
  BY <1>7, BoundAssumption, NoneAssumption DEF TypeOK, UrlExpires, Locations,
      Session, LockInv
<1>8. ASSUME NEW c \in Closer, NEW j \in Job, NEW s \in Status, Claim(c, j, s)
      PROVE  TypeOK'
  <2>1. claim' \in [Job -> Status \cup {None}]
    BY <1>8 DEF TypeOK, Claim, ClaimAs
  <2>2. pc' \in [Closer -> Locations] /\ job' \in [Closer -> Job \cup {None}]
    BY <1>8 DEF TypeOK, Claim, ClaimAs, Locations
  <2>3. todo' \in [Closer -> SUBSET Upload]
    <3>1. (IF j \in closed THEN {} ELSE UploadsOf(j)) \in SUBSET Upload
      BY DEF UploadsOf
    <3> QED BY <3>1, <1>8 DEF TypeOK, Claim, ClaimAs
  <2> QED BY <1>8, <2>1, <2>2, <2>3 DEF TypeOK, Claim, ClaimAs
<1>9. ASSUME NEW c \in Closer, NEW u \in Upload, TryLock(c, u)
      PROVE  TypeOK'
  <2>1. CASE AnswerBusy(c, u)
    BY <1>9, <2>1, ReturnType DEF TypeOK, TryLock, NextUpload, AnswerBusy
  <2>2. CASE EnterCustody(c, u)
    BY <1>9, <2>2 DEF TypeOK, TryLock, NextUpload, EnterCustody, Locations,
        Session
  <2> QED BY <1>9, <2>1, <2>2 DEF TryLock
<1>10. ASSUME NEW c \in Closer, Read(c)
      PROVE  TypeOK'
  BY <1>10, BoundAssumption, NoneAssumption DEF TypeOK, Read, Goto,
      Locations, Session, LockInv
<1>11. ASSUME NEW c \in Closer, Head(c)
      PROVE  TypeOK'
  BY <1>11, BoundAssumption, NoneAssumption DEF TypeOK, Head, HeadUnchecked,
      Locations, Session, LockInv
<1>12. ASSUME NEW c \in Closer, Bind(c)
      PROVE  TypeOK'
  <2>1. version' \in [Upload -> 1..MaxVersions \cup {None}]
    BY <1>12 DEF TypeOK, Bind
  <2>2. CASE Goto(c, "retain") /\ UNCHANGED <<lock, faults>>
    BY <1>12, <2>1, <2>2 DEF TypeOK, Bind, Goto, Locations, Session
  <2>3. CASE LoseAnswer(c)
    <3>1. lock' \in [Upload -> Closer \cup {None}]
      BY <2>3 DEF TypeOK, LoseAnswer
    <3>2. faults' \in 0..MaxFaults
      BY <2>3, BoundAssumption DEF TypeOK, LoseAnswer
    <3> QED BY <1>12, <2>1, <2>3, <3>1, <3>2, ReturnType DEF TypeOK, Bind,
            LoseAnswer
  <2> QED BY <1>12, <2>2, <2>3 DEF Bind
<1>13. ASSUME NEW c \in Closer, Retain(c)
      PROVE  TypeOK'
  BY <1>13, BoundAssumption, NoneAssumption DEF TypeOK, Retain, Goto,
      Locations, Session, LockInv
<1>14. ASSUME NEW c \in Closer, Checkpoint(c)
      PROVE  TypeOK'
  <2>1. cur[c] \in Upload
    BY <1>14 DEF Checkpoint, LockInv, Session, TypeOK
  <2>2. /\ proof' \in [Upload -> 1..MaxVersions \cup {None}]
        /\ retained' \in SUBSET Upload
    BY <1>14, <2>1 DEF TypeOK, Checkpoint
  <2>3. CASE Goto(c, "release") /\ UNCHANGED <<lock, faults>>
    BY <1>14, <2>2, <2>3 DEF TypeOK, Checkpoint, Goto, Locations, Session
  <2>4. CASE LoseAnswer(c)
    <3>1. lock' \in [Upload -> Closer \cup {None}]
      BY <2>4 DEF TypeOK, LoseAnswer
    <3>2. faults' \in 0..MaxFaults
      BY <2>4, BoundAssumption DEF TypeOK, LoseAnswer
    <3> QED BY <1>14, <2>2, <2>4, <3>1, <3>2, ReturnType DEF TypeOK,
            Checkpoint, LoseAnswer
  <2> QED BY <1>14, <2>3, <2>4 DEF Checkpoint
<1>15. ASSUME NEW c \in Closer, Release(c)
      PROVE  TypeOK'
  BY <1>15, BoundAssumption, NoneAssumption DEF TypeOK, Release, Locations,
      Session, LockInv
<1>16. ASSUME NEW c \in Closer, Refused(c)
      PROVE  TypeOK'
  BY <1>16, BoundAssumption, NoneAssumption DEF TypeOK, Refused, Blocked,
      Return, Locations, Session, LockInv
<1>17. ASSUME NEW c \in Closer, CloseJob(c)
      PROVE  TypeOK'
  <2>1. job[c] \in Job
    BY <1>17 DEF CloseJob, CallInv, TypeOK
  <2>2. closed' \in SUBSET Job
    BY <1>17, <2>1 DEF TypeOK, CloseJob
  <2> QED BY <1>17, <2>2, ReturnType DEF TypeOK, CloseJob
<1>18. ASSUME NEW c \in Closer, Fault(c)
      PROVE  TypeOK'
  BY <1>18, BoundAssumption, NoneAssumption DEF TypeOK, Fault, Return,
      Locations, Session, LockInv
<1>19. ASSUME NEW c \in Closer, LoseSession(c)
      PROVE  TypeOK'
  BY <1>19, BoundAssumption, NoneAssumption DEF TypeOK, LoseSession,
      Locations, Session, LockInv
<1> QED BY <1>1, <1>2, <1>3, <1>4, <1>5, <1>6, <1>7, <1>8, <1>9, <1>10,
        <1>11, <1>12, <1>13, <1>14, <1>15, <1>16, <1>17, <1>18, <1>19 DEF
        Next, Progress, vars

\* A step keeps LockInv.
LEMMA LockStep ==
  ASSUME TypeOK, LockInv, [Next]_vars
  PROVE  LockInv'
<1>1. CASE UNCHANGED <<pc, cur, todo, alive, lock>>
  BY <1>1 DEF LockInv
<1>2. ASSUME NEW c \in Closer, NEW j \in Job, NEW s \in Status, Claim(c, j,
             s)
      PROVE  LockInv'
  BY <1>2, NoneAssumption DEF LockInv, Claim, ClaimAs, TypeOK, Session
<1>3. ASSUME NEW c \in Closer, NEW u \in Upload, TryLock(c, u)
      PROVE  LockInv'
  BY <1>3, NoneAssumption DEF LockInv, TryLock, NextUpload, AnswerBusy,
      EnterCustody, Return, TypeOK, Session
<1>4. ASSUME NEW c \in Closer, Read(c)
      PROVE  LockInv'
  BY <1>4, NoneAssumption DEF LockInv, Read, Goto, TypeOK, Session
<1>5. ASSUME NEW c \in Closer, Head(c)
      PROVE  LockInv'
  BY <1>5, NoneAssumption DEF LockInv, Head, HeadUnchecked, TypeOK, Session
<1>6. ASSUME NEW c \in Closer, Bind(c)
      PROVE  LockInv'
  BY <1>6, NoneAssumption DEF LockInv, Bind, Goto, LoseAnswer, Return,
      TypeOK, Session
<1>7. ASSUME NEW c \in Closer, Retain(c)
      PROVE  LockInv'
  BY <1>7, NoneAssumption DEF LockInv, Retain, Goto, TypeOK, Session
<1>8. ASSUME NEW c \in Closer, Checkpoint(c)
      PROVE  LockInv'
  BY <1>8, NoneAssumption DEF LockInv, Checkpoint, Goto, LoseAnswer, Return,
      TypeOK, Session
<1>9. ASSUME NEW c \in Closer, Release(c)
      PROVE  LockInv'
  BY <1>9, NoneAssumption DEF LockInv, Release, TypeOK, Session
<1>10. ASSUME NEW c \in Closer, Refused(c)
      PROVE  LockInv'
  BY <1>10, NoneAssumption DEF LockInv, Refused, Blocked, Return, TypeOK,
      Session
<1>11. ASSUME NEW c \in Closer, CloseJob(c)
      PROVE  LockInv'
  BY <1>11, NoneAssumption DEF LockInv, CloseJob, Return, TypeOK, Session
<1>12. ASSUME NEW c \in Closer, Fault(c)
      PROVE  LockInv'
  BY <1>12, NoneAssumption DEF LockInv, Fault, Return, TypeOK, Session
<1>13. ASSUME NEW c \in Closer, LoseSession(c)
      PROVE  LockInv'
  BY <1>13, NoneAssumption DEF LockInv, LoseSession, TypeOK, Session
<1> QED BY <1>1, <1>2, <1>3, <1>4, <1>5, <1>6, <1>7, <1>8, <1>9, <1>10,
        <1>11, <1>12, <1>13 DEF Next, Progress, vars, CloseBatch, CreateJob,
        InsertJob, RegisterLog, InsertLog, RenewLog, PutObject, UrlExpires

\* A step keeps CallInv.
LEMMA CallStep ==
  ASSUME TypeOK, LockInv, CallInv, RowInv, JobInv, [Next]_vars
  PROVE  CallInv'
<1>1. CASE UNCHANGED <<pc, job, todo, jobs, claim, uploadJob, retained>>
  BY <1>1 DEF CallInv
<1>2. ASSUME NEW j \in Job, CreateJob(j)
      PROVE  CallInv'
  BY <1>2, NoneAssumption DEF CallInv, CreateJob, InsertJob, TypeOK, Session,
      UploadsOf
<1>3. ASSUME NEW j \in Job, NEW u \in Upload, RegisterLog(j, u)
      PROVE  CallInv'
  BY <1>3, NoneAssumption DEF CallInv, RegisterLog, InsertLog, TypeOK,
      Session, UploadsOf
<1>4. ASSUME NEW c \in Closer, NEW j \in Job, NEW s \in Status, Claim(c, j, s)
      PROVE  CallInv'
  <2> SUFFICES ASSUME NEW d \in Closer, pc'[d] # "idle"
               PROVE  /\ job'[d] \in jobs' /\ claim'[job'[d]] # None
                      /\ \A u \in todo'[d] : uploadJob'[u] = job'[d]
                      /\ \A u \in Upload : uploadJob'[u] = job'[d] =>
                           u \in todo'[d] \cup retained'
    BY DEF CallInv
  <2>1. j \in jobs /\ claim' = [claim EXCEPT ![j] = s]
    BY <1>4 DEF Claim, ClaimAs
  <2>2. UNCHANGED <<jobs, uploadJob, retained>>
    BY <1>4 DEF Claim, ClaimAs
  <2>3. CASE d = c
    <3>1. job'[c] = j
      BY <1>4 DEF Claim, ClaimAs, TypeOK
    <3>2. todo'[c] = IF j \in closed THEN {} ELSE UploadsOf(j)
      BY <1>4 DEF Claim, ClaimAs, TypeOK
    <3> QED BY <2>1, <2>2, <2>3, <3>1, <3>2, NoneAssumption DEF JobInv,
            UploadsOf, TypeOK
  <2>4. CASE d # c
    <3>1. pc'[d] = pc[d] /\ job'[d] = job[d] /\ todo'[d] = todo[d]
      BY <1>4, <2>4 DEF Claim, ClaimAs, TypeOK
    <3> QED BY <2>1, <2>2, <3>1, NoneAssumption DEF CallInv, TypeOK
  <2> QED BY <2>3, <2>4
<1>5. ASSUME NEW c \in Closer, NEW u \in Upload, TryLock(c, u)
      PROVE  CallInv'
  BY <1>5, NoneAssumption DEF CallInv, TryLock, NextUpload, AnswerBusy,
      EnterCustody, Return, TypeOK, Session, UploadsOf
<1>6. ASSUME NEW c \in Closer, Read(c)
      PROVE  CallInv'
  BY <1>6, NoneAssumption DEF CallInv, Read, Goto, TypeOK, Session, UploadsOf
<1>7. ASSUME NEW c \in Closer, Head(c)
      PROVE  CallInv'
  BY <1>7, NoneAssumption DEF CallInv, Head, HeadUnchecked, TypeOK, Session,
      UploadsOf
<1>8. ASSUME NEW c \in Closer, Bind(c)
      PROVE  CallInv'
  BY <1>8, NoneAssumption DEF CallInv, Bind, Goto, LoseAnswer, Return,
      TypeOK, Session, UploadsOf
<1>9. ASSUME NEW c \in Closer, Retain(c)
      PROVE  CallInv'
  BY <1>9, NoneAssumption DEF CallInv, Retain, Goto, TypeOK, Session,
      UploadsOf
<1>10. ASSUME NEW c \in Closer, Checkpoint(c)
      PROVE  CallInv'
  BY <1>10, NoneAssumption DEF CallInv, Checkpoint, Goto, LoseAnswer, Return,
      TypeOK, Session, UploadsOf
<1>11. ASSUME NEW c \in Closer, Release(c)
      PROVE  CallInv'
  BY <1>11, NoneAssumption DEF CallInv, Release, TypeOK, Session, UploadsOf,
      RowInv
<1>12. ASSUME NEW c \in Closer, Refused(c)
      PROVE  CallInv'
  BY <1>12, NoneAssumption DEF CallInv, Refused, Blocked, Return, TypeOK,
      Session, UploadsOf
<1>13. ASSUME NEW c \in Closer, CloseJob(c)
      PROVE  CallInv'
  BY <1>13, NoneAssumption DEF CallInv, CloseJob, Return, TypeOK, Session,
      UploadsOf
<1>14. ASSUME NEW c \in Closer, Fault(c)
      PROVE  CallInv'
  BY <1>14, NoneAssumption DEF CallInv, Fault, Return, TypeOK, Session,
      UploadsOf
<1> QED BY <1>1, <1>2, <1>3, <1>4, <1>5, <1>6, <1>7, <1>8, <1>9, <1>10,
        <1>11, <1>12, <1>13, <1>14 DEF Next, Progress, vars, CloseBatch,
        RenewLog, PutObject, UrlExpires, LoseSession

\* A step keeps RowInv.
LEMMA RowStep ==
  ASSUME TypeOK, LockInv, RowInv, UploadInv, [Next]_vars
  PROVE  RowInv'
<1>1. CASE UNCHANGED <<pc, cur, alive, version, retained, seen, objects>>
  BY <1>1 DEF RowInv
<1>2. ASSUME NEW u \in Upload, PutObject(u)
      PROVE  RowInv'
  BY <1>2, NoneAssumption DEF RowInv, PutObject, TypeOK, Session, LockInv
<1>3. ASSUME NEW c \in Closer, NEW j \in Job, NEW s \in Status, Claim(c, j,
             s)
      PROVE  RowInv'
  BY <1>3, NoneAssumption DEF RowInv, Claim, ClaimAs, TypeOK, Session,
      LockInv
<1>4. ASSUME NEW c \in Closer, NEW u \in Upload, TryLock(c, u)
      PROVE  RowInv'
  BY <1>4, NoneAssumption DEF RowInv, TryLock, NextUpload, AnswerBusy,
      EnterCustody, Return, TypeOK, Session, LockInv
<1>5. ASSUME NEW c \in Closer, Read(c)
      PROVE  RowInv'
  BY <1>5, NoneAssumption DEF RowInv, Read, Goto, TypeOK, Session, LockInv
<1>6. ASSUME NEW c \in Closer, Head(c)
      PROVE  RowInv'
  BY <1>6, NoneAssumption DEF RowInv, Head, HeadUnchecked, TypeOK, Session,
      LockInv
<1>7. ASSUME NEW c \in Closer, Bind(c)
      PROVE  RowInv'
  BY <1>7, NoneAssumption DEF RowInv, Bind, Goto, LoseAnswer, Return, TypeOK,
      Session, LockInv
<1>8. ASSUME NEW c \in Closer, Retain(c)
      PROVE  RowInv'
  BY <1>8, NoneAssumption DEF RowInv, Retain, Goto, TypeOK, Session, LockInv
<1>9. ASSUME NEW c \in Closer, Checkpoint(c)
      PROVE  RowInv'
  BY <1>9, NoneAssumption DEF RowInv, Checkpoint, Goto, LoseAnswer, Return,
      TypeOK, Session, LockInv
<1>10. ASSUME NEW c \in Closer, Release(c)
      PROVE  RowInv'
  BY <1>10, NoneAssumption DEF RowInv, Release, TypeOK, Session, LockInv
<1>11. ASSUME NEW c \in Closer, Refused(c)
      PROVE  RowInv'
  BY <1>11, NoneAssumption DEF RowInv, Refused, Blocked, Return, TypeOK,
      Session, LockInv
<1>12. ASSUME NEW c \in Closer, CloseJob(c)
      PROVE  RowInv'
  BY <1>12, NoneAssumption DEF RowInv, CloseJob, Return, TypeOK, Session,
      LockInv
<1>13. ASSUME NEW c \in Closer, Fault(c)
      PROVE  RowInv'
  BY <1>13, NoneAssumption DEF RowInv, Fault, Return, TypeOK, Session,
      LockInv
<1>14. ASSUME NEW c \in Closer, LoseSession(c)
      PROVE  RowInv'
  BY <1>14, NoneAssumption DEF RowInv, LoseSession, TypeOK, Session, LockInv
<1> QED BY <1>1, <1>2, <1>3, <1>4, <1>5, <1>6, <1>7, <1>8, <1>9, <1>10,
        <1>11, <1>12, <1>13, <1>14 DEF Next, Progress, vars, CloseBatch,
        CreateJob, InsertJob, RegisterLog, InsertLog, RenewLog, UrlExpires

\* A step keeps UploadInv.
LEMMA UploadStep ==
  ASSUME TypeOK, LockInv, RowInv, UploadInv, [Next]_vars
  PROVE  UploadInv'
<1>1. CASE UNCHANGED <<version, objects, retained, proof, uploadJob, jobs>>
  BY <1>1 DEF UploadInv
<1>2. ASSUME NEW j \in Job, CreateJob(j)
      PROVE  UploadInv'
  BY <1>2, NoneAssumption DEF UploadInv, CreateJob, InsertJob, TypeOK,
      LockInv, RowInv, Session
<1>3. ASSUME NEW j \in Job, NEW u \in Upload, RegisterLog(j, u)
      PROVE  UploadInv'
  BY <1>3, NoneAssumption DEF UploadInv, RegisterLog, InsertLog, TypeOK,
      LockInv, RowInv, Session
<1>4. ASSUME NEW u \in Upload, PutObject(u)
      PROVE  UploadInv'
  BY <1>4, NoneAssumption DEF UploadInv, PutObject, TypeOK, LockInv, RowInv,
      Session
<1>5. ASSUME NEW c \in Closer, Bind(c)
      PROVE  UploadInv'
  BY <1>5, NoneAssumption DEF UploadInv, Bind, Goto, LoseAnswer, Return,
      TypeOK, LockInv, RowInv, Session
<1>6. ASSUME NEW c \in Closer, Checkpoint(c)
      PROVE  UploadInv'
  BY <1>6, NoneAssumption DEF UploadInv, Checkpoint, Goto, LoseAnswer,
      Return, TypeOK, LockInv, RowInv, Session
<1> QED BY <1>1, <1>2, <1>3, <1>4, <1>5, <1>6 DEF Next, Progress, vars,
        CloseBatch, RenewLog, UrlExpires, Claim, ClaimAs, TryLock,
        NextUpload, AnswerBusy, EnterCustody, Return, Read, Goto, Head,
        HeadUnchecked, Retain, Release, Refused, Blocked, CloseJob, Fault,
        LoseSession

\* A step keeps JobInv.
LEMMA JobStep ==
  ASSUME TypeOK, LockInv, CallInv, UploadInv, JobInv, [Next]_vars
  PROVE  JobInv'
<1>1. CASE UNCHANGED <<claim, jobs, closed, retained, uploadJob,
             batchClosed>>
  BY <1>1 DEF JobInv, UploadsOf
<1>2. CASE CloseBatch
  BY <1>2, NoneAssumption DEF JobInv, CloseBatch, TypeOK, UploadsOf, CallInv,
      UploadInv
<1>3. ASSUME NEW j \in Job, CreateJob(j)
      PROVE  JobInv'
  BY <1>3, NoneAssumption DEF JobInv, CreateJob, InsertJob, TypeOK,
      UploadsOf, CallInv, UploadInv
<1>4. ASSUME NEW j \in Job, NEW u \in Upload, RegisterLog(j, u)
      PROVE  JobInv'
  BY <1>4, NoneAssumption DEF JobInv, RegisterLog, InsertLog, TypeOK,
      UploadsOf, CallInv, UploadInv
<1>5. ASSUME NEW c \in Closer, NEW j \in Job, NEW s \in Status, Claim(c, j,
             s)
      PROVE  JobInv'
  BY <1>5, NoneAssumption DEF JobInv, Claim, ClaimAs, TypeOK, UploadsOf,
      CallInv, UploadInv
<1>6. ASSUME NEW c \in Closer, Checkpoint(c)
      PROVE  JobInv'
  BY <1>6, NoneAssumption DEF JobInv, Checkpoint, Goto, LoseAnswer, Return,
      TypeOK, UploadsOf, CallInv, UploadInv
<1>7. ASSUME NEW c \in Closer, CloseJob(c)
      PROVE  JobInv'
  BY <1>7, NoneAssumption DEF JobInv, CloseJob, Return, TypeOK, UploadsOf,
      CallInv, UploadInv
<1> QED BY <1>1, <1>2, <1>3, <1>4, <1>5, <1>6, <1>7 DEF Next, Progress, vars,
        RenewLog, PutObject, UrlExpires, TryLock, NextUpload, AnswerBusy,
        EnterCustody, Return, Read, Goto, Head, HeadUnchecked, Bind,
        LoseAnswer, Retain, Release, Refused, Blocked, Fault, LoseSession

\* The initial states satisfy the inductive invariant.
LEMMA InitialStates == Init => IInv
<1> SUFFICES ASSUME Init PROVE IInv
  OBVIOUS
<1>1. TypeOK
  <2>1. /\ batchClosed \in BOOLEAN
        /\ alive \in [Closer -> BOOLEAN]
    BY DEF Init
  <2>2. /\ jobs \in SUBSET Job /\ closed \in SUBSET Job
        /\ retained \in SUBSET Upload /\ presigned \in SUBSET Upload
        /\ claim \in [Job -> Status \cup {None}]
        /\ uploadJob \in [Upload -> Job \cup {None}]
        /\ version \in [Upload -> 1..MaxVersions \cup {None}]
        /\ proof \in [Upload -> 1..MaxVersions \cup {None}]
        /\ lock \in [Upload -> Closer \cup {None}]
    BY DEF Init
  <2>3. /\ objects \in [Upload -> 0..MaxVersions]
        /\ faults \in 0..MaxFaults
    BY BoundAssumption DEF Init
  <2>4. /\ pc \in [Closer -> Locations]
        /\ job \in [Closer -> Job \cup {None}]
        /\ cur \in [Closer -> Upload \cup {None}]
        /\ seen \in [Closer -> 1..MaxVersions \cup {None}]
    BY DEF Init, Locations
  <2>5. todo \in [Closer -> SUBSET Upload]
    BY DEF Init
  <2> QED BY <2>1, <2>2, <2>3, <2>4, <2>5 DEF TypeOK
<1>2. LockInv /\ CallInv /\ RowInv
  BY NoneAssumption DEF Init, LockInv, CallInv, RowInv, Session
<1>3. UploadInv /\ JobInv
  BY DEF Init, UploadInv, JobInv
<1> QED BY <1>1, <1>2, <1>3 DEF IInv

\* Every step keeps the inductive invariant.
LEMMA InvariantStep == IInv /\ [Next]_vars => IInv'
BY TypeStep, LockStep, CallStep, RowStep, UploadStep, JobStep DEF IInv

\* The inductive invariant holds in every reachable state.
THEOREM Invariance == Spec => []IInv
BY InitialStates, InvariantStep, PTL DEF Spec

\* Every variable keeps its type.
THEOREM TypeCorrect == Spec => []TypeOK
<1>1. IInv => TypeOK
  BY DEF IInv
<1> QED BY <1>1, Invariance, PTL

\* A closed job is retained with proofs about the bound object versions.
THEOREM ClosedJobsAreRetained == Spec => []ClosedJobIsRetained
<1>1. IInv => ClosedJobIsRetained
  BY DEF IInv, JobInv, UploadInv, ClosedJobIsRetained, UploadsOf
<1> QED BY <1>1, Invariance, PTL

\* A closed batch has only closed jobs.
THEOREM ClosedBatchesAreComplete == Spec => []ClosedBatchIsComplete
<1>1. IInv => ClosedBatchIsComplete
  BY DEF IInv, JobInv, ClosedBatchIsComplete
<1> QED BY <1>1, Invariance, PTL

\* Closed jobs and batches are complete.
THEOREM ClosedIsComplete == Spec => []CustodyIsComplete
BY ClosedJobsAreRetained, ClosedBatchesAreComplete, PTL DEF CustodyIsComplete

\* The advisory lock keeps the conflict answers away from living sessions.
THEOREM LockExcludesOthers == Spec => []LockProtectsCustody
<1>1. IInv => LockProtectsCustody
  BY DEF IInv, RowInv, LockProtectsCustody
<1> QED BY <1>1, Invariance, PTL

\* The list of uploads a close call works from stays complete.
THEOREM CloseListIsComplete == Spec => []CloseMissesNoUpload
<1>1. IInv => CloseMissesNoUpload
  BY DEF IInv, CallInv, CloseMissesNoUpload, UploadsOf
<1> QED BY <1>1, Invariance, PTL

\* No step takes a claim, a binding, a proof or a closing back.
LEMMA CustodyKept ==
  ASSUME IInv, [Next]_vars
  PROVE  KeepsCustody
<1>1. CASE UNCHANGED <<claim, closed, batchClosed, uploadJob, version,
             retained, proof>>
  BY <1>1 DEF KeepsCustody
<1>2. CASE CloseBatch
  BY <1>2, NoneAssumption DEF KeepsCustody, CloseBatch, IInv, TypeOK,
      LockInv, RowInv, Session
<1>3. ASSUME NEW j \in Job, NEW u \in Upload, RegisterLog(j, u)
      PROVE  KeepsCustody
  BY <1>3, NoneAssumption DEF KeepsCustody, RegisterLog, InsertLog, IInv,
      TypeOK, LockInv, RowInv, Session
<1>4. ASSUME NEW c \in Closer, NEW j \in Job, NEW s \in Status, Claim(c, j,
             s)
      PROVE  KeepsCustody
  BY <1>4, NoneAssumption DEF KeepsCustody, Claim, ClaimAs, IInv, TypeOK,
      LockInv, RowInv, Session
<1>5. ASSUME NEW c \in Closer, Bind(c)
      PROVE  KeepsCustody
  BY <1>5, NoneAssumption DEF KeepsCustody, Bind, Goto, LoseAnswer, Return,
      IInv, TypeOK, LockInv, RowInv, Session
<1>6. ASSUME NEW c \in Closer, Checkpoint(c)
      PROVE  KeepsCustody
  BY <1>6, NoneAssumption DEF KeepsCustody, Checkpoint, Goto, LoseAnswer,
      Return, IInv, TypeOK, LockInv, RowInv, Session
<1>7. ASSUME NEW c \in Closer, CloseJob(c)
      PROVE  KeepsCustody
  BY <1>7, NoneAssumption DEF KeepsCustody, CloseJob, Return, IInv, TypeOK,
      LockInv, RowInv, Session
<1> QED BY <1>1, <1>2, <1>3, <1>4, <1>5, <1>6, <1>7 DEF Next, Progress, vars,
        CreateJob, InsertJob, RenewLog, PutObject, UrlExpires, TryLock,
        NextUpload, AnswerBusy, EnterCustody, Return, Read, Goto, Head,
        HeadUnchecked, Retain, Release, Refused, Blocked, Fault, LoseSession

\* Claims, bindings, proofs and closings are permanent.
THEOREM CustodyNeverUndone == Spec => CustodyIsPermanent
<1>1. IInv /\ [Next]_vars => [KeepsCustody]_vars
  BY CustodyKept
<1> QED BY <1>1, Invariance, PTL DEF Spec, CustodyIsPermanent
=============================================================================
