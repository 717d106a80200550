-------------------------- MODULE OciAttempt_proof --------------------------
(***************************************************************************)
(* Proofs about OciAttempt.                                                *)
(***************************************************************************)
EXTENDS OciAttempt, TLAPS

USE DEF podmanVars

(***************************************************************************)
(* The inductive invariant.                                                *)
(***************************************************************************)

Exists == {"created", "running", "exited"}
Begun == {"running", "exited", "removed"}

\* Outside the recovery the journal is the record, and the phase says how
\* far the container has come.
MainInv ==
  /\ pc \in Main \cup {"returned"} =>
       journal = record /\ ~record.journalError
  /\ pc = "preflight" => record.phase = "preflight" /\ podman = "none"
  /\ pc = "create" =>
       record.phase = "creating" /\ podman \in {"none", "create", "cid", "done"}
  /\ pc \in {"inspect", "wait", "check", "returned"} => podman = "none"
  /\ pc = "start" =>
       record.phase = "running" /\ podman \in {"none", "start", "done"}
  /\ pc = "rm" => record.phase = "settled" /\ podman \in {"none", "rm", "done"}
  /\ pc \in {"wait", "rm", "check", "returned"} =>
       record.response /\ exit = "ok" /\ container \in {"exited", "removed"}
  /\ pc \in {"check", "returned"} =>
       record.phase = "removed" /\ container = "removed"
  /\ pc \in Main \ {"preflight", "create"} => cid
  /\ pc \in {"inspect", "start", "wait", "rm", "check", "returned"} =>
       record.cid

\* What a command at work, or left over from a killed harness, relies on.
PodmanInv ==
  /\ podman \in {"create", "cid"} =>
       /\ journal.phase \notin {"preflight", "removed"}
       /\ record.phase \notin {"preflight", "removed"}
  /\ podman = "start" => cid /\ journal.cid
  /\ podman = "rm" => /\ exit = "ok" /\ container \in {"exited", "removed"}
                      /\ journal.response

\* What the record and the journal say of the container.
ContainerInv ==
  /\ container \in Exists => journal.phase \notin {"preflight", "removed"}
  /\ container \in Exists => record.phase # "preflight"
  /\ record.phase = "removed" => container = "removed"
  /\ container \in Begun => journal.cid /\ cid
  /\ journal.cid => record.cid
  /\ journal.response => record.response
  /\ record.response => retained

\* The recovery, and what is left when it ends.
RecoveryInv ==
  /\ pc \in Main \cup {"raised"} => record.phase # "unknown"
  /\ pc \in {"raised", "identify", "report", "failed"} => podman = "none"
  /\ pc = "stop" =>
       /\ podman \in {"none", "stop", "done"} /\ container \in Exists
       /\ podman = "done" => container # "running"
  /\ pc \in {"identify", "stop", "report", "failed"} => record.phase = "unknown"
  /\ pc \in {"report", "failed"} /\ container = "running" =>
       record.cleanup = "error"
  /\ pc = "failed" => journal = record \/ record.journalError

IInv == TypeOK /\ MainInv /\ PodmanInv /\ ContainerInv /\ RecoveryInv

\* A step keeps every variable in its type.
LEMMA TypeStep ==
  ASSUME TypeOK, RecoveryInv, [Next]_vars
  PROVE  TypeOK'
<1>1. CASE UNCHANGED vars
  BY <1>1 DEF vars, TypeOK, Records, Phases, RecoveryInv
<1>2. CASE Preflight
  BY <1>2 DEF Preflight, Checkpoint, TypeOK, Records, Phases, RecoveryInv,
      Main, Recovery, Ended, Owned, Exists, Begun
<1>3. CASE Create
  BY <1>3 DEF Create, Issue, TypeOK, Records, Phases, RecoveryInv, Main,
      Recovery, Ended, Owned, Exists, Begun
<1>4. CASE CreateReturns
  BY <1>4 DEF CreateReturns, Checkpoint, TypeOK, Records, Phases,
      RecoveryInv, Main, Recovery, Ended, Owned, Exists, Begun
<1>5. CASE InspectCreated
  BY <1>5 DEF InspectCreated, Created, Checkpoint, TypeOK, Records, Phases,
      RecoveryInv, Main, Recovery, Ended, Owned, Exists, Begun
<1>6. CASE Start
  BY <1>6 DEF Start, Issue, TypeOK, Records, Phases, RecoveryInv, Main,
      Recovery, Ended, Owned, Exists, Begun
<1>7. CASE StartReturns
  BY <1>7 DEF StartReturns, Checkpoint, Attached, TypeOK, Records, Phases,
      RecoveryInv, Main, Recovery, Ended, Owned, Exists, Begun
<1>8. CASE WaitSettled
  BY <1>8 DEF WaitSettled, Settled, Checkpoint, TypeOK, Records, Phases, RecoveryInv,
      Main, Recovery, Ended, Owned, Exists, Begun
<1>9. CASE Remove
  BY <1>9 DEF Remove, Issue, TypeOK, Records, Phases, RecoveryInv, Main,
      Recovery, Ended, Owned, Exists, Begun
<1>10. CASE RemoveReturns
  BY <1>10 DEF RemoveReturns, Checkpoint, TypeOK, Records, Phases,
      RecoveryInv, Main, Recovery, Ended, Owned, Exists, Begun
<1>11. CASE Return
  BY <1>11 DEF Return, TypeOK, Records, Phases, RecoveryInv, Main, Recovery,
      Ended, Owned, Exists, Begun
<1>12. CASE Raise
  BY <1>12 DEF Raise, Stopped, TypeOK, Records, Phases, RecoveryInv, Main, Recovery,
      Ended, Owned, Exists, Begun
<1>13. CASE Abandon
  BY <1>13, ZenonT(60) DEF Abandon, Observe, TypeOK, Records, Phases, RecoveryInv, Main,
      Recovery, Ended, Owned, Exists, Begun
<1>14. CASE Recover
  BY <1>14, ZenonT(60) DEF Recover, RecoverFrom, Observe, TypeOK, Records, Phases,
      RecoveryInv, Main, Recovery, Ended, Owned, Exists, Begun
<1>15. CASE Identify
  BY <1>15, ZenonT(60) DEF Identify, Observe, TypeOK, Records, Phases, RecoveryInv, Main,
      Recovery, Ended, Owned, Exists, Begun
<1>16. CASE Stop
  BY <1>16, ZenonT(120) DEF Stop, Issue, Observe, TypeOK, Records, Phases, RecoveryInv,
      Main, Recovery, Ended, Owned, Exists, Begun
<1>17. CASE StopReturns
  BY <1>17 DEF StopReturns, TypeOK, Records, Phases, RecoveryInv, Main,
      Recovery, Ended, Owned, Exists, Begun
<1>18. CASE RecoverFails
  BY <1>18 DEF RecoverFails, Stopped, TypeOK, Records, Phases, RecoveryInv, Main,
      Recovery, Ended, Owned, Exists, Begun
<1>19. CASE Report
  BY <1>19, ZenonT(60) DEF Report, Observe, TypeOK, Records, Phases, RecoveryInv, Main,
      Recovery, Ended, Owned, Exists, Begun
<1>20. CASE Interrupt
  BY <1>20 DEF Interrupt, Stopped, TypeOK, Records, Phases, RecoveryInv, Main,
      Recovery, Ended, Owned, Exists, Begun
<1>21. CASE Crash
  BY <1>21 DEF Crash, TypeOK, Records, Phases, RecoveryInv, Main, Recovery,
      Ended, Owned, Exists, Begun
<1>22. CASE PodmanCreates
  BY <1>22 DEF PodmanCreates, PodmanActs, TypeOK, Records, Phases,
      RecoveryInv, Main, Recovery, Ended, Owned, Exists, Begun
<1>23. CASE PodmanWritesId
  BY <1>23 DEF PodmanWritesId, PodmanActs, TypeOK, Records, Phases,
      RecoveryInv, Main, Recovery, Ended, Owned, Exists, Begun
<1>24. CASE PodmanStarts
  BY <1>24 DEF PodmanStarts, PodmanActs, TypeOK, Records, Phases,
      RecoveryInv, Main, Recovery, Ended, Owned, Exists, Begun
<1>25. CASE PodmanStops
  BY <1>25 DEF PodmanStops, PodmanActs, TypeOK, Records, Phases, RecoveryInv,
      Main, Recovery, Ended, Owned, Exists, Begun
<1>26. CASE PodmanRemoves
  BY <1>26 DEF PodmanRemoves, PodmanActs, TypeOK, Records, Phases,
      RecoveryInv, Main, Recovery, Ended, Owned, Exists, Begun
<1>27. CASE EvaluatorExits
  BY <1>27 DEF EvaluatorExits, TypeOK, Records, Phases, RecoveryInv, Main,
      Recovery, Ended, Owned, Exists, Begun
<1> QED BY <1>1, <1>2, <1>3, <1>4, <1>5, <1>6, <1>7, <1>8, <1>9, <1>10,
    <1>11, <1>12, <1>13, <1>14, <1>15, <1>16, <1>17, <1>18, <1>19, <1>20,
    <1>21, <1>22, <1>23, <1>24, <1>25, <1>26, <1>27 DEF Next, Harness

\* A step keeps MainInv.
LEMMA MainStep ==
  ASSUME TypeOK, MainInv, PodmanInv, ContainerInv, RecoveryInv, [Next]_vars
  PROVE  MainInv'
<1>1. CASE UNCHANGED vars
  BY <1>1 DEF vars, TypeOK, Records, Phases, MainInv, PodmanInv,
      ContainerInv, RecoveryInv
<1>2. CASE Preflight
  BY <1>2 DEF Preflight, Checkpoint, TypeOK, Records, Phases, MainInv,
      PodmanInv, ContainerInv, RecoveryInv, Main, Recovery, Ended, Owned,
      Exists, Begun
<1>3. CASE Create
  BY <1>3 DEF Create, Issue, TypeOK, Records, Phases, MainInv, PodmanInv,
      ContainerInv, RecoveryInv, Main, Recovery, Ended, Owned, Exists, Begun
<1>4. CASE CreateReturns
  BY <1>4 DEF CreateReturns, Checkpoint, TypeOK, Records, Phases, MainInv,
      PodmanInv, ContainerInv, RecoveryInv, Main, Recovery, Ended, Owned,
      Exists, Begun
<1>5. CASE InspectCreated
  BY <1>5 DEF InspectCreated, Created, Checkpoint, TypeOK, Records, Phases, MainInv,
      PodmanInv, ContainerInv, RecoveryInv, Main, Recovery, Ended, Owned,
      Exists, Begun
<1>6. CASE Start
  BY <1>6 DEF Start, Issue, TypeOK, Records, Phases, MainInv, PodmanInv,
      ContainerInv, RecoveryInv, Main, Recovery, Ended, Owned, Exists, Begun
<1>7. CASE StartReturns
  BY <1>7 DEF StartReturns, Checkpoint, Attached, TypeOK, Records, Phases,
      MainInv, PodmanInv, ContainerInv, RecoveryInv, Main, Recovery, Ended,
      Owned, Exists, Begun
<1>8. CASE WaitSettled
  BY <1>8 DEF WaitSettled, Settled, Checkpoint, TypeOK, Records, Phases, MainInv,
      PodmanInv, ContainerInv, RecoveryInv, Main, Recovery, Ended, Owned,
      Exists, Begun
<1>9. CASE Remove
  BY <1>9 DEF Remove, Issue, TypeOK, Records, Phases, MainInv, PodmanInv,
      ContainerInv, RecoveryInv, Main, Recovery, Ended, Owned, Exists, Begun
<1>10. CASE RemoveReturns
  BY <1>10 DEF RemoveReturns, Checkpoint, TypeOK, Records, Phases, MainInv,
      PodmanInv, ContainerInv, RecoveryInv, Main, Recovery, Ended, Owned,
      Exists, Begun
<1>11. CASE Return
  BY <1>11 DEF Return, TypeOK, Records, Phases, MainInv, PodmanInv,
      ContainerInv, RecoveryInv, Main, Recovery, Ended, Owned, Exists, Begun
<1>12. CASE Raise
  BY <1>12 DEF Raise, Stopped, TypeOK, Records, Phases, MainInv, PodmanInv,
      ContainerInv, RecoveryInv, Main, Recovery, Ended, Owned, Exists, Begun
<1>13. CASE Abandon
  BY <1>13 DEF Abandon, Observe, TypeOK, Records, Phases, MainInv, PodmanInv,
      ContainerInv, RecoveryInv, Main, Recovery, Ended, Owned, Exists, Begun
<1>14. CASE Recover
  BY <1>14 DEF Recover, RecoverFrom, Observe, TypeOK, Records, Phases,
      MainInv, PodmanInv, ContainerInv, RecoveryInv, Main, Recovery, Ended,
      Owned, Exists, Begun
<1>15. CASE Identify
  BY <1>15 DEF Identify, Observe, TypeOK, Records, Phases, MainInv,
      PodmanInv, ContainerInv, RecoveryInv, Main, Recovery, Ended, Owned,
      Exists, Begun
<1>16. CASE Stop
  BY <1>16 DEF Stop, Issue, Observe, TypeOK, Records, Phases, MainInv,
      PodmanInv, ContainerInv, RecoveryInv, Main, Recovery, Ended, Owned,
      Exists, Begun
<1>17. CASE StopReturns
  BY <1>17 DEF StopReturns, TypeOK, Records, Phases, MainInv, PodmanInv,
      ContainerInv, RecoveryInv, Main, Recovery, Ended, Owned, Exists, Begun
<1>18. CASE RecoverFails
  BY <1>18 DEF RecoverFails, Stopped, TypeOK, Records, Phases, MainInv, PodmanInv,
      ContainerInv, RecoveryInv, Main, Recovery, Ended, Owned, Exists, Begun
<1>19. CASE Report
  BY <1>19 DEF Report, Observe, TypeOK, Records, Phases, MainInv, PodmanInv,
      ContainerInv, RecoveryInv, Main, Recovery, Ended, Owned, Exists, Begun
<1>20. CASE Interrupt
  BY <1>20 DEF Interrupt, Stopped, TypeOK, Records, Phases, MainInv, PodmanInv,
      ContainerInv, RecoveryInv, Main, Recovery, Ended, Owned, Exists, Begun
<1>21. CASE Crash
  BY <1>21 DEF Crash, TypeOK, Records, Phases, MainInv, PodmanInv,
      ContainerInv, RecoveryInv, Main, Recovery, Ended, Owned, Exists, Begun
<1>22. CASE PodmanCreates
  BY <1>22 DEF PodmanCreates, PodmanActs, TypeOK, Records, Phases, MainInv,
      PodmanInv, ContainerInv, RecoveryInv, Main, Recovery, Ended, Owned,
      Exists, Begun
<1>23. CASE PodmanWritesId
  BY <1>23 DEF PodmanWritesId, PodmanActs, TypeOK, Records, Phases, MainInv,
      PodmanInv, ContainerInv, RecoveryInv, Main, Recovery, Ended, Owned,
      Exists, Begun
<1>24. CASE PodmanStarts
  BY <1>24 DEF PodmanStarts, PodmanActs, TypeOK, Records, Phases, MainInv,
      PodmanInv, ContainerInv, RecoveryInv, Main, Recovery, Ended, Owned,
      Exists, Begun
<1>25. CASE PodmanStops
  BY <1>25 DEF PodmanStops, PodmanActs, TypeOK, Records, Phases, MainInv,
      PodmanInv, ContainerInv, RecoveryInv, Main, Recovery, Ended, Owned,
      Exists, Begun
<1>26. CASE PodmanRemoves
  BY <1>26 DEF PodmanRemoves, PodmanActs, TypeOK, Records, Phases, MainInv,
      PodmanInv, ContainerInv, RecoveryInv, Main, Recovery, Ended, Owned,
      Exists, Begun
<1>27. CASE EvaluatorExits
  BY <1>27 DEF EvaluatorExits, TypeOK, Records, Phases, MainInv, PodmanInv,
      ContainerInv, RecoveryInv, Main, Recovery, Ended, Owned, Exists, Begun
<1> QED BY <1>1, <1>2, <1>3, <1>4, <1>5, <1>6, <1>7, <1>8, <1>9, <1>10,
    <1>11, <1>12, <1>13, <1>14, <1>15, <1>16, <1>17, <1>18, <1>19, <1>20,
    <1>21, <1>22, <1>23, <1>24, <1>25, <1>26, <1>27 DEF Next, Harness

\* A step keeps PodmanInv.
LEMMA PodmanStep ==
  ASSUME TypeOK, MainInv, PodmanInv, ContainerInv, RecoveryInv, [Next]_vars
  PROVE  PodmanInv'
<1>1. CASE UNCHANGED vars
  BY <1>1 DEF vars, TypeOK, Records, Phases, MainInv, PodmanInv,
      ContainerInv, RecoveryInv
<1>2. CASE Preflight
  BY <1>2 DEF Preflight, Checkpoint, TypeOK, Records, Phases, MainInv,
      PodmanInv, ContainerInv, RecoveryInv, Main, Recovery, Ended, Owned,
      Exists, Begun
<1>3. CASE Create
  BY <1>3 DEF Create, Issue, TypeOK, Records, Phases, MainInv, PodmanInv,
      ContainerInv, RecoveryInv, Main, Recovery, Ended, Owned, Exists, Begun
<1>4. CASE CreateReturns
  BY <1>4 DEF CreateReturns, Checkpoint, TypeOK, Records, Phases, MainInv,
      PodmanInv, ContainerInv, RecoveryInv, Main, Recovery, Ended, Owned,
      Exists, Begun
<1>5. CASE InspectCreated
  BY <1>5 DEF InspectCreated, Created, Checkpoint, TypeOK, Records, Phases, MainInv,
      PodmanInv, ContainerInv, RecoveryInv, Main, Recovery, Ended, Owned,
      Exists, Begun
<1>6. CASE Start
  BY <1>6 DEF Start, Issue, TypeOK, Records, Phases, MainInv, PodmanInv,
      ContainerInv, RecoveryInv, Main, Recovery, Ended, Owned, Exists, Begun
<1>7. CASE StartReturns
  BY <1>7 DEF StartReturns, Checkpoint, Attached, TypeOK, Records, Phases,
      MainInv, PodmanInv, ContainerInv, RecoveryInv, Main, Recovery, Ended,
      Owned, Exists, Begun
<1>8. CASE WaitSettled
  BY <1>8 DEF WaitSettled, Settled, Checkpoint, TypeOK, Records, Phases, MainInv,
      PodmanInv, ContainerInv, RecoveryInv, Main, Recovery, Ended, Owned,
      Exists, Begun
<1>9. CASE Remove
  BY <1>9 DEF Remove, Issue, TypeOK, Records, Phases, MainInv, PodmanInv,
      ContainerInv, RecoveryInv, Main, Recovery, Ended, Owned, Exists, Begun
<1>10. CASE RemoveReturns
  BY <1>10 DEF RemoveReturns, Checkpoint, TypeOK, Records, Phases, MainInv,
      PodmanInv, ContainerInv, RecoveryInv, Main, Recovery, Ended, Owned,
      Exists, Begun
<1>11. CASE Return
  BY <1>11 DEF Return, TypeOK, Records, Phases, MainInv, PodmanInv,
      ContainerInv, RecoveryInv, Main, Recovery, Ended, Owned, Exists, Begun
<1>12. CASE Raise
  BY <1>12 DEF Raise, Stopped, TypeOK, Records, Phases, MainInv, PodmanInv,
      ContainerInv, RecoveryInv, Main, Recovery, Ended, Owned, Exists, Begun
<1>13. CASE Abandon
  BY <1>13 DEF Abandon, Observe, TypeOK, Records, Phases, MainInv, PodmanInv,
      ContainerInv, RecoveryInv, Main, Recovery, Ended, Owned, Exists, Begun
<1>14. CASE Recover
  BY <1>14 DEF Recover, RecoverFrom, Observe, TypeOK, Records, Phases,
      MainInv, PodmanInv, ContainerInv, RecoveryInv, Main, Recovery, Ended,
      Owned, Exists, Begun
<1>15. CASE Identify
  BY <1>15 DEF Identify, Observe, TypeOK, Records, Phases, MainInv,
      PodmanInv, ContainerInv, RecoveryInv, Main, Recovery, Ended, Owned,
      Exists, Begun
<1>16. CASE Stop
  BY <1>16 DEF Stop, Issue, Observe, TypeOK, Records, Phases, MainInv,
      PodmanInv, ContainerInv, RecoveryInv, Main, Recovery, Ended, Owned,
      Exists, Begun
<1>17. CASE StopReturns
  BY <1>17 DEF StopReturns, TypeOK, Records, Phases, MainInv, PodmanInv,
      ContainerInv, RecoveryInv, Main, Recovery, Ended, Owned, Exists, Begun
<1>18. CASE RecoverFails
  BY <1>18 DEF RecoverFails, Stopped, TypeOK, Records, Phases, MainInv, PodmanInv,
      ContainerInv, RecoveryInv, Main, Recovery, Ended, Owned, Exists, Begun
<1>19. CASE Report
  BY <1>19 DEF Report, Observe, TypeOK, Records, Phases, MainInv, PodmanInv,
      ContainerInv, RecoveryInv, Main, Recovery, Ended, Owned, Exists, Begun
<1>20. CASE Interrupt
  BY <1>20 DEF Interrupt, Stopped, TypeOK, Records, Phases, MainInv, PodmanInv,
      ContainerInv, RecoveryInv, Main, Recovery, Ended, Owned, Exists, Begun
<1>21. CASE Crash
  BY <1>21 DEF Crash, TypeOK, Records, Phases, MainInv, PodmanInv,
      ContainerInv, RecoveryInv, Main, Recovery, Ended, Owned, Exists, Begun
<1>22. CASE PodmanCreates
  BY <1>22 DEF PodmanCreates, PodmanActs, TypeOK, Records, Phases, MainInv,
      PodmanInv, ContainerInv, RecoveryInv, Main, Recovery, Ended, Owned,
      Exists, Begun
<1>23. CASE PodmanWritesId
  BY <1>23 DEF PodmanWritesId, PodmanActs, TypeOK, Records, Phases, MainInv,
      PodmanInv, ContainerInv, RecoveryInv, Main, Recovery, Ended, Owned,
      Exists, Begun
<1>24. CASE PodmanStarts
  BY <1>24 DEF PodmanStarts, PodmanActs, TypeOK, Records, Phases, MainInv,
      PodmanInv, ContainerInv, RecoveryInv, Main, Recovery, Ended, Owned,
      Exists, Begun
<1>25. CASE PodmanStops
  BY <1>25 DEF PodmanStops, PodmanActs, TypeOK, Records, Phases, MainInv,
      PodmanInv, ContainerInv, RecoveryInv, Main, Recovery, Ended, Owned,
      Exists, Begun
<1>26. CASE PodmanRemoves
  BY <1>26 DEF PodmanRemoves, PodmanActs, TypeOK, Records, Phases, MainInv,
      PodmanInv, ContainerInv, RecoveryInv, Main, Recovery, Ended, Owned,
      Exists, Begun
<1>27. CASE EvaluatorExits
  BY <1>27 DEF EvaluatorExits, TypeOK, Records, Phases, MainInv, PodmanInv,
      ContainerInv, RecoveryInv, Main, Recovery, Ended, Owned, Exists, Begun
<1> QED BY <1>1, <1>2, <1>3, <1>4, <1>5, <1>6, <1>7, <1>8, <1>9, <1>10,
    <1>11, <1>12, <1>13, <1>14, <1>15, <1>16, <1>17, <1>18, <1>19, <1>20,
    <1>21, <1>22, <1>23, <1>24, <1>25, <1>26, <1>27 DEF Next, Harness

\* A step keeps ContainerInv.
LEMMA ContainerStep ==
  ASSUME TypeOK, MainInv, PodmanInv, ContainerInv, RecoveryInv, [Next]_vars
  PROVE  ContainerInv'
<1>1. CASE UNCHANGED vars
  BY <1>1 DEF vars, TypeOK, Records, Phases, MainInv, PodmanInv,
      ContainerInv, RecoveryInv
<1>2. CASE Preflight
  BY <1>2 DEF Preflight, Checkpoint, TypeOK, Records, Phases, MainInv,
      PodmanInv, ContainerInv, RecoveryInv, Main, Recovery, Ended, Owned,
      Exists, Begun
<1>3. CASE Create
  BY <1>3 DEF Create, Issue, TypeOK, Records, Phases, MainInv, PodmanInv,
      ContainerInv, RecoveryInv, Main, Recovery, Ended, Owned, Exists, Begun
<1>4. CASE CreateReturns
  BY <1>4 DEF CreateReturns, Checkpoint, TypeOK, Records, Phases, MainInv,
      PodmanInv, ContainerInv, RecoveryInv, Main, Recovery, Ended, Owned,
      Exists, Begun
<1>5. CASE InspectCreated
  BY <1>5 DEF InspectCreated, Created, Checkpoint, TypeOK, Records, Phases, MainInv,
      PodmanInv, ContainerInv, RecoveryInv, Main, Recovery, Ended, Owned,
      Exists, Begun
<1>6. CASE Start
  BY <1>6 DEF Start, Issue, TypeOK, Records, Phases, MainInv, PodmanInv,
      ContainerInv, RecoveryInv, Main, Recovery, Ended, Owned, Exists, Begun
<1>7. CASE StartReturns
  BY <1>7 DEF StartReturns, Checkpoint, Attached, TypeOK, Records, Phases,
      MainInv, PodmanInv, ContainerInv, RecoveryInv, Main, Recovery, Ended,
      Owned, Exists, Begun
<1>8. CASE WaitSettled
  BY <1>8 DEF WaitSettled, Settled, Checkpoint, TypeOK, Records, Phases, MainInv,
      PodmanInv, ContainerInv, RecoveryInv, Main, Recovery, Ended, Owned,
      Exists, Begun
<1>9. CASE Remove
  BY <1>9 DEF Remove, Issue, TypeOK, Records, Phases, MainInv, PodmanInv,
      ContainerInv, RecoveryInv, Main, Recovery, Ended, Owned, Exists, Begun
<1>10. CASE RemoveReturns
  BY <1>10 DEF RemoveReturns, Checkpoint, TypeOK, Records, Phases, MainInv,
      PodmanInv, ContainerInv, RecoveryInv, Main, Recovery, Ended, Owned,
      Exists, Begun
<1>11. CASE Return
  BY <1>11 DEF Return, TypeOK, Records, Phases, MainInv, PodmanInv,
      ContainerInv, RecoveryInv, Main, Recovery, Ended, Owned, Exists, Begun
<1>12. CASE Raise
  BY <1>12 DEF Raise, Stopped, TypeOK, Records, Phases, MainInv, PodmanInv,
      ContainerInv, RecoveryInv, Main, Recovery, Ended, Owned, Exists, Begun
<1>13. CASE Abandon
  BY <1>13, ZenonT(60) DEF Abandon, Observe, TypeOK, Records, Phases, MainInv, PodmanInv,
      ContainerInv, RecoveryInv, Main, Recovery, Ended, Owned, Exists, Begun
<1>14. CASE Recover
  BY <1>14, ZenonT(60) DEF Recover, RecoverFrom, Observe, TypeOK, Records, Phases,
      MainInv, PodmanInv, ContainerInv, RecoveryInv, Main, Recovery, Ended,
      Owned, Exists, Begun
<1>15. CASE Identify
  BY <1>15 DEF Identify, Observe, TypeOK, Records, Phases, MainInv,
      PodmanInv, ContainerInv, RecoveryInv, Main, Recovery, Ended, Owned,
      Exists, Begun
<1>16. CASE Stop
  BY <1>16 DEF Stop, Issue, Observe, TypeOK, Records, Phases, MainInv,
      PodmanInv, ContainerInv, RecoveryInv, Main, Recovery, Ended, Owned,
      Exists, Begun
<1>17. CASE StopReturns
  BY <1>17 DEF StopReturns, TypeOK, Records, Phases, MainInv, PodmanInv,
      ContainerInv, RecoveryInv, Main, Recovery, Ended, Owned, Exists, Begun
<1>18. CASE RecoverFails
  BY <1>18 DEF RecoverFails, Stopped, TypeOK, Records, Phases, MainInv, PodmanInv,
      ContainerInv, RecoveryInv, Main, Recovery, Ended, Owned, Exists, Begun
<1>19. CASE Report
  BY <1>19 DEF Report, Observe, TypeOK, Records, Phases, MainInv, PodmanInv,
      ContainerInv, RecoveryInv, Main, Recovery, Ended, Owned, Exists, Begun
<1>20. CASE Interrupt
  BY <1>20 DEF Interrupt, Stopped, TypeOK, Records, Phases, MainInv, PodmanInv,
      ContainerInv, RecoveryInv, Main, Recovery, Ended, Owned, Exists, Begun
<1>21. CASE Crash
  BY <1>21 DEF Crash, TypeOK, Records, Phases, MainInv, PodmanInv,
      ContainerInv, RecoveryInv, Main, Recovery, Ended, Owned, Exists, Begun
<1>22. CASE PodmanCreates
  BY <1>22 DEF PodmanCreates, PodmanActs, TypeOK, Records, Phases, MainInv,
      PodmanInv, ContainerInv, RecoveryInv, Main, Recovery, Ended, Owned,
      Exists, Begun
<1>23. CASE PodmanWritesId
  BY <1>23 DEF PodmanWritesId, PodmanActs, TypeOK, Records, Phases, MainInv,
      PodmanInv, ContainerInv, RecoveryInv, Main, Recovery, Ended, Owned,
      Exists, Begun
<1>24. CASE PodmanStarts
  BY <1>24 DEF PodmanStarts, PodmanActs, TypeOK, Records, Phases, MainInv,
      PodmanInv, ContainerInv, RecoveryInv, Main, Recovery, Ended, Owned,
      Exists, Begun
<1>25. CASE PodmanStops
  BY <1>25 DEF PodmanStops, PodmanActs, TypeOK, Records, Phases, MainInv,
      PodmanInv, ContainerInv, RecoveryInv, Main, Recovery, Ended, Owned,
      Exists, Begun
<1>26. CASE PodmanRemoves
  BY <1>26 DEF PodmanRemoves, PodmanActs, TypeOK, Records, Phases, MainInv,
      PodmanInv, ContainerInv, RecoveryInv, Main, Recovery, Ended, Owned,
      Exists, Begun
<1>27. CASE EvaluatorExits
  BY <1>27 DEF EvaluatorExits, TypeOK, Records, Phases, MainInv, PodmanInv,
      ContainerInv, RecoveryInv, Main, Recovery, Ended, Owned, Exists, Begun
<1> QED BY <1>1, <1>2, <1>3, <1>4, <1>5, <1>6, <1>7, <1>8, <1>9, <1>10,
    <1>11, <1>12, <1>13, <1>14, <1>15, <1>16, <1>17, <1>18, <1>19, <1>20,
    <1>21, <1>22, <1>23, <1>24, <1>25, <1>26, <1>27 DEF Next, Harness

\* A step keeps RecoveryInv.
LEMMA RecoveryStep ==
  ASSUME TypeOK, MainInv, PodmanInv, ContainerInv, RecoveryInv, [Next]_vars
  PROVE  RecoveryInv'
<1>1. CASE UNCHANGED vars
  BY <1>1 DEF vars, TypeOK, Records, Phases, MainInv, PodmanInv,
      ContainerInv, RecoveryInv
<1>2. CASE Preflight
  BY <1>2 DEF Preflight, Checkpoint, TypeOK, Records, Phases, MainInv,
      PodmanInv, ContainerInv, RecoveryInv, Main, Recovery, Ended, Owned,
      Exists, Begun
<1>3. CASE Create
  BY <1>3 DEF Create, Issue, TypeOK, Records, Phases, MainInv, PodmanInv,
      ContainerInv, RecoveryInv, Main, Recovery, Ended, Owned, Exists, Begun
<1>4. CASE CreateReturns
  BY <1>4 DEF CreateReturns, Checkpoint, TypeOK, Records, Phases, MainInv,
      PodmanInv, ContainerInv, RecoveryInv, Main, Recovery, Ended, Owned,
      Exists, Begun
<1>5. CASE InspectCreated
  BY <1>5 DEF InspectCreated, Created, Checkpoint, TypeOK, Records, Phases, MainInv,
      PodmanInv, ContainerInv, RecoveryInv, Main, Recovery, Ended, Owned,
      Exists, Begun
<1>6. CASE Start
  BY <1>6 DEF Start, Issue, TypeOK, Records, Phases, MainInv, PodmanInv,
      ContainerInv, RecoveryInv, Main, Recovery, Ended, Owned, Exists, Begun
<1>7. CASE StartReturns
  BY <1>7 DEF StartReturns, Checkpoint, Attached, TypeOK, Records, Phases,
      MainInv, PodmanInv, ContainerInv, RecoveryInv, Main, Recovery, Ended,
      Owned, Exists, Begun
<1>8. CASE WaitSettled
  BY <1>8 DEF WaitSettled, Settled, Checkpoint, TypeOK, Records, Phases, MainInv,
      PodmanInv, ContainerInv, RecoveryInv, Main, Recovery, Ended, Owned,
      Exists, Begun
<1>9. CASE Remove
  BY <1>9 DEF Remove, Issue, TypeOK, Records, Phases, MainInv, PodmanInv,
      ContainerInv, RecoveryInv, Main, Recovery, Ended, Owned, Exists, Begun
<1>10. CASE RemoveReturns
  BY <1>10 DEF RemoveReturns, Checkpoint, TypeOK, Records, Phases, MainInv,
      PodmanInv, ContainerInv, RecoveryInv, Main, Recovery, Ended, Owned,
      Exists, Begun
<1>11. CASE Return
  BY <1>11 DEF Return, TypeOK, Records, Phases, MainInv, PodmanInv,
      ContainerInv, RecoveryInv, Main, Recovery, Ended, Owned, Exists, Begun
<1>12. CASE Raise
  BY <1>12 DEF Raise, Stopped, TypeOK, Records, Phases, MainInv, PodmanInv,
      ContainerInv, RecoveryInv, Main, Recovery, Ended, Owned, Exists, Begun
<1>13. CASE Abandon
  BY <1>13 DEF Abandon, Observe, TypeOK, Records, Phases, MainInv, PodmanInv,
      ContainerInv, RecoveryInv, Main, Recovery, Ended, Owned, Exists, Begun
<1>14. CASE Recover
  BY <1>14 DEF Recover, RecoverFrom, Observe, TypeOK, Records, Phases,
      MainInv, PodmanInv, ContainerInv, RecoveryInv, Main, Recovery, Ended,
      Owned, Exists, Begun
<1>15. CASE Identify
  BY <1>15 DEF Identify, Observe, TypeOK, Records, Phases, MainInv,
      PodmanInv, ContainerInv, RecoveryInv, Main, Recovery, Ended, Owned,
      Exists, Begun
<1>16. CASE Stop
  BY <1>16 DEF Stop, Issue, Observe, TypeOK, Records, Phases, MainInv,
      PodmanInv, ContainerInv, RecoveryInv, Main, Recovery, Ended, Owned,
      Exists, Begun
<1>17. CASE StopReturns
  BY <1>17 DEF StopReturns, TypeOK, Records, Phases, MainInv, PodmanInv,
      ContainerInv, RecoveryInv, Main, Recovery, Ended, Owned, Exists, Begun
<1>18. CASE RecoverFails
  BY <1>18 DEF RecoverFails, Stopped, TypeOK, Records, Phases, MainInv, PodmanInv,
      ContainerInv, RecoveryInv, Main, Recovery, Ended, Owned, Exists, Begun
<1>19. CASE Report
  BY <1>19 DEF Report, Observe, TypeOK, Records, Phases, MainInv, PodmanInv,
      ContainerInv, RecoveryInv, Main, Recovery, Ended, Owned, Exists, Begun
<1>20. CASE Interrupt
  BY <1>20 DEF Interrupt, Stopped, TypeOK, Records, Phases, MainInv, PodmanInv,
      ContainerInv, RecoveryInv, Main, Recovery, Ended, Owned, Exists, Begun
<1>21. CASE Crash
  BY <1>21 DEF Crash, TypeOK, Records, Phases, MainInv, PodmanInv,
      ContainerInv, RecoveryInv, Main, Recovery, Ended, Owned, Exists, Begun
<1>22. CASE PodmanCreates
  BY <1>22 DEF PodmanCreates, PodmanActs, TypeOK, Records, Phases, MainInv,
      PodmanInv, ContainerInv, RecoveryInv, Main, Recovery, Ended, Owned,
      Exists, Begun
<1>23. CASE PodmanWritesId
  BY <1>23 DEF PodmanWritesId, PodmanActs, TypeOK, Records, Phases, MainInv,
      PodmanInv, ContainerInv, RecoveryInv, Main, Recovery, Ended, Owned,
      Exists, Begun
<1>24. CASE PodmanStarts
  BY <1>24 DEF PodmanStarts, PodmanActs, TypeOK, Records, Phases, MainInv,
      PodmanInv, ContainerInv, RecoveryInv, Main, Recovery, Ended, Owned,
      Exists, Begun
<1>25. CASE PodmanStops
  BY <1>25 DEF PodmanStops, PodmanActs, TypeOK, Records, Phases, MainInv,
      PodmanInv, ContainerInv, RecoveryInv, Main, Recovery, Ended, Owned,
      Exists, Begun
<1>26. CASE PodmanRemoves
  BY <1>26 DEF PodmanRemoves, PodmanActs, TypeOK, Records, Phases, MainInv,
      PodmanInv, ContainerInv, RecoveryInv, Main, Recovery, Ended, Owned,
      Exists, Begun
<1>27. CASE EvaluatorExits
  BY <1>27 DEF EvaluatorExits, TypeOK, Records, Phases, MainInv, PodmanInv,
      ContainerInv, RecoveryInv, Main, Recovery, Ended, Owned, Exists, Begun
<1> QED BY <1>1, <1>2, <1>3, <1>4, <1>5, <1>6, <1>7, <1>8, <1>9, <1>10,
    <1>11, <1>12, <1>13, <1>14, <1>15, <1>16, <1>17, <1>18, <1>19, <1>20,
    <1>21, <1>22, <1>23, <1>24, <1>25, <1>26, <1>27 DEF Next, Harness

\* The initial state satisfies the inductive invariant.
LEMMA InitialStates == Init => IInv
<1> SUFFICES ASSUME Init PROVE IInv
  OBVIOUS
<1>1. record \in Records /\ journal \in Records
  BY DEF Init, Records, Phases
<1>2. TypeOK
  BY <1>1 DEF Init, TypeOK, Main
<1>3. MainInv
  BY DEF Init, MainInv, Main
<1>4. PodmanInv /\ ContainerInv /\ RecoveryInv
  BY DEF Init, PodmanInv, ContainerInv, RecoveryInv, Main, Exists, Begun
<1> QED BY <1>1, <1>2, <1>3, <1>4 DEF IInv

\* Every step keeps the inductive invariant.
LEMMA InvariantStep == IInv /\ [Next]_vars => IInv'
BY TypeStep, MainStep, PodmanStep, ContainerStep, RecoveryStep DEF IInv

\* The inductive invariant holds in every reachable state.
THEOREM Invariance == Spec => []IInv
BY InitialStates, InvariantStep, PTL DEF Spec

\* Every variable keeps its type.
THEOREM TypeCorrect == Spec => []TypeOK
<1>1. IInv => TypeOK
  BY DEF IInv
<1> QED BY <1>1, Invariance, PTL

\* A response is returned only for a settled and removed attempt.
THEOREM ResponsesAreSettled == Spec => []ResponseIsSettled
<1>1. IInv => ResponseIsSettled
  BY DEF IInv, ResponseIsSettled, MainInv, ContainerInv
<1> QED BY <1>1, Invariance, PTL

\* The journal admits every container that is left behind.
THEOREM JournalIsAhead == Spec => []JournalCoversContainer
<1>1. IInv => JournalCoversContainer
  BY DEF IInv, ContainerInv, Exists, JournalCoversContainer
<1> QED BY <1>1, Invariance, PTL

\* The journal names every container that was started.
THEOREM StartsAreTraceable == Spec => []StartedIsTraceable
<1>1. IInv => StartedIsTraceable
  BY DEF IInv, ContainerInv, Begun, StartedIsTraceable
<1> QED BY <1>1, Invariance, PTL

\* A failed attempt left nothing running without saying so.
THEOREM FailuresAreReported == Spec => []FailureIsReported
<1>1. IInv => FailureIsReported
  BY DEF IInv, RecoveryInv, FailureIsReported
<1> QED BY <1>1, Invariance, PTL

\* Only a settled evaluator's container is removed.
THEOREM RemovalsAreEarned == Spec => RemovalIsEarned
<1>1. IInv /\ [Next]_vars => [Earned]_vars
  <2> SUFFICES ASSUME IInv, Next PROVE Earned
    OBVIOUS
  <2>1. CASE PodmanRemoves
    BY <2>1 DEF IInv, PodmanInv, ContainerInv, PodmanRemoves, PodmanActs,
        Earned
  <2>2. CASE container' # "removed" \/ container' = container
    BY <2>2 DEF Earned
  <2> QED BY <2>1, <2>2 DEF Next, Harness, Preflight, Checkpoint, Create,
          Issue, CreateReturns, InspectCreated, Created, Start,
          StartReturns, WaitSettled, Settled, Stopped, Remove, RemoveReturns,
          Return, Raise, Abandon,
          Recover, RecoverFrom, Identify, Stop, StopReturns, RecoverFails,
          Report, Interrupt, Crash, PodmanCreates, PodmanWritesId,
          PodmanStarts, PodmanStops, EvaluatorExits, PodmanActs
<1> QED BY <1>1, Invariance, PTL DEF Spec, RemovalIsEarned
=============================================================================
