--------------------------- MODULE Creation_proof ---------------------------
(***************************************************************************)
(* Proofs about Creation, for every set of calls, keys, branches, names    *)
(* and configurations.                                                     *)
(***************************************************************************)
EXTENDS Creation, TLAPS

USE DEF callVars

(***************************************************************************)
(* The inductive invariant.                                                *)
(***************************************************************************)
Holding == {"insert", "commit", "retry"}

\* A call past its branch lock holds it, and its row is the one its request
\* asks for with the configuration the branch still has.
DraftInv ==
  \A c \in Call : pc[c] \in Holding =>
    /\ locked[req[c].branch] = c
    /\ draft[c] = [by |-> c, key |-> req[c].key, branch |-> req[c].branch,
                   name |-> req[c].name, config |-> config[req[c].branch]]

\* An inserted key is in no other row, and a conflict was with a row that is
\* still there.
KeyInv ==
  /\ \A c \in Call, x \in batches :
       pc[c] = "commit" /\ req[c].key # None => x.key # req[c].key
  /\ \A c, d \in Call :
       pc[c] = "commit" /\ pc[d] = "commit" /\ req[c].key # None
       /\ req[c].key = req[d].key => c = d
  /\ \A c \in Call : pc[c] = "retry" =>
       req[c].key # None /\ \E x \in batches : x.key = req[c].key

IInv == /\ TypeOK /\ DraftInv /\ KeyInv
        /\ OneBatchPerKey /\ AnswerIsOwnBatch /\ CheckpointIsAvailable

\* The end of a transaction keeps the types of what it releases.
LEMMA EndType ==
  ASSUME TypeOK, NEW c \in Call, EndTransaction(c)
  PROVE  /\ locked' \in [Branch -> Call \cup {None}]
         /\ draft' \in [Call -> Row \cup {None}]
<1>1. locked' \in [Branch -> Call \cup {None}]
  BY DEF TypeOK, EndTransaction
<1>2. draft' \in [Call -> Row \cup {None}]
  BY DEF TypeOK, EndTransaction
<1> QED BY <1>1, <1>2

\* An answer from an earlier row keeps every variable in its type.
LEMMA AnswerType ==
  ASSUME TypeOK, NEW c \in Call, NEW x \in batches, AnswerPrevious(c, x)
  PROVE  TypeOK'
<1>1. x \in Row
  BY DEF TypeOK
<1>2. answer' \in [Call -> Row \cup {None}]
  BY <1>1 DEF TypeOK, AnswerPrevious
<1>3. pc' \in [Call -> Locations]
  BY DEF TypeOK, AnswerPrevious, Goto, Locations, Ended
<1> QED BY <1>2, <1>3, EndType DEF TypeOK, AnswerPrevious

\* A step keeps every variable in its type.
LEMMA TypeStep ==
  ASSUME TypeOK, DraftInv, KeyInv, [Next]_vars
  PROVE  TypeOK'
<1>1. CASE UNCHANGED vars
  BY <1>1 DEF vars, TypeOK, Request, Row, Locations, DraftInv
<1>2. ASSUME NEW c \in Call, Begin(c) PROVE TypeOK'
  BY <1>2, NoneAssumption DEF Begin, Goto, TypeOK, Request, Row, Locations,
      DraftInv, Holding, Ended
<1>3. ASSUME NEW c \in Call, Lookup(c) PROVE TypeOK'
  <2>1. CASE \E x \in Previous(c, batches) : AnswerPrevious(c, x)
    BY <2>1, AnswerType DEF Previous
  <2>2. CASE Previous(c, batches) = {}
    BY <1>3, <2>2 DEF Lookup, Goto, TypeOK, Locations
  <2> QED BY <1>3, <2>1, <2>2 DEF Lookup
<1>4. ASSUME NEW c \in Call, LockBranch(c) PROVE TypeOK'
  BY <1>4, NoneAssumption DEF LockBranch, ReadBranch, Goto, TypeOK, Request,
      Row, Locations, DraftInv, Holding, Ended
<1>5. ASSUME NEW c \in Call, Insert(c) PROVE TypeOK'
  BY <1>5, NoneAssumption DEF Insert, Waits, Previous, Goto, TypeOK, Request,
      Row, Locations, DraftInv, Holding, Ended
<1>6. ASSUME NEW c \in Call, Commit(c) PROVE TypeOK'
  <2>1. draft[c] \in Row
    BY <1>6 DEF Commit, DraftInv, Holding, TypeOK, Request, Row
  <2>2. batches' \in SUBSET Row
    BY <1>6, <2>1 DEF Commit, TypeOK
  <2>3. answer' \in [Call -> Row \cup {None}]
    BY <1>6, <2>1 DEF Commit, TypeOK
  <2>4. pc' \in [Call -> Locations]
    BY <1>6 DEF Commit, Goto, TypeOK, Locations, Ended
  <2> QED BY <1>6, <2>2, <2>3, <2>4, EndType DEF Commit, TypeOK
<1>7. ASSUME NEW c \in Call, Retry(c) PROVE TypeOK'
  <2>1. CASE \E x \in Previous(c, batches) : AnswerPrevious(c, x)
    BY <2>1, AnswerType DEF Previous
  <2>2. CASE Goto(c, "unavailable") /\ EndTransaction(c)
             /\ UNCHANGED <<config, batches, req, answer>>
    BY <2>2, EndType DEF Goto, TypeOK, Locations, Ended
  <2> QED BY <1>7, <2>1, <2>2 DEF Retry
<1>8. ASSUME NEW c \in Call, Rollback(c) PROVE TypeOK'
  BY <1>8, NoneAssumption DEF Rollback, EndTransaction, Goto, TypeOK,
      Request, Row, Locations, DraftInv, Holding, Ended
<1>9. ASSUME NEW b \in Branch, NEW k \in Config,
             UpdateMetricsConfig(b, k)
      PROVE  TypeOK'
  BY <1>9, NoneAssumption DEF UpdateMetricsConfig, TypeOK, Request, Row,
      Locations, DraftInv, Holding, Ended
<1> QED BY <1>1, <1>2, <1>3, <1>4, <1>5, <1>6, <1>7, <1>8, <1>9 DEF Next,
    Progress

\* A step keeps DraftInv.
LEMMA DraftStep ==
  ASSUME TypeOK, DraftInv, KeyInv, [Next]_vars
  PROVE  DraftInv'
<1>1. CASE UNCHANGED vars
  BY <1>1 DEF vars, TypeOK, Request, Row, Locations, DraftInv
<1>2. ASSUME NEW c \in Call, Begin(c) PROVE DraftInv'
  BY <1>2, NoneAssumption DEF Begin, Goto, TypeOK, Request, Row, Locations,
      DraftInv, Holding, Ended
<1>3. ASSUME NEW c \in Call, Lookup(c) PROVE DraftInv'
  BY <1>3, NoneAssumption DEF Lookup, AnswerPrevious, EndTransaction,
      Previous, SameFingerprint, Goto, TypeOK, Request, Row, Locations,
      DraftInv, Holding, Ended
<1>4. ASSUME NEW c \in Call, LockBranch(c) PROVE DraftInv'
  BY <1>4, NoneAssumption DEF LockBranch, ReadBranch, Goto, TypeOK, Request,
      Row, Locations, DraftInv, Holding, Ended
<1>5. ASSUME NEW c \in Call, Insert(c) PROVE DraftInv'
  BY <1>5, NoneAssumption DEF Insert, Waits, Previous, Goto, TypeOK, Request,
      Row, Locations, DraftInv, Holding, Ended
<1>6. ASSUME NEW c \in Call, Commit(c) PROVE DraftInv'
  BY <1>6, NoneAssumption DEF Commit, EndTransaction, Goto, TypeOK, Request,
      Row, Locations, DraftInv, Holding, Ended
<1>7. ASSUME NEW c \in Call, Retry(c) PROVE DraftInv'
  BY <1>7, NoneAssumption DEF Retry, AnswerPrevious, EndTransaction,
      Previous, SameFingerprint, Goto, TypeOK, Request, Row, Locations,
      DraftInv, Holding, Ended
<1>8. ASSUME NEW c \in Call, Rollback(c) PROVE DraftInv'
  BY <1>8, NoneAssumption DEF Rollback, EndTransaction, Goto, TypeOK,
      Request, Row, Locations, DraftInv, Holding, Ended
<1>9. ASSUME NEW b \in Branch, NEW k \in Config,
             UpdateMetricsConfig(b, k)
      PROVE  DraftInv'
  BY <1>9, NoneAssumption DEF UpdateMetricsConfig, TypeOK, Request, Row,
      Locations, DraftInv, Holding, Ended
<1> QED BY <1>1, <1>2, <1>3, <1>4, <1>5, <1>6, <1>7, <1>8, <1>9 DEF Next,
    Progress

\* A step keeps KeyInv.
LEMMA KeyStep ==
  ASSUME TypeOK, DraftInv, KeyInv, [Next]_vars
  PROVE  KeyInv'
<1>1. CASE UNCHANGED vars
  BY <1>1 DEF vars, TypeOK, Request, Row, Locations, DraftInv, KeyInv
<1>2. ASSUME NEW c \in Call, Begin(c) PROVE KeyInv'
  BY <1>2, NoneAssumption DEF Begin, Goto, TypeOK, Request, Row, Locations,
      DraftInv, KeyInv, Holding, Ended
<1>3. ASSUME NEW c \in Call, Lookup(c) PROVE KeyInv'
  BY <1>3, NoneAssumption DEF Lookup, AnswerPrevious, EndTransaction,
      Previous, SameFingerprint, Goto, TypeOK, Request, Row, Locations,
      DraftInv, KeyInv, Holding, Ended
<1>4. ASSUME NEW c \in Call, LockBranch(c) PROVE KeyInv'
  BY <1>4, NoneAssumption DEF LockBranch, ReadBranch, Goto, TypeOK, Request,
      Row, Locations, DraftInv, KeyInv, Holding, Ended
<1>5. ASSUME NEW c \in Call, Insert(c) PROVE KeyInv'
  BY <1>5, NoneAssumption DEF Insert, Waits, Previous, Goto, TypeOK, Request,
      Row, Locations, DraftInv, KeyInv, Holding, Ended
<1>6. ASSUME NEW c \in Call, Commit(c) PROVE KeyInv'
  <2>1. batches' = batches \cup {draft[c]} /\ draft[c].key = req[c].key
    <3>1. draft[c] = [by |-> c, key |-> req[c].key, branch |-> req[c].branch,
                      name |-> req[c].name, config |-> config[req[c].branch]]
      BY <1>6 DEF Commit, DraftInv, Holding
    <3>2. batches' = batches \cup {draft[c]}
      BY <1>6 DEF Commit
    <3> QED BY <3>1, <3>2
  <2>2. pc'[c] \in {"answered", "lost"}
    BY <1>6 DEF Commit, Goto, TypeOK
  <2>3. \A d \in Call : d # c => pc'[d] = pc[d]
    BY <1>6 DEF Commit, Goto, TypeOK
  <2>4. req' = req /\ pc[c] = "commit"
    BY <1>6 DEF Commit
  <2>5. ASSUME NEW d \in Call, NEW x \in batches',
               pc'[d] = "commit", req[d].key # None
        PROVE  x.key # req[d].key
    <3>1. d # c /\ pc[d] = "commit"
      BY <2>2, <2>3, <2>5
    <3>2. req[d].key # req[c].key
      BY <2>4, <2>5, <3>1 DEF KeyInv
    <3> QED BY <2>1, <2>5, <3>1, <3>2 DEF KeyInv
  <2>6. \A d, e \in Call :
          pc'[d] = "commit" /\ pc'[e] = "commit" /\ req[d].key # None
          /\ req[d].key = req[e].key => d = e
    BY <2>2, <2>3 DEF KeyInv
  <2>7. \A d \in Call : pc'[d] = "retry" =>
          req[d].key # None /\ \E x \in batches' : x.key = req[d].key
    BY <2>1, <2>2, <2>3 DEF KeyInv
  <2> QED BY <2>4, <2>5, <2>6, <2>7 DEF KeyInv
<1>7. ASSUME NEW c \in Call, Retry(c) PROVE KeyInv'
  <2>1. UNCHANGED <<batches, req>>
    BY <1>7 DEF Retry, AnswerPrevious
  <2>2. pc'[c] \in Ended /\ \A d \in Call : d # c => pc'[d] = pc[d]
    BY <1>7 DEF Retry, AnswerPrevious, Goto, TypeOK, Ended
  <2> QED BY <2>1, <2>2 DEF KeyInv, Ended
<1>8. ASSUME NEW c \in Call, Rollback(c) PROVE KeyInv'
  BY <1>8, NoneAssumption DEF Rollback, EndTransaction, Goto, TypeOK,
      Request, Row, Locations, DraftInv, KeyInv, Holding, Ended
<1>9. ASSUME NEW b \in Branch, NEW k \in Config,
             UpdateMetricsConfig(b, k)
      PROVE  KeyInv'
  BY <1>9, NoneAssumption DEF UpdateMetricsConfig, TypeOK, Request, Row,
      Locations, DraftInv, KeyInv, Holding, Ended
<1> QED BY <1>1, <1>2, <1>3, <1>4, <1>5, <1>6, <1>7, <1>8, <1>9 DEF Next,
    Progress

\* A step creates no second batch for a key.
LEMMA RowsStep ==
  ASSUME TypeOK, DraftInv, KeyInv, OneBatchPerKey, [Next]_vars
  PROVE  OneBatchPerKey'
<1>1. CASE UNCHANGED vars
  BY <1>1 DEF vars, TypeOK, Request, Row, Locations, DraftInv, KeyInv,
      OneBatchPerKey
<1>2. ASSUME NEW c \in Call, Begin(c) PROVE OneBatchPerKey'
  BY <1>2, NoneAssumption DEF Begin, Goto, TypeOK, Request, Row, Locations,
      DraftInv, KeyInv, OneBatchPerKey, Holding, Ended
<1>3. ASSUME NEW c \in Call, Lookup(c) PROVE OneBatchPerKey'
  BY <1>3, NoneAssumption DEF Lookup, AnswerPrevious, EndTransaction,
      Previous, SameFingerprint, Goto, TypeOK, Request, Row, Locations,
      DraftInv, KeyInv, OneBatchPerKey, Holding, Ended
<1>4. ASSUME NEW c \in Call, LockBranch(c) PROVE OneBatchPerKey'
  BY <1>4, NoneAssumption DEF LockBranch, ReadBranch, Goto, TypeOK, Request,
      Row, Locations, DraftInv, KeyInv, OneBatchPerKey, Holding, Ended
<1>5. ASSUME NEW c \in Call, Insert(c) PROVE OneBatchPerKey'
  BY <1>5, NoneAssumption DEF Insert, Waits, Previous, Goto, TypeOK, Request,
      Row, Locations, DraftInv, KeyInv, OneBatchPerKey, Holding, Ended
<1>6. ASSUME NEW c \in Call, Commit(c) PROVE OneBatchPerKey'
  BY <1>6, NoneAssumption DEF Commit, EndTransaction, Goto, TypeOK, Request,
      Row, Locations, DraftInv, KeyInv, OneBatchPerKey, Holding, Ended
<1>7. ASSUME NEW c \in Call, Retry(c) PROVE OneBatchPerKey'
  BY <1>7, NoneAssumption DEF Retry, AnswerPrevious, EndTransaction,
      Previous, SameFingerprint, Goto, TypeOK, Request, Row, Locations,
      DraftInv, KeyInv, OneBatchPerKey, Holding, Ended
<1>8. ASSUME NEW c \in Call, Rollback(c) PROVE OneBatchPerKey'
  BY <1>8, NoneAssumption DEF Rollback, EndTransaction, Goto, TypeOK,
      Request, Row, Locations, DraftInv, KeyInv, OneBatchPerKey, Holding,
      Ended
<1>9. ASSUME NEW b \in Branch, NEW k \in Config,
             UpdateMetricsConfig(b, k)
      PROVE  OneBatchPerKey'
  BY <1>9, NoneAssumption DEF UpdateMetricsConfig, TypeOK, Request, Row,
      Locations, DraftInv, KeyInv, OneBatchPerKey, Holding, Ended
<1> QED BY <1>1, <1>2, <1>3, <1>4, <1>5, <1>6, <1>7, <1>8, <1>9 DEF Next,
    Progress

\* A step keeps answers right.
LEMMA AnswerStep ==
  ASSUME TypeOK, DraftInv, KeyInv, AnswerIsOwnBatch, [Next]_vars
  PROVE  AnswerIsOwnBatch'
<1>1. CASE UNCHANGED vars
  BY <1>1 DEF vars, TypeOK, Request, Row, Locations, DraftInv, KeyInv,
      AnswerIsOwnBatch, SameFingerprint
<1>2. ASSUME NEW c \in Call, Begin(c) PROVE AnswerIsOwnBatch'
  BY <1>2, NoneAssumption DEF Begin, Goto, TypeOK, Request, Row, Locations,
      DraftInv, KeyInv, AnswerIsOwnBatch, SameFingerprint, Holding, Ended
<1>3. ASSUME NEW c \in Call, Lookup(c) PROVE AnswerIsOwnBatch'
  BY <1>3, NoneAssumption DEF Lookup, AnswerPrevious, EndTransaction,
      Previous, SameFingerprint, Goto, TypeOK, Request, Row, Locations,
      DraftInv, KeyInv, AnswerIsOwnBatch, SameFingerprint, Holding, Ended
<1>4. ASSUME NEW c \in Call, LockBranch(c) PROVE AnswerIsOwnBatch'
  BY <1>4, NoneAssumption DEF LockBranch, ReadBranch, Goto, TypeOK, Request,
      Row, Locations, DraftInv, KeyInv, AnswerIsOwnBatch, SameFingerprint,
      Holding, Ended
<1>5. ASSUME NEW c \in Call, Insert(c) PROVE AnswerIsOwnBatch'
  BY <1>5, NoneAssumption DEF Insert, Waits, Previous, Goto, TypeOK, Request,
      Row, Locations, DraftInv, KeyInv, AnswerIsOwnBatch, SameFingerprint,
      Holding, Ended
<1>6. ASSUME NEW c \in Call, Commit(c) PROVE AnswerIsOwnBatch'
  BY <1>6, NoneAssumption DEF Commit, EndTransaction, Goto, TypeOK, Request,
      Row, Locations, DraftInv, KeyInv, AnswerIsOwnBatch, SameFingerprint,
      Holding, Ended
<1>7. ASSUME NEW c \in Call, Retry(c) PROVE AnswerIsOwnBatch'
  BY <1>7, NoneAssumption DEF Retry, AnswerPrevious, EndTransaction,
      Previous, SameFingerprint, Goto, TypeOK, Request, Row, Locations,
      DraftInv, KeyInv, AnswerIsOwnBatch, SameFingerprint, Holding, Ended
<1>8. ASSUME NEW c \in Call, Rollback(c) PROVE AnswerIsOwnBatch'
  BY <1>8, NoneAssumption DEF Rollback, EndTransaction, Goto, TypeOK,
      Request, Row, Locations, DraftInv, KeyInv, AnswerIsOwnBatch,
      SameFingerprint, Holding, Ended
<1>9. ASSUME NEW b \in Branch, NEW k \in Config,
             UpdateMetricsConfig(b, k)
      PROVE  AnswerIsOwnBatch'
  BY <1>9, NoneAssumption DEF UpdateMetricsConfig, TypeOK, Request, Row,
      Locations, DraftInv, KeyInv, AnswerIsOwnBatch, SameFingerprint,
      Holding, Ended
<1> QED BY <1>1, <1>2, <1>3, <1>4, <1>5, <1>6, <1>7, <1>8, <1>9 DEF Next,
    Progress

\* A step never answers 503.
LEMMA CheckpointStep ==
  ASSUME TypeOK, DraftInv, KeyInv, CheckpointIsAvailable, [Next]_vars
  PROVE  CheckpointIsAvailable'
<1>1. CASE UNCHANGED vars
  BY <1>1 DEF vars, TypeOK, Request, Row, Locations, DraftInv, KeyInv,
      CheckpointIsAvailable
<1>2. ASSUME NEW c \in Call, Begin(c) PROVE CheckpointIsAvailable'
  BY <1>2, NoneAssumption DEF Begin, Goto, TypeOK, Request, Row, Locations,
      DraftInv, KeyInv, CheckpointIsAvailable, Holding, Ended
<1>3. ASSUME NEW c \in Call, Lookup(c) PROVE CheckpointIsAvailable'
  BY <1>3, NoneAssumption DEF Lookup, AnswerPrevious, EndTransaction,
      Previous, SameFingerprint, Goto, TypeOK, Request, Row, Locations,
      DraftInv, KeyInv, CheckpointIsAvailable, Holding, Ended
<1>4. ASSUME NEW c \in Call, LockBranch(c) PROVE CheckpointIsAvailable'
  BY <1>4, NoneAssumption DEF LockBranch, ReadBranch, Goto, TypeOK, Request,
      Row, Locations, DraftInv, KeyInv, CheckpointIsAvailable, Holding, Ended
<1>5. ASSUME NEW c \in Call, Insert(c) PROVE CheckpointIsAvailable'
  BY <1>5, NoneAssumption DEF Insert, Waits, Previous, Goto, TypeOK, Request,
      Row, Locations, DraftInv, KeyInv, CheckpointIsAvailable, Holding, Ended
<1>6. ASSUME NEW c \in Call, Commit(c) PROVE CheckpointIsAvailable'
  BY <1>6, NoneAssumption DEF Commit, EndTransaction, Goto, TypeOK, Request,
      Row, Locations, DraftInv, KeyInv, CheckpointIsAvailable, Holding, Ended
<1>7. ASSUME NEW c \in Call, Retry(c) PROVE CheckpointIsAvailable'
  BY <1>7, NoneAssumption DEF Retry, AnswerPrevious, EndTransaction,
      Previous, SameFingerprint, Goto, TypeOK, Request, Row, Locations,
      DraftInv, KeyInv, CheckpointIsAvailable, Holding, Ended
<1>8. ASSUME NEW c \in Call, Rollback(c) PROVE CheckpointIsAvailable'
  BY <1>8, NoneAssumption DEF Rollback, EndTransaction, Goto, TypeOK,
      Request, Row, Locations, DraftInv, KeyInv, CheckpointIsAvailable,
      Holding, Ended
<1>9. ASSUME NEW b \in Branch, NEW k \in Config,
             UpdateMetricsConfig(b, k)
      PROVE  CheckpointIsAvailable'
  BY <1>9, NoneAssumption DEF UpdateMetricsConfig, TypeOK, Request, Row,
      Locations, DraftInv, KeyInv, CheckpointIsAvailable, Holding, Ended
<1> QED BY <1>1, <1>2, <1>3, <1>4, <1>5, <1>6, <1>7, <1>8, <1>9 DEF Next,
    Progress

\* The initial states satisfy the inductive invariant.
LEMMA InitialStates == Init => IInv
BY DEF Init, IInv, TypeOK, Locations, Ended, Holding, DraftInv, KeyInv,
    OneBatchPerKey, AnswerIsOwnBatch, CheckpointIsAvailable

\* Every step keeps the inductive invariant.
LEMMA InvariantStep == IInv /\ [Next]_vars => IInv'
BY TypeStep, DraftStep, KeyStep, RowsStep, AnswerStep, CheckpointStep
    DEF IInv

\* The inductive invariant holds in every reachable state.
THEOREM Invariance == Spec => []IInv
BY InitialStates, InvariantStep, PTL DEF Spec

\* Every variable keeps its type.
THEOREM TypeCorrect == Spec => []TypeOK
<1>1. IInv => TypeOK
  BY DEF IInv
<1> QED BY <1>1, Invariance, PTL

\* At most one batch per Idempotency-Key.
THEOREM KeysAreUnique == Spec => []OneBatchPerKey
<1>1. IInv => OneBatchPerKey
  BY DEF IInv
<1> QED BY <1>1, Invariance, PTL

\* Every answer names the batch its own request created.
THEOREM AnswersAreOwn == Spec => []AnswerIsOwnBatch
<1>1. IInv => AnswerIsOwnBatch
  BY DEF IInv
<1> QED BY <1>1, Invariance, PTL

\* The answer "creation checkpoint unavailable" is never given.
THEOREM CheckpointsAreAvailable == Spec => []CheckpointIsAvailable
<1>1. IInv => CheckpointIsAvailable
  BY DEF IInv
<1> QED BY <1>1, Invariance, PTL

\* Batches are created with the current configuration and stay.
THEOREM BatchesHaveCurrentConfig == Spec => BatchHasCurrentConfig
<1>1. IInv /\ [Next]_vars => [CreatesCurrent]_vars
  <2> SUFFICES ASSUME IInv, Next PROVE CreatesCurrent
    OBVIOUS
  <2>1. ASSUME NEW c \in Call, Commit(c) PROVE CreatesCurrent
    BY <2>1 DEF IInv, TypeOK, DraftInv, Holding, Commit, CreatesCurrent
  <2>2. CASE UNCHANGED batches
    BY <2>2 DEF CreatesCurrent
  <2> QED BY <2>1, <2>2 DEF Next, Progress, Begin, Lookup, LockBranch, Insert,
          Retry, Rollback, UpdateMetricsConfig, AnswerPrevious, ReadBranch
<1> QED BY <1>1, Invariance, PTL DEF Spec, BatchHasCurrentConfig
=============================================================================
