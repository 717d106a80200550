------------------------------ MODULE Creation ------------------------------
(***************************************************************************)
(* Creation of batches in the external-test API: Domain.createBatch with   *)
(* its Idempotency-Key and Domain.updateMetricsConfig (api/src/domain.ts)  *)
(* on the unique index batch_creation_key (api/sql/003-...sql).            *)
(*                                                                         *)
(* Transactions run at PostgreSQL's default level READ COMMITTED: every    *)
(* statement sees what was committed before it, SELECT ... FOR UPDATE      *)
(* waits for the row's lock and reads the newest row, and an INSERT ... ON *)
(* CONFLICT waits for a transaction that has inserted the same key.  One   *)
(* step is one statement; all calls are of one principal and project.      *)
(***************************************************************************)
CONSTANTS
  Call,     \* calls of createBatch, retries included
  Key,      \* Idempotency-Keys
  Branch,   \* branches of the project
  Name,     \* the rest of a creation request: batch name and version
  Config,   \* metrics configurations (a snapshot is found by its digest)
  None

ASSUME NoneAssumption == None \notin Call \cup Key \cup Branch \cup Config

VARIABLES
  config,   \* branches.config_snapshot_id
  batches,  \* committed rows of api.batches
  locked,   \* external: the transaction that holds a branch row
  pc,       \* where a call is
  req,      \* its request
  draft,    \* the row its transaction has inserted
  answer    \* the row its answer names

callVars == <<req, draft, answer>>
vars == <<config, batches, locked, pc, callVars>>

Request == [key : Key \cup {None}, branch : Branch, name : Name]
Row == [by : Call, key : Key \cup {None}, branch : Branch, name : Name,
        config : Config \cup {None}]

\* Answers: "answered", 409 ("conflict"), 503 ("unavailable"), or none
\* because the call was cut off ("lost").
Ended == {"answered", "conflict", "unavailable", "lost"}
Locations == {"idle", "lookup", "lock", "insert", "commit", "retry"} \cup Ended

TypeOK ==
  /\ config \in [Branch -> Config \cup {None}]
  /\ batches \in SUBSET Row
  /\ locked \in [Branch -> Call \cup {None}]
  /\ pc \in [Call -> Locations]
  /\ req \in [Call -> Request]
  /\ draft \in [Call -> Row \cup {None}]
  /\ answer \in [Call -> Row \cup {None}]

Init ==
  /\ config = [b \in Branch |-> None]
  /\ batches = {}
  /\ locked = [b \in Branch |-> None]
  /\ pc = [c \in Call |-> "idle"]
  /\ req \in [Call -> Request]
  /\ draft = [c \in Call |-> None]
  /\ answer = [c \in Call |-> None]

\* creationFingerprint: the digest of the request without its key.
SameFingerprint(x, y) == x.branch = y.branch /\ x.name = y.name

\* The rows a SELECT by the key of the call finds among rows.
Previous(c, rows) == {x \in rows : req[c].key # None /\ x.key = req[c].key}

Goto(c, l) == pc' = [pc EXCEPT ![c] = l]

KeepLocks(c) ==
  /\ UNCHANGED locked
  /\ draft' = [draft EXCEPT ![c] = None]

\* The transaction of c is over: its row lock and its uncommitted row go.
EndTransaction(c) ==
  /\ locked' = [b \in Branch |-> IF locked[b] = c THEN None ELSE locked[b]]
  /\ draft' = [draft EXCEPT ![c] = None]

AnswerAnyPrevious(c, x) ==
  /\ Goto(c, "answered")
  /\ answer' = [answer EXCEPT ![c] = x]
  /\ EndTransaction(c)
  /\ UNCHANGED <<config, batches, req>>

\* The answer for a key that has a row: that row, if it was created by the
\* same request.
AnswerPrevious(c, x) ==
  /\ \/ /\ SameFingerprint(x, req[c])
        /\ Goto(c, "answered")
        /\ answer' = [answer EXCEPT ![c] = x]
     \/ /\ ~SameFingerprint(x, req[c])
        /\ Goto(c, "conflict")
        /\ UNCHANGED answer
  /\ EndTransaction(c)
  /\ UNCHANGED <<config, batches, req>>
-----------------------------------------------------------------------------
(***************************************************************************)
(* createBatch.                                                            *)
(***************************************************************************)

Begin(c) ==
  /\ pc[c] = "idle"
  /\ Goto(c, "lookup")
  /\ UNCHANGED <<config, batches, locked, callVars>>

\* The first SELECT by key.
Lookup(c) ==
  /\ pc[c] = "lookup"
  /\ \/ \E x \in Previous(c, batches) : AnswerPrevious(c, x)
     \/ /\ Previous(c, batches) = {}
        /\ Goto(c, "lock")
        /\ UNCHANGED <<config, batches, locked, callVars>>

ReadBranch(c) ==
  /\ pc[c] = "lock"
  /\ draft' = [draft EXCEPT ![c] =
       [by |-> c, key |-> req[c].key, branch |-> req[c].branch,
        name |-> req[c].name, config |-> config[req[c].branch]]]
  /\ Goto(c, "insert")
  /\ UNCHANGED <<config, batches, req, answer>>

ReadBranchUnlocked(c) == ReadBranch(c) /\ UNCHANGED locked

\* SELECT config_snapshot_id ... FOR UPDATE; the row to insert is known.
LockBranch(c) ==
  /\ ReadBranch(c)
  /\ locked[req[c].branch] = None
  /\ locked' = [locked EXCEPT ![req[c].branch] = c]

\* The key is in a row another transaction has inserted and not committed.
Waits(c) ==
  \E d \in Call \ {c} :
    pc[d] = "commit" /\ req[c].key # None /\ req[d].key = req[c].key

InsertDuplicate(c) ==
  /\ pc[c] = "insert"
  /\ Goto(c, "commit")
  /\ UNCHANGED <<config, batches, locked, callVars>>

\* INSERT ... ON CONFLICT DO NOTHING: nothing is inserted if the key is in a
\* committed row.
Insert(c) ==
  /\ pc[c] = "insert" /\ ~Waits(c)
  /\ Goto(c, IF Previous(c, batches) = {} THEN "commit" ELSE "retry")
  /\ UNCHANGED <<config, batches, locked, callVars>>

Commit(c) ==
  /\ pc[c] = "commit"
  /\ batches' = batches \cup {draft[c]}
  /\ \/ Goto(c, "answered") /\ answer' = [answer EXCEPT ![c] = draft[c]]
     \/ Goto(c, "lost") /\ UNCHANGED answer
  /\ EndTransaction(c)
  /\ UNCHANGED <<config, req>>

\* The second SELECT by key, and 'creation checkpoint unavailable; retry the
\* same key' if it finds nothing.
Retry(c) ==
  /\ pc[c] = "retry"
  /\ \/ \E x \in Previous(c, batches) : AnswerPrevious(c, x)
     \/ /\ Previous(c, batches) = {}
        /\ Goto(c, "unavailable")
        /\ EndTransaction(c)
        /\ UNCHANGED <<config, batches, req, answer>>

\* The connection is lost, a lock times out or the server dies: rollback.
Rollback(c) ==
  /\ pc[c] \notin Ended \cup {"idle"}
  /\ Goto(c, "lost")
  /\ EndTransaction(c)
  /\ UNCHANGED <<config, batches, req, answer>>

\* updateMetricsConfig: one transaction under the lock of the branch row.
UpdateMetricsConfig(b, k) ==
  /\ locked[b] = None
  /\ config' = [config EXCEPT ![b] = k]
  /\ UNCHANGED <<batches, locked, pc, callVars>>
-----------------------------------------------------------------------------
Progress(c) == Lookup(c) \/ LockBranch(c) \/ Insert(c) \/ Commit(c) \/ Retry(c)

Next ==
  \/ \E c \in Call : Begin(c) \/ Progress(c) \/ Rollback(c)
  \/ \E b \in Branch, k \in Config : UpdateMetricsConfig(b, k)

Spec == Init /\ [][Next]_vars

\* PostgreSQL grants a row lock to a waiting transaction at some time (it
\* queues them), and the server runs the statements of a call.
FairSpec ==
  Spec /\ \A c \in Call : WF_vars(Progress(c)) /\ SF_vars(LockBranch(c))
-----------------------------------------------------------------------------
(***************************************************************************)
(* Properties.                                                             *)
(***************************************************************************)

\* createBatch: however calls with one Idempotency-Key overlap and are cut
\* off, at most one batch is created for the key.
OneBatchPerKey ==
  \A x, y \in batches : x.key # None /\ x.key = y.key => x = y

\* An answer names a committed batch that was created by the same request;
\* with OneBatchPerKey, all answers to a repeated request name one batch.
AnswerIsOwnBatch ==
  \A c \in Call : pc[c] = "answered" =>
    /\ answer[c] \in batches
    /\ answer[c].key = req[c].key /\ SameFingerprint(answer[c], req[c])

\* The answer 503 of the second lookup is never given: an INSERT that met a
\* conflict is followed by a SELECT that sees the row.
CheckpointIsAvailable == \A c \in Call : pc[c] # "unavailable"

\* A batch is created with the metrics configuration its branch has at that
\* moment, and no batch changes or disappears afterwards.
CreatesCurrent ==
  /\ batches \subseteq batches'
  /\ \A x \in batches' \ batches : x.config = config[x.branch]

BatchHasCurrentConfig == [][CreatesCurrent]_vars

\* Calls never wait for each other for ever, over branch locks or keys.
CreationEnds ==
  \A c \in Call : pc[c] = "lookup" ~> pc[c] \in Ended
=============================================================================
