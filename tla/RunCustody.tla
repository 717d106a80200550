----------------------------- MODULE RunCustody -----------------------------
(***************************************************************************)
(* What the run owner promises, without deadlines, Fibers, retries and     *)
(* reports: a run ID belongs to one run at a time; callbacks of a run work *)
(* one at a time and only before its evidence is exported; nothing of a    *)
(* run is destroyed before the export; and the ID of a run that did any    *)
(* work is freed only after its resources were destroyed.                  *)
(***************************************************************************)
CONSTANTS Run, RunId

VARIABLES
  owns,   \* pairs <<id, run>>: the reservations
  stage,  \* how far each run has come
  busy    \* runs with a callback at work

custodyVars == <<owns, stage, busy>>

CustodyInit ==
  /\ owns = {}
  /\ stage = [r \in Run |-> "new"]
  /\ busy = {}

Becomes(r, from, to) ==
  /\ stage[r] = from
  /\ stage' = [stage EXCEPT ![r] = to]

Reserve(r, id) ==
  /\ \A s \in Run : <<id, s>> \notin owns
  /\ owns' = owns \cup {<<id, r>>}
  /\ Becomes(r, "new", "reserved")
  /\ UNCHANGED busy

Reject(r) == Becomes(r, "new", "refused") /\ UNCHANGED <<owns, busy>>

\* Admission fails: the ID is free again.
GiveUp(r, id) ==
  /\ owns' = owns \ {<<id, r>>}
  /\ Becomes(r, "reserved", "refused")
  /\ UNCHANGED busy

\* The host goes away during admission: the ID stays taken.
Abandon(r) == Becomes(r, "reserved", "refused") /\ UNCHANGED <<owns, busy>>

Admit(r) == Becomes(r, "reserved", "working") /\ UNCHANGED <<owns, busy>>

Work(r) ==
  /\ stage[r] = "working" /\ r \notin busy
  /\ busy' = busy \cup {r}
  /\ UNCHANGED <<owns, stage>>

StopWork(r) ==
  /\ r \in busy
  /\ busy' = busy \ {r}
  /\ UNCHANGED <<owns, stage>>

ExportEvidence(r) ==
  /\ r \notin busy
  /\ Becomes(r, "working", "exported")
  /\ UNCHANGED <<owns, busy>>

Destroy(r) == Becomes(r, "exported", "destroyed") /\ UNCHANGED <<owns, busy>>

Release(r, id) ==
  /\ stage[r] = "destroyed" /\ <<id, r>> \in owns
  /\ owns' = owns \ {<<id, r>>}
  /\ UNCHANGED <<stage, busy>>

CustodyNext ==
  \E r \in Run :
    \/ Reject(r) \/ Abandon(r) \/ Admit(r) \/ Work(r) \/ StopWork(r)
    \/ ExportEvidence(r) \/ Destroy(r)
    \/ \E id \in RunId : Reserve(r, id) \/ GiveUp(r, id) \/ Release(r, id)

CustodySpec == CustodyInit /\ [][CustodyNext]_custodyVars
=============================================================================
