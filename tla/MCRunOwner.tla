----------------------------- MODULE MCRunOwner -----------------------------
(***************************************************************************)
(* Small instances of RunOwner for TLC.  Runs, run IDs and resources are   *)
(* interchangeable, so safety is checked up to their permutations.         *)
(***************************************************************************)
EXTENDS RunOwner, TLC

Symmetry == Permutations(Run) \cup Permutations(RunId) \cup
            Permutations(Resource)

\* Logged errors only change the status a report gives, never what happens
\* to run IDs: the instance with several runs leaves them out.
NoLoggedErrors == captured = {}
=============================================================================
