----------------------------- MODULE MCCustody ------------------------------
(***************************************************************************)
(* Small instances of Custody for TLC.  Closers, jobs and claims are       *)
(* interchangeable; uploads are ordered and are not.                       *)
(***************************************************************************)
EXTENDS Custody, TLC

Symmetry == Permutations(Job) \cup Permutations(Closer) \cup
            Permutations(Status)
=============================================================================
