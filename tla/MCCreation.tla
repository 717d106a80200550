----------------------------- MODULE MCCreation -----------------------------
(***************************************************************************)
(* Small instances of Creation for TLC.  Branches, names and               *)
(* configurations are interchangeable, and so are calls.                   *)
(***************************************************************************)
EXTENDS Creation, TLC

Symmetry == Permutations(Call) \cup Permutations(Branch) \cup
            Permutations(Name) \cup Permutations(Config)
=============================================================================
