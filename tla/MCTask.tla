------------------------------- MODULE MCTask -------------------------------
(* Task for TLC. *)
EXTENDS Task, TLC

Symmetry == Permutations(Slots \ {Main})
=============================================================================
