------------------------------- MODULE MCFat --------------------------------
(* The names differ in nothing but their identity; those that are clipped, or
   stored by another system, are told apart, and such runs use no symmetry.  *)
EXTENDS Fat, TLC

ASSUME FatOK

Symmetry == Permutations(Names)
=============================================================================
