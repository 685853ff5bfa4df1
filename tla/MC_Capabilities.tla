-------------------------- MODULE MC_Capabilities --------------------------
(* Model-checking instance of the capability table. *)
EXTENDS Capabilities, TLC

Symm == Permutations(Right)
=============================================================================
