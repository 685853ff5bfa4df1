---------------------------- MODULE MC_KernelCore ----------------------------
(* Instance of KernelCore for model checking. *)
EXTENDS KernelCore, TLC

Symm == Permutations(Key) \cup Permutations(Right)
=============================================================================
