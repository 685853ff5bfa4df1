------------------------------ MODULE MC_Kernel ------------------------------
(* Instances of Kernel for model checking.                                   *)
EXTENDS Kernel
=============================================================================
