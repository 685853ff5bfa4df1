----------------------------- MODULE MC_Workflow -----------------------------
(* Instances of Workflow for model checking.                                 *)
EXTENDS Workflow
=============================================================================
