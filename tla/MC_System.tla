------------------------------ MODULE MC_System ------------------------------
(* Instance of System for model checking: plugin 1 is Public, plugin 2 is     *)
(* Confidential; an empty region at the end of the memory of two bytes and a  *)
(* region whose end overflows.                                                *)
EXTENDS System

BootLevels == [p \in PluginId |-> IF p = 1 THEN 0 ELSE 2]
AllOrSend == {Right, {"Send"}}
SomeRegions == {<<2, 0>>, <<1, MaxWord>>}
=============================================================================
