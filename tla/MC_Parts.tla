------------------------------ MODULE MC_Parts ------------------------------
(* The actor runtimes and the data types side by side.  They share no state, *)
(* so each behaviour exercises one of them and leaves the others in one      *)
(* initial state.  The fairness of Actors demands nothing of the other       *)
(* behaviours: without an actor none of its fair actions is enabled.         *)
EXTENDS Actors, Rights, LinearMemory, Keys, Policy

VARIABLE part

partsVars == <<actorVars, rightsVars, memoryVars, keyVars, policyVars, part>>

PartsInit ==
    /\ ActorsInit /\ RightsInit /\ MemoryInit /\ KeysInit /\ PolicyInit
    /\ part \in {"actors", "rights", "memory", "keys", "policy"}
    /\ part # "memory" => bounds = 0
    /\ part # "keys" => current = CHOOSE k \in Key : TRUE

PartsNext ==
    /\ \/ /\ part = "actors" /\ ActorsNext
          /\ UNCHANGED <<rightsVars, memoryVars, keyVars, policyVars>>
       \/ /\ part = "rights" /\ RightsNext
          /\ UNCHANGED <<actorVars, memoryVars, keyVars, policyVars>>
       \/ /\ part = "memory" /\ MemoryNext
          /\ UNCHANGED <<actorVars, rightsVars, keyVars, policyVars>>
       \/ /\ part = "keys" /\ KeysNext
          /\ UNCHANGED <<actorVars, rightsVars, memoryVars, policyVars>>
       \/ /\ part = "policy" /\ PolicyNext
          /\ UNCHANGED <<actorVars, rightsVars, memoryVars, keyVars>>
    /\ UNCHANGED part

PartsSpec == PartsInit /\ [][PartsNext]_partsVars /\ ActorsFairness
==============================================================================
