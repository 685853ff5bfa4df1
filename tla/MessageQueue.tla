---------------------------- MODULE MessageQueue ----------------------------
(***************************************************************************)
(* What the actor layer promises a sender: each actor has one first-in     *)
(* first-out queue.  A message put into it is handed over exactly once, in *)
(* the order of the puts, and nothing else is ever handed over.            *)
(***************************************************************************)
EXTENDS Sequences

CONSTANTS Actor, Msg

VARIABLES
    queue,   \* accepted, not yet consumed
    got      \* consumed so far

mqVars == <<queue, got>>

MQInit ==
    /\ queue = [a \in Actor |-> <<>>]
    /\ got = [a \in Actor |-> <<>>]

Put(a, m) ==
    /\ queue' = [queue EXCEPT ![a] = Append(@, m)]
    /\ UNCHANGED got

Get(a) ==
    /\ queue[a] # <<>>
    /\ got' = [got EXCEPT ![a] = Append(@, Head(queue[a]))]
    /\ queue' = [queue EXCEPT ![a] = Tail(@)]

MQNext == \E a \in Actor : Get(a) \/ \E m \in Msg : Put(a, m)

MQSpec == MQInit /\ [][MQNext]_mqVars
=============================================================================
