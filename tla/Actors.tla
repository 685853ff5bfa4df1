------------------------------- MODULE Actors -------------------------------
(***************************************************************************)
(* The actor runtimes of State: a router queue (pending) and a bounded     *)
(* mailbox per actor, the blocked_on edge, and the steps that touch them.  *)
(* Senders, the router, the receivers and whoever blocks and unblocks      *)
(* actors interleave freely.                                               *)
(***************************************************************************)
EXTENDS Naturals, Sequences

CONSTANTS
    Actor,        \* ActorId; an actor has the id of its plugin
    Msg,          \* message contents
    Registered,   \* the actors whose plugin is registered
    Capacity,     \* the mailbox capacities in use
    NoActor,      \* None of blocked_on
    MaxMsgs       \* bound: messages sent to one actor

ASSUME ActorsAssumption ==
    /\ Registered \subseteq Actor
    /\ Capacity \subseteq Nat
    /\ NoActor \notin Actor
    /\ MaxMsgs \in Nat

VARIABLES
    actors,    \* the ids present in State.actors
    capacity,  \* ActorRuntime.capacity
    pending,   \* ActorRuntime.pending
    mailbox,   \* ActorRuntime.mailbox
    blocked,   \* ActorRuntime.blocked_on
    consumed   \* history: what consume handed out

actorVars == <<actors, capacity, pending, mailbox, blocked, consumed>>

-----------------------------------------------------------------------------
ActorsInit ==
    /\ actors = {}
    /\ capacity = [a \in Actor |-> 0]
    /\ pending = [a \in Actor |-> <<>>]
    /\ mailbox = [a \in Actor |-> <<>>]
    /\ blocked = [a \in Actor |-> NoActor]
    /\ consumed = [a \in Actor |-> <<>>]

\* Mutant: room for one message more than asked for.
InsertActorSpareSlot(a, c) ==
    /\ a \notin actors
    /\ actors' = actors \union {a}
    /\ capacity' = [capacity EXCEPT ![a] = c + 1]
    /\ UNCHANGED <<pending, mailbox, blocked, consumed>>

\* State::insert_actor of ActorRuntime::empty(c); a collision is an error.
InsertActor(a, c) ==
    /\ a \notin actors
    /\ actors' = actors \union {a}
    /\ capacity' = [capacity EXCEPT ![a] = c]
    /\ UNCHANGED <<pending, mailbox, blocked, consumed>>

\* ActorRuntime::enqueue_pending and enqueue_pending_mut: no bound applies.
EnqueuePending(a, m) ==
    /\ a \in actors
    /\ Len(consumed[a]) + Len(mailbox[a]) + Len(pending[a]) < MaxMsgs
    /\ pending' = [pending EXCEPT ![a] = Append(@, m)]
    /\ UNCHANGED <<actors, capacity, mailbox, blocked, consumed>>

\* Mutant: the message is pushed to the front of the mailbox.
DeliverFront(a) ==
    /\ mailbox' = [mailbox EXCEPT ![a] = <<Head(pending[a])>> \o @]
    /\ pending' = [pending EXCEPT ![a] = Tail(@)]

\* ActorRuntime::deliver_mut, on a non-empty queue and a mailbox with space.
Deliver(a) ==
    /\ mailbox' = [mailbox EXCEPT ![a] = Append(@, Head(pending[a]))]
    /\ pending' = [pending EXCEPT ![a] = Tail(@)]

\* Mutant: an off-by-one in the capacity check.
MailboxHasSpaceOffByOne(a) == Len(mailbox[a]) <= capacity[a]

\* ActorRuntime::mailbox_has_space
MailboxHasSpace(a) == Len(mailbox[a]) < capacity[a]

\* KernelOp::RouteOne; NoPendingMessages and MailboxAtCapacity are errors.
\* It does not look at blocked_on.
RouteOne(a) ==
    /\ a \in actors
    /\ pending[a] # <<>>
    /\ MailboxHasSpace(a)
    /\ Deliver(a)
    /\ UNCHANGED <<actors, capacity, blocked, consumed>>

\* PluginInternal::check_preconditions without the memory regions: the plugin
\* is registered and its actor, if it has one, is not blocked.
PluginMayRun(a) == a \in Registered /\ blocked[a] = NoActor

\* A plugin_internal step with consume_mailbox; MailboxEmpty is an error.
Consume(a) ==
    /\ a \in actors
    /\ PluginMayRun(a)
    /\ mailbox[a] # <<>>
    /\ consumed' = [consumed EXCEPT ![a] = Append(@, Head(mailbox[a]))]
    /\ mailbox' = [mailbox EXCEPT ![a] = Tail(@)]
    /\ UNCHANGED <<actors, capacity, pending, blocked>>

\* ActorRuntime::set_blocked and set_blocked_mut, on any actor, itself included.
SetBlocked(a, b) ==
    /\ a \in actors
    /\ blocked' = [blocked EXCEPT ![a] = b]
    /\ UNCHANGED <<actors, capacity, pending, mailbox, consumed>>

\* Mutant: only a wait for another actor is cleared.
UnblockSendOthers(a) ==
    /\ a \in actors
    /\ blocked[a] # a
    /\ blocked' = [blocked EXCEPT ![a] = NoActor]
    /\ UNCHANGED <<actors, capacity, pending, mailbox, consumed>>

\* KernelOp::UnblockSend: unconditional.
UnblockSend(a) ==
    /\ a \in actors
    /\ blocked' = [blocked EXCEPT ![a] = NoActor]
    /\ UNCHANGED <<actors, capacity, pending, mailbox, consumed>>

ActorsNext ==
    \E a \in Actor :
        \/ \E c \in Capacity : InsertActor(a, c)
        \/ \E m \in Msg : EnqueuePending(a, m)
        \/ RouteOne(a)
        \/ Consume(a)
        \/ \E b \in Actor : SetBlocked(a, b)
        \/ UnblockSend(a)

ActorsSpec == ActorsInit /\ [][ActorsNext]_actorVars

\* The driver keeps routing and unblocking, and a receiver that is runnable
\* again and again takes its step.  Senders and blockers owe nothing.
ActorsFairness ==
    \A a \in Actor :
        /\ WF_actorVars(RouteOne(a))
        /\ WF_actorVars(UnblockSend(a))
        /\ SF_actorVars(Consume(a))

ActorsFairSpec == ActorsSpec /\ ActorsFairness

-----------------------------------------------------------------------------
ActorsTypeOK ==
    /\ actors \subseteq Actor
    /\ capacity \in [Actor -> Capacity \union {0}]
    /\ pending \in [Actor -> Seq(Msg)]
    /\ mailbox \in [Actor -> Seq(Msg)]
    /\ blocked \in [Actor -> Actor \union {NoActor}]
    /\ consumed \in [Actor -> Seq(Msg)]

\* A mailbox never holds more than its capacity, whatever the order of
\* deliveries and consumption; an actor of capacity 0 receives nothing.
MailboxBounded == \A a \in Actor : Len(mailbox[a]) <= capacity[a]

\* The two queues of an actor, read mailbox first, are one FIFO queue.
Queue == [a \in Actor |-> mailbox[a] \o pending[a]]

Promise == INSTANCE MessageQueue WITH queue <- Queue, got <- consumed

\* Routing, back-pressure, blocking and late registration neither lose nor
\* duplicate nor reorder a message: the runtime implements MessageQueue.
RefinesMessageQueue == Promise!MQSpec

\* The k-th message sent to a registered actor with room for at least one
\* message is consumed eventually, although the actor may be blocked again
\* and again.
EventuallyConsumed ==
    \A a \in Registered : \A k \in 1..MaxMsgs :
        (capacity[a] > 0 /\ Len(Queue[a]) + Len(consumed[a]) >= k)
            ~> Len(consumed[a]) >= k
=============================================================================
