---------------------------- MODULE ActorsProofs ----------------------------
(***************************************************************************)
(* The actor runtimes implement the FIFO queues of MessageQueue and never  *)
(* overfill a mailbox, for any actors, messages, capacities and number of  *)
(* sends.                                                                  *)
(***************************************************************************)
EXTENDS Actors, SequenceTheorems, TLAPS

\* An id that is not in the actor table has an empty mailbox.
AbsentIsEmpty == \A a \in Actor : a \notin actors => mailbox[a] = <<>>

ActorsInv == ActorsTypeOK /\ AbsentIsEmpty /\ MailboxBounded

-----------------------------------------------------------------------------
(* Moving the split point of a concatenation *)

LEMMA DeliverKeepsConcat ==
    ASSUME NEW S, NEW s \in Seq(S), NEW t \in Seq(S), t # <<>>
    PROVE  Append(s, Head(t)) \o Tail(t) = s \o t
<1> DEFINE u == Append(s, Head(t)) \o Tail(t)
           v == s \o t
<1>1. Head(t) \in S /\ Tail(t) \in Seq(S) /\ Len(Tail(t)) = Len(t) - 1
    BY HeadTailProperties
<1>2. Append(s, Head(t)) \in Seq(S) /\ Len(Append(s, Head(t))) = Len(s) + 1
    BY <1>1, AppendProperties
<1>3. u \in Seq(S) /\ v \in Seq(S)
    BY <1>1, <1>2, ConcatProperties
<1>4. Len(s) \in Nat /\ Len(t) \in Nat /\ Len(t) > 0
    BY LenProperties, EmptySeq
<1>5. Len(u) = Len(v) /\ Len(v) = Len(s) + Len(t)
    BY <1>1, <1>2, <1>4, ConcatProperties
<1>6. ASSUME NEW i \in 1..Len(u) PROVE u[i] = v[i]
    <2>1. i \in 1..(Len(s) + Len(t))
        BY <1>5
    <2>2. v[i] = IF i <= Len(s) THEN s[i] ELSE t[i - Len(s)]
        BY <2>1, ConcatProperties
    <2>3. u[i] = IF i <= Len(s) + 1 THEN Append(s, Head(t))[i] ELSE Tail(t)[i - (Len(s) + 1)]
        BY <1>1, <1>2, <1>4, <2>1, ConcatProperties
    <2>4. CASE i <= Len(s)
        BY <1>1, <1>4, <2>1, <2>2, <2>3, <2>4, AppendProperties
    <2>5. CASE i = Len(s) + 1
        <3>1. u[i] = Head(t)
            BY <1>1, <1>4, <2>3, <2>5, AppendProperties
        <3>2. v[i] = t[1]
            BY <1>4, <2>2, <2>5
        <3> QED
            BY <3>1, <3>2
    <2>6. CASE i > Len(s) + 1
        <3>1. i - (Len(s) + 1) \in 1..Len(Tail(t))
            BY <1>1, <1>4, <2>1, <2>6
        <3>2. Tail(t)[i - (Len(s) + 1)] = t[(i - (Len(s) + 1)) + 1]
            BY <3>1, HeadTailProperties
        <3>3. (i - (Len(s) + 1)) + 1 = i - Len(s)
            BY <1>4, <2>1
        <3> QED
            BY <1>4, <2>1, <2>2, <2>3, <2>6, <3>2, <3>3
    <2> QED
        BY <1>4, <2>1, <2>4, <2>5, <2>6
<1> QED
    BY <1>3, <1>5, <1>6, SeqEqual

LEMMA AppendKeepsConcat ==
    ASSUME NEW S, NEW s \in Seq(S), NEW t \in Seq(S), NEW m \in S
    PROVE  s \o Append(t, m) = Append(s \o t, m)
<1>1. <<m>> \in Seq(S)
    OBVIOUS
<1>2. s \o (t \o <<m>>) = (s \o t) \o <<m>>
    BY <1>1, ConcatAssociative
<1>3. s \o t \in Seq(S)
    BY ConcatProperties
<1> QED
    BY <1>2, <1>3, AppendIsConcat

LEMMA ConsumeKeepsConcat ==
    ASSUME NEW S, NEW s \in Seq(S), NEW t \in Seq(S), s # <<>>
    PROVE  /\ s \o t # <<>>
           /\ Head(s \o t) = Head(s)
           /\ Tail(s \o t) = Tail(s) \o t
<1>1. Head(s) \in S /\ Tail(s) \in Seq(S) /\ Len(Tail(s)) = Len(s) - 1
    BY HeadTailProperties
<1>2. Len(s) \in Nat /\ Len(t) \in Nat /\ Len(s) > 0
    BY LenProperties, EmptySeq
<1>3. s \o t \in Seq(S) /\ Len(s \o t) = Len(s) + Len(t)
    BY ConcatProperties
<1>4. s \o t # <<>>
    BY ConcatEqualIffEmpty
<1>5. (s \o t)[1] = s[1]
    BY <1>2, ConcatProperties
<1>6. Head(s \o t) = Head(s)
    BY <1>5
<1> DEFINE u == Tail(s \o t)
           v == Tail(s) \o t
<1>7. u \in Seq(S) /\ Len(u) = Len(s) + Len(t) - 1
    BY <1>3, <1>4, HeadTailProperties
<1>8. v \in Seq(S) /\ Len(v) = Len(s) - 1 + Len(t)
    BY <1>1, ConcatProperties
<1>9. ASSUME NEW i \in 1..Len(u) PROVE u[i] = v[i]
    <2>1. u[i] = (s \o t)[i + 1]
        BY <1>3, <1>4, HeadTailProperties
    <2>2. i + 1 \in 1..(Len(s) + Len(t)) /\ i \in 1..(Len(Tail(s)) + Len(t))
        BY <1>1, <1>2, <1>7
    <2>3. (s \o t)[i + 1] = IF i + 1 <= Len(s) THEN s[i + 1] ELSE t[i + 1 - Len(s)]
        BY <2>2, ConcatProperties
    <2>4. v[i] = IF i <= Len(Tail(s)) THEN Tail(s)[i] ELSE t[i - Len(Tail(s))]
        BY <1>1, <2>2, ConcatProperties
    <2>5. CASE i <= Len(Tail(s))
        <3>1. Tail(s)[i] = s[i + 1]
            BY <1>1, <1>2, <2>2, <2>5, HeadTailProperties
        <3> QED
            BY <1>1, <1>2, <2>1, <2>2, <2>3, <2>4, <2>5, <3>1
    <2>6. CASE i > Len(Tail(s))
        <3>1. i - Len(Tail(s)) = i + 1 - Len(s)
            BY <1>1, <1>2, <2>2
        <3> QED
            BY <1>1, <1>2, <2>1, <2>2, <2>3, <2>4, <2>6, <3>1
    <2> QED
        BY <1>1, <1>2, <2>2, <2>5, <2>6
<1>10. u = v
    BY <1>2, <1>7, <1>8, <1>9, SeqEqual
<1> QED
    BY <1>4, <1>6, <1>10

-----------------------------------------------------------------------------
(* The invariant *)

LEMMA ActorsInitInv == ActorsInit => ActorsInv
<1> SUFFICES ASSUME ActorsInit PROVE ActorsInv
    OBVIOUS
<1>1. ActorsTypeOK
    BY ActorsAssumption DEF ActorsInit, ActorsTypeOK
<1>2. AbsentIsEmpty /\ MailboxBounded
    BY EmptySeq DEF ActorsInit, AbsentIsEmpty, MailboxBounded
<1> QED
    BY <1>1, <1>2 DEF ActorsInv

\* The types of one actor's entries.
LEMMA EntryTypes ==
    ASSUME ActorsTypeOK, NEW a \in Actor
    PROVE  /\ pending[a] \in Seq(Msg) /\ mailbox[a] \in Seq(Msg)
           /\ consumed[a] \in Seq(Msg)
           /\ capacity[a] \in Nat
           /\ Len(mailbox[a]) \in Nat
<1>1. pending[a] \in Seq(Msg) /\ mailbox[a] \in Seq(Msg) /\ consumed[a] \in Seq(Msg)
    BY DEF ActorsTypeOK
<1>2. capacity[a] \in Nat
    <2>1. capacity \in [Actor -> Capacity \union {0}]
        BY DEF ActorsTypeOK
    <2>2. capacity[a] \in Capacity \union {0}
        BY <2>1
    <2>3. \A c \in Capacity : c \in Nat
        BY ActorsAssumption
    <2>4. CASE capacity[a] = 0
        BY <2>4
    <2>5. CASE capacity[a] \in Capacity
        BY <2>3, <2>5
    <2> QED
        BY <2>2, <2>4, <2>5
<1>3. Len(mailbox[a]) \in Nat
    BY <1>1, LenProperties
<1> QED
    BY <1>1, <1>2, <1>3

\* Insertion, sending, routing, consumption and blocking preserve it.
LEMMA ActorsStepInv == ActorsInv /\ [ActorsNext]_actorVars => ActorsInv'
<1> SUFFICES ASSUME ActorsInv, [ActorsNext]_actorVars PROVE ActorsInv'
    OBVIOUS
<1> USE DEF ActorsInv
<1>1. ASSUME NEW a \in Actor, NEW c \in Capacity, InsertActor(a, c) PROVE ActorsInv'
    <2>1. ActorsTypeOK'
        BY <1>1 DEF InsertActor, ActorsTypeOK
    <2>2. AbsentIsEmpty'
        BY <1>1 DEF InsertActor, AbsentIsEmpty
    <2>3. MailboxBounded'
        <3>1. Len(mailbox[a]) = 0 /\ c \in Nat
            BY <1>1, EmptySeq, ActorsAssumption DEF InsertActor, AbsentIsEmpty
        <3> QED
            BY <1>1, <3>1 DEF InsertActor, MailboxBounded, ActorsTypeOK
    <2> QED
        BY <2>1, <2>2, <2>3
<1>2. ASSUME NEW a \in Actor, NEW m \in Msg, EnqueuePending(a, m) PROVE ActorsInv'
    <2>1. Append(pending[a], m) \in Seq(Msg)
        BY EntryTypes, AppendProperties
    <2> QED
        BY <1>2, <2>1 DEF EnqueuePending, ActorsTypeOK, AbsentIsEmpty, MailboxBounded
<1>3. ASSUME NEW a \in Actor, RouteOne(a) PROVE ActorsInv'
    <2>1. /\ pending[a] \in Seq(Msg) /\ pending[a] # <<>> /\ mailbox[a] \in Seq(Msg)
          /\ Len(mailbox[a]) \in Nat /\ capacity[a] \in Nat /\ Len(mailbox[a]) < capacity[a]
        BY <1>3, EntryTypes DEF RouteOne, MailboxHasSpace
    <2>2. Head(pending[a]) \in Msg /\ Tail(pending[a]) \in Seq(Msg)
        BY <2>1, HeadTailProperties
    <2>3. /\ Append(mailbox[a], Head(pending[a])) \in Seq(Msg)
          /\ Len(Append(mailbox[a], Head(pending[a]))) = Len(mailbox[a]) + 1
        BY <2>1, <2>2, AppendProperties
    <2>4. ActorsTypeOK'
        BY <1>3, <2>2, <2>3 DEF RouteOne, Deliver, ActorsTypeOK
    <2>5. AbsentIsEmpty'
        BY <1>3 DEF RouteOne, Deliver, AbsentIsEmpty, ActorsTypeOK
    <2>6. MailboxBounded'
        BY <1>3, <2>1, <2>3 DEF RouteOne, Deliver, MailboxBounded, ActorsTypeOK
    <2> QED
        BY <2>4, <2>5, <2>6
<1>4. ASSUME NEW a \in Actor, Consume(a) PROVE ActorsInv'
    <2>1. /\ mailbox[a] \in Seq(Msg) /\ mailbox[a] # <<>> /\ consumed[a] \in Seq(Msg)
          /\ Len(mailbox[a]) \in Nat /\ capacity[a] \in Nat
        BY <1>4, EntryTypes DEF Consume
    <2>2. /\ Head(mailbox[a]) \in Msg /\ Tail(mailbox[a]) \in Seq(Msg)
          /\ Len(Tail(mailbox[a])) = Len(mailbox[a]) - 1
        BY <2>1, HeadTailProperties
    <2>3. Append(consumed[a], Head(mailbox[a])) \in Seq(Msg)
        BY <2>1, <2>2, AppendProperties
    <2>4. ActorsTypeOK'
        BY <1>4, <2>2, <2>3 DEF Consume, ActorsTypeOK
    <2>5. AbsentIsEmpty'
        BY <1>4 DEF Consume, AbsentIsEmpty, ActorsTypeOK
    <2>6. MailboxBounded'
        BY <1>4, <2>1, <2>2 DEF Consume, MailboxBounded, ActorsTypeOK
    <2> QED
        BY <2>4, <2>5, <2>6
<1>5. ASSUME NEW a \in Actor, NEW b \in Actor, SetBlocked(a, b) PROVE ActorsInv'
    BY <1>5 DEF SetBlocked, ActorsTypeOK, AbsentIsEmpty, MailboxBounded
<1>6. ASSUME NEW a \in Actor, UnblockSend(a) PROVE ActorsInv'
    BY <1>6 DEF UnblockSend, ActorsTypeOK, AbsentIsEmpty, MailboxBounded
<1>7. ASSUME UNCHANGED actorVars PROVE ActorsInv'
    BY <1>7 DEF actorVars, ActorsTypeOK, AbsentIsEmpty, MailboxBounded
<1> QED
    BY <1>1, <1>2, <1>3, <1>4, <1>5, <1>6, <1>7 DEF ActorsNext

LEMMA ActorsInvariant == ActorsSpec => []ActorsInv
BY ActorsInitInv, ActorsStepInv, PTL DEF ActorsSpec

\* Every entry of the actor table keeps its type.
THEOREM ActorsTypeCorrect == ActorsSpec => []ActorsTypeOK
BY ActorsInvariant, PTL DEF ActorsInv

\* No mailbox ever exceeds its capacity (execute_route_one, deliver_mut).
THEOREM MailboxesBounded == ActorsSpec => []MailboxBounded
BY ActorsInvariant, PTL DEF ActorsInv

-----------------------------------------------------------------------------
(* The refinement *)

\* Both queues of every actor start empty.
LEMMA RefinementInit == ActorsInit => Promise!MQInit
<1> SUFFICES ASSUME ActorsInit PROVE Promise!MQInit
    OBVIOUS
<1>1. \A a \in Actor : mailbox[a] \o pending[a] = <<>>
    BY ConcatEmptySeq, EmptySeq DEF ActorsInit
<1>2. Queue = [a \in Actor |-> <<>>]
    BY <1>1 DEF Queue
<1> QED
    BY <1>2 DEF Promise!MQInit, ActorsInit

\* Sending is a put, consuming is a get, and every other step keeps the
\* concatenation of mailbox and pending.
LEMMA RefinementStep ==
    ActorsInv /\ [ActorsNext]_actorVars => [Promise!MQNext]_(Promise!mqVars)
<1> SUFFICES ASSUME ActorsInv, [ActorsNext]_actorVars
             PROVE  Promise!MQNext \/ UNCHANGED <<Queue, consumed>>
    BY DEF Promise!mqVars
<1>0. ActorsTypeOK
    BY DEF ActorsInv
<1>1. ASSUME NEW a \in Actor, NEW m \in Msg, EnqueuePending(a, m)
      PROVE  Promise!Put(a, m)
    <2>1. mailbox[a] \o Append(pending[a], m) = Append(mailbox[a] \o pending[a], m)
        <3>1. mailbox[a] \in Seq(Msg) /\ pending[a] \in Seq(Msg)
            BY <1>0, EntryTypes
        <3>2. ASSUME NEW s \in Seq(Msg), NEW t \in Seq(Msg)
              PROVE  s \o Append(t, m) = Append(s \o t, m)
            BY AppendKeepsConcat
        <3> QED
            BY <3>1, <3>2, Zenon
    <2>2. Queue' = [Queue EXCEPT ![a] = Append(@, m)]
        BY <1>0, <1>1, <2>1 DEF Queue, EnqueuePending, ActorsTypeOK
    <2> QED
        BY <1>1, <2>2 DEF Promise!Put, EnqueuePending
<1>2. ASSUME NEW a \in Actor, Consume(a) PROVE Promise!Get(a)
    <2>1. /\ Queue[a] # <<>>
          /\ Head(Queue[a]) = Head(mailbox[a])
          /\ Tail(Queue[a]) = Tail(mailbox[a]) \o pending[a]
        <3>1. mailbox[a] \in Seq(Msg) /\ pending[a] \in Seq(Msg) /\ mailbox[a] # <<>>
            BY <1>0, <1>2, EntryTypes DEF Consume
        <3>2. Queue[a] = mailbox[a] \o pending[a]
            BY DEF Queue
        <3> QED
            BY <3>1, <3>2, ConsumeKeepsConcat
    <2>2. Queue' = [Queue EXCEPT ![a] = Tail(@)]
        BY <1>0, <1>2, <2>1 DEF Queue, Consume, ActorsTypeOK
    <2> QED
        BY <1>2, <2>1, <2>2 DEF Promise!Get, Consume
<1>3. ASSUME NEW a \in Actor, RouteOne(a) PROVE UNCHANGED <<Queue, consumed>>
    <2>1. Append(mailbox[a], Head(pending[a])) \o Tail(pending[a]) = mailbox[a] \o pending[a]
        BY <1>0, <1>3, EntryTypes, DeliverKeepsConcat DEF RouteOne
    <2>2. Queue' = Queue
        BY <1>0, <1>3, <2>1 DEF Queue, RouteOne, Deliver, ActorsTypeOK
    <2> QED
        BY <1>3, <2>2 DEF RouteOne
<1>4. ASSUME UNCHANGED <<pending, mailbox, consumed>> PROVE UNCHANGED <<Queue, consumed>>
    BY <1>4 DEF Queue
<1> QED
    BY <1>1, <1>2, <1>3, <1>4
       DEF ActorsNext, InsertActor, SetBlocked, UnblockSend, actorVars, Promise!MQNext

\* Routing, back-pressure, blocking and late insertion neither lose nor
\* duplicate nor reorder a message: the actor runtimes implement one FIFO
\* queue per actor.
THEOREM ActorsImplementQueue == ActorsSpec => RefinesMessageQueue
BY RefinementInit, RefinementStep, ActorsInvariant, PTL
   DEF ActorsSpec, RefinesMessageQueue, Promise!MQSpec
=============================================================================
