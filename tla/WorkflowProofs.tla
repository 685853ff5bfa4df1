--------------------------- MODULE WorkflowProofs ---------------------------
(***************************************************************************)
(* The bookkeeping of a workflow instance is exact, its dependencies are   *)
(* respected and its status tells the outcome, for any finite set of       *)
(* nodes, any edges and any number of retries; and every node step lowers  *)
(* the termination measure, as long as the measure cannot saturate.        *)
(***************************************************************************)
EXTENDS Workflow, FiniteSetTheorems, TLAPS

\* The nodes in state s.
InState(s) == {n \in Node : st[n] = s}

\* The inductive invariant: dependencies and status need the counters, since
\* the code decides on the counters alone whether a workflow has ended.
WfInv == WfTypeOK /\ CountersExact /\ DependencyOrder /\ StatusSound

-----------------------------------------------------------------------------
(* Counters *)

\* Sets of nodes are finite.
LEMMA InStateFinite ==
    ASSUME NEW s
    PROVE  /\ IsFiniteSet(InState(s)) /\ Cardinality(InState(s)) \in Nat
           /\ Cardinality(InState(s)) <= Cardinality(Node)
           /\ Cardinality(InState(s)) = 0 <=> InState(s) = {}
<1>1. InState(s) \in SUBSET Node /\ IsFiniteSet(Node)
  BY WorkflowAssumption DEF InState
<1>2. IsFiniteSet(InState(s)) /\ Cardinality(InState(s)) <= Cardinality(Node)
  BY <1>1, FS_Subset
<1> QED BY <1>2, FS_CardinalityType, FS_EmptySet

\* One counter follows one transition of a node to another state.
LEMMA MovedExact ==
    ASSUME st \in [Node -> NodeState], NEW n \in Node, NEW new, new # st[n],
           st' = [st EXCEPT ![n] = new], NEW s
    PROVE  Moved(Cardinality(InState(s)), s, st[n], new) = Cardinality(InState(s)')
<1> DEFINE S == InState(s)
<1>0. IsFiniteSet(S) /\ Cardinality(S) \in Nat /\ (Cardinality(S) = 0 <=> S = {})
  BY InStateFinite
<1>1. CASE st[n] = s
  <2>1. InState(s)' = S \ {n} /\ n \in S
    BY <1>1 DEF InState
  <2>2. Cardinality(S \ {n}) = Cardinality(S) - 1
    BY <1>0, <2>1, FS_RemoveElement
  <2>3. Cardinality(S) >= 1
    BY <1>0, <2>1
  <2> HIDE DEF S
  <2>4. Moved(Cardinality(S), s, st[n], new) = Cardinality(S) - 1
    BY <1>0, <1>1, <2>3 DEF Moved, SatSub
  <2> QED BY <2>1, <2>2, <2>4 DEF S
<1>2. CASE st[n] # s /\ new = s
  <2>1. InState(s)' = S \cup {n} /\ n \notin S
    BY <1>2 DEF InState
  <2>2. Cardinality(S \cup {n}) = Cardinality(S) + 1
    BY <1>0, <2>1, FS_AddElement
  <2> HIDE DEF S
  <2>3. Moved(Cardinality(S), s, st[n], new) = Cardinality(S) + 1
    BY <1>0, <1>2 DEF Moved
  <2> QED BY <2>1, <2>2, <2>3 DEF S
<1>3. CASE st[n] # s /\ new # s
  <2>1. InState(s)' = S
    BY <1>3 DEF InState
  <2> HIDE DEF S
  <2>2. Moved(Cardinality(S), s, st[n], new) = Cardinality(S)
    BY <1>0, <1>3 DEF Moved
  <2> QED BY <2>1, <2>2 DEF S
<1> QED BY <1>1, <1>2, <1>3

\* WorkflowInstance::transition keeps the three counters exact.
LEMMA TransitionExact ==
    ASSUME WfTypeOK, CountersExact, NEW n \in Node, NEW new \in NodeState,
           new # st[n], Transition(n, new)
    PROVE  /\ CountersExact'
           /\ st' = [st EXCEPT ![n] = new] /\ st' \in [Node -> NodeState]
           /\ pendingCt' \in Nat /\ activeCt' \in Nat /\ failedCt' \in Nat
<1>1. st \in [Node -> NodeState] /\ st' = [st EXCEPT ![n] = new]
  BY DEF WfTypeOK, Transition
<1>2. /\ pendingCt = Cardinality(InState("Pending"))
      /\ activeCt = Cardinality(InState("Active"))
      /\ failedCt = Cardinality(InState("Failed"))
  BY DEF CountersExact, InState
<1>3. \A s : Moved(Cardinality(InState(s)), s, st[n], new) = Cardinality(InState(s)')
  BY <1>1, MovedExact
<1>4. /\ pendingCt' = Cardinality(InState("Pending")')
      /\ activeCt' = Cardinality(InState("Active")')
      /\ failedCt' = Cardinality(InState("Failed")')
  BY <1>2, <1>3 DEF Transition
<1>5. CountersExact'
  BY <1>4 DEF CountersExact, InState
<1>6. pendingCt' \in Nat /\ activeCt' \in Nat /\ failedCt' \in Nat
  <2>1. ASSUME NEW s PROVE Cardinality(InState(s)') \in Nat
    <3>1. InState(s)' \in SUBSET Node /\ IsFiniteSet(Node)
      BY WorkflowAssumption DEF InState
    <3> QED BY <3>1, FS_Subset, FS_CardinalityType
  <2> QED BY <1>4, <2>1
<1> QED BY <1>1, <1>5, <1>6

-----------------------------------------------------------------------------
(* The invariant *)

\* A counter of nodes is zero exactly when no node is in its state.
LEMMA ZeroMeansNone ==
    ASSUME NEW f, NEW s
    PROVE  Cardinality({n \in Node : f[n] = s}) = 0 <=> \A m \in Node : f[m] # s
<1>1. IsFiniteSet({n \in Node : f[n] = s})
  BY WorkflowAssumption, FS_Subset
<1>2. Cardinality({n \in Node : f[n] = s}) = 0 <=> {n \in Node : f[n] = s} = {}
  BY <1>1, FS_EmptySet
<1> QED BY <1>2

\* The definition is valid and every node pending at the start.
LEMMA WfInitInv == WfInit => WfInv
<1> SUFFICES ASSUME WfInit PROVE WfInv
  OBVIOUS
<1>1. st \in [Node -> NodeState] /\ \A n \in Node : st[n] = "Pending"
  BY DEF WfInit, NodeState
<1>2. Cardinality(Node) \in Nat
  BY WorkflowAssumption, FS_CardinalityType
<1>3. CapRetries \in 0..RetryCap
  BY WorkflowAssumption DEF CapRetries
<1>4. WfTypeOK
  BY <1>1, <1>2, <1>3, WorkflowAssumption DEF WfInit, WfTypeOK
<1>5. CountersExact
  <2>1. /\ {n \in Node : st[n] = "Pending"} = Node
        /\ {n \in Node : st[n] = "Active"} = {} /\ {n \in Node : st[n] = "Failed"} = {}
    BY <1>1
  <2> QED BY <2>1, FS_EmptySet DEF WfInit, CountersExact
<1>6. DependencyOrder /\ StatusSound
  BY <1>1 DEF WfInit, DependencyOrder, StatusSound
<1> QED BY <1>4, <1>5, <1>6 DEF WfInv

\* A node that leaves or re-enters the pending or active state, and is not
\* completed, keeps the order of dependencies, if those of a node that is
\* started are met; so does one that completes.
LEMMA TransitionOrdered ==
    ASSUME WfTypeOK, DependencyOrder, NEW n \in Node, NEW new \in NodeState,
           st' = [st EXCEPT ![n] = new], edges' = edges,
           st[n] # "Completed", st[n] = "Pending" => DependenciesSatisfied(n)
    PROVE  DependencyOrder'
<1> SUFFICES ASSUME NEW m \in Node, st'[m] # "Pending", NEW d \in Predecessors(m)
             PROVE  st'[d] = "Completed"
  BY DEF DependencyOrder, Predecessors
<1>1. d \in Node /\ st \in [Node -> NodeState]
  BY DEF Predecessors, WfTypeOK
<1>2. st[d] = "Completed"
  BY <1>1 DEF DependencyOrder, DependenciesSatisfied
<1> QED BY <1>1, <1>2

\* Every step keeps the invariant.
LEMMA WfStepInv == WfInv /\ [WfNext]_wfVars => WfInv'
<1> SUFFICES ASSUME WfInv, [WfNext]_wfVars PROVE WfInv'
  OBVIOUS
<1>0. WfTypeOK /\ CountersExact /\ DependencyOrder /\ StatusSound
  BY DEF WfInv
<1>1. ASSUME NEW n \in Node, StartNode(n) PROVE WfInv'
  <2>1. /\ st[n] = "Pending" /\ DependenciesSatisfied(n) /\ Transition(n, "Active")
        /\ edges' = edges /\ retries' = retries /\ status' = status /\ now' = now
    BY <1>1 DEF StartNode
  <2>2. /\ CountersExact' /\ st' = [st EXCEPT ![n] = "Active"] /\ st' \in [Node -> NodeState]
        /\ pendingCt' \in Nat /\ activeCt' \in Nat /\ failedCt' \in Nat
    BY <1>0, <2>1, TransitionExact DEF NodeState
  <2>3. WfTypeOK'
    BY <1>0, <2>1, <2>2 DEF WfTypeOK
  <2>4. DependencyOrder'
    BY <1>0, <2>1, <2>2, TransitionOrdered DEF NodeState
  <2>5. StatusSound'
    BY <1>0, <2>1, <2>2 DEF StatusSound, WfTypeOK
  <2> QED BY <2>2, <2>3, <2>4, <2>5 DEF WfInv
<1>2. ASSUME NEW n \in Node, CompleteNode(n) PROVE WfInv'
  <2>1. /\ st[n] = "Active" /\ Transition(n, "Completed") /\ UpdateWorkflowStatus
        /\ edges' = edges /\ retries' = retries /\ now' = now
    BY <1>2 DEF CompleteNode
  <2>2. /\ CountersExact' /\ st' = [st EXCEPT ![n] = "Completed"] /\ st' \in [Node -> NodeState]
        /\ pendingCt' \in Nat /\ activeCt' \in Nat /\ failedCt' \in Nat
    BY <1>0, <2>1, TransitionExact DEF NodeState
  <2>3. WfTypeOK'
    BY <1>0, <2>1, <2>2 DEF WfTypeOK, UpdateWorkflowStatus
  <2>4. DependencyOrder'
    BY <1>0, <2>1, <2>2, TransitionOrdered DEF NodeState
  <2>5. /\ pendingCt' = 0 => \A m \in Node : st'[m] # "Pending"
        /\ activeCt' = 0 => \A m \in Node : st'[m] # "Active"
        /\ failedCt' = 0 <=> \A m \in Node : st'[m] # "Failed"
    <3>0. \A s : Cardinality({m \in Node : st'[m] = s}) = 0 <=> \A m \in Node : st'[m] # s
      BY ZeroMeansNone
    <3>1. pendingCt' = 0 => \A m \in Node : st'[m] # "Pending"
      BY <2>2, <3>0, Zenon DEF CountersExact
    <3>2. activeCt' = 0 => \A m \in Node : st'[m] # "Active"
      BY <2>2, <3>0, Zenon DEF CountersExact
    <3>3. failedCt' = 0 <=> \A m \in Node : st'[m] # "Failed"
      BY <2>2, <3>0, Zenon DEF CountersExact
    <3> QED BY <3>1, <3>2, <3>3
  <2>6. StatusSound'
    <3>1. CASE pendingCt' = 0 /\ activeCt' = 0
      BY <3>1, <2>1, <2>2, <2>5 DEF StatusSound, UpdateWorkflowStatus, NodeState
    <3>2. CASE ~(pendingCt' = 0 /\ activeCt' = 0)
      BY <3>2, <1>0, <2>1, <2>2 DEF StatusSound, UpdateWorkflowStatus, WfTypeOK
    <3> QED BY <3>1, <3>2
  <2> QED BY <2>2, <2>3, <2>4, <2>6 DEF WfInv
<1>3. ASSUME NEW n \in Node, FailNode(n) PROVE WfInv'
  <2>0. st[n] = "Active" /\ edges' = edges /\ now' = now
    BY <1>3 DEF FailNode
  <2>1. CASE /\ retries[n] > 0 /\ Transition(n, "Pending")
             /\ retries' = [retries EXCEPT ![n] = @ - 1] /\ status' = status
    <3>1. /\ CountersExact' /\ st' = [st EXCEPT ![n] = "Pending"] /\ st' \in [Node -> NodeState]
          /\ pendingCt' \in Nat /\ activeCt' \in Nat /\ failedCt' \in Nat
      BY <1>0, <2>0, <2>1, TransitionExact DEF NodeState
    <3>2. retries' \in [Node -> 0..RetryCap]
      BY <1>0, <2>1, WorkflowAssumption DEF WfTypeOK
    <3>3. WfTypeOK'
      BY <1>0, <2>0, <2>1, <3>1, <3>2 DEF WfTypeOK
    <3>4. DependencyOrder'
      BY <1>0, <2>0, <3>1, TransitionOrdered DEF NodeState
    <3>5. StatusSound'
      BY <1>0, <2>0, <2>1, <3>1 DEF StatusSound, WfTypeOK
    <3> QED BY <3>1, <3>3, <3>4, <3>5 DEF WfInv
  <2>2. CASE /\ Transition(n, "Failed") /\ status' = "Failure" /\ retries' = retries
    <3>1. /\ CountersExact' /\ st' = [st EXCEPT ![n] = "Failed"] /\ st' \in [Node -> NodeState]
          /\ pendingCt' \in Nat /\ activeCt' \in Nat /\ failedCt' \in Nat
      BY <1>0, <2>0, <2>2, TransitionExact DEF NodeState
    <3>2. WfTypeOK'
      BY <1>0, <2>0, <2>2, <3>1 DEF WfTypeOK
    <3>3. DependencyOrder'
      BY <1>0, <2>0, <3>1, TransitionOrdered DEF NodeState
    <3>4. StatusSound'
      BY <2>2 DEF StatusSound
    <3> QED BY <3>1, <3>2, <3>3, <3>4 DEF WfInv
  <2> QED BY <1>3, <2>1, <2>2 DEF FailNode
<1>4. CASE ApplyTimeout
  BY <1>0, <1>4 DEF ApplyTimeout, counters, WfInv, WfTypeOK, CountersExact,
                    DependencyOrder, Predecessors, StatusSound
<1>5. CASE TimeTick
  <2>1. now' \in 0..MaxTime
    BY <1>0, <1>5, WorkflowAssumption DEF TimeTick, WfTypeOK
  <2> QED BY <1>0, <1>5, <2>1 DEF TimeTick, counters, WfInv, WfTypeOK, CountersExact,
                    DependencyOrder, Predecessors, StatusSound
<1>6. CASE UNCHANGED wfVars
  BY <1>0, <1>6 DEF wfVars, counters, WfInv, WfTypeOK, CountersExact,
                    DependencyOrder, Predecessors, StatusSound
<1> QED BY <1>1, <1>2, <1>3, <1>4, <1>5, <1>6 DEF WfNext, WorkflowTick

\* The invariant holds in every reachable state.
LEMMA WfInvariant == WfSpec => []WfInv
BY WfInitInv, WfStepInv, PTL DEF WfSpec

\* The instance is well typed; in particular the retries never exceed u16.
THEOREM WorkflowTypeCorrect == WfSpec => []WfTypeOK
BY WfInvariant, PTL DEF WfInv

\* For any workflow the counters are what a scan of the nodes would give, so
\* their saturating subtraction never saturates.
THEOREM CountersAreExact == WfSpec => []CountersExact
BY WfInvariant, PTL DEF WfInv

\* For any workflow, cyclic ones included, a node that was started has all its
\* dependencies completed.
THEOREM DependenciesRespected == WfSpec => []DependencyOrder
BY WfInvariant, PTL DEF WfInv

\* Success is reported only when every node completed, and a node that failed
\* for good makes the workflow a failure, whatever times out in between.
THEOREM StatusTellsOutcome == WfSpec => []StatusSound
BY WfInvariant, PTL DEF WfInv

-----------------------------------------------------------------------------
(* The termination measure *)

\* When the sums fit (MeasureFits) none of the three saturating additions saturates.
LEMMA NoSaturation ==
    ASSUME MeasureFits, NEW t \in 0..TimeoutAt, NEW p \in Nat, NEW a \in Nat,
           p + a <= Cardinality(Node),
           NEW r \in Nat, r <= Cardinality(Node) * RetryCap
    PROVE  SatAdd(SatAdd(SatAdd(t, 1000 * p), 100 * a), 1000 * r)
             = t + 1000 * p + 100 * a + 1000 * r
<1>1. Cardinality(Node) \in Nat /\ RetryCap \in Nat /\ MaxWord \in Nat /\ TimeoutAt \in Nat
  BY WorkflowAssumption, FS_CardinalityType
<1> DEFINE k == Cardinality(Node) * RetryCap
<1>2. k \in Nat
  BY <1>1
<1>3. t + 1000 * p + 100 * a + 1000 * r <= MaxWord
  <2>1. TimeoutAt + 1000 * Cardinality(Node) + 1000 * k <= MaxWord /\ r <= k
    BY DEF MeasureFits
  <2> HIDE DEF k
  <2> QED BY <1>1, <1>2, <2>1
<1> HIDE DEF k
<1>4. SatAdd(t, 1000 * p) = t + 1000 * p
  BY <1>1, <1>3 DEF SatAdd
<1>5. SatAdd(t + 1000 * p, 100 * a) = t + 1000 * p + 100 * a
  BY <1>1, <1>3 DEF SatAdd
<1>6. SatAdd(t + 1000 * p + 100 * a, 1000 * r) = t + 1000 * p + 100 * a + 1000 * r
  BY <1>1, <1>3 DEF SatAdd
<1> QED BY <1>4, <1>5, <1>6

\* No more nodes are pending or active than there are.
LEMMA UnfinishedBounded ==
    ASSUME NEW f
    PROVE  Cardinality({n \in Node : f[n] = "Pending"})
             + Cardinality({n \in Node : f[n] = "Active"}) <= Cardinality(Node)
<1> DEFINE P == {n \in Node : f[n] = "Pending"}
           A == {n \in Node : f[n] = "Active"}
<1>1. /\ IsFiniteSet(P) /\ IsFiniteSet(A) /\ IsFiniteSet(P \cup A)
      /\ Cardinality(P \cup A) <= Cardinality(Node)
  <2>1. P \in SUBSET Node /\ A \in SUBSET Node /\ P \cup A \in SUBSET Node
    OBVIOUS
  <2> QED BY <2>1, WorkflowAssumption, FS_Subset
<1>2. P \cap A = {}
  OBVIOUS
<1> HIDE DEF P, A
<1>3. Cardinality(P \cup A) = Cardinality(P) + Cardinality(A) - Cardinality(P \cap A)
  BY <1>1, FS_Union
<1>4. Cardinality(P \cap A) = 0
  BY <1>2, FS_EmptySet
<1>5. Cardinality(P) \in Nat /\ Cardinality(A) \in Nat /\ Cardinality(Node) \in Nat
  BY <1>1, WorkflowAssumption, FS_CardinalityType
<1>6. Cardinality(P) + Cardinality(A) <= Cardinality(Node)
  BY <1>1, <1>3, <1>4, <1>5
<1> QED BY <1>6 DEF P, A

\* The retries left are finitely many, at most RetryCap for each node.
LEMMA RetriesBounded ==
    ASSUME NEW f
    PROVE  LET R == {x \in Node \X (1..RetryCap) : x[2] <= f[x[1]]}
           IN  /\ IsFiniteSet(R) /\ Cardinality(R) \in Nat
               /\ Cardinality(R) <= Cardinality(Node) * RetryCap
<1> DEFINE R == {x \in Node \X (1..RetryCap) : x[2] <= f[x[1]]}
<1>1. IsFiniteSet(1..RetryCap) /\ Cardinality(1..RetryCap) = RetryCap
  BY WorkflowAssumption, FS_Interval
<1>2. /\ IsFiniteSet(Node \X (1..RetryCap))
      /\ Cardinality(Node \X (1..RetryCap)) = Cardinality(Node) * RetryCap
  BY <1>1, WorkflowAssumption, FS_Product
<1>3. R \in SUBSET (Node \X (1..RetryCap))
  OBVIOUS
<1> HIDE DEF R
<1>4. IsFiniteSet(R) /\ Cardinality(R) <= Cardinality(Node) * RetryCap
  BY <1>2, <1>3, FS_Subset
<1>5. Cardinality(R) \in Nat
  BY <1>4, FS_CardinalityType
<1>6. IsFiniteSet(R) /\ Cardinality(R) \in Nat /\ Cardinality(R) <= Cardinality(Node) * RetryCap
  BY <1>4, <1>5
<1> QED BY <1>6 DEF R

\* A retry uses up exactly one of them.
LEMMA RetryTakesOne ==
    ASSUME retries \in [Node -> 0..RetryCap], NEW n \in Node, retries[n] > 0,
           retries' = [retries EXCEPT ![n] = @ - 1]
    PROVE  Cardinality(RetriesLeft') = Cardinality(RetriesLeft) - 1
<1>0. RetryCap \in Nat /\ retries[n] \in 1..RetryCap
  BY WorkflowAssumption
<1>1. <<n, retries[n]>> \in RetriesLeft
  BY <1>0 DEF RetriesLeft
<1>2. RetriesLeft' = RetriesLeft \ {<<n, retries[n]>>}
  <2>1. ASSUME NEW m \in Node, NEW k \in 1..RetryCap
        PROVE  k <= retries'[m] <=> k <= retries[m] /\ ~(m = n /\ k = retries[n])
    <3>1. CASE m = n
      BY <3>1, <1>0
    <3>2. CASE m # n
      BY <3>2
    <3> QED BY <3>1, <3>2
  <2>2. ASSUME NEW x \in Node \X (1..RetryCap)
        PROVE  x \in RetriesLeft' <=> x \in RetriesLeft \ {<<n, retries[n]>>}
    <3>1. PICK m \in Node, k \in 1..RetryCap : x = <<m, k>>
      OBVIOUS
    <3> QED BY <2>1, <3>1 DEF RetriesLeft
  <2>3. RetriesLeft' \subseteq Node \X (1..RetryCap) /\ RetriesLeft \subseteq Node \X (1..RetryCap)
    BY DEF RetriesLeft
  <2> QED BY <2>2, <2>3
<1>3. IsFiniteSet(RetriesLeft)
  BY RetriesBounded DEF RetriesLeft
<1> QED BY <1>1, <1>2, <1>3, FS_RemoveElement

\* In a state of the invariant, and in the one after it, the measure is the
\* plain sum of its four parts.
LEMMA MeasureIsSum ==
    ASSUME MeasureFits, WfInv, WfInv'
    PROVE  /\ Measure = SatSub(TimeoutAt, now) + 1000 * pendingCt + 100 * activeCt
                          + 1000 * Cardinality(RetriesLeft)
           /\ Measure' = SatSub(TimeoutAt, now') + 1000 * pendingCt' + 100 * activeCt'
                          + 1000 * Cardinality(RetriesLeft')
           /\ Cardinality(RetriesLeft) \in Nat /\ Cardinality(RetriesLeft') \in Nat
           /\ SatSub(TimeoutAt, now) \in Nat
<1>1. /\ pendingCt \in Nat /\ activeCt \in Nat /\ pendingCt' \in Nat /\ activeCt' \in Nat
      /\ now \in Nat /\ now' \in Nat
  BY WorkflowAssumption DEF WfInv, WfTypeOK
<1>2. SatSub(TimeoutAt, now) \in 0..TimeoutAt /\ SatSub(TimeoutAt, now') \in 0..TimeoutAt
  <2>1. ASSUME NEW k \in Nat PROVE SatSub(TimeoutAt, k) \in 0..TimeoutAt
    BY WorkflowAssumption DEF SatSub
  <2> QED BY <1>1, <2>1
<1>3. pendingCt + activeCt <= Cardinality(Node) /\ pendingCt' + activeCt' <= Cardinality(Node)
  <2>1. pendingCt + activeCt <= Cardinality(Node)
    BY UnfinishedBounded DEF WfInv, CountersExact
  <2>2. pendingCt' + activeCt' <= Cardinality(Node)
    BY UnfinishedBounded DEF WfInv, CountersExact
  <2> QED BY <2>1, <2>2
<1>4. /\ Cardinality(RetriesLeft) \in Nat /\ Cardinality(RetriesLeft) <= Cardinality(Node) * RetryCap
      /\ Cardinality(RetriesLeft') \in Nat /\ Cardinality(RetriesLeft') <= Cardinality(Node) * RetryCap
  BY RetriesBounded DEF RetriesLeft
<1>5. Measure = SatSub(TimeoutAt, now) + 1000 * pendingCt + 100 * activeCt
                  + 1000 * Cardinality(RetriesLeft)
  BY <1>1, <1>2, <1>3, <1>4, NoSaturation DEF Measure
<1>6. Measure' = SatSub(TimeoutAt, now') + 1000 * pendingCt' + 100 * activeCt'
                  + 1000 * Cardinality(RetriesLeft')
  BY <1>1, <1>2, <1>3, <1>4, NoSaturation DEF Measure
<1> QED BY <1>2, <1>4, <1>5, <1>6

\* A started node lowers the measure by 900, every other node step by 100.
LEMMA NodeStepLowersMeasure ==
    ASSUME MeasureFits, WfInv, WfInv', [WfNext]_wfVars, st' # st
    PROVE  Measure' < Measure
<1>0. /\ WfTypeOK /\ CountersExact
      /\ pendingCt \in Nat /\ activeCt \in Nat /\ st \in [Node -> NodeState]
  BY DEF WfInv, WfTypeOK
<1> DEFINE r == Cardinality(RetriesLeft)
           t == SatSub(TimeoutAt, now)
<1>1. /\ Measure = t + 1000 * pendingCt + 100 * activeCt + 1000 * r
      /\ Measure' = SatSub(TimeoutAt, now') + 1000 * pendingCt' + 100 * activeCt'
                      + 1000 * Cardinality(RetriesLeft')
      /\ r \in Nat /\ Cardinality(RetriesLeft') \in Nat /\ t \in Nat
  BY MeasureIsSum
<1>2. \A n \in Node : /\ st[n] = "Pending" => pendingCt >= 1
                      /\ st[n] = "Active" => activeCt >= 1
  <2>1. pendingCt = 0 => \A n \in Node : st[n] # "Pending"
    BY <1>0, ZeroMeansNone DEF CountersExact
  <2>2. activeCt = 0 => \A n \in Node : st[n] # "Active"
    BY <1>0, ZeroMeansNone DEF CountersExact
  <2> QED BY <1>0, <2>1, <2>2
<1>3. PICK n \in Node : StartNode(n) \/ CompleteNode(n) \/ FailNode(n)
  BY DEF WfNext, ApplyTimeout, TimeTick, WorkflowTick, wfVars
<1>4. SatSub(TimeoutAt, now') = t
  BY <1>3 DEF StartNode, CompleteNode, FailNode
<1>5. retries' = retries => Cardinality(RetriesLeft') = r
  BY DEF RetriesLeft
<1> HIDE DEF r, t
<1>6. CASE StartNode(n)
  <2>1. pendingCt' = pendingCt - 1 /\ activeCt' = activeCt + 1 /\ retries' = retries
    BY <1>0, <1>2, <1>6 DEF StartNode, Transition, Moved, SatSub
  <2> QED BY <1>0, <1>1, <1>2, <1>4, <1>5, <2>1
<1>7. CASE CompleteNode(n)
  <2>1. pendingCt' = pendingCt /\ activeCt' = activeCt - 1 /\ retries' = retries
    BY <1>0, <1>2, <1>7 DEF CompleteNode, Transition, Moved, SatSub
  <2> QED BY <1>0, <1>1, <1>2, <1>4, <1>5, <2>1
<1>8. CASE FailNode(n)
  <2>1. activeCt' = activeCt - 1
    BY <1>0, <1>2, <1>8 DEF FailNode, Transition, Moved, SatSub
  <2>2. CASE retries' = retries /\ Transition(n, "Failed")
    <3>1. pendingCt' = pendingCt
      BY <1>0, <1>2, <1>8, <2>2 DEF FailNode, Transition, Moved, SatSub
    <3> QED BY <1>0, <1>1, <1>2, <1>4, <1>5, <2>1, <2>2, <3>1
  <2>3. CASE /\ retries[n] > 0 /\ retries' = [retries EXCEPT ![n] = @ - 1]
             /\ Transition(n, "Pending")
    <3>1. pendingCt' = pendingCt + 1
      BY <1>0, <1>2, <1>8, <2>3 DEF FailNode, Transition, Moved, SatSub
    <3>2. Cardinality(RetriesLeft') = r - 1
      BY <2>3, RetryTakesOne DEF WfInv, WfTypeOK, r
    <3> QED BY <1>0, <1>1, <1>2, <1>4, <2>1, <3>1, <3>2
  <2> QED BY <1>8, <2>2, <2>3 DEF FailNode
<1> QED BY <1>3, <1>6, <1>7, <1>8

\* For any workflow, any timeout and any number of retries: as long as the sums
\* of the measure fit into u64, every start, completion, failure and retry
\* lowers it, so a workflow takes finitely many node steps.
THEOREM NodeStepsAreFinite == WfSpec => MeasureDecreases
<1>1. WfInv /\ WfInv' /\ [WfNext]_wfVars
        => [MeasureFits /\ st' # st => Measure' < Measure]_wfVars
  BY NodeStepLowersMeasure
<1> QED BY <1>1, WfInvariant, PTL DEF WfSpec, MeasureDecreases
=============================================================================
