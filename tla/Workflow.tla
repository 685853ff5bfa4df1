------------------------------ MODULE Workflow ------------------------------
(***************************************************************************)
(* One WorkflowInstance: node states, the aggregate counters kept beside   *)
(* them, retries, the workflow status and the termination measure.  Nodes  *)
(* are executed outside the crate: whoever runs them reports through       *)
(* start_node, complete_node and fail_node, in any order, and a supervisor *)
(* may call apply_timeout at any moment.                                   *)
(***************************************************************************)
EXTENDS Naturals, FiniteSets

CONSTANTS
    Node,        \* the node ids after sort and dedup
    MaxRetries,  \* the max_retries argument
    RetryCap,    \* u16::MAX
    TimeoutAt,   \* WorkflowInstance.timeout_at
    MaxWord,     \* u64::MAX
    MaxTime      \* bound on the clock

ASSUME WorkflowAssumption ==
    /\ IsFiniteSet(Node)
    /\ MaxRetries \in Nat /\ RetryCap \in Nat /\ TimeoutAt \in Nat
    /\ MaxWord \in Nat /\ MaxTime \in Nat /\ TimeoutAt <= MaxWord /\ MaxTime <= MaxWord

NodeState == {"Pending", "Active", "Completed", "Failed"}

VARIABLES
    edges,       \* WorkflowDef.edges, fixed when the definition is built
    st,          \* node_states
    retries,     \* retries
    pendingCt, activeCt, failedCt,
    status,      \* WorkflowStatus
    now          \* the kernel clock

counters == <<pendingCt, activeCt, failedCt>>
wfVars == <<edges, st, retries, counters, status, now>>

-----------------------------------------------------------------------------
\* build_adjacency: the predecessors of n.
Predecessors(n) == {m \in Node : <<m, n>> \in edges}

\* Mutant: one completed dependency is enough.
DependenciesSatisfiedSome(n) ==
    Predecessors(n) # {} => \E m \in Predecessors(n) : st[m] = "Completed"

DependenciesSatisfied(n) == \A m \in Predecessors(n) : st[m] = "Completed"

\* Saturating subtraction and addition, as u64 and u32 do it here.
SatSub(a, b) == IF a >= b THEN a - b ELSE 0
SatAdd(a, b) == IF a + b <= MaxWord THEN a + b ELSE MaxWord

\* One counter in WorkflowInstance::transition from state old to state new.
Moved(ct, s, old, new) == (IF old = s THEN SatSub(ct, 1) ELSE ct) + (IF new = s THEN 1 ELSE 0)

\* Mutant: leaving the active state is not counted.
TransitionLeaky(n, new) ==
    /\ pendingCt' = Moved(pendingCt, "Pending", st[n], new)
    /\ activeCt' = activeCt + (IF new = "Active" THEN 1 ELSE 0)
    /\ failedCt' = Moved(failedCt, "Failed", st[n], new)
    /\ st' = [st EXCEPT ![n] = new]

\* WorkflowInstance::transition
Transition(n, new) ==
    /\ pendingCt' = Moved(pendingCt, "Pending", st[n], new)
    /\ activeCt' = Moved(activeCt, "Active", st[n], new)
    /\ failedCt' = Moved(failedCt, "Failed", st[n], new)
    /\ st' = [st EXCEPT ![n] = new]

\* The retries that are left, one element for each of them; the sum of the
\* retries of all nodes is their number.
RetriesLeft == {x \in Node \X (1..RetryCap) : x[2] <= retries[x[1]]}

\* WorkflowInstance::measure; the sums saturate.
Measure ==
    SatAdd(SatAdd(SatAdd(SatSub(TimeoutAt, now), 1000 * pendingCt),
                  100 * activeCt), 1000 * Cardinality(RetriesLeft))

-----------------------------------------------------------------------------
\* Mutant: the retries are not capped.
CapRetriesNot == MaxRetries

\* The retries each node starts with.
CapRetries == IF MaxRetries > RetryCap THEN RetryCap ELSE MaxRetries

\* WorkflowDef::validated sorts and deduplicates the nodes and accepts every
\* edge set over them (WorkflowDef::new, which keeps duplicates, is left out);
\* WorkflowInstance::new caps the retries.
WfInit ==
    /\ edges \in SUBSET (Node \X Node)
    /\ st = [n \in Node |-> "Pending"]
    /\ retries = [n \in Node |-> CapRetries]
    /\ pendingCt = Cardinality(Node) /\ activeCt = 0 /\ failedCt = 0
    /\ status = "Running"
    /\ now = 0

\* start_node; the status of the workflow is not looked at.
StartNode(n) ==
    /\ st[n] = "Pending"
    /\ DependenciesSatisfied(n)
    /\ Transition(n, "Active")
    /\ UNCHANGED <<edges, retries, status, now>>

\* Mutant: failures are forgotten once every node is terminal.
UpdateWorkflowStatusBlind ==
    status' = IF pendingCt' = 0 /\ activeCt' = 0 THEN "Success" ELSE status

\* update_workflow_status, on the counters after the transition.
UpdateWorkflowStatus ==
    status' = IF pendingCt' = 0 /\ activeCt' = 0
              THEN IF failedCt' > 0 THEN "Failure" ELSE "Success"
              ELSE status

\* complete_node
CompleteNode(n) ==
    /\ st[n] = "Active"
    /\ Transition(n, "Completed")
    /\ UpdateWorkflowStatus
    /\ UNCHANGED <<edges, retries, now>>

\* Mutant: a retry costs nothing.
FailNodeFreeRetry(n) ==
    /\ st[n] = "Active"
    /\ \/ /\ retries[n] > 0
          /\ Transition(n, "Pending")
          /\ UNCHANGED <<retries, status>>
       \/ /\ retries[n] = 0
          /\ Transition(n, "Failed")
          /\ status' = "Failure"
          /\ UNCHANGED retries
    /\ UNCHANGED <<edges, now>>

\* fail_node: back to pending while retries are left.
FailNode(n) ==
    /\ st[n] = "Active"
    /\ \/ /\ retries[n] > 0
          /\ Transition(n, "Pending")
          /\ retries' = [retries EXCEPT ![n] = @ - 1]
          /\ UNCHANGED status
       \/ /\ retries[n] = 0
          /\ Transition(n, "Failed")
          /\ status' = "Failure"
          /\ UNCHANGED retries
    /\ UNCHANGED <<edges, now>>

\* apply_timeout, unconditional.
ApplyTimeout ==
    /\ status' = "Failure"
    /\ UNCHANGED <<edges, st, retries, counters, now>>

\* KernelState::tick_checked
TimeTick ==
    /\ now < MaxTime
    /\ now' = now + 1
    /\ UNCHANGED <<edges, st, retries, counters, status>>

\* KernelOp::WorkflowTick: it checks that the workflow runs, and that is all.
WorkflowTick == status = "Running" /\ UNCHANGED wfVars

WfNext ==
    \/ \E n \in Node : StartNode(n) \/ CompleteNode(n) \/ FailNode(n)
    \/ ApplyTimeout
    \/ TimeTick
    \/ WorkflowTick

WfSpec == WfInit /\ [][WfNext]_wfVars

\* Whoever executes the nodes keeps at it: a node that stays ready is started
\* and an active node reports completion or failure.  No fairness is assumed
\* of the supervisor or the clock.
WfFairness ==
    \A n \in Node : WF_wfVars(StartNode(n)) /\ WF_wfVars(CompleteNode(n) \/ FailNode(n))

WfFairSpec == WfSpec /\ WfFairness

-----------------------------------------------------------------------------
WfTypeOK ==
    /\ edges \subseteq Node \X Node
    /\ st \in [Node -> NodeState]
    /\ retries \in [Node -> 0..RetryCap]
    /\ pendingCt \in Nat /\ activeCt \in Nat /\ failedCt \in Nat
    /\ status \in {"Running", "Success", "Failure"}
    /\ now \in 0..MaxTime

\* The three counters equal the number of nodes in their state, so the O(1)
\* queries answer as a scan would and no saturating_sub ever saturates.
CountersExact ==
    /\ pendingCt = Cardinality({n \in Node : st[n] = "Pending"})
    /\ activeCt = Cardinality({n \in Node : st[n] = "Active"})
    /\ failedCt = Cardinality({n \in Node : st[n] = "Failed"})

\* A node that was ever started has all its dependencies completed, through
\* retries, timeouts and failures elsewhere.
DependencyOrder ==
    \A n \in Node : st[n] # "Pending" =>
        \A m \in Predecessors(n) : st[m] = "Completed"

\* The status tells the outcome: Success only when every node completed, and
\* a node that failed for good makes the workflow a failure.
StatusSound ==
    /\ status = "Success" => \A n \in Node : st[n] = "Completed"
    /\ (\E n \in Node : st[n] = "Failed") => status = "Failure"

\* No sum of the measure can exceed u64: with u16 retries and a timeout below
\* 2^63 it takes some 10^11 nodes to break it.
MeasureFits ==
    TimeoutAt + 1000 * Cardinality(Node) + 1000 * (Cardinality(Node) * RetryCap) <= MaxWord

\* As long as its sums fit, every start, completion, failure and retry strictly
\* lowers the measure, up to the very last value of MaxWord that fits.
MeasureDecreases == [][MeasureFits /\ st' # st => Measure' < Measure]_wfVars

\* "A natural number that decreases on each workflow step", whatever the
\* timeout is: near u64::MAX the sums saturate and the measure stands still.
MeasureAlwaysDecreases == [][st' # st => Measure' < Measure]_wfVars

\* The definition has no cycle: some numbering of the nodes increases along
\* every edge.
Acyclic ==
    \E rank \in [Node -> 1..Cardinality(Node)] : \A e \in edges : rank[e[1]] < rank[e[2]]

\* An acyclic workflow leaves the running state, whatever fails and however
\* often it is retried.  (One without nodes is left running: only the end of
\* a node updates the status.)
DagTerminates == Acyclic /\ Node # {} => <>(status # "Running")

\* "static DAG structure": every definition that `validated` accepts runs to
\* an end.
ValidatedTerminates == <>(status # "Running")

\* "timeout: terminal state (no further steps)": a workflow that is no longer
\* running keeps its status.
TerminalIsFinal == [][status # "Running" => status' = status]_wfVars
=============================================================================
