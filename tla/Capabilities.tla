---------------------------- MODULE Capabilities ----------------------------
(***************************************************************************)
(* The kernel's capability table (RevocationState), the capability id      *)
(* counter, the handles plugins hold, and the operations of the Kernel API *)
(* on them: insert_cap_raw, delegate_cap and the two revocation paths, the *)
(* pure one behind Kernel::execute (a fuelled walk up the parent chain)    *)
(* and the in-place one behind Kernel::revoke_cap and execute_mut (a       *)
(* breadth-first walk down the children index).                            *)
(*                                                                         *)
(* Sorted vectors searched by key are functions and sets here.  Epoch and  *)
(* seal of a capability are not distinguished by any property of this      *)
(* module.                                                                 *)
(***************************************************************************)
EXTENDS Naturals

CONSTANTS
    PluginId,    \* plugin ids that callers name; 0 is the reserved holder
    ResourceId,  \* resource ids that capabilities target
    Right,       \* individual access rights
    MaxCapId,    \* the largest CapId (u128::MAX in the code)
    None,        \* the absent parent
    RawInputs,   \* how insert_cap_raw is called: "checked", "roots" or "any"
    Paths        \* the executors in use: "pure" (execute), "fast" (execute_mut)

CapId == 0..MaxCapId

ASSUME MaxCapIdAssumption == MaxCapId \in Nat
ASSUME PluginIdAssumption == PluginId \subseteq Nat
ASSUME NoneAssumption == None \notin CapId
ASSUME ModeAssumption ==
    RawInputs \in {"checked", "roots", "any"} /\ Paths \subseteq {"pure", "fast"}

VARIABLES
    caps,        \* RevocationState.caps: the capabilities ever inserted
    children,    \* RevocationState.children_index, without vector order
    nextCapId,   \* KernelState.next_cap_id
    plugins,     \* the registered plugins
    held         \* PluginState.held_caps of every registered plugin

capVars == <<caps, children, nextCapId, plugins, held>>

Capability ==
    [holder : PluginId, target : ResourceId, rights : SUBSET Right,
     parent : CapId \cup {None}, valid : BOOLEAN]

-----------------------------------------------------------------------------
(* Operators on a capability table t and a children index ch *)

\* Mutant: one unit of fuel too few.
HasAncestorShortFuel(t, k, a) ==
    \E n \in 1..(k-1) : \E s \in [1..n -> DOMAIN t] :
        /\ s[1] = k
        /\ \A i \in 1..(n-1) : t[s[i]].parent = s[i+1]
        /\ t[s[n]].parent = a

\* has_ancestor: the walk up the parent chain of k starts with fuel k, so it
\* looks at the parents of at most k capabilities, k itself first.
HasAncestor(t, k, a) ==
    \E n \in 1..k : \E s \in [1..n -> DOMAIN t] :
        /\ s[1] = k
        /\ \A i \in 1..(n-1) : t[s[i]].parent = s[i+1]
        /\ t[s[n]].parent = a

InRevokeSet(t, k, c) == k = c \/ HasAncestor(t, k, c)

\* The capabilities RevocationState::revoke_transitive marks invalid.
RevokeSet(t, c) == {k \in DOMAIN t : InRevokeSet(t, k, c)}

\* collect_descendants: the queue with a visited set reaches the least set
\* that contains the root and is closed under the children index.
CollectDescendants(ch, root) ==
    {d \in CapId : \A S \in SUBSET CapId :
        (root \in S /\ \A p \in S : ch[p] \subseteq S) => d \in S}

\* The capabilities revoke_transitive_fast_mut marks invalid: of the ids it
\* collects, those that are in the table.
FastRevokeSet(t, ch, c) == CollectDescendants(ch, c) \cap DOMAIN t

\* Capability::revoke on every member of R.
MarkRevoked(t, R) ==
    [k \in DOMAIN t |-> IF k \in R THEN [t[k] EXCEPT !.valid = FALSE] ELSE t[k]]

\* RevocationState::insert_mut once the id is known to be free.
InsertCap(t, id, cap) ==
    [k \in DOMAIN t \cup {id} |-> IF k = id THEN cap ELSE t[k]]

AddChildToIndex(ch, parent, id) ==
    [p \in CapId |-> IF p = parent THEN ch[p] \cup {id} ELSE ch[p]]

-----------------------------------------------------------------------------
CapInit ==
    /\ caps = [k \in {} |-> None]
    /\ children = [p \in CapId |-> {}]
    /\ nextCapId = 0
    /\ plugins = {}
    /\ held = [p \in PluginId |-> {}]

\* Kernel::register_plugin, capability part: a new plugin holds nothing.
RegisterPlugin(p) ==
    /\ p \notin plugins
    /\ plugins' = plugins \cup {p}
    /\ held' = [held EXCEPT ![p] = {}]
    /\ UNCHANGED <<caps, children, nextCapId>>

\* Mutant: the collision check of insert_mut is dropped.
ApplyCapDelegateOverwrites(id, cap, target) ==
    /\ caps' = InsertCap(caps, id, cap)
    /\ children' = AddChildToIndex(children, cap.parent, id)
    /\ held' = [held EXCEPT ![target] = IF target \in plugins THEN @ \cup {id} ELSE @]

\* State::apply_cap_delegate_mut: insert the capability (no collision) and
\* hand it to the target, when the target is a registered plugin.
ApplyCapDelegate(id, cap, target) ==
    /\ id \notin DOMAIN caps
    /\ caps' = InsertCap(caps, id, cap)
    /\ children' = AddChildToIndex(children, cap.parent, id)
    /\ held' = [held EXCEPT ![target] = IF target \in plugins THEN @ \cup {id} ELSE @]

\* Capability::new
NewCapability(holder, target, rights, parent) ==
    [holder |-> holder, target |-> target, rights |-> rights,
     parent |-> parent, valid |-> TRUE]

\* insert_cap_raw is "kernel-internal / test use only" and checks nothing but
\* the collision, so what it is given is up to its caller.  "roots" restricts
\* it to capabilities without a parent, at any id, handed to their holder.
RootRaw(cap, grantee) == cap.parent = None /\ grantee = cap.holder

\* "checked" is what a careful caller would ensure: the id is not ahead of the
\* counter, the holder receives the handle, and a parent is an older valid
\* capability whose authority covers the new one.
WellFormedRaw(id, cap, grantee) ==
    /\ id <= nextCapId
    /\ grantee = cap.holder
    /\ cap.parent # None =>
         /\ cap.parent \in DOMAIN caps
         /\ cap.parent < id
         /\ caps[cap.parent].valid
         /\ caps[cap.parent].target = cap.target
         /\ cap.rights \subseteq caps[cap.parent].rights

\* Kernel::insert_cap_raw of a capability built with Capability::new.
InsertCapRaw(id, cap, grantee) ==
    /\ cap.holder # 0 /\ cap.rights # {} /\ cap.valid
    /\ RawInputs = "roots" => RootRaw(cap, grantee)
    /\ RawInputs = "checked" => WellFormedRaw(id, cap, grantee)
    /\ ApplyCapDelegate(id, cap, grantee)
    /\ UNCHANGED <<nextCapId, plugins>>

\* Mutant: a revoked parent is accepted.
CanDelegateRevoked(parent, requested) ==
    /\ parent \in DOMAIN caps
    /\ requested \cap caps[parent].rights # {}

\* The checks of Kernel::delegate_cap before the id is allocated.
CanDelegate(parent, requested) ==
    /\ parent \in DOMAIN caps
    /\ caps[parent].valid
    /\ requested \cap caps[parent].rights # {}

\* Mutant: the counter runs past the largest id.
AllocCapIdOverflows ==
    /\ nextCapId <= MaxCapId
    /\ nextCapId' = nextCapId + 1

\* KernelState::alloc_cap_id; MaxCapId itself is never handed out.
AllocCapId ==
    /\ nextCapId < MaxCapId
    /\ nextCapId' = nextCapId + 1

\* Mutant: the requested rights are granted without the intersection.
DelegateCapAmplifies(parent, target, requested) ==
    /\ CanDelegate(parent, requested)
    /\ AllocCapId
    /\ parent # MaxCapId /\ target # 0
    /\ LET child == NewCapability(target, caps[parent].target, requested, parent)
       IN  ApplyCapDelegate(nextCapId, child, target)
    /\ UNCHANGED plugins

\* Kernel::delegate_cap, success.
DelegateCap(parent, target, requested) ==
    /\ CanDelegate(parent, requested)
    /\ AllocCapId
    /\ parent # MaxCapId /\ target # 0
    /\ LET rights == requested \cap caps[parent].rights
           child  == NewCapability(target, caps[parent].target, rights, parent)
       IN  ApplyCapDelegate(nextCapId, child, target)
    /\ UNCHANGED plugins

\* Mutant: the handle is granted before the insertion and kept when it fails.
DelegateCapFailsGranting(parent, target, requested) ==
    /\ CanDelegate(parent, requested)
    /\ AllocCapId
    /\ parent = MaxCapId \/ target = 0 \/ nextCapId \in DOMAIN caps
    /\ held' = [held EXCEPT ![target] = IF target \in plugins THEN @ \cup {nextCapId} ELSE @]
    /\ UNCHANGED <<caps, children, plugins>>

\* Kernel::delegate_cap failing after the id was allocated: sealing panics on
\* the largest parent id, Capability::new rejects holder 0, or the insertion
\* finds the id taken.  The id stays consumed.
DelegateCapFails(parent, target, requested) ==
    /\ CanDelegate(parent, requested)
    /\ AllocCapId
    /\ \/ parent = MaxCapId
       \/ target = 0
       \/ nextCapId \in DOMAIN caps
    /\ UNCHANGED <<caps, children, plugins, held>>

\* Step::CapRevoke through Kernel::execute (State::apply_cap_revoke).
RevokePure(c) ==
    /\ "pure" \in Paths
    /\ c \in DOMAIN caps
    /\ caps' = MarkRevoked(caps, RevokeSet(caps, c))
    /\ UNCHANGED <<children, nextCapId, plugins, held>>

\* Kernel::revoke_cap, and Step::CapRevoke through Kernel::execute_mut
\* (State::apply_cap_revoke_mut).
RevokeFast(c) ==
    /\ "fast" \in Paths
    /\ c \in DOMAIN caps
    /\ caps' = MarkRevoked(caps, FastRevokeSet(caps, children, c))
    /\ UNCHANGED <<children, nextCapId, plugins, held>>

CapNext ==
    \/ \E p \in PluginId : RegisterPlugin(p)
    \/ \E id \in CapId, cap \in Capability, p \in PluginId : InsertCapRaw(id, cap, p)
    \/ \E c \in CapId, p \in PluginId, rs \in SUBSET Right :
          DelegateCap(c, p, rs) \/ DelegateCapFails(c, p, rs)
    \/ \E c \in CapId : RevokePure(c) \/ RevokeFast(c)

CapSpec == CapInit /\ [][CapNext]_capVars

-----------------------------------------------------------------------------
\* The table, the index, the counter and the handles have their types.
CapTypeOK ==
    /\ DOMAIN caps \subseteq CapId
    /\ caps \in [DOMAIN caps -> Capability]
    /\ children \in [CapId -> SUBSET CapId]
    /\ nextCapId \in CapId
    /\ plugins \subseteq PluginId
    /\ held \in [PluginId -> SUBSET CapId]

\* The children index, which only the in-place revocation reads, lists exactly
\* the capabilities whose parent field, which only the pure revocation and the
\* authorization check read, names the key.
IndexConsistent ==
    \A p, c \in CapId : c \in children[p] <=> (c \in DOMAIN caps /\ caps[c].parent = p)

\* ParentLt, the condition under which the comment of has_ancestor says the
\* fuel suffices: a parent is in the table and has a smaller id.
ParentLt ==
    \A c \in DOMAIN caps : caps[c].parent # None =>
        caps[c].parent \in DOMAIN caps /\ caps[c].parent < c

\* The two revocation paths mark the same capabilities, whichever capability
\* is revoked in whichever reachable table.
RevocationPathsAgree ==
    \A c \in DOMAIN caps : RevokeSet(caps, c) = FastRevokeSet(caps, children, c)

\* No capability amplifies authority at any depth of delegation, and none
\* outlives the revocation of any of its ancestors: a descendant has the
\* ancestor's target, no further right, and is valid only if the ancestor is.
AuthorityConfined ==
    \A a \in DOMAIN caps : \A d \in CollectDescendants(children, a) :
        /\ d \in DOMAIN caps
        /\ caps[d].target = caps[a].target
        /\ caps[d].rights \subseteq caps[a].rights
        /\ caps[d].valid => caps[a].valid

\* A handle in a plugin's held_caps names a capability of the table whose
\* holder is that plugin, so the two tests of check_capability agree.
HandlesSound ==
    \A p \in plugins : \A c \in held[p] : c \in DOMAIN caps /\ caps[c].holder = p

\* An id once handed out is never replaced: whatever the kernel does, an entry
\* of the table keeps its holder, target, rights and parent, and a revoked one
\* stays revoked.
RevocationPermanent ==
    [][\A c \in DOMAIN caps :
          /\ c \in DOMAIN caps'
          /\ caps'[c] \in {caps[c], [caps[c] EXCEPT !.valid = FALSE]}]_capVars
=============================================================================
