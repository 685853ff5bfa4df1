----------------------------- MODULE KernelCore -----------------------------
(***************************************************************************)
(* KernelStateCore, the extractable core of the kernel: the capability     *)
(* table and children index of module Capabilities, the key state of       *)
(* module Keys, security metadata of plugins and resources, and the clock. *)
(* kernel_dispatch is its only entry point.  It takes requests that a      *)
(* shell has approved before and checks next to nothing itself: no parent, *)
(* no seal, no holder.  A plugin or resource without metadata has the      *)
(* default ones (Public, no capabilities) and is added when it is set.     *)
(*                                                                         *)
(* The shell is outside the repository.  The one modelled here starts from *)
(* one root, approves a delegation only from a valid capability, for       *)
(* rights that it has, under an id that is free and larger than the        *)
(* parent's, and seals it with the current key; but other requests may be  *)
(* dispatched between approval and dispatch, and a request may be          *)
(* dispatched again, which nothing in the core prevents.                   *)
(***************************************************************************)
EXTENDS Capabilities, FiniteSets

CONSTANTS
    Key,           \* key values
    MaxEpoch,      \* the largest key epoch (u64::MAX in the code)
    MaxTime,       \* the largest time (u64::MAX in the code)
    Level,         \* levels that requests set, a subset of 0..3
    MaxApproved    \* bound on approved delegations not yet dispatched

ASSUME CoreAssumption ==
    /\ None \notin Nat /\ None \notin Key
    /\ MaxEpoch \in Nat /\ MaxTime \in Nat /\ MaxApproved \in Nat
    /\ Level \subseteq 0..3

VARIABLES
    level,         \* PluginMeta.level; plugins and held are the other metadata
    resources,     \* the resources that have metadata
    resLevel,      \* ResourceMeta.level
    now,           \* KernelStateCore.now
    current, epoch, previous, previousEpoch,   \* KernelStateCore.key_state
    seal,          \* payload and signature of every capability of the table
    approved,      \* approved CapDelegate requests
    overtaken      \* history: inserted when the parent was already revoked

keyState == <<current, epoch, previous, previousEpoch>>
metaVars == <<level, resources, resLevel, now>>
coreVars == <<capVars, metaVars, keyState, seal, approved, overtaken>>

Sealed == {seal[c] : c \in DOMAIN seal}

Keys == INSTANCE Keys WITH
    ParentId <- CapId, MaxMinted <- Cardinality(CapId), minted <- Sealed

-----------------------------------------------------------------------------
(* Queries *)

\* KernelStateCore::plugin_holds
PluginHolds(p, c) == p \in plugins /\ c \in held[p]

\* KernelStateCore::cap_is_valid
CapIsValid(c) == c \in DOMAIN caps /\ caps[c].valid

\* Mutant: the epoch is left out of the check.
VerifySealOnly(c) == Keys!VerifySeal(seal[c].payload, seal[c].tag)

\* KernelStateCore::verify_cap_seal
VerifyCapSeal(c) == Keys!VerifyCapSeal(seal[c])

\* What a shell asks before it lets p use capability c.
Usable(p, c) == PluginHolds(p, c) /\ CapIsValid(c) /\ VerifyCapSeal(c)

-----------------------------------------------------------------------------
\* set_plugin_meta and set_resource_meta: upserts.  get_plugin_meta and
\* get_resource_meta read the default where there is no entry, which is what
\* the functions hold there.
SetPluginMeta(p, l, hs) ==
    /\ plugins' = plugins \cup {p}
    /\ level' = [level EXCEPT ![p] = l]
    /\ held' = [held EXCEPT ![p] = hs]

SetResourceMeta(r, l) ==
    /\ resources' = resources \cup {r}
    /\ resLevel' = [resLevel EXCEPT ![r] = l]

\* KernelStateCore::empty
CoreInit ==
    /\ CapInit
    /\ level = [p \in PluginId |-> 0]
    /\ resources = {}
    /\ resLevel = [r \in ResourceId |-> 0]
    /\ now = 0
    /\ seal = [c \in {} |-> None]
    /\ Keys!KeysInit
    /\ approved = {}
    /\ overtaken = {}

\* The shell approves a delegation under a free id, sealed with the current
\* key: the root, or some of the rights of a valid capability.
Request(id, cap) ==
    LET payload == [parent |-> cap.parent, epoch |-> epoch]
    IN  [id |-> id, cap |-> cap,
         seal |-> [payload |-> payload, tag |-> Keys!SealPayload(current, payload)]]

Approve(id, cap) ==
    /\ Cardinality(approved) < MaxApproved
    /\ id \notin DOMAIN caps
    /\ approved' = approved \cup {Request(id, cap)}
    /\ UNCHANGED <<capVars, metaVars, keyState, seal, overtaken>>

ApproveRoot(p, r) == Approve(0, NewCapability(p, r, Right, None))

ApproveDelegation(id, p, parent, rs) ==
    /\ CapIsValid(parent) /\ parent < id
    /\ rs \subseteq caps[parent].rights
    /\ Approve(id, NewCapability(p, caps[parent].target, rs, parent))

\* Mutant: an entry with the same id is replaced.
DispatchCapDelegateReplaces(req) ==
    LET target == req.cap.holder
    IN  /\ caps' = InsertCap(caps, req.id, req.cap)
        /\ children' = AddChildToIndex(children, req.cap.parent, req.id)
        /\ seal' = InsertCap(seal, req.id, req.seal)
        /\ SetPluginMeta(target, level[target], held[target] \cup {req.id})
        /\ UNCHANGED <<nextCapId, resources, resLevel, now, keyState>>

\* dispatch_cap_delegate: insert the capability unless its id is taken, and
\* upsert the metadata of the target.  Whether the parent is in the table and
\* valid is not looked at, and next_cap_id is left alone.
DispatchCapDelegate(req) ==
    LET target == req.cap.holder
    IN  /\ req.id \notin DOMAIN caps
        /\ caps' = InsertCap(caps, req.id, req.cap)
        /\ children' = AddChildToIndex(children, req.cap.parent, req.id)
        /\ seal' = InsertCap(seal, req.id, req.seal)
        /\ SetPluginMeta(target, level[target], held[target] \cup {req.id})
        /\ UNCHANGED <<nextCapId, resources, resLevel, now, keyState>>

\* The shell hands an approved delegation to kernel_dispatch, and may
\* keep the request and dispatch it again.
Dispatch(req) ==
    /\ approved' \in {approved, approved \ {req}}
    /\ DispatchCapDelegate(req)
    /\ overtaken' = IF req.cap.parent # None /\ ~CapIsValid(req.cap.parent)
                    THEN overtaken \cup {req.id} ELSE overtaken

\* CapIdCollision: kernel_dispatch consumes the core and returns the error
\* alone, so the shell goes on with the copy it kept.
DispatchCollision(req) ==
    /\ req.id \in DOMAIN caps
    /\ approved' = approved \ {req}
    /\ UNCHANGED <<capVars, metaVars, keyState, seal, overtaken>>

\* Mutant: only the children are revoked with a capability.
DispatchCapRevokeShallow(c) ==
    /\ c \in DOMAIN caps
    /\ caps' = MarkRevoked(caps, {c} \cup children[c])
    /\ UNCHANGED <<children, nextCapId, plugins, held>>
    /\ UNCHANGED <<metaVars, keyState, seal, approved, overtaken>>

\* dispatch_cap_revoke; CapNotFound is an error.
DispatchCapRevoke(c) ==
    /\ c \in DOMAIN caps
    /\ caps' = MarkRevoked(caps, FastRevokeSet(caps, children, c))
    /\ UNCHANGED <<children, nextCapId, plugins, held>>
    /\ UNCHANGED <<metaVars, keyState, seal, approved, overtaken>>

\* dispatch_set_plugin_level and dispatch_set_resource_level: any level, up
\* or down; the other metadata are kept.
DispatchSetPluginLevel(p, l) ==
    /\ SetPluginMeta(p, l, held[p])
    /\ UNCHANGED <<caps, children, nextCapId, resources, resLevel, now>>
    /\ UNCHANGED <<keyState, seal, approved, overtaken>>

DispatchSetResourceLevel(r, l) ==
    /\ SetResourceMeta(r, l)
    /\ UNCHANGED <<capVars, level, now, keyState, seal, approved, overtaken>>

\* dispatch_tick; CounterOverflow is an error.
DispatchTick ==
    /\ now < MaxTime
    /\ now' = now + 1
    /\ UNCHANGED <<capVars, level, resources, resLevel, keyState, seal, approved, overtaken>>

\* dispatch_rotate_key, to any key.
DispatchRotateKey(k) ==
    /\ UNCHANGED <<capVars, metaVars, seal, approved, overtaken>>
    /\ Keys!RotateKey(k)

CoreNext ==
    \/ \E p \in PluginId, r \in ResourceId : ApproveRoot(p, r)
    \/ \E id \in CapId, p \in PluginId, parent \in DOMAIN caps, rs \in SUBSET Right \ {{}} :
          ApproveDelegation(id, p, parent, rs)
    \/ \E req \in approved : Dispatch(req) \/ DispatchCollision(req)
    \/ \E c \in CapId : DispatchCapRevoke(c)
    \/ \E p \in PluginId, l \in Level : DispatchSetPluginLevel(p, l)
    \/ \E r \in ResourceId, l \in Level : DispatchSetResourceLevel(r, l)
    \/ DispatchTick
    \/ \E k \in Key : DispatchRotateKey(k)

CoreSpec == CoreInit /\ [][CoreNext]_coreVars

-----------------------------------------------------------------------------
\* A capability that a plugin can use is its own, was sealed under the current
\* key or the one before it, and gives nothing that any of its ancestors does
\* not give, whatever was dispatched between its approval and its dispatch.
UsableEntitled ==
    \A p \in PluginId, c \in DOMAIN caps : Usable(p, c) =>
        /\ caps[c].holder = p
        /\ seal[c].payload.epoch \in {epoch, epoch - 1}
        /\ \A a \in DOMAIN caps : c \in CollectDescendants(children, a) =>
              caps[c].target = caps[a].target /\ caps[c].rights \subseteq caps[a].rights

\* "Valid capabilities have valid parents" holds except where a revocation
\* overtook an approved delegation: a revocation reaches everything that is
\* in the table when it is dispatched.
OrphansOvertaken ==
    \A c \in DOMAIN caps :
        caps[c].valid /\ caps[c].parent # None /\ ~CapIsValid(caps[c].parent)
            => c \in overtaken

\* A capability of the table that a plugin cannot use, because it is not its
\* own, is revoked, or its seal has expired, never becomes usable again:
\* neither by a delegation under the same id, nor by a key that returns.
UsabilityFinal ==
    [][\A c \in DOMAIN caps : \A p \in PluginId : ~Usable(p, c) => ~Usable(p, c)']_coreVars
=============================================================================
