------------------------------- MODULE Kernel -------------------------------
(***************************************************************************)
(* The state machine behind the Kernel API: the capability table of module *)
(* Capabilities together with the resource history (MetaState), the part   *)
(* of the plugin states that kernel steps change, and authorization        *)
(* tokens.  A token (Step::HostCall with its Authorized witness) is built  *)
(* against one state and executed against a later one; it can be executed  *)
(* any number of times.                                                    *)
(*                                                                         *)
(* Arguments of a host call are one number, as only args[0] is ever read.  *)
(* The bounds check of a call's memory regions refuses a call without      *)
(* looking at anything that changes, and is left out.                      *)
(***************************************************************************)
EXTENDS Capabilities, FiniteSets

CONSTANTS
    MaxResources,  \* bound on allocations
    MaxTokens,     \* bound on outstanding tokens
    Level,         \* security levels in use, a subset of 0..3
    Arg,           \* values of args[0]
    Quota,         \* PluginState.memory_quota
    MaxWord,       \* the largest u64
    HostFn,        \* host functions in use
    Policy,        \* KernelState.policy: "DenyAll", "PermitAll", or the
                   \* decision d of Custom(d)
    Freed          \* ResourceStatus::Freed

ASSUME KernelAssumption ==
    /\ MaxResources \in Nat /\ MaxTokens \in Nat
    /\ Level \subseteq 0..3
    /\ Arg \subseteq Nat /\ Quota \in Nat /\ MaxWord \in Nat
    /\ HostFn \subseteq {"CapCall", "CapSend", "KernelAlloc", "CapRevoke",
                         "Declassify", "MemFree", "ThreadCreate"}
    /\ Policy \in {"DenyAll", "PermitAll", "Permit", "Deny", "Indeterminate"}
    /\ Freed \notin PluginId

Addr == 0..(MaxResources - 1)

VARIABLES
    resources,  \* MetaState.resources: address -> owner, or Freed
    freed,      \* MetaState.freed_set
    level,      \* PluginState.level
    memUsed,    \* PluginState.memory_used
    granted,    \* history: bytes granted to the plugin by kernel_alloc
    tokens      \* outstanding authorization tokens

memVars == <<resources, freed>>
pluginVars == <<level, memUsed, granted>>
kernelVars == <<capVars, memVars, pluginVars, tokens>>

-----------------------------------------------------------------------------
(* Resource history *)

\* MetaState::is_live
IsLive(a) == a \in DOMAIN resources /\ resources[a] # Freed /\ a \notin freed

\* RevocationState::any_valid_targeting
AnyValidTargeting(a) == \E c \in DOMAIN caps : caps[c].valid /\ caps[c].target = a

\* Mutant: freed addresses are handed out again.
AllocAddrReuses == Cardinality({a \in DOMAIN resources : a \notin freed})

\* The address State::apply_alloc hands out: the number of entries.
AllocAddr == Cardinality(DOMAIN resources)

\* MetaState::alloc_mut at that address.
AllocFor(owner) ==
    /\ AllocAddr < MaxResources
    /\ resources' = [a \in DOMAIN resources \cup {AllocAddr} |->
                        IF a = AllocAddr THEN owner ELSE resources[a]]
    /\ UNCHANGED freed

\* Mutant: an address that a valid capability targets can be freed.
CanFreePureUnguarded(a) == a \notin freed

\* Step::MemFree through execute accepts any address that is not in the freed
\* set and that no valid capability targets, allocated or not.
CanFreePure(a) == a \notin freed /\ ~AnyValidTargeting(a)

\* Kernel::free and Step::MemFree through execute_mut.
CanFreeFast(a) ==
    /\ ~AnyValidTargeting(a)
    /\ a \notin freed
    /\ a \in DOMAIN resources /\ resources[a] # Freed

\* resource_integrity: the level of the owner, Public (0) without one.
ResourceIntegrity(a) ==
    IF a \in DOMAIN resources /\ resources[a] \in plugins
    THEN level[resources[a]] ELSE 0

-----------------------------------------------------------------------------
(* Authorization *)

HostCall == [caller : PluginId, fn : HostFn, arg : Arg]

\* HostFunction::is_thread_operation; the five thread operations are alike.
\* They have no required action: authorization and execution refuse them.
IsThreadOperation(fn) == fn = "ThreadCreate"

\* HostCall::required_action: the target and the right a call needs.
RequiredTarget(hc) ==
    IF hc.fn \in {"CapSend", "KernelAlloc", "Declassify"} THEN 0 ELSE hc.arg

RequiredRight(hc) ==
    CASE hc.fn = "CapCall"     -> "Read"
      [] hc.fn = "CapSend"     -> "Send"
      [] hc.fn = "KernelAlloc" -> "Create"
      [] hc.fn = "MemFree"     -> "Delete"
      [] hc.fn = "CapRevoke"   -> "Revoke"
      [] hc.fn = "Declassify"  -> "Declassify"

RequiredAction(hc) ==
    [subject |-> hc.caller, target |-> RequiredTarget(hc),
     right |-> RequiredRight(hc), fn |-> hc.fn]

\* Authorized::check_capability on the snapshot cap of capability id.
CheckCapability(id, cap, act) ==
    /\ cap.holder = act.subject
    /\ cap.target = act.target
    /\ act.right \in cap.rights
    /\ act.subject \in plugins /\ id \in held[act.subject]

\* Mutant: validity was settled when the token was built.
CheckValiditySnapshot(id, cap) == id \in DOMAIN caps /\ cap.valid

\* Authorized::check_validity: the table's entry and the snapshot's parent.
CheckValidity(id, cap) ==
    /\ id \in DOMAIN caps
    /\ caps[id].valid
    /\ cap.parent # None => cap.parent \in DOMAIN caps /\ caps[cap.parent].valid

\* PolicyDecisionFn::eval looks at neither the action nor the context.
PolicyEval ==
    CASE Policy = "DenyAll"   -> "Deny"
      [] Policy = "PermitAll" -> "Permit"
      [] OTHER                -> Policy

\* Authorized::check_policy fails closed: Indeterminate does not permit.
CheckPolicy == PolicyEval = "Permit"

\* biba_write_ok; no required action asks for Write.
BibaWriteOk(act) ==
    act.right = "Write" /\ act.subject \in plugins =>
        level[act.subject] >= ResourceIntegrity(act.target)

\* Mutant: a token for a freed resource still validates.
ValidateDead(t) ==
    /\ CheckCapability(t.id, t.cap, t.action)
    /\ CheckPolicy
    /\ CheckValidity(t.id, t.cap)
    /\ BibaWriteOk(t.action)

\* Authorized::validate, in the current state.  The liveness check truncates the
\* target to 64 bits; the target of a required action is a u64 to begin with.
Validate(t) ==
    /\ CheckCapability(t.id, t.cap, t.action)
    /\ CheckPolicy
    /\ CheckValidity(t.id, t.cap)
    /\ IsLive(t.action.target)
    /\ BibaWriteOk(t.action)

\* execute_cap_call: some held capability is valid.
CapCallOk(p) == \E c \in held[p] : c \in DOMAIN caps /\ caps[c].valid

\* Mutant: the sum wraps around.
CanAllocMemoryWraps(p, size) == (memUsed[p] + size) % (MaxWord + 1) <= Quota

\* PluginState::can_alloc_memory, with checked_add.
CanAllocMemory(p, size) ==
    memUsed[p] + size <= MaxWord /\ memUsed[p] + size <= Quota

-----------------------------------------------------------------------------
KernelInit ==
    /\ CapInit
    /\ resources = [a \in {} |-> Freed]
    /\ freed = {}
    /\ level = [p \in PluginId |-> 0]
    /\ memUsed = [p \in PluginId |-> 0]
    /\ granted = [p \in PluginId |-> 0]
    /\ tokens = {}

\* Kernel::register_plugin
Register(p, l) ==
    /\ RegisterPlugin(p)
    /\ level' = [level EXCEPT ![p] = l]
    /\ memUsed' = [memUsed EXCEPT ![p] = 0]
    /\ UNCHANGED <<memVars, granted, tokens>>

\* Kernel::insert_cap_raw; a careful caller does not target a freed address.
InsertRaw(id, cap, p) ==
    /\ RawInputs = "checked" => cap.target \notin freed
    /\ InsertCapRaw(id, cap, p)
    /\ UNCHANGED <<memVars, pluginVars, tokens>>

\* Kernel::delegate_cap
Delegate(c, p, rs) ==
    /\ DelegateCap(c, p, rs) \/ DelegateCapFails(c, p, rs)
    /\ UNCHANGED <<memVars, pluginVars, tokens>>

\* Kernel::revoke_cap and Step::CapRevoke
Revoke(c) ==
    /\ RevokePure(c) \/ RevokeFast(c)
    /\ UNCHANGED <<memVars, pluginVars, tokens>>

\* Kernel::alloc, for any owner and without a quota.
Alloc(owner) ==
    /\ AllocFor(owner)
    /\ UNCHANGED <<capVars, pluginVars, tokens>>

\* State::apply_free (MetaState::free): only the freed set changes.
FreePure(a) ==
    /\ "pure" \in Paths
    /\ CanFreePure(a)
    /\ freed' = freed \cup {a}
    /\ UNCHANGED <<capVars, resources, pluginVars, tokens>>

\* State::apply_free_mut (MetaState::free_mut)
FreeFast(a) ==
    /\ "fast" \in Paths
    /\ CanFreeFast(a)
    /\ freed' = freed \cup {a}
    /\ resources' = [resources EXCEPT ![a] = Freed]
    /\ UNCHANGED <<capVars, pluginVars, tokens>>

\* The token host_call_atomic builds: a copy of the table's entry, and the
\* action; its policy context is not looked at by any policy.
Authorized(hc, c) == [id |-> c, cap |-> caps[c], action |-> RequiredAction(hc)]

\* Step::host_call_atomic.  Its own comparison of the holder with the caller is
\* part of CheckCapability.  (Authorized::validate_atomic can also be called
\* with a Capability the caller made up: no such token is modelled.)
Authorize(hc, c) ==
    /\ Cardinality(tokens) < MaxTokens
    /\ c \in DOMAIN caps
    /\ ~IsThreadOperation(hc.fn)
    /\ Validate(Authorized(hc, c))
    /\ tokens' = tokens \cup {Authorized(hc, c)}
    /\ UNCHANGED <<capVars, memVars, pluginVars>>

\* execute_host_call up to the dispatch: any call that requires the token's
\* action may be executed with it.
Admitted(hc, t) ==
    /\ t \in tokens
    /\ ~IsThreadOperation(hc.fn)
    /\ RequiredAction(hc) = t.action
    /\ Validate(t)
    /\ hc.caller \in plugins

\* execute_cap_call leaves the state unchanged.
HostCapCall(hc, t) ==
    /\ hc.fn = "CapCall" /\ Admitted(hc, t)
    /\ CapCallOk(hc.caller)
    /\ UNCHANGED kernelVars

\* execute_kernel_alloc
HostAlloc(hc, t) ==
    /\ hc.fn = "KernelAlloc" /\ Admitted(hc, t)
    /\ CanAllocMemory(hc.caller, hc.arg)
    /\ AllocFor(hc.caller)
    /\ memUsed' = [memUsed EXCEPT ![hc.caller] =
                      IF @ + hc.arg > MaxWord THEN MaxWord ELSE @ + hc.arg]
    /\ granted' = [granted EXCEPT ![hc.caller] = @ + hc.arg]
    /\ UNCHANGED <<capVars, level, tokens>>

\* execute_cap_revoke
HostRevoke(hc, t) ==
    /\ hc.fn = "CapRevoke" /\ Admitted(hc, t)
    /\ RevokePure(hc.arg) \/ RevokeFast(hc.arg)
    /\ UNCHANGED <<memVars, pluginVars, tokens>>

\* execute_declassify: only downwards.
HostDeclassify(hc, t) ==
    /\ hc.fn = "Declassify" /\ Admitted(hc, t)
    /\ hc.arg \in 0..3 /\ hc.arg <= level[hc.caller]
    /\ level' = [level EXCEPT ![hc.caller] = hc.arg]
    /\ UNCHANGED <<capVars, memVars, memUsed, granted, tokens>>

\* The checks of execute_mem_free once a token admitted the call.  They are
\* never met (HostFreeRefused), so no action follows them.
HostFreeReached(hc, t) ==
    /\ hc.fn = "MemFree" /\ Admitted(hc, t)
    /\ hc.arg \notin freed
    /\ ~AnyValidTargeting(hc.arg)

KernelNext ==
    \/ \E p \in PluginId, l \in Level : Register(p, l)
    \/ \E id \in CapId, cap \in Capability, p \in PluginId : InsertRaw(id, cap, p)
    \/ \E c \in CapId, p \in PluginId, rs \in SUBSET Right : Delegate(c, p, rs)
    \/ \E c \in CapId : Revoke(c)
    \/ \E p \in PluginId : Alloc(p)
    \/ \E a \in Addr : FreePure(a) \/ FreeFast(a)
    \/ \E hc \in HostCall, c \in CapId : Authorize(hc, c)
    \/ \E hc \in HostCall, t \in tokens :
          \/ HostCapCall(hc, t) \/ HostAlloc(hc, t)
          \/ HostRevoke(hc, t)  \/ HostDeclassify(hc, t)

KernelSpec == KernelInit /\ [][KernelNext]_kernelVars

-----------------------------------------------------------------------------
\* Actions and tokens; a thread operation has no action, so none has a token.
Action ==
    [subject : PluginId, target : Nat, fn : {f \in HostFn : ~IsThreadOperation(f)},
     right : {"Read", "Send", "Create", "Delete", "Revoke", "Declassify"}]

Token == [id : CapId, cap : Capability, action : Action]

KernelTypeOK ==
    /\ CapTypeOK
    /\ DOMAIN resources \subseteq Addr
    /\ resources \in [DOMAIN resources -> PluginId \cup {Freed}]
    /\ freed \subseteq Addr
    /\ level \in [PluginId -> 0..3]
    /\ memUsed \in [PluginId -> 0..MaxWord]
    /\ granted \in [PluginId -> 0..MaxWord]
    /\ tokens \subseteq Token

\* Temporal safety: no valid capability targets a freed address, whichever of
\* the two free paths and the two revocation paths were taken.
NoDangling == \A c \in DOMAIN caps : caps[c].valid => caps[c].target \notin freed

\* The life of a resource: allocation never lands on an address in use or
\* used before, so an entry keeps its owner until it is freed, and a freed
\* address is never live again.
ResourceLifecycle ==
    [][/\ \A a \in DOMAIN resources :
             a \in DOMAIN resources' /\ resources'[a] \in {resources[a], Freed}
       /\ \A a \in freed : a \in freed' /\ ~IsLive(a)']_kernelVars

\* "Allocation makes resource live": a freshly allocated address is live.  It
\* holds while frees are taken in place; Step::MemFree through execute can mark
\* an address as freed before it is handed out.
AllocIsLive ==
    [][\A a \in DOMAIN resources' \ DOMAIN resources : IsLive(a)']_kernelVars

\* The ancestors of capability c, itself included.
AncestorsOrSelf(c) == {a \in DOMAIN caps : c \in CollectDescendants(children, a)}

\* p holds, now, a capability for right r on resource a that is its own and
\* valid together with all its ancestors, and the resource is live.
HoldsLive(p, a, r) ==
    /\ IsLive(a)
    /\ \E c \in held[p] \cap DOMAIN caps :
          /\ caps[c].holder = p /\ caps[c].target = a /\ r \in caps[c].rights
          /\ \A b \in AncestorsOrSelf(c) : caps[b].valid

\* Complete mediation in the state of execution: a token that validates now,
\* however old it is and whatever was revoked or freed since, stands for a
\* live right whose whole chain of delegations is still valid; the second
\* check of execute_cap_call then never fails.
TokensFresh ==
    \A t \in tokens : Validate(t) =>
        /\ HoldsLive(t.action.subject, t.action.target, t.action.right)
        /\ CapCallOk(t.action.subject)

\* A plugin's level and memory account change only while it holds the right
\* for it, live and unrevoked along the whole chain.
EffectsMediated ==
    [][\A p \in plugins :
          /\ level'[p] # level[p] => HoldsLive(p, 0, "Declassify")
          /\ memUsed'[p] # memUsed[p] => HoldsLive(p, 0, "Create")]_kernelVars

\* The host function mem_free never succeeds: the capability that authorizes
\* it targets the address and is valid, and a valid capability that targets
\* the address forbids the free.
HostFreeRefused ==
    \A hc \in HostCall, t \in tokens : ~HostFreeReached(hc, t)

\* kernel_alloc never grants a plugin more bytes in total than its quota.
QuotaSound == \A p \in PluginId : granted[p] <= Quota

\* "Equivalent to `execute` ... The validation logic is identical": the two
\* executors accept the same frees.
FreePathsAgree == \A a \in Addr : CanFreePure(a) <=> CanFreeFast(a)
=============================================================================
