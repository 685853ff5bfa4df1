------------------------------- MODULE System -------------------------------
(***************************************************************************)
(* The steps of the microkernel over the whole state: the kernel of module *)
(* Kernel and the actors of module Actors (an actor has the id of its      *)
(* plugin), after boot.  A Step is plugin-internal computation, a host     *)
(* call, a kernel operation, a direct free or a direct revocation, and the *)
(* code executes it in two ways, written twice:                            *)
(*   - Step::execute maps a state to a new state or an error; it is the    *)
(*     function Execute below, from the record Here of the current state;  *)
(*   - Step::execute_mut changes the state in place; it is the action      *)
(*     ExecuteMut, put together from the actions of Kernel and Actors.     *)
(*                                                                         *)
(* cap_send checks a message and keeps nothing of it: the code that embeds *)
(* the kernel has to put it into the destination's queue (Forward).        *)
(***************************************************************************)
EXTENDS Kernel, Actors, Functions

CONSTANTS
    BootLevel,   \* the level each plugin was registered with
    BootOwner,   \* the plugin that got the first resource and capability
    BootRights,  \* the sets of rights delegated at boot
    MemBounds,   \* LinearMemory.bounds
    Region       \* memory regions <<address, length>> that steps name

ASSUME SystemAssumption ==
    /\ BootLevel \in [PluginId -> 0..3] /\ BootOwner \in PluginId
    /\ IsFiniteSet(PluginId) /\ Cardinality(PluginId) <= MaxCapId
    /\ MaxResources > 0 /\ 0 \in ResourceId
    /\ Right \in BootRights /\ BootRights \subseteq SUBSET Right \ {{}}
    /\ Actor \subseteq PluginId /\ Registered = Actor /\ Msg = PluginId
    /\ MemBounds \in 0..MaxWord
    /\ Region \subseteq (0..MaxWord) \X (0..MaxWord)

VARIABLES
    outbox,    \* messages cap_send accepted, by destination, not yet forwarded
    accepted   \* history: all messages cap_send accepted; a message is its
               \* source

mailVars == <<outbox, accepted>>
systemVars == <<kernelVars, actorVars, mailVars>>

-----------------------------------------------------------------------------
(* Steps *)

\* Vectors of regions and of messages, of at most one and two elements.
Regions == {{}} \cup {{r} : r \in Region}
Envelope == [src : PluginId, dst : PluginId]
NewMsgs == {<<>>} \cup {<<e>> : e \in Envelope} \cup {<<e, e>> : e \in Envelope}

PluginInternal ==
    {st \in [kind : {"PluginInternal"}, pid : PluginId, reads : Regions,
             writes : Regions, consume : BOOLEAN] :
        st.reads = {} \/ st.writes = {}}

\* A host call with its token and the HostResult the embedding provides.
HostCallStep ==
    [kind : {"HostCall"}, hc : HostCall, auth : tokens, regions : Regions,
     msgs : {<<>>}]
    \cup [kind : {"HostCall"}, hc : [caller : PluginId, fn : {"CapSend"}, arg : {0}],
          auth : tokens, regions : {{}}, msgs : NewMsgs]

\* The kernel's operations on actors and threads.  TimeTick and WorkflowTick
\* change nothing that plugins, actors or capabilities have; they are actions
\* of module Workflow.
KernelOp == [kind : {"RouteOne", "UnblockSend", "ThreadSwitch"}, dst : PluginId]

DirectFree == [kind : {"MemFree"}, caller : PluginId, addr : Addr]
DirectStep ==
    DirectFree \cup [kind : {"CapRevoke"}, caller : PluginId, cap : CapId]

Step == PluginInternal \cup HostCallStep \cup KernelOp \cup DirectStep

\* SecurityLevel: Public, Internal, Confidential, Secret, as numbers.
SecurityLevel == 0..3
FlowsTo(l, m) == l <= m

\* Step::subject; the kernel's own operations have none.
Subject(st) ==
    CASE st.kind = "PluginInternal"         -> {st.pid}
      [] st.kind = "HostCall"               -> {st.hc.caller}
      [] st.kind \in {"MemFree", "CapRevoke"} -> {st.caller}
      [] OTHER                              -> {}

\* Step::level: Secret for the kernel, Public for an unknown plugin.
StepLevel(st) ==
    IF Subject(st) = {} THEN 3
    ELSE LET p == CHOOSE p \in Subject(st) : TRUE
         IN  IF p \in plugins THEN level[p] ELSE 0

\* Step::is_declassify, HostFunction::is_cap_operation and is_mem_operation
IsDeclassify(st) == st.kind = "HostCall" /\ st.hc.fn = "Declassify"
IsCapOperation(fn) == fn \in {"CapCall", "CapRevoke"}
IsMemOperation(fn) == fn \in {"KernelAlloc", "MemFree"}

-----------------------------------------------------------------------------
(* Checks that both executors call *)

\* LinearMemory::addr_in_bounds, with checked_add.
InBounds(addr, len) == addr + len <= MaxWord /\ addr + len <= MemBounds

\* find_oob_read and find_oob_write: no region is out of bounds.
RegionsInBounds(rs) == \A r \in rs : InBounds(r[1], r[2])

\* PluginInternal::check_preconditions.  A plugin without an actor is never
\* blocked, and may ask to consume although it has no mailbox.
PluginInternalPre(st) ==
    /\ st.pid \in plugins
    /\ st.pid \in actors => blocked[st.pid] = NoActor
    /\ RegionsInBounds(st.reads) /\ RegionsInBounds(st.writes)
    /\ st.consume /\ st.pid \in actors => mailbox[st.pid] # <<>>

\* The second look at the writes, at the first byte only: it also refuses an
\* empty write at the very end.
WritesStartInBounds(st) == \A r \in st.writes : InBounds(r[1], 1)

\* execute_host_call and execute_host_call_mut up to the dispatch.
HostCallPre(st) == Admitted(st.hc, st.auth) /\ RegionsInBounds(st.regions)

\* Mutant: the source of a message is taken on trust.
SendableTrusting(hc, m) ==
    m.dst \in actors /\ Len(mailbox[m.dst]) < capacity[m.dst]

\* What cap_send requires of each message.  The mailbox may fill up before
\* the message reaches it.
Sendable(hc, m) ==
    /\ m.src = hc.caller
    /\ m.dst \in actors
    /\ Len(mailbox[m.dst]) < capacity[m.dst]

\* The sources, in order, of the messages for a: all of a vector or none, as
\* the vectors of NewMsgs have one destination.
SourcesFor(a, msgs) ==
    IF \E i \in DOMAIN msgs : msgs[i].dst = a
    THEN [i \in DOMAIN msgs |-> msgs[i].src] ELSE <<>>

\* The messages accepted for an actor are bounded by MaxMsgs.
CapSendPre(st) ==
    /\ st.msgs # <<>>
    /\ \A i \in DOMAIN st.msgs : Sendable(st.hc, st.msgs[i])
    /\ \A a \in Actor : Len(accepted[a]) + Len(SourcesFor(a, st.msgs)) <= MaxMsgs

-----------------------------------------------------------------------------
(* Step::execute *)

\* Result::Err, whichever error it is.
Err == [error |-> TRUE]

\* What a step can change of the current state.
Here ==
    [caps |-> caps, resources |-> resources, freed |-> freed, level |-> level,
     memUsed |-> memUsed, granted |-> granted, pending |-> pending,
     mailbox |-> mailbox, blocked |-> blocked, consumed |-> consumed,
     outbox |-> outbox, accepted |-> accepted]

ExecutePluginInternal(st) ==
    IF ~PluginInternalPre(st) \/ ~WritesStartInBounds(st) THEN Err
    ELSE IF st.consume /\ st.pid \in actors
    THEN [Here EXCEPT !.mailbox[st.pid] = Tail(@),
                      !.consumed[st.pid] = Append(@, Head(mailbox[st.pid]))]
    ELSE Here

ExecuteCapSend(st) ==
    IF ~CapSendPre(st) THEN Err
    ELSE [Here EXCEPT
            !.outbox = [a \in Actor |-> @[a] \o SourcesFor(a, st.msgs)],
            !.accepted = [a \in Actor |-> @[a] \o SourcesFor(a, st.msgs)]]

\* Mutant: the owner of the region that authorized the call is charged.
ExecuteKernelAllocOwnerPays(hc) ==
    IF ~CanAllocMemory(hc.caller, hc.arg) \/ AllocAddr >= MaxResources THEN Err
    ELSE [Here EXCEPT
            !.resources = [a \in DOMAIN @ \cup {AllocAddr} |->
                              IF a = AllocAddr THEN hc.caller ELSE @[a]],
            !.memUsed[resources[0]] = @ + hc.arg,
            !.granted[resources[0]] = @ + hc.arg]

ExecuteKernelAlloc(hc) ==
    IF ~CanAllocMemory(hc.caller, hc.arg) \/ AllocAddr >= MaxResources THEN Err
    ELSE [Here EXCEPT
            !.resources = [a \in DOMAIN @ \cup {AllocAddr} |->
                              IF a = AllocAddr THEN hc.caller ELSE @[a]],
            !.memUsed[hc.caller] = IF @ + hc.arg > MaxWord THEN MaxWord ELSE @ + hc.arg,
            !.granted[hc.caller] = @ + hc.arg]

\* State::apply_free
Free(a) == IF CanFreePure(a) THEN [Here EXCEPT !.freed = @ \cup {a}] ELSE Err

\* State::apply_cap_revoke
CapRevoke(c) ==
    IF c \in DOMAIN caps
    THEN [Here EXCEPT !.caps = MarkRevoked(@, RevokeSet(@, c))] ELSE Err

\* Mutant: a level can also be raised.
ExecuteDeclassifyUp(hc) ==
    IF hc.arg \notin SecurityLevel THEN Err
    ELSE [Here EXCEPT !.level[hc.caller] = hc.arg]

ExecuteDeclassify(hc) ==
    IF hc.arg \notin SecurityLevel THEN Err
    ELSE IF ~FlowsTo(hc.arg, level[hc.caller]) THEN Err
    ELSE [Here EXCEPT !.level[hc.caller] = hc.arg]

\* HostFunction::execute
ExecuteHostFunction(st) ==
    CASE st.hc.fn = "CapCall"     -> IF CapCallOk(st.hc.caller) THEN Here ELSE Err
      [] st.hc.fn = "CapSend"     -> ExecuteCapSend(st)
      [] st.hc.fn = "KernelAlloc" -> ExecuteKernelAlloc(st.hc)
      [] st.hc.fn = "MemFree"     -> Free(st.hc.arg)
      [] st.hc.fn = "CapRevoke"   -> CapRevoke(st.hc.arg)
      [] st.hc.fn = "Declassify"  -> ExecuteDeclassify(st.hc)
      [] OTHER                    -> Err

ExecuteHostCall(st) == IF HostCallPre(st) THEN ExecuteHostFunction(st) ELSE Err

ExecuteRouteOne(d) ==
    IF d \notin actors THEN Err
    ELSE IF pending[d] = <<>> \/ Len(mailbox[d]) >= capacity[d] THEN Err
    ELSE [Here EXCEPT !.mailbox[d] = Append(@, Head(pending[d])),
                      !.pending[d] = Tail(@)]

ExecuteUnblockSend(d) ==
    IF d \notin actors THEN Err ELSE [Here EXCEPT !.blocked[d] = NoActor]

\* KernelOp::execute; a thread switch is not implemented.
ExecuteKernelOp(st) ==
    CASE st.kind = "RouteOne"    -> ExecuteRouteOne(st.dst)
      [] st.kind = "UnblockSend" -> ExecuteUnblockSend(st.dst)
      [] OTHER                   -> Err

Execute(st) ==
    CASE st.kind = "PluginInternal" -> ExecutePluginInternal(st)
      [] st.kind = "HostCall"       -> ExecuteHostCall(st)
      [] st.kind = "MemFree"        -> Free(st.addr)
      [] st.kind = "CapRevoke"      -> CapRevoke(st.cap)
      [] OTHER                      -> ExecuteKernelOp(st)

\* The kernel's state becomes the result of a step, if there is one.
Become(s) ==
    /\ s # Err
    /\ caps' = s.caps /\ resources' = s.resources /\ freed' = s.freed
    /\ level' = s.level /\ memUsed' = s.memUsed /\ granted' = s.granted
    /\ pending' = s.pending /\ mailbox' = s.mailbox
    /\ blocked' = s.blocked /\ consumed' = s.consumed
    /\ outbox' = s.outbox /\ accepted' = s.accepted
    /\ UNCHANGED <<children, nextCapId, plugins, held, tokens, actors, capacity>>

\* Kernel::execute
KernelExecute(st) == \E s \in {Execute(st)} : Become(s)

-----------------------------------------------------------------------------
(* Step::execute_mut *)

ExecutePluginInternalMut(st) ==
    /\ st.kind = "PluginInternal"
    /\ PluginInternalPre(st) /\ WritesStartInBounds(st)
    /\ IF st.consume /\ st.pid \in actors THEN Consume(st.pid) ELSE UNCHANGED actorVars
    /\ UNCHANGED <<kernelVars, mailVars>>

ExecuteCapSendMut(st) ==
    /\ st.hc.fn = "CapSend"
    /\ CapSendPre(st)
    /\ outbox' = [a \in Actor |-> outbox[a] \o SourcesFor(a, st.msgs)]
    /\ accepted' = [a \in Actor |-> accepted[a] \o SourcesFor(a, st.msgs)]
    /\ UNCHANGED <<kernelVars, actorVars>>

\* execute_host_call_mut with HostFunction::execute_mut; a thread operation
\* is refused, and so is mem_free (HostFreeRefused).
ExecuteHostCallMut(st) ==
    /\ st.kind = "HostCall"
    /\ HostCallPre(st)
    /\ \/ ExecuteCapSendMut(st)
       \/ /\ \/ HostCapCall(st.hc, st.auth) \/ HostAlloc(st.hc, st.auth)
             \/ HostRevoke(st.hc, st.auth)  \/ HostDeclassify(st.hc, st.auth)
          /\ UNCHANGED <<actorVars, mailVars>>

\* KernelOp::execute_mut
ExecuteKernelOpMut(st) ==
    /\ st.kind \in {"RouteOne", "UnblockSend", "ThreadSwitch"}
    /\ st.dst \in actors
    /\ \/ st.kind = "RouteOne" /\ RouteOne(st.dst)
       \/ st.kind = "UnblockSend" /\ UnblockSend(st.dst)
    /\ UNCHANGED <<kernelVars, mailVars>>

ExecuteDirectMut(st) ==
    /\ \/ st.kind = "MemFree" /\ FreeFast(st.addr)
       \/ st.kind = "CapRevoke" /\ Revoke(st.cap)
    /\ UNCHANGED <<actorVars, mailVars>>

ExecuteMut(st) ==
    \/ ExecutePluginInternalMut(st) \/ ExecuteHostCallMut(st)
    \/ ExecuteKernelOpMut(st)       \/ ExecuteDirectMut(st)

-----------------------------------------------------------------------------
\* After boot: every plugin is registered and every actor created, address 0
\* and capability 0, a root with every right to it, went to one plugin, and
\* each other plugin has a capability that is a root as well or was delegated
\* to it from capability 0.
SystemInit ==
    /\ plugins = PluginId
    /\ nextCapId = MaxCapId
    /\ resources = [a \in {0} |-> BootOwner]
    /\ \E f \in Bijection(PluginId, 0..(Cardinality(PluginId) - 1)),
          parent \in [PluginId -> {None, 0}], rs \in [PluginId -> BootRights] :
          /\ f[BootOwner] = 0 /\ parent[BootOwner] = None
          /\ \A p \in PluginId : parent[p] = None => rs[p] = Right
          /\ held = [p \in PluginId |-> {f[p]}]
          /\ caps = [c \in 0..(Cardinality(PluginId) - 1) |->
                       LET p == Inverse(f, PluginId, CapId)[c]
                       IN  NewCapability(p, 0, rs[p], parent[p])]
          /\ children = [c \in CapId |->
                           {f[p] : p \in {p \in PluginId : parent[p] = c}}]
    /\ freed = {}
    /\ level = BootLevel
    /\ memUsed = [p \in PluginId |-> 0]
    /\ granted = [p \in PluginId |-> 0]
    /\ tokens = {}
    /\ actors = Actor
    /\ capacity \in [Actor -> Capacity]
    /\ pending = [a \in Actor |-> <<>>]
    /\ mailbox = [a \in Actor |-> <<>>]
    /\ blocked = [a \in Actor |-> NoActor]
    /\ consumed = [a \in Actor |-> <<>>]
    /\ outbox = [a \in Actor |-> <<>>]
    /\ accepted = [a \in Actor |-> <<>>]

\* The embedding enqueues the oldest message accepted for a.
Forward(a) ==
    /\ outbox[a] # <<>>
    /\ EnqueuePending(a, Head(outbox[a]))
    /\ outbox' = [outbox EXCEPT ![a] = Tail(@)]
    /\ UNCHANGED <<kernelVars, accepted>>

\* Every step goes through either executor; the embedding may authorize,
\* allocate, forward and block in between.
SystemNext ==
    \/ \E st \in Step : KernelExecute(st) \/ ExecuteMut(st)
    \/ /\ \/ \E hc \in HostCall, c \in CapId : Authorize(hc, c)
          \/ \E p \in PluginId : Alloc(p)
       /\ UNCHANGED <<actorVars, mailVars>>
    \/ \E a \in Actor : Forward(a)
    \/ /\ \E a, b \in Actor : SetBlocked(a, b)
       /\ UNCHANGED <<kernelVars, mailVars>>

SystemSpec == SystemInit /\ [][SystemNext]_systemVars

-----------------------------------------------------------------------------
\* "Equivalent to `execute` but avoids the full-state clone by mutating in
\* place": whatever happened to the token, the capability table, the levels,
\* the quota and the mailboxes before, a step that one executor accepts the
\* other accepts as well, and both end in the same state.  (Frees, where they
\* differ, are FreePathsAgree.)
ExecutorsAgree ==
    \A st \in Step \ DirectFree :
        /\ ~ENABLED (ExecuteMut(st) /\ ~KernelExecute(st))
        /\ Execute(st) # Err => ENABLED ExecuteMut(st)

SamePlugin(p) ==
    /\ level'[p] = level[p] /\ memUsed'[p] = memUsed[p]
    /\ held'[p] = held[p] /\ (p \in plugins') = (p \in plugins)

\* low_equivalent of the states before and after a step.
LowEquivalent(l) ==
    \A p \in PluginId :
        (p \in plugins /\ FlowsTo(level[p], l)) \/ (p \in plugins' /\ FlowsTo(level'[p], l))
            => SamePlugin(p)

\* What a step may do.
Confined(st) ==
    /\ \A p \in plugins \ Subject(st) : SamePlugin(p)
    /\ \A l \in SecurityLevel :
          ~IsDeclassify(st) /\ ~FlowsTo(StepLevel(st), l) => LowEquivalent(l)
    /\ st.kind = "HostCall" =>
          /\ ~IsCapOperation(st.hc.fn) => UNCHANGED caps
          /\ ~IsMemOperation(st.hc.fn) => UNCHANGED memVars

\* A step, executed either way, changes no plugin but its subject
\* (preserves_isolation); unless it declassifies, nobody below its level can
\* see it (low_equivalent); and a host call that is not classified as a
\* capability or a memory operation leaves the capability table or the
\* resource history alone.
StepConfinement ==
    \A st \in Step :
        ~ENABLED ((ExecuteMut(st) \/ KernelExecute(st)) /\ ~Confined(st))

\* A message is accepted only from a plugin that holds the right to send at
\* that moment, live and unrevoked along the chain; and what an actor has
\* consumed is, in order, what was accepted for it, although the kernel, the
\* embedding and the receiver each hold a part of it.
MailMediated ==
    [][\A a \in Actor :
          /\ \A i \in (Len(accepted[a]) + 1)..Len(accepted'[a]) :
                HoldsLive(accepted'[a][i], 0, "Send")
          /\ SubSeq(accepted'[a], 1, Len(consumed'[a])) = consumed'[a]]_systemVars
=============================================================================
