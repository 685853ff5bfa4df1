---------------------------- MODULE SystemProofs ----------------------------
(***************************************************************************)
(* The whole system, for any number of plugins, addresses, tokens, actors  *)
(* and messages: the two executors do the same, a step touches nobody but  *)
(* its subject, and messages are accepted under a live right and arrive in *)
(* the order they were accepted.                                           *)
(***************************************************************************)
EXTENDS System, KernelProofs, ActorsProofs

\* The capability table after boot: links are confined and parents are older,
\* so both walks of a revocation mark the same capabilities, and no id is left
\* to be handed out.
BootTable ==
    /\ CapTypeOK /\ IndexConsistent /\ LinkConfined /\ ParentLt
    /\ nextCapId = MaxCapId /\ plugins = PluginId

\* The mail of an actor: what was accepted for it is, in order, what it
\* consumed, what is in its mailbox, what the router has, and what the
\* embedding still has to forward.
MailInv ==
    /\ outbox \in [Actor -> Seq(PluginId)] /\ accepted \in [Actor -> Seq(PluginId)]
    /\ \A a \in Actor :
          accepted[a] = consumed[a] \o (mailbox[a] \o (pending[a] \o outbox[a]))

\* The kernel: tokens are copies of table entries, the addresses handed out are
\* the first ones, and accounts are exact.
KernelPart ==
    /\ BootTable
    /\ TokensFaithful
    /\ Contiguous
    /\ QuotaInv
    /\ level \in [PluginId -> 0..3]

\* The inductive invariant.
SystemInv == KernelPart /\ ActorsInv /\ actors = Actor /\ MailInv

-----------------------------------------------------------------------------
(* The two executors *)

\* No state is an error.
LEMMA HereIsNoError == Here # Err
BY DEF Here, Err

\* The executors leave the state as it is in the same way.
LEMMA BecomeHere == Become(Here) <=> UNCHANGED systemVars
<1>1. /\ Here.caps = caps /\ Here.resources = resources /\ Here.freed = freed
      /\ Here.level = level /\ Here.memUsed = memUsed /\ Here.granted = granted
      /\ Here.pending = pending /\ Here.mailbox = mailbox /\ Here.blocked = blocked
      /\ Here.consumed = consumed /\ Here.outbox = outbox /\ Here.accepted = accepted
  BY DEF Here
<1> QED BY <1>1, HereIsNoError
        DEF Become, systemVars, kernelVars, capVars, memVars, pluginVars, actorVars, mailVars

\* execute_plugin_internal and execute_plugin_internal_mut.
LEMMA PluginInternalAgree ==
    ASSUME actors = Actor, NEW st \in PluginInternal
    PROVE  ExecutePluginInternalMut(st) <=> Become(ExecutePluginInternal(st))
<1>0. st.kind = "PluginInternal" /\ Registered = Actor
  BY SystemAssumption DEF PluginInternal
<1>1. CASE ~PluginInternalPre(st) \/ ~WritesStartInBounds(st)
  BY <1>1 DEF ExecutePluginInternalMut, ExecutePluginInternal, Become
<1>2. CASE PluginInternalPre(st) /\ WritesStartInBounds(st) /\ st.consume /\ st.pid \in actors
  <2> DEFINE s == [Here EXCEPT !.mailbox[st.pid] = Tail(@),
                      !.consumed[st.pid] = Append(@, Head(mailbox[st.pid]))]
  <2>1. ExecutePluginInternal(st) = s
    BY <1>2 DEF ExecutePluginInternal
  <2>2. /\ s.caps = caps /\ s.resources = resources /\ s.freed = freed /\ s.level = level
        /\ s.memUsed = memUsed /\ s.granted = granted /\ s.pending = pending
        /\ s.blocked = blocked /\ s.outbox = outbox /\ s.accepted = accepted
    BY DEF Here
  <2>3. /\ s.mailbox = [mailbox EXCEPT ![st.pid] = Tail(@)]
        /\ s.consumed = [consumed EXCEPT ![st.pid] = Append(@, Head(mailbox[st.pid]))]
    BY DEF Here
  <2>4. s # Err
    BY DEF Here, Err
  <2>5. ExecutePluginInternalMut(st) <=> Consume(st.pid) /\ UNCHANGED <<kernelVars, mailVars>>
    BY <1>0, <1>2 DEF ExecutePluginInternalMut
  <2>6. st.pid \in Registered /\ blocked[st.pid] = NoActor /\ mailbox[st.pid] # <<>>
    BY <1>0, <1>2 DEF PluginInternalPre
  <2> HIDE DEF s
  <2> QED BY <1>2, <2>1, <2>2, <2>3, <2>4, <2>5, <2>6
          DEF Become, Consume, PluginMayRun, kernelVars, capVars, memVars, pluginVars, mailVars
<1>3. CASE PluginInternalPre(st) /\ WritesStartInBounds(st) /\ ~(st.consume /\ st.pid \in actors)
  <2>1. ExecutePluginInternal(st) = Here
    BY <1>3 DEF ExecutePluginInternal
  <2>2. ExecutePluginInternalMut(st) <=> UNCHANGED systemVars
    BY <1>0, <1>3 DEF ExecutePluginInternalMut, systemVars
  <2> QED BY <2>1, <2>2, BecomeHere
<1> QED BY <1>1, <1>2, <1>3

\* execute_cap_send and its in-place form.
LEMMA CapSendAgree ==
    ASSUME NEW st, st.hc.fn = "CapSend"
    PROVE  ExecuteCapSendMut(st) <=> Become(ExecuteCapSend(st))
<1>1. CASE ~CapSendPre(st)
  BY <1>1 DEF ExecuteCapSendMut, ExecuteCapSend, Become
<1>2. CASE CapSendPre(st)
  <2> DEFINE s == [Here EXCEPT
            !.outbox = [a \in Actor |-> @[a] \o SourcesFor(a, st.msgs)],
            !.accepted = [a \in Actor |-> @[a] \o SourcesFor(a, st.msgs)]]
  <2>1. ExecuteCapSend(st) = s
    BY <1>2 DEF ExecuteCapSend
  <2>2. /\ s.caps = caps /\ s.resources = resources /\ s.freed = freed /\ s.level = level
        /\ s.memUsed = memUsed /\ s.granted = granted /\ s.pending = pending
        /\ s.blocked = blocked /\ s.mailbox = mailbox /\ s.consumed = consumed
    BY DEF Here
  <2>3. /\ s.outbox = [a \in Actor |-> outbox[a] \o SourcesFor(a, st.msgs)]
        /\ s.accepted = [a \in Actor |-> accepted[a] \o SourcesFor(a, st.msgs)]
    BY DEF Here
  <2>4. s # Err
    BY DEF Here, Err
  <2> HIDE DEF s
  <2> QED BY <1>2, <2>1, <2>2, <2>3, <2>4
          DEF Become, ExecuteCapSendMut, kernelVars, capVars, memVars, pluginVars, actorVars
<1> QED BY <1>1, <1>2

\* The next address is a number, so its two comparisons with the bound agree.
LEMMA AllocAddrBound ==
    ASSUME Contiguous PROVE AllocAddr >= MaxResources <=> ~(AllocAddr < MaxResources)
<1>1. PICK n \in Nat : DOMAIN resources = 0..(n-1)
  BY DEF Contiguous
<1>2. AllocAddr \in Nat
  BY <1>1, AllocAddrIsNew
<1> QED BY <1>2, KernelAssumption

\* execute_kernel_alloc and its in-place form.
LEMMA KernelAllocAgree ==
    ASSUME Contiguous, NEW hc, NEW t, hc.fn = "KernelAlloc", Admitted(hc, t)
    PROVE  HostAlloc(hc, t) /\ UNCHANGED <<actorVars, mailVars>>
             <=> Become(ExecuteKernelAlloc(hc))
<1>1. CASE ~CanAllocMemory(hc.caller, hc.arg) \/ AllocAddr >= MaxResources
  <2>1. ~HostAlloc(hc, t)
    BY <1>1, AllocAddrBound DEF HostAlloc, AllocFor
  <2> QED BY <1>1, <2>1 DEF ExecuteKernelAlloc, Become
<1>2. CASE CanAllocMemory(hc.caller, hc.arg) /\ AllocAddr < MaxResources
  <2> DEFINE s == [Here EXCEPT
            !.resources = [a \in DOMAIN @ \cup {AllocAddr} |->
                              IF a = AllocAddr THEN hc.caller ELSE @[a]],
            !.memUsed[hc.caller] = IF @ + hc.arg > MaxWord THEN MaxWord ELSE @ + hc.arg,
            !.granted[hc.caller] = @ + hc.arg]
  <2>1. ExecuteKernelAlloc(hc) = s
    BY <1>2, AllocAddrBound DEF ExecuteKernelAlloc
  <2>2. /\ s.caps = caps /\ s.freed = freed /\ s.level = level /\ s.pending = pending
        /\ s.blocked = blocked /\ s.mailbox = mailbox /\ s.consumed = consumed
        /\ s.outbox = outbox /\ s.accepted = accepted
    BY DEF Here
  <2>3. s.resources = [a \in DOMAIN resources \cup {AllocAddr} |->
                          IF a = AllocAddr THEN hc.caller ELSE resources[a]]
    BY DEF Here
  <2>4. /\ s.memUsed = [memUsed EXCEPT ![hc.caller] =
                           IF @ + hc.arg > MaxWord THEN MaxWord ELSE @ + hc.arg]
        /\ s.granted = [granted EXCEPT ![hc.caller] = @ + hc.arg]
    BY DEF Here
  <2>5. s # Err
    BY DEF Here, Err
  <2> HIDE DEF s
  <2> QED BY <1>2, <2>1, <2>2, <2>3, <2>4, <2>5
          DEF Become, HostAlloc, AllocFor, capVars, actorVars, mailVars
<1> QED BY <1>1, <1>2, AllocAddrBound

\* execute_declassify and its in-place form.
LEMMA DeclassifyAgree ==
    ASSUME NEW hc, NEW t, hc.fn = "Declassify", Admitted(hc, t)
    PROVE  HostDeclassify(hc, t) /\ UNCHANGED <<actorVars, mailVars>>
             <=> Become(ExecuteDeclassify(hc))
<1>1. CASE hc.arg \notin SecurityLevel \/ ~FlowsTo(hc.arg, level[hc.caller])
  <2>1. ~HostDeclassify(hc, t)
    BY <1>1 DEF HostDeclassify, SecurityLevel, FlowsTo
  <2> QED BY <1>1, <2>1 DEF ExecuteDeclassify, Become
<1>2. CASE hc.arg \in SecurityLevel /\ FlowsTo(hc.arg, level[hc.caller])
  <2> DEFINE s == [Here EXCEPT !.level[hc.caller] = hc.arg]
  <2>1. ExecuteDeclassify(hc) = s
    BY <1>2 DEF ExecuteDeclassify
  <2>2. /\ s.caps = caps /\ s.resources = resources /\ s.freed = freed
        /\ s.memUsed = memUsed /\ s.granted = granted /\ s.pending = pending
        /\ s.blocked = blocked /\ s.mailbox = mailbox /\ s.consumed = consumed
        /\ s.outbox = outbox /\ s.accepted = accepted
        /\ s.level = [level EXCEPT ![hc.caller] = hc.arg]
    BY DEF Here
  <2>3. s # Err
    BY DEF Here, Err
  <2> HIDE DEF s
  <2> QED BY <1>2, <2>1, <2>2, <2>3
          DEF Become, HostDeclassify, SecurityLevel, FlowsTo, capVars, memVars, actorVars, mailVars
<1> QED BY <1>1, <1>2

\* State::apply_cap_revoke and apply_cap_revoke_mut: in a table of the
\* invariant the walk up and the walk down find the same capabilities.
LEMMA CapRevokeAgree ==
    ASSUME BootTable, Paths # {}, NEW c
    PROVE  Become(CapRevoke(c)) <=>
             /\ RevokePure(c) \/ RevokeFast(c)
             /\ UNCHANGED <<memVars, pluginVars, tokens>>
             /\ UNCHANGED <<actorVars, mailVars>>
<1>1. CASE c \notin DOMAIN caps
  BY <1>1 DEF RevokePure, RevokeFast, CapRevoke, Become
<1>2. CASE c \in DOMAIN caps
  <2>1. RevokeSet(caps, c) = FastRevokeSet(caps, children, c)
    BY <1>2, WalksAgree DEF BootTable, RevocationPathsAgree
  <2>2. "pure" \in Paths \/ "fast" \in Paths
    BY ModeAssumption
  <2>3. RevokePure(c) \/ RevokeFast(c) <=>
          /\ caps' = MarkRevoked(caps, RevokeSet(caps, c))
          /\ UNCHANGED <<children, nextCapId, plugins, held>>
    BY <1>2, <2>1, <2>2 DEF RevokePure, RevokeFast
  <2> DEFINE s == [Here EXCEPT !.caps = MarkRevoked(@, RevokeSet(@, c))]
  <2>4. CapRevoke(c) = s
    BY <1>2 DEF CapRevoke
  <2>5. /\ s.resources = resources /\ s.freed = freed /\ s.level = level
        /\ s.memUsed = memUsed /\ s.granted = granted /\ s.pending = pending
        /\ s.blocked = blocked /\ s.mailbox = mailbox /\ s.consumed = consumed
        /\ s.outbox = outbox /\ s.accepted = accepted
        /\ s.caps = MarkRevoked(caps, RevokeSet(caps, c))
    BY DEF Here
  <2>6. s # Err
    BY DEF Here, Err
  <2> HIDE DEF s
  <2> QED BY <2>3, <2>4, <2>5, <2>6 DEF Become, memVars, pluginVars, actorVars, mailVars
<1> QED BY <1>1, <1>2

\* execute_host_call and execute_host_call_mut, function by function; the free
\* that only the first spells out is refused by both.
LEMMA HostCallAgree ==
    ASSUME BootTable, TokensFaithful, Contiguous, Paths # {}, NEW st \in HostCallStep
    PROVE  ExecuteHostCallMut(st) <=> Become(ExecuteHostCall(st))
<1>0. st.kind = "HostCall" /\ (st.hc \in HostCall \/ st.hc.fn = "CapSend") /\ st.auth \in tokens
  BY DEF HostCallStep
<1>1. CASE ~HostCallPre(st)
  BY <1>1 DEF ExecuteHostCallMut, ExecuteHostCall, Become
<1>2. CASE HostCallPre(st)
  <2> DEFINE hc == st.hc
             t == st.auth
             Rest == UNCHANGED <<actorVars, mailVars>>
  <2>1. Admitted(hc, t)
    BY <1>2 DEF HostCallPre
  <2>2. ExecuteHostCall(st) = ExecuteHostFunction(st)
    BY <1>2 DEF ExecuteHostCall
  <2>3. ExecuteHostCallMut(st) <=>
          \/ ExecuteCapSendMut(st)
          \/ HostCapCall(hc, t) /\ Rest
          \/ HostAlloc(hc, t) /\ Rest
          \/ HostRevoke(hc, t) /\ Rest
          \/ HostDeclassify(hc, t) /\ Rest
    BY <1>0, <1>2 DEF ExecuteHostCallMut
  <2>4. /\ ExecuteCapSendMut(st) => hc.fn = "CapSend"
        /\ HostCapCall(hc, t) => hc.fn = "CapCall"
        /\ HostAlloc(hc, t) => hc.fn = "KernelAlloc"
        /\ HostRevoke(hc, t) => hc.fn = "CapRevoke"
        /\ HostDeclassify(hc, t) => hc.fn = "Declassify"
    BY DEF ExecuteCapSendMut, HostCapCall, HostAlloc, HostRevoke, HostDeclassify
  <2>5. CASE hc.fn = "CapCall"
    <3>1. ExecuteHostFunction(st) = IF CapCallOk(hc.caller) THEN Here ELSE Err
      BY <2>5 DEF ExecuteHostFunction
    <3>2. HostCapCall(hc, t) /\ Rest <=> CapCallOk(hc.caller) /\ UNCHANGED systemVars
      BY <2>1, <2>5 DEF HostCapCall, systemVars
    <3>3. ~Become(Err)
      BY DEF Become
    <3> HIDE DEF hc, t, Rest
    <3>4. ExecuteHostCallMut(st) <=> HostCapCall(hc, t) /\ Rest
      BY <2>3, <2>4, <2>5
    <3> QED BY <2>2, <3>1, <3>2, <3>3, <3>4, BecomeHere
  <2>6. CASE hc.fn = "CapSend"
    <3>1. ExecuteHostFunction(st) = ExecuteCapSend(st)
      BY <2>6 DEF ExecuteHostFunction
    <3>2. ExecuteCapSendMut(st) <=> Become(ExecuteCapSend(st))
      BY <2>6, CapSendAgree
    <3> HIDE DEF hc, t, Rest
    <3> QED BY <2>2, <2>3, <2>4, <2>6, <3>1, <3>2
  <2>7. CASE hc.fn = "KernelAlloc"
    <3>1. ExecuteHostFunction(st) = ExecuteKernelAlloc(hc)
      BY <2>7 DEF ExecuteHostFunction
    <3>2. HostAlloc(hc, t) /\ Rest <=> Become(ExecuteKernelAlloc(hc))
      BY <2>1, <2>7, KernelAllocAgree
    <3> HIDE DEF hc, t, Rest
    <3> QED BY <2>2, <2>3, <2>4, <2>7, <3>1, <3>2
  <2>8. CASE hc.fn = "CapRevoke"
    <3>1. ExecuteHostFunction(st) = CapRevoke(hc.arg)
      BY <2>8 DEF ExecuteHostFunction
    <3>2. HostRevoke(hc, t) /\ Rest <=> Become(CapRevoke(hc.arg))
      BY <2>1, <2>8, CapRevokeAgree DEF HostRevoke
    <3> HIDE DEF hc, t, Rest
    <3> QED BY <2>2, <2>3, <2>4, <2>8, <3>1, <3>2
  <2>9. CASE hc.fn = "Declassify"
    <3>1. ExecuteHostFunction(st) = ExecuteDeclassify(hc)
      BY <2>9 DEF ExecuteHostFunction
    <3>2. HostDeclassify(hc, t) /\ Rest <=> Become(ExecuteDeclassify(hc))
      BY <2>1, <2>9, DeclassifyAgree
    <3> HIDE DEF hc, t, Rest
    <3> QED BY <2>2, <2>3, <2>4, <2>9, <3>1, <3>2
  <2>10. CASE hc.fn = "MemFree"
    <3>1. ExecuteHostFunction(st) = Free(hc.arg)
      BY <2>10 DEF ExecuteHostFunction
    <3>2. ~HostFreeReached(hc, t)
      BY <1>0, <2>10, FaithfulTokensRefuse DEF HostFreeRefused
    <3>3. Free(hc.arg) = Err
      BY <2>1, <2>10, <3>2 DEF HostFreeReached, Free, CanFreePure
    <3>4. ~Become(Err)
      BY DEF Become
    <3> HIDE DEF hc, t, Rest
    <3> QED BY <2>2, <2>3, <2>4, <2>10, <3>1, <3>3, <3>4
  <2>11. CASE hc.fn \notin {"CapCall", "CapSend", "KernelAlloc", "CapRevoke", "Declassify", "MemFree"}
    <3>1. ExecuteHostFunction(st) = Err
      BY <2>11 DEF ExecuteHostFunction
    <3>2. ~Become(Err)
      BY DEF Become
    <3> HIDE DEF hc, t, Rest
    <3> QED BY <2>2, <2>3, <2>4, <2>11, <3>1, <3>2
  <2> HIDE DEF hc, t, Rest
  <2> QED BY <2>5, <2>6, <2>7, <2>8, <2>9, <2>10, <2>11
<1> QED BY <1>1, <1>2

\* KernelOp::execute and execute_mut.
LEMMA KernelOpAgree ==
    ASSUME ActorsInv, actors = Actor, NEW st \in KernelOp
    PROVE  ExecuteKernelOpMut(st) <=> Become(ExecuteKernelOp(st))
<1>0. st.kind \in {"RouteOne", "UnblockSend", "ThreadSwitch"}
  BY DEF KernelOp
<1> DEFINE d == st.dst
<1>1. ~Become(Err)
  BY DEF Become
<1>2. CASE st.kind = "RouteOne"
  <2>1. ExecuteKernelOp(st) = ExecuteRouteOne(d)
    BY <1>2 DEF ExecuteKernelOp
  <2>2. CASE d \notin actors \/ pending[d] = <<>> \/ Len(mailbox[d]) >= capacity[d]
    <3>1. ExecuteRouteOne(d) = Err
      BY <2>2 DEF ExecuteRouteOne
    <3>2. ~ExecuteKernelOpMut(st)
      <4> SUFFICES ASSUME ExecuteKernelOpMut(st) PROVE FALSE
        OBVIOUS
      <4>1. RouteOne(d)
        BY <1>2 DEF ExecuteKernelOpMut
      <4>2. d \in Actor /\ pending[d] # <<>> /\ Len(mailbox[d]) < capacity[d]
        BY <4>1 DEF RouteOne, MailboxHasSpace
      <4>3. Len(mailbox[d]) \in Nat /\ capacity[d] \in Nat
        BY <4>2, EntryTypes DEF ActorsInv
      <4> HIDE DEF d
      <4> QED BY <2>2, <4>2, <4>3
    <3> QED BY <1>1, <2>1, <3>1, <3>2
  <2>3. CASE d \in actors /\ pending[d] # <<>> /\ ~(Len(mailbox[d]) >= capacity[d])
    <3> DEFINE s == [Here EXCEPT !.mailbox[d] = Append(@, Head(pending[d])),
                                 !.pending[d] = Tail(@)]
    <3>1. ExecuteRouteOne(d) = s
      BY <2>3 DEF ExecuteRouteOne
    <3>2. /\ s.caps = caps /\ s.resources = resources /\ s.freed = freed /\ s.level = level
          /\ s.memUsed = memUsed /\ s.granted = granted /\ s.blocked = blocked
          /\ s.consumed = consumed /\ s.outbox = outbox /\ s.accepted = accepted
          /\ s.mailbox = [mailbox EXCEPT ![d] = Append(@, Head(pending[d]))]
          /\ s.pending = [pending EXCEPT ![d] = Tail(@)]
      BY DEF Here
    <3>3. s # Err
      BY DEF Here, Err
    <3>4. Len(mailbox[d]) < capacity[d]
      <4>1. Len(mailbox[d]) \in Nat /\ capacity[d] \in Nat
        BY <2>3, EntryTypes DEF ActorsInv
      <4> HIDE DEF d
      <4> QED BY <2>3, <4>1
    <3>5. ExecuteKernelOpMut(st) <=> RouteOne(d) /\ UNCHANGED <<kernelVars, mailVars>>
      BY <1>2, <2>3 DEF ExecuteKernelOpMut
    <3> HIDE DEF s, d
    <3> QED BY <2>1, <2>3, <3>1, <3>2, <3>3, <3>4, <3>5
            DEF Become, RouteOne, MailboxHasSpace, Deliver,
                kernelVars, capVars, memVars, pluginVars, mailVars
  <2> QED BY <2>2, <2>3
<1>3. CASE st.kind = "UnblockSend"
  <2>1. ExecuteKernelOp(st) = ExecuteUnblockSend(d)
    BY <1>3 DEF ExecuteKernelOp
  <2>2. ExecuteKernelOpMut(st) <=> UnblockSend(d) /\ UNCHANGED <<kernelVars, mailVars>>
    BY <1>3 DEF ExecuteKernelOpMut, UnblockSend
  <2>3. CASE d \notin actors
    BY <1>1, <2>1, <2>2, <2>3 DEF ExecuteUnblockSend, UnblockSend
  <2>4. CASE d \in actors
    <3> DEFINE s == [Here EXCEPT !.blocked[d] = NoActor]
    <3>1. ExecuteUnblockSend(d) = s
      BY <2>4 DEF ExecuteUnblockSend
    <3>2. /\ s.caps = caps /\ s.resources = resources /\ s.freed = freed /\ s.level = level
          /\ s.memUsed = memUsed /\ s.granted = granted /\ s.pending = pending
          /\ s.mailbox = mailbox /\ s.consumed = consumed /\ s.outbox = outbox
          /\ s.accepted = accepted /\ s.blocked = [blocked EXCEPT ![d] = NoActor]
      BY DEF Here
    <3>3. s # Err
      BY DEF Here, Err
    <3> HIDE DEF s, d
    <3> QED BY <2>1, <2>2, <2>4, <3>1, <3>2, <3>3
            DEF Become, UnblockSend, kernelVars, capVars, memVars, pluginVars, mailVars
  <2> QED BY <2>3, <2>4
<1>4. CASE st.kind = "ThreadSwitch"
  BY <1>1, <1>4 DEF ExecuteKernelOp, ExecuteKernelOpMut
<1> QED BY <1>0, <1>2, <1>3, <1>4

\* Step::CapRevoke through execute and execute_mut.
LEMMA DirectRevokeAgree ==
    ASSUME BootTable, Paths # {}, NEW st, st.kind = "CapRevoke"
    PROVE  ExecuteDirectMut(st) <=> Become(CapRevoke(st.cap))
<1>1. ExecuteDirectMut(st) <=> Revoke(st.cap) /\ UNCHANGED <<actorVars, mailVars>>
  BY DEF ExecuteDirectMut
<1> QED BY <1>1, CapRevokeAgree DEF Revoke

\* In every state of the invariant, whatever the state after: a step other
\* than a direct free leads there through execute_mut exactly when it does
\* through execute.
THEOREM ExecutorsCoincide ==
    ASSUME SystemInv, Paths # {}, NEW st \in Step \ DirectFree
    PROVE  ExecuteMut(st) <=> KernelExecute(st)
<1> SUFFICES ExecuteMut(st) <=> Become(Execute(st))
  BY DEF KernelExecute
<1>0. BootTable /\ TokensFaithful /\ Contiguous /\ ActorsInv /\ actors = Actor
  BY DEF SystemInv, KernelPart
<1>1. /\ ExecutePluginInternalMut(st) => st.kind = "PluginInternal"
      /\ ExecuteHostCallMut(st) => st.kind = "HostCall"
      /\ ExecuteKernelOpMut(st) => st.kind \in {"RouteOne", "UnblockSend", "ThreadSwitch"}
      /\ ExecuteDirectMut(st) => st.kind \in {"MemFree", "CapRevoke"}
  BY DEF ExecutePluginInternalMut, ExecuteHostCallMut, ExecuteKernelOpMut, ExecuteDirectMut
<1>2. CASE st \in PluginInternal
  <2>1. st.kind = "PluginInternal"
    BY <1>2 DEF PluginInternal
  <2>2. Execute(st) = ExecutePluginInternal(st)
    BY <2>1 DEF Execute
  <2> QED BY <1>0, <1>1, <1>2, <2>1, <2>2, PluginInternalAgree DEF ExecuteMut
<1>3. CASE st \in HostCallStep
  <2>1. st.kind = "HostCall"
    BY <1>3 DEF HostCallStep
  <2>2. Execute(st) = ExecuteHostCall(st)
    BY <2>1 DEF Execute
  <2> QED BY <1>0, <1>1, <1>3, <2>1, <2>2, HostCallAgree DEF ExecuteMut
<1>4. CASE st \in KernelOp
  <2>1. st.kind \in {"RouteOne", "UnblockSend", "ThreadSwitch"}
    BY <1>4 DEF KernelOp
  <2>2. Execute(st) = ExecuteKernelOp(st)
    BY <2>1 DEF Execute
  <2> QED BY <1>0, <1>1, <1>4, <2>1, <2>2, KernelOpAgree DEF ExecuteMut
<1>5. CASE st \in [kind : {"CapRevoke"}, caller : PluginId, cap : CapId]
  <2>1. st.kind = "CapRevoke"
    BY <1>5
  <2>2. Execute(st) = CapRevoke(st.cap)
    BY <2>1 DEF Execute
  <2> QED BY <1>0, <1>1, <2>1, <2>2, DirectRevokeAgree DEF ExecuteMut
<1> QED BY <1>2, <1>3, <1>4, <1>5 DEF Step, DirectStep


-----------------------------------------------------------------------------
(* Confinement of a step *)

\* Nothing but one plugin's account or level changes.
OnlyTouches(s) ==
    /\ UNCHANGED <<plugins, held>>
    /\ \A p \in PluginId \ s : level'[p] = level[p] /\ memUsed'[p] = memUsed[p]

\* A step that leaves the levels alone and touches nobody but its subject is
\* visible only to those at or above the subject's level.
LEMMA UnseenBelow ==
    ASSUME plugins = PluginId, NEW st,
           OnlyTouches(Subject(st)), ~IsDeclassify(st) => level' = level
    PROVE  /\ \A p \in plugins \ Subject(st) : SamePlugin(p)
           /\ \A l \in SecurityLevel :
                ~IsDeclassify(st) /\ ~FlowsTo(StepLevel(st), l) => LowEquivalent(l)
<1>1. \A p \in plugins \ Subject(st) : SamePlugin(p)
  BY DEF OnlyTouches, SamePlugin
<1>2. ASSUME NEW l \in SecurityLevel, ~IsDeclassify(st), ~FlowsTo(StepLevel(st), l)
      PROVE  LowEquivalent(l)
  <2>1. plugins' = plugins /\ level' = level
    BY <1>2 DEF OnlyTouches
  <2>2. ASSUME NEW p \in PluginId, level[p] <= l PROVE p \notin Subject(st)
    <3> SUFFICES ASSUME p \in Subject(st) PROVE FALSE
      OBVIOUS
    <3>1. Subject(st) = {p}
      BY DEF Subject
    <3>2. (CHOOSE q \in {p} : TRUE) = p
      OBVIOUS
    <3>3. StepLevel(st) = level[p]
      BY <3>1, <3>2 DEF StepLevel
    <3> QED BY <1>2, <2>2, <3>3 DEF FlowsTo
  <2> QED BY <1>1, <2>1, <2>2 DEF LowEquivalent, FlowsTo
<1> QED BY <1>1, <1>2


\* Execution in place touches the account or the level of the caller of a host
\* call, and nothing of any other plugin.
LEMMA MutConfined ==
    ASSUME SystemInv, NEW st \in Step, ExecuteMut(st)
    PROVE  Confined(st)
<1>0. plugins = PluginId /\ level \in [PluginId -> 0..3] /\ memUsed \in [PluginId -> Nat]
  BY DEF SystemInv, KernelPart, BootTable, QuotaInv
<1> DEFINE Calm == UNCHANGED <<plugins, held, level, memUsed>>
           Ops == /\ ~IsCapOperation(st.hc.fn) => UNCHANGED caps
                  /\ ~IsMemOperation(st.hc.fn) => UNCHANGED memVars
<1>1. ASSUME OnlyTouches(Subject(st)), ~IsDeclassify(st) => level' = level,
             st.kind = "HostCall" => Ops
      PROVE  Confined(st)
  BY <1>0, <1>1, UnseenBelow DEF Confined
<1>2. ASSUME Calm, st.kind = "HostCall" => Ops PROVE Confined(st)
  BY <1>1, <1>2 DEF OnlyTouches
<1>3. CASE ExecutePluginInternalMut(st)
  <2>1. st.kind = "PluginInternal" /\ Calm
    BY <1>3 DEF ExecutePluginInternalMut, kernelVars, capVars, pluginVars
  <2> QED BY <1>2, <2>1
<1>4. CASE ExecuteHostCallMut(st)
  <2> DEFINE hc == st.hc
             t == st.auth
  <2>1. st.kind = "HostCall" /\ Subject(st) = {hc.caller}
    BY <1>4 DEF ExecuteHostCallMut, Subject
  <2>2. CASE ExecuteCapSendMut(st) \/ HostCapCall(hc, t)
    <3>1. Calm /\ Ops
      BY <2>2 DEF ExecuteCapSendMut, HostCapCall, kernelVars, capVars, pluginVars, memVars
    <3> QED BY <1>2, <3>1
  <2>3. CASE HostAlloc(hc, t)
    <3>1. hc.fn = "KernelAlloc" /\ UNCHANGED <<caps, plugins, held, level>>
      BY <2>3 DEF HostAlloc, capVars
    <3>2. \A p \in PluginId \ {hc.caller} : memUsed'[p] = memUsed[p]
      BY <1>0, <2>3 DEF HostAlloc
    <3>3. Ops
      BY <3>1 DEF IsMemOperation
    <3>4. OnlyTouches(Subject(st))
      BY <2>1, <3>1, <3>2 DEF OnlyTouches
    <3> QED BY <1>1, <3>1, <3>3, <3>4
  <2>4. CASE HostRevoke(hc, t)
    <3>1. hc.fn = "CapRevoke" /\ Calm /\ UNCHANGED memVars
      BY <2>4 DEF HostRevoke, RevokePure, RevokeFast, pluginVars
    <3>2. Ops
      BY <3>1 DEF IsCapOperation
    <3> QED BY <1>2, <3>1, <3>2
  <2>5. CASE HostDeclassify(hc, t)
    <3>1. hc.fn = "Declassify" /\ UNCHANGED <<caps, plugins, held, memUsed, memVars>>
      BY <2>5 DEF HostDeclassify, capVars, memVars
    <3>2. \A p \in PluginId \ {hc.caller} : level'[p] = level[p]
      BY <1>0, <2>5 DEF HostDeclassify
    <3>3. Ops /\ IsDeclassify(st)
      BY <2>1, <3>1 DEF memVars, IsDeclassify
    <3>4. OnlyTouches(Subject(st))
      BY <2>1, <3>1, <3>2 DEF OnlyTouches
    <3> QED BY <1>1, <3>3, <3>4
  <2> QED BY <1>4, <2>2, <2>3, <2>4, <2>5 DEF ExecuteHostCallMut
<1>5. CASE ExecuteKernelOpMut(st)
  <2>1. st.kind # "HostCall" /\ Calm
    BY <1>5 DEF ExecuteKernelOpMut, kernelVars, capVars, pluginVars
  <2> QED BY <1>2, <2>1
<1>6. CASE ExecuteDirectMut(st)
  <2>1. st.kind # "HostCall" /\ Calm
    BY <1>6 DEF ExecuteDirectMut, FreeFast, Revoke, RevokePure, RevokeFast, capVars, pluginVars
  <2> QED BY <1>2, <2>1
<1> QED BY <1>3, <1>4, <1>5, <1>6 DEF ExecuteMut

\* A direct free through execute is refused or adds one address to the freed
\* set, no more.
LEMMA PureFree ==
    ASSUME NEW st \in DirectFree, KernelExecute(st)
    PROVE  /\ CanFreePure(st.addr) /\ freed' = freed \cup {st.addr}
           /\ UNCHANGED <<capVars, resources, pluginVars, tokens, actorVars, mailVars>>
<1>0. Become(Execute(st))
  BY DEF KernelExecute
<1>1. Execute(st) = Free(st.addr)
  BY DEF DirectFree, Execute
<1>2. CanFreePure(st.addr)
  BY <1>0, <1>1 DEF Free, Become
<1> DEFINE s == [Here EXCEPT !.freed = @ \cup {st.addr}]
<1>3. Execute(st) = s
  BY <1>1, <1>2 DEF Free
<1>4. /\ s.caps = caps /\ s.resources = resources /\ s.freed = freed \cup {st.addr}
      /\ s.level = level /\ s.memUsed = memUsed /\ s.granted = granted
      /\ s.pending = pending /\ s.mailbox = mailbox /\ s.blocked = blocked
      /\ s.consumed = consumed /\ s.outbox = outbox /\ s.accepted = accepted
  BY DEF Here
<1> HIDE DEF s
<1> QED BY <1>0, <1>2, <1>3, <1>4 DEF Become, capVars, pluginVars, actorVars, mailVars

\* In every state of the invariant a step, executed either way, changes no
\* plugin but its subject, shows nothing below its level unless it
\* declassifies, and changes the capability table or the resource history
\* only when it is classified so.
THEOREM StepsAreConfined ==
    ASSUME SystemInv, Paths # {}, NEW st \in Step, ExecuteMut(st) \/ KernelExecute(st)
    PROVE  Confined(st)
<1>1. CASE st \in DirectFree /\ KernelExecute(st)
  <2>1. st.kind = "MemFree" /\ UNCHANGED <<plugins, held, level, memUsed>>
    BY <1>1, PureFree DEF DirectFree, capVars, pluginVars
  <2>2. OnlyTouches(Subject(st)) /\ plugins = PluginId
    BY <2>1 DEF OnlyTouches, SystemInv, KernelPart, BootTable
  <2> QED BY <2>1, <2>2, UnseenBelow DEF Confined
<1>2. CASE ExecuteMut(st) \/ st \notin DirectFree
  <2>1. ExecuteMut(st)
    BY <1>2, ExecutorsCoincide
  <2> QED BY <2>1, MutConfined
<1> QED BY <1>1, <1>2


-----------------------------------------------------------------------------
(* The steps of the booted system, sorted by the state they change *)

\* Of the kernel: after boot nothing is registered, inserted or delegated.
BootedStep ==
    \/ UNCHANGED kernelVars
    \/ \E c \in CapId : Revoke(c)
    \/ \E p \in PluginId : Alloc(p)
    \/ \E a \in Addr : FreeFast(a)
    \/ \E a \in Addr :
          /\ CanFreePure(a) /\ freed' = freed \cup {a}
          /\ UNCHANGED <<capVars, resources, pluginVars, tokens>>
    \/ \E hc \in HostCall, c \in CapId : Authorize(hc, c)
    \/ \E hc \in HostCall, t \in tokens :
          HostAlloc(hc, t) \/ HostRevoke(hc, t) \/ HostDeclassify(hc, t)

\* Of the actors alone.
ActorStep ==
    \E a \in Actor :
        RouteOne(a) \/ Consume(a) \/ UnblockSend(a) \/ \E b \in Actor : SetBlocked(a, b)

\* cap_send with its checks.
SendStep == \E st \in HostCallStep : HostCallPre(st) /\ ExecuteCapSendMut(st)

SortedStep ==
    \/ BootedStep /\ UNCHANGED <<actorVars, mailVars>>
    \/ ActorStep /\ UNCHANGED <<kernelVars, mailVars>>
    \/ SendStep
    \/ \E a \in Actor : Forward(a)

\* Steps executed in place.
LEMMA MutSorted ==
    ASSUME BootTable, actors = Actor, NEW st \in Step, ExecuteMut(st) PROVE SortedStep
<1>1. CASE ExecutePluginInternalMut(st)
  <2>1. CASE st.consume /\ st.pid \in actors
    BY <1>1, <2>1 DEF ExecutePluginInternalMut, ActorStep, SortedStep
  <2>2. CASE ~(st.consume /\ st.pid \in actors)
    BY <1>1, <2>2 DEF ExecutePluginInternalMut, kernelVars, mailVars, SortedStep, BootedStep
  <2> QED BY <2>1, <2>2
<1>2. CASE ExecuteHostCallMut(st)
  <2>1. st \in HostCallStep /\ HostCallPre(st) /\ st.auth \in tokens
    BY <1>2 DEF ExecuteHostCallMut, Step, PluginInternal, KernelOp, DirectStep, DirectFree,
                HostCallStep
  <2>2. st.hc \in HostCall \/ st.hc.fn = "CapSend"
    BY <2>1 DEF HostCallStep
  <2>3. CASE ExecuteCapSendMut(st)
    BY <2>1, <2>3 DEF SendStep, SortedStep
  <2>4. CASE /\ HostCapCall(st.hc, st.auth)
             /\ UNCHANGED <<actorVars, mailVars>>
    BY <2>4 DEF HostCapCall, SortedStep, BootedStep
  <2>5. CASE /\ \/ HostAlloc(st.hc, st.auth) \/ HostRevoke(st.hc, st.auth)
                \/ HostDeclassify(st.hc, st.auth)
             /\ UNCHANGED <<actorVars, mailVars>>
    <3>1. st.hc.fn # "CapSend"
      BY <2>5 DEF HostAlloc, HostRevoke, HostDeclassify
    <3> QED BY <2>1, <2>2, <2>5, <3>1 DEF SortedStep, BootedStep
  <2> QED BY <1>2, <2>3, <2>4, <2>5 DEF ExecuteHostCallMut
<1>3. CASE ExecuteKernelOpMut(st)
  BY <1>3 DEF ExecuteKernelOpMut, ActorStep, SortedStep
<1>4. CASE ExecuteDirectMut(st)
  <2>1. CASE st.kind = "MemFree"
    <3>1. st.addr \in Addr
      BY <2>1 DEF Step, PluginInternal, HostCallStep, KernelOp, DirectStep, DirectFree
    <3> QED BY <1>4, <2>1, <3>1 DEF ExecuteDirectMut, SortedStep, BootedStep
  <2>2. CASE st.kind = "CapRevoke"
    <3>1. st.cap \in CapId
      BY <2>2 DEF Step, PluginInternal, HostCallStep, KernelOp, DirectStep, DirectFree
    <3> QED BY <1>4, <2>2, <3>1 DEF ExecuteDirectMut, SortedStep, BootedStep
  <2> QED BY <1>4, <2>1, <2>2 DEF ExecuteDirectMut
<1> QED BY <1>1, <1>2, <1>3, <1>4 DEF ExecuteMut

\* All steps: what execute does, execute_mut does, but for a direct free.
LEMMA StepSorted ==
    ASSUME SystemInv, Paths # {}, [SystemNext]_systemVars PROVE SortedStep
<1>0. BootTable /\ actors = Actor
  BY DEF SystemInv, KernelPart
<1>1. ASSUME NEW st \in Step, ExecuteMut(st) PROVE SortedStep
  BY <1>0, <1>1, MutSorted
<1>2. ASSUME NEW st \in Step, KernelExecute(st) PROVE SortedStep
  <2>1. CASE st \in DirectFree
    <3>1. st.addr \in Addr
      BY <2>1 DEF DirectFree
    <3> QED BY <1>2, <2>1, <3>1, PureFree DEF actorVars, mailVars, SortedStep, BootedStep
  <2>2. CASE st \notin DirectFree
    BY <1>1, <1>2, <2>2, ExecutorsCoincide
  <2> QED BY <2>1, <2>2
<1>3. CASE /\ \/ \E hc \in HostCall, c \in CapId : Authorize(hc, c)
              \/ \E p \in PluginId : Alloc(p)
           /\ UNCHANGED <<actorVars, mailVars>>
  BY <1>3 DEF SortedStep, BootedStep
<1>4. CASE (\E a, b \in Actor : SetBlocked(a, b)) /\ UNCHANGED <<kernelVars, mailVars>>
  BY <1>4 DEF SortedStep, ActorStep
<1>5. CASE UNCHANGED systemVars
  BY <1>5 DEF systemVars, SortedStep, BootedStep
<1>6. CASE \E a \in Actor : Forward(a)
  BY <1>6 DEF SortedStep
<1> QED BY <1>1, <1>2, <1>3, <1>4, <1>5, <1>6 DEF SystemNext


-----------------------------------------------------------------------------
(* The invariant: the kernel *)

\* Apart from a direct free through execute, the steps are those of Kernel.
LEMMA BootedStepIsKernelStep ==
    ASSUME BootedStep
    PROVE  \/ [KernelNext]_kernelVars
           \/ \E a \in Addr :
                 /\ CanFreePure(a) /\ freed' = freed \cup {a}
                 /\ UNCHANGED <<capVars, resources, pluginVars, tokens>>
BY DEF BootedStep, KernelNext

\* A revocation, by either walk, keeps the table.
LEMMA RevokeKeepsTable ==
    ASSUME BootTable, NEW c \in CapId, RevokePure(c) \/ RevokeFast(c)
    PROVE  BootTable'
<1>0. CapTypeOK /\ IndexConsistent /\ LinkConfined /\ ParentLt
  BY DEF BootTable
<1> DEFINE R == RevokeSet(caps, c)
<1>1. caps' = MarkRevoked(caps, R) /\ UNCHANGED <<children, nextCapId, plugins, held>>
  BY <1>0, WalksAgree DEF RevokePure, RevokeFast, RevocationPathsAgree
<1>2. /\ DOMAIN caps' = DOMAIN caps
      /\ \A k \in DOMAIN caps :
            /\ caps'[k].parent = caps[k].parent
            /\ caps'[k].target = caps[k].target
            /\ caps'[k].rights = caps[k].rights
            /\ caps'[k].valid <=> (caps[k].valid /\ k \notin R)
  <2> HIDE DEF R
  <2> QED BY <1>0, <1>1, MarkRevokedFacts DEF CapTypeOK
<1>3. ASSUME NEW k \in DOMAIN caps, caps[k].parent # None, caps[k].parent \in R
      PROVE  k \in R
  <2>1. caps[k].parent \in DOMAIN caps /\ caps[k].parent < k
    BY <1>0, <1>3 DEF ParentLt
  <2>2. InRevokeSet(caps, k, c)
    BY <1>0, <1>3, <2>1, RevokeSetClosed DEF CapTypeOK, RevokeSet
  <2> QED BY <2>2 DEF RevokeSet
<1> HIDE DEF R
<1>4. LinkConfined' /\ ParentLt'
  BY <1>0, <1>2, <1>3 DEF LinkConfined, ParentLt
<1>5. CapTypeOK' /\ IndexConsistent'
  <2>1. CapNext
    BY DEF CapNext
  <2> QED BY <1>0, <2>1, TypeStep, IndexStep
<1> QED BY <1>1, <1>4, <1>5 DEF BootTable

\* Nothing but a revocation changes the table.
LEMMA BootTableStep ==
    ASSUME BootTable, BootedStep PROVE BootTable'
<1>1. CASE UNCHANGED capVars
  BY <1>1 DEF capVars, BootTable, CapTypeOK, IndexConsistent, LinkConfined, ParentLt
<1>2. ASSUME NEW c \in CapId, Revoke(c) PROVE BootTable'
  BY <1>2, RevokeKeepsTable DEF Revoke
<1>3. ASSUME NEW hc \in HostCall, NEW t \in tokens, HostRevoke(hc, t) PROVE BootTable'
  <2>1. RevokePure(hc.arg) \/ RevokeFast(hc.arg)
    BY <1>3 DEF HostRevoke
  <2>2. hc.arg \in CapId
    BY <2>1 DEF RevokePure, RevokeFast, BootTable, CapTypeOK
  <2> QED BY <2>1, <2>2, RevokeKeepsTable
<1>4. \/ UNCHANGED capVars
      \/ \E c \in CapId : Revoke(c)
      \/ \E hc \in HostCall, t \in tokens : HostRevoke(hc, t)
  BY DEF BootedStep, kernelVars, Alloc, FreeFast, Authorize, HostAlloc, HostDeclassify
<1> QED BY <1>1, <1>2, <1>3, <1>4

\* The addresses stay contiguous and the history is kept: a direct free through
\* execute only adds to the freed set, an address not yet handed out included.
LEMMA BootedHistoryStep ==
    ASSUME Contiguous, BootedStep PROVE Contiguous' /\ HistoryKept
<1>1. CASE [KernelNext]_kernelVars
  BY <1>1, ResourceStep
<1>2. ASSUME NEW a \in Addr, freed' = freed \cup {a}, UNCHANGED resources
      PROVE  Contiguous' /\ HistoryKept
  BY <1>2 DEF Contiguous, HistoryKept
<1> QED BY <1>1, <1>2, BootedStepIsKernelStep

\* Every step keeps the kernel's part.
LEMMA KernelPartStep ==
    ASSUME KernelPart, BootedStep PROVE KernelPart'
<1>0. BootTable /\ TokensFaithful /\ Contiguous /\ QuotaInv /\ CapTypeOK
      /\ level \in [PluginId -> 0..3]
  BY DEF KernelPart, BootTable
<1>1. BootTable' /\ Contiguous'
  BY <1>0, BootTableStep, BootedHistoryStep
<1>2. TokensFaithful' /\ QuotaInv'
  <2>1. CASE [KernelNext]_kernelVars
    BY <1>0, <2>1, TokensFaithfulStep, QuotaStep
  <2>2. CASE UNCHANGED <<capVars, pluginVars, tokens>>
    BY <1>0, <2>2 DEF capVars, pluginVars, TokensFaithful, QuotaInv
  <2> QED BY <2>1, <2>2, BootedStepIsKernelStep
<1>3. level' \in [PluginId -> 0..3]
  <2>1. level' = level \/ \E hc \in HostCall, t \in tokens : HostDeclassify(hc, t)
    BY DEF BootedStep, kernelVars, pluginVars, Revoke, Alloc, FreeFast, Authorize,
           HostAlloc, HostRevoke
  <2> QED BY <1>0, <2>1 DEF HostDeclassify
<1> QED BY <1>1, <1>2, <1>3 DEF KernelPart


-----------------------------------------------------------------------------
(* The invariant: actors and mail *)

\* The messages of a vector go to one actor, in order, or to none.
LEMMA SourcesTyped ==
    ASSUME NEW st \in HostCallStep, NEW a
    PROVE  /\ SourcesFor(a, st.msgs) \in Seq(PluginId)
           /\ \A i \in 1..Len(SourcesFor(a, st.msgs)) :
                i \in DOMAIN st.msgs /\ SourcesFor(a, st.msgs)[i] = st.msgs[i].src
<1>1. st.msgs \in Seq(Envelope)
  <2>1. st.msgs \in NewMsgs
    BY DEF HostCallStep, NewMsgs
  <2>2. \A e \in Envelope : <<e>> \in Seq(Envelope) /\ <<e, e>> \in Seq(Envelope)
    OBVIOUS
  <2>3. <<>> \in Seq(Envelope)
    OBVIOUS
  <2> QED BY <2>1, <2>2, <2>3, Zenon DEF NewMsgs
<1>2. PICK n \in Nat : st.msgs \in [1..n -> Envelope]
  BY <1>1
<1>3. CASE \E i \in DOMAIN st.msgs : st.msgs[i].dst = a
  <2>1. SourcesFor(a, st.msgs) = [i \in 1..n |-> st.msgs[i].src]
    BY <1>2, <1>3 DEF SourcesFor
  <2>2. SourcesFor(a, st.msgs) \in [1..n -> PluginId]
    BY <1>2, <2>1 DEF Envelope
  <2>3. Len(SourcesFor(a, st.msgs)) = n /\ SourcesFor(a, st.msgs) \in Seq(PluginId)
    BY <2>2
  <2> QED BY <1>2, <2>1, <2>3
<1>4. CASE ~\E i \in DOMAIN st.msgs : st.msgs[i].dst = a
  BY <1>4 DEF SourcesFor
<1> QED BY <1>3, <1>4

\* Names for the prover, which would otherwise reason about elements.
Cat(s, t) == s \o t
Moved(s, t) == Append(s, Head(t))
Rest(t) == Tail(t)

\* What the two lemmas below need of sequences.
LEMMA CatFacts ==
    ASSUME NEW S
    PROVE  /\ \A s, t \in Seq(S) : Cat(s, t) \in Seq(S)
           /\ \A s, t, u \in Seq(S) : Cat(Cat(s, t), u) = Cat(s, Cat(t, u))
           /\ \A s, t \in Seq(S) : t # <<>> =>
                /\ Moved(s, t) \in Seq(S) /\ Rest(t) \in Seq(S)
                /\ Cat(Moved(s, t), Rest(t)) = Cat(s, t)
<1>1. \A s, t \in Seq(S) : Cat(s, t) \in Seq(S)
  BY ConcatProperties DEF Cat
<1>2. \A s, t, u \in Seq(S) : Cat(Cat(s, t), u) = Cat(s, Cat(t, u))
  BY ConcatAssociative DEF Cat
<1>3. ASSUME NEW s \in Seq(S), NEW t \in Seq(S), t # <<>>
      PROVE  /\ Moved(s, t) \in Seq(S) /\ Rest(t) \in Seq(S)
             /\ Cat(Moved(s, t), Rest(t)) = Cat(s, t)
  <2>1. Append(s, Head(t)) \in Seq(S) /\ Tail(t) \in Seq(S)
    BY <1>3, HeadTailProperties, AppendProperties
  <2>2. Append(s, Head(t)) \o Tail(t) = s \o t
    BY <1>3, DeliverKeepsConcat
  <2> QED BY <2>1, <2>2 DEF Cat, Moved, Rest
<1> QED BY <1>1, <1>2, <1>3

\* Forwarding, routing and consumption move a message from one queue to the
\* next; what is in all of them together stays the same.
MovesKeep(c, m, p, o) ==
    /\ o # <<>> => c \o (m \o (Append(p, Head(o)) \o Tail(o))) = c \o (m \o (p \o o))
    /\ p # <<>> => c \o (Append(m, Head(p)) \o (Tail(p) \o o)) = c \o (m \o (p \o o))
    /\ m # <<>> => Append(c, Head(m)) \o (Tail(m) \o (p \o o)) = c \o (m \o (p \o o))

\* They do.
LEMMA MovesKeepMail ==
    ASSUME NEW S, NEW c \in Seq(S), NEW m \in Seq(S), NEW p \in Seq(S), NEW o \in Seq(S)
    PROVE  MovesKeep(c, m, p, o)
<1>1. Cat(p, o) \in Seq(S)
  BY CatFacts
<1>2. o # <<>> => Cat(Moved(p, o), Rest(o)) = Cat(p, o)
  BY CatFacts
<1>3. p # <<>> => Cat(Moved(m, p), Cat(Rest(p), o)) = Cat(m, Cat(p, o))
  BY CatFacts
<1>4. m # <<>> => Cat(Moved(c, m), Cat(Rest(m), Cat(p, o))) = Cat(c, Cat(m, Cat(p, o)))
  <2> DEFINE q == Cat(p, o)
  <2> SUFFICES ASSUME m # <<>> PROVE Cat(Moved(c, m), Cat(Rest(m), q)) = Cat(c, Cat(m, q))
    OBVIOUS
  <2> HIDE DEF q
  <2>1. Moved(c, m) \in Seq(S) /\ Rest(m) \in Seq(S) /\ q \in Seq(S)
    BY <1>1, CatFacts DEF q
  <2>2. Cat(Moved(c, m), Cat(Rest(m), q)) = Cat(Cat(Moved(c, m), Rest(m)), q)
    BY <2>1, CatFacts
  <2>3. Cat(Moved(c, m), Rest(m)) = Cat(c, m)
    BY CatFacts
  <2>4. Cat(Cat(c, m), q) = Cat(c, Cat(m, q))
    BY <2>1, CatFacts
  <2> QED BY <2>2, <2>3, <2>4
<1> QED BY <1>2, <1>3, <1>4, Zenon DEF Cat, Moved, Rest, MovesKeep

\* What is accepted is added at the far end.
AcceptKeeps(c, m, p, o, n) ==
    (c \o (m \o (p \o o))) \o n = c \o (m \o (p \o (o \o n)))

\* It may be added to the last queue or to all of them together.
LEMMA AcceptKeepsMail ==
    ASSUME NEW S, NEW c \in Seq(S), NEW m \in Seq(S), NEW p \in Seq(S), NEW o \in Seq(S),
           NEW n \in Seq(S)
    PROVE  AcceptKeeps(c, m, p, o, n)
<1>1. Cat(p, o) \in Seq(S) /\ Cat(m, Cat(p, o)) \in Seq(S)
  BY CatFacts
<1>2. Cat(Cat(c, Cat(m, Cat(p, o))), n) = Cat(c, Cat(m, Cat(p, Cat(o, n))))
  BY <1>1, CatFacts
<1> QED BY <1>2, Zenon DEF Cat, AcceptKeeps


\* The types of one actor's mail.
LEMMA MailTypes ==
    ASSUME ActorsInv, MailInv, NEW a \in Actor
    PROVE  /\ consumed[a] \in Seq(PluginId) /\ mailbox[a] \in Seq(PluginId)
           /\ pending[a] \in Seq(PluginId) /\ outbox[a] \in Seq(PluginId)
           /\ accepted[a] \in Seq(PluginId)
<1>1. consumed[a] \in Seq(Msg) /\ mailbox[a] \in Seq(Msg) /\ pending[a] \in Seq(Msg)
  BY EntryTypes DEF ActorsInv
<1>2. Msg = PluginId
  BY SystemAssumption
<1> QED BY <1>1, <1>2 DEF MailInv

\* What an actor's mail becomes in a step: the four queues of the other actors
\* are as before.
SameMail(b) ==
    /\ consumed'[b] = consumed[b] /\ mailbox'[b] = mailbox[b]
    /\ pending'[b] = pending[b] /\ outbox'[b] = outbox[b] /\ accepted'[b] = accepted[b]

\* A step that moves one message of one actor on keeps the mail.
LEMMA MoveStep ==
    ASSUME ActorsInv, actors = Actor, MailInv, NEW a \in Actor,
           \/ Forward(a)
           \/ (RouteOne(a) \/ Consume(a)) /\ UNCHANGED mailVars
    PROVE  MailInv'
<1> DEFINE c == consumed[a]
           m == mailbox[a]
           p == pending[a]
           o == outbox[a]
<1>0. /\ c \in Seq(PluginId) /\ m \in Seq(PluginId) /\ p \in Seq(PluginId)
      /\ o \in Seq(PluginId)
  BY MailTypes
<1>1. /\ consumed \in [Actor -> Seq(Msg)] /\ mailbox \in [Actor -> Seq(Msg)]
      /\ pending \in [Actor -> Seq(Msg)]
      /\ outbox \in [Actor -> Seq(PluginId)] /\ accepted \in [Actor -> Seq(PluginId)]
  BY DEF ActorsInv, ActorsTypeOK, MailInv
<1>2. accepted[a] = c \o (m \o (p \o o))
  BY DEF MailInv
<1>3. MovesKeep(c, m, p, o)
  <2> HIDE DEF c, m, p, o
  <2> QED BY <1>0, MovesKeepMail
<1>4. ASSUME \A b \in Actor \ {a} : SameMail(b), accepted' = accepted,
             outbox' \in [Actor -> Seq(PluginId)],
             consumed'[a] \o (mailbox'[a] \o (pending'[a] \o outbox'[a])) = c \o (m \o (p \o o))
      PROVE  MailInv'
  <2>1. ASSUME NEW b \in Actor
        PROVE  accepted'[b] = consumed'[b] \o (mailbox'[b] \o (pending'[b] \o outbox'[b]))
    <3>1. CASE b = a
      BY <1>2, <1>4, <3>1
    <3>2. CASE b # a
      <4>1. accepted[b] = consumed[b] \o (mailbox[b] \o (pending[b] \o outbox[b]))
        BY DEF MailInv
      <4>2. SameMail(b)
        BY <1>4, <3>2
      <4> QED BY <4>1, <4>2 DEF SameMail
    <3> QED BY <3>1, <3>2
  <2> QED BY <1>1, <1>4, <2>1 DEF MailInv
<1>5. CASE Forward(a)
  <2>1. /\ o # <<>> /\ pending' = [pending EXCEPT ![a] = Append(p, Head(o))]
        /\ outbox' = [outbox EXCEPT ![a] = Tail(o)]
        /\ consumed' = consumed /\ mailbox' = mailbox /\ accepted' = accepted
    BY <1>5 DEF Forward, EnqueuePending
  <2>2. Tail(o) \in Seq(PluginId)
    BY <1>0, <2>1, HeadTailProperties
  <2>3. outbox' \in [Actor -> Seq(PluginId)]
    BY <1>1, <2>1, <2>2
  <2>4. /\ consumed'[a] = c /\ mailbox'[a] = m
        /\ pending'[a] = Append(p, Head(o)) /\ outbox'[a] = Tail(o)
    BY <1>1, <2>1
  <2>5. \A b \in Actor \ {a} : SameMail(b)
    BY <1>1, <2>1 DEF SameMail
  <2>6. c \o (m \o (Append(p, Head(o)) \o Tail(o))) = c \o (m \o (p \o o))
    BY <1>3, <2>1, Zenon DEF MovesKeep
  <2> QED BY <1>4, <2>1, <2>3, <2>4, <2>5, <2>6
<1>6. CASE RouteOne(a) /\ UNCHANGED mailVars
  <2>1. /\ p # <<>> /\ mailbox' = [mailbox EXCEPT ![a] = Append(m, Head(p))]
        /\ pending' = [pending EXCEPT ![a] = Tail(p)]
        /\ consumed' = consumed /\ outbox' = outbox /\ accepted' = accepted
    BY <1>6 DEF RouteOne, Deliver, mailVars
  <2>2. outbox' \in [Actor -> Seq(PluginId)]
    BY <1>1, <2>1
  <2>3. /\ consumed'[a] = c /\ mailbox'[a] = Append(m, Head(p))
        /\ pending'[a] = Tail(p) /\ outbox'[a] = o
    BY <1>1, <2>1
  <2>4. \A b \in Actor \ {a} : SameMail(b)
    BY <1>1, <2>1 DEF SameMail
  <2>5. c \o (Append(m, Head(p)) \o (Tail(p) \o o)) = c \o (m \o (p \o o))
    BY <1>3, <2>1, Zenon DEF MovesKeep
  <2> QED BY <1>4, <2>1, <2>2, <2>3, <2>4, <2>5
<1>7. CASE Consume(a) /\ UNCHANGED mailVars
  <2>1. /\ m # <<>> /\ mailbox' = [mailbox EXCEPT ![a] = Tail(m)]
        /\ consumed' = [consumed EXCEPT ![a] = Append(c, Head(m))]
        /\ pending' = pending /\ outbox' = outbox /\ accepted' = accepted
    BY <1>7 DEF Consume, mailVars
  <2>2. outbox' \in [Actor -> Seq(PluginId)]
    BY <1>1, <2>1
  <2>3. /\ consumed'[a] = Append(c, Head(m)) /\ mailbox'[a] = Tail(m)
        /\ pending'[a] = p /\ outbox'[a] = o
    BY <1>1, <2>1
  <2>4. \A b \in Actor \ {a} : SameMail(b)
    BY <1>1, <2>1 DEF SameMail
  <2>5. Append(c, Head(m)) \o (Tail(m) \o (p \o o)) = c \o (m \o (p \o o))
    BY <1>3, <2>1, Zenon DEF MovesKeep
  <2> QED BY <1>4, <2>1, <2>2, <2>3, <2>4, <2>5
<1> QED BY <1>5, <1>6, <1>7


\* cap_send adds to what was accepted and to what is to be forwarded alike.
LEMMA SendKeepsMail ==
    ASSUME ActorsInv, MailInv, NEW st \in HostCallStep, ExecuteCapSendMut(st)
    PROVE  MailInv'
<1> DEFINE n(a) == SourcesFor(a, st.msgs)
<1>1. /\ outbox' = [a \in Actor |-> outbox[a] \o n(a)]
      /\ accepted' = [a \in Actor |-> accepted[a] \o n(a)]
      /\ consumed' = consumed /\ mailbox' = mailbox /\ pending' = pending
  BY DEF ExecuteCapSendMut, actorVars
<1>2. ASSUME NEW a \in Actor
      PROVE  /\ outbox[a] \o n(a) \in Seq(PluginId)
             /\ accepted[a] \o n(a) \in Seq(PluginId)
             /\ accepted[a] \o n(a) =
                  consumed[a] \o (mailbox[a] \o (pending[a] \o (outbox[a] \o n(a))))
  <2>1. n(a) \in Seq(PluginId)
    BY SourcesTyped
  <2>2. /\ consumed[a] \in Seq(PluginId) /\ mailbox[a] \in Seq(PluginId)
        /\ pending[a] \in Seq(PluginId) /\ outbox[a] \in Seq(PluginId)
        /\ accepted[a] \in Seq(PluginId)
    BY MailTypes
  <2> HIDE DEF n
  <2>3. AcceptKeeps(consumed[a], mailbox[a], pending[a], outbox[a], n(a))
    BY <2>1, <2>2, AcceptKeepsMail
  <2>4. accepted[a] = consumed[a] \o (mailbox[a] \o (pending[a] \o outbox[a]))
    BY DEF MailInv
  <2>5. outbox[a] \o n(a) \in Seq(PluginId) /\ accepted[a] \o n(a) \in Seq(PluginId)
    BY <2>1, <2>2, ConcatProperties
  <2> QED BY <2>3, <2>4, <2>5, Zenon DEF AcceptKeeps
<1> HIDE DEF n
<1>3. outbox' \in [Actor -> Seq(PluginId)] /\ accepted' \in [Actor -> Seq(PluginId)]
  BY <1>1, <1>2
<1>4. ASSUME NEW a \in Actor
      PROVE  accepted'[a] = consumed'[a] \o (mailbox'[a] \o (pending'[a] \o outbox'[a]))
  <2>1. accepted'[a] = accepted[a] \o n(a) /\ outbox'[a] = outbox[a] \o n(a)
    BY <1>1
  <2> QED BY <1>1, <1>2, <2>1
<1> QED BY <1>3, <1>4 DEF MailInv

\* Every step keeps the mail, and the actors are those of boot.
LEMMA MailStep ==
    ASSUME ActorsInv, actors = Actor, MailInv, SortedStep
    PROVE  ActorsInv' /\ actors' = Actor /\ MailInv'
<1>1. CASE UNCHANGED <<actorVars, mailVars>>
  <2>1. ActorsInv'
    BY <1>1, ActorsStepInv
  <2> QED BY <1>1, <2>1 DEF actorVars, mailVars, MailInv
<1>2. CASE ActorStep /\ UNCHANGED mailVars
  <2>1. ActorsInv'
    BY <1>2, ActorsStepInv DEF ActorStep, ActorsNext
  <2>2. PICK a \in Actor : \/ RouteOne(a) \/ Consume(a)
                           \/ UnblockSend(a) \/ \E b \in Actor : SetBlocked(a, b)
    BY <1>2 DEF ActorStep
  <2>3. CASE RouteOne(a) \/ Consume(a)
    BY <1>2, <2>1, <2>3, MoveStep DEF RouteOne, Consume
  <2>4. CASE UnblockSend(a) \/ \E b \in Actor : SetBlocked(a, b)
    BY <1>2, <2>1, <2>4 DEF UnblockSend, SetBlocked, mailVars, MailInv
  <2> QED BY <2>2, <2>3, <2>4
<1>3. ASSUME NEW st \in HostCallStep, ExecuteCapSendMut(st)
      PROVE  ActorsInv' /\ actors' = Actor /\ MailInv'
  <2>1. UNCHANGED actorVars
    BY <1>3 DEF ExecuteCapSendMut
  <2>2. ActorsInv' /\ actors' = Actor
    BY <2>1, ActorsStepInv DEF actorVars
  <2> QED BY <1>3, <2>2, SendKeepsMail
<1>4. ASSUME NEW a \in Actor, Forward(a) PROVE ActorsInv' /\ actors' = Actor /\ MailInv'
  <2>1. Head(outbox[a]) \in Msg
    <3>1. outbox[a] \in Seq(PluginId) /\ outbox[a] # <<>>
      BY <1>4, MailTypes DEF Forward
    <3> QED BY <3>1, HeadTailProperties, SystemAssumption
  <2>2. ActorsInv' /\ actors' = Actor
    BY <1>4, <2>1, ActorsStepInv DEF Forward, ActorsNext, EnqueuePending
  <2> QED BY <1>4, <2>2, MoveStep
<1> QED BY <1>1, <1>2, <1>3, <1>4 DEF SortedStep, SendStep

\* Every step of the system keeps the invariant.
LEMMA SystemStep ==
    ASSUME Paths # {} PROVE SystemInv /\ [SystemNext]_systemVars => SystemInv'
<1> SUFFICES ASSUME SystemInv, [SystemNext]_systemVars PROVE SystemInv'
  OBVIOUS
<1>1. SortedStep
  BY StepSorted
<1>2. BootedStep
  BY <1>1 DEF SortedStep, SendStep, ExecuteCapSendMut, Forward, BootedStep, kernelVars
<1>3. KernelPart'
  BY <1>2, KernelPartStep DEF SystemInv
<1>4. ActorsInv' /\ actors' = Actor /\ MailInv'
  BY <1>1, MailStep DEF SystemInv
<1> QED BY <1>3, <1>4 DEF SystemInv


-----------------------------------------------------------------------------
(* Boot *)

\* Boot leaves a table of the invariant: capability 0 is a root with every
\* right, and the others are roots or its children.
LEMMA BootTableInit == SystemInit => BootTable
<1> SUFFICES ASSUME SystemInit PROVE BootTable
  OBVIOUS
<1> DEFINE N == Cardinality(PluginId)
           Id == 0..(N - 1)
<1>1. PICK f \in Bijection(PluginId, Id), parent \in [PluginId -> {None, 0}],
           rs \in [PluginId -> BootRights] :
          /\ f[BootOwner] = 0 /\ parent[BootOwner] = None
          /\ \A p \in PluginId : parent[p] = None => rs[p] = Right
          /\ held = [p \in PluginId |-> {f[p]}]
          /\ caps = [c \in Id |->
                       LET p == Inverse(f, PluginId, CapId)[c]
                       IN  NewCapability(p, 0, rs[p], parent[p])]
          /\ children = [c \in CapId |->
                           {f[p] : p \in {p \in PluginId : parent[p] = c}}]
  BY DEF SystemInit
<1>2. N \in Nat /\ MaxCapId \in Nat /\ Id \subseteq CapId /\ 0 \in CapId
  <2>1. N \in Nat /\ N <= MaxCapId
    BY FS_CardinalityType, SystemAssumption
  <2> QED BY <2>1, MaxCapIdAssumption DEF CapId
<1> HIDE DEF N
<1>3. /\ f \in [PluginId -> Id]
      /\ \A p, q \in PluginId : f[p] = f[q] => p = q
      /\ \A c \in Id : \E p \in PluginId : f[p] = c
  BY DEF Bijection, Injection, Surjection, IsInjective
<1> DEFINE g(c) == Inverse(f, PluginId, CapId)[c]
<1>4. ASSUME NEW c \in Id PROVE g(c) \in PluginId /\ f[g(c)] = c
  <2>1. c \in Range(f) /\ c \in CapId
    BY <1>2, <1>3 DEF Range
  <2>2. g(c) = CHOOSE s \in PluginId : c \in Range(f) => f[s] = c
    BY <2>1 DEF Inverse
  <2>3. \E s \in PluginId : c \in Range(f) => f[s] = c
    BY <1>3
  <2> QED BY <2>1, <2>2, <2>3
<1>5. \A p \in PluginId : f[p] \in Id /\ g(f[p]) = p
  BY <1>3, <1>4
<1>6. DOMAIN caps = Id /\ \A c \in Id : caps[c] = NewCapability(g(c), 0, rs[g(c)], parent[g(c)])
  BY <1>1
<1> HIDE DEF g
<1>7. ASSUME NEW c \in Id
      PROVE  /\ caps[c].parent = parent[g(c)] /\ caps[c].target = 0
             /\ caps[c].rights = rs[g(c)] /\ caps[c].valid = TRUE /\ caps[c] \in Capability
  <2>1. caps[c] = NewCapability(g(c), 0, rs[g(c)], parent[g(c)])
    BY <1>6
  <2>2. g(c) \in PluginId
    BY <1>4
  <2>3. rs[g(c)] \in SUBSET Right /\ parent[g(c)] \in CapId \cup {None} /\ 0 \in ResourceId
    BY <1>2, <2>2, SystemAssumption
  <2> QED BY <2>1, <2>2, <2>3 DEF NewCapability, Capability
<1>8. /\ nextCapId = MaxCapId /\ plugins = PluginId
      /\ None # 0 /\ 0 \in Id /\ g(0) = BootOwner /\ BootOwner \in PluginId
  <2>1. nextCapId = MaxCapId /\ plugins = PluginId
    BY DEF SystemInit
  <2>2. None # 0
    BY <1>2, NoneAssumption
  <2> QED BY <1>1, <1>5, <2>1, <2>2, SystemAssumption
<1>9. CapTypeOK
  <2>1. caps \in [DOMAIN caps -> Capability] /\ DOMAIN caps \subseteq CapId
    BY <1>1, <1>2, <1>6, <1>7
  <2>2. children \in [CapId -> SUBSET CapId]
    BY <1>1, <1>2, <1>3
  <2>3. held \in [PluginId -> SUBSET CapId]
    BY <1>1, <1>2, <1>3
  <2>4. nextCapId \in CapId
    BY <1>2, <1>8 DEF CapId
  <2> QED BY <1>8, <2>1, <2>2, <2>3, <2>4 DEF CapTypeOK
<1>10. IndexConsistent
  <2> SUFFICES ASSUME NEW q \in CapId, NEW c \in CapId
               PROVE  c \in children[q] <=> (c \in DOMAIN caps /\ caps[c].parent = q)
    BY DEF IndexConsistent
  <2>1. c \in children[q] <=> \E p \in PluginId : parent[p] = q /\ c = f[p]
    BY <1>1
  <2>2. ASSUME NEW p \in PluginId, parent[p] = q, c = f[p]
        PROVE  c \in DOMAIN caps /\ caps[c].parent = q
    <3>1. c \in Id /\ g(c) = p
      BY <1>5, <2>2
    <3>2. caps[c].parent = parent[g(c)]
      BY <1>7, <3>1
    <3> QED BY <1>6, <2>2, <3>1, <3>2
  <2>3. ASSUME c \in DOMAIN caps, caps[c].parent = q
        PROVE  \E p \in PluginId : parent[p] = q /\ c = f[p]
    <3>1. c \in Id /\ g(c) \in PluginId /\ f[g(c)] = c
      BY <1>4, <1>6, <2>3
    <3>2. caps[c].parent = parent[g(c)]
      BY <1>7, <3>1
    <3> QED BY <2>3, <3>1, <3>2
  <2> QED BY <2>1, <2>2, <2>3
<1>11. ASSUME NEW c \in DOMAIN caps, caps[c].parent # None
       PROVE  caps[c].parent = 0 /\ c # 0
  <2>1. c \in Id /\ g(c) \in PluginId /\ caps[c].parent = parent[g(c)]
    BY <1>4, <1>6, <1>7
  <2>2. parent[g(c)] = 0
    BY <1>11, <2>1
  <2> QED BY <1>1, <1>8, <1>11, <2>1, <2>2
<1>12. caps[0].target = 0 /\ caps[0].rights = Right /\ caps[0].valid /\ 0 \in DOMAIN caps
  <2>1. caps[0].target = 0 /\ caps[0].rights = rs[g(0)] /\ caps[0].valid = TRUE
    BY <1>7, <1>8
  <2>2. rs[BootOwner] = Right
    BY <1>1, <1>8
  <2> QED BY <1>6, <1>8, <2>1, <2>2
<1>13. ParentLt
  <2>1. \A c \in DOMAIN caps : c \in Nat
    BY <1>6
  <2> QED BY <1>11, <1>12, <2>1 DEF ParentLt
<1>14. LinkConfined
  <2>1. \A c \in DOMAIN caps : caps[c].target = 0 /\ caps[c].rights \subseteq Right
    BY <1>6, <1>7 DEF Capability
  <2> QED BY <1>11, <1>12, <2>1 DEF LinkConfined
<1> QED BY <1>8, <1>9, <1>10, <1>13, <1>14 DEF BootTable

\* The state after boot satisfies the invariant.
LEMMA SystemInitInv == SystemInit => SystemInv
<1> SUFFICES ASSUME SystemInit PROVE SystemInv
  OBVIOUS
<1>1. KernelPart
  <2>1. TokensFaithful
    BY DEF SystemInit, TokensFaithful
  <2>2. Contiguous
    <3>1. DOMAIN resources = 0..(1-1)
      BY DEF SystemInit
    <3> QED BY <3>1 DEF Contiguous
  <2>3. QuotaInv
    BY KernelAssumption DEF SystemInit, QuotaInv
  <2>4. level \in [PluginId -> 0..3]
    BY SystemAssumption DEF SystemInit
  <2> QED BY <2>1, <2>2, <2>3, <2>4, BootTableInit DEF KernelPart
<1>2. ActorsInv /\ actors = Actor
  <2>1. ActorsTypeOK
    BY DEF SystemInit, ActorsTypeOK
  <2>2. AbsentIsEmpty
    BY DEF SystemInit, AbsentIsEmpty
  <2>3. MailboxBounded
    <3>1. \A a \in Actor : mailbox[a] = <<>> /\ capacity[a] \in Nat
      BY ActorsAssumption DEF SystemInit
    <3> QED BY <3>1, EmptySeq DEF MailboxBounded
  <2> QED BY <2>1, <2>2, <2>3 DEF ActorsInv, SystemInit
<1>3. MailInv
  <2>1. <<>> \in Seq(PluginId) /\ <<>> \o (<<>> \o (<<>> \o <<>>)) = <<>>
    BY EmptySeq, ConcatEmptySeq
  <2>2. \A a \in Actor : /\ consumed[a] = <<>> /\ mailbox[a] = <<>> /\ pending[a] = <<>>
                         /\ outbox[a] = <<>> /\ accepted[a] = <<>>
    BY DEF SystemInit
  <2>3. outbox \in [Actor -> Seq(PluginId)] /\ accepted \in [Actor -> Seq(PluginId)]
    BY <2>1 DEF SystemInit
  <2> QED BY <2>1, <2>2, <2>3 DEF MailInv
<1> QED BY <1>1, <1>2, <1>3 DEF SystemInv


-----------------------------------------------------------------------------
(* Theorems about every execution *)

\* The invariant holds of every reachable state.
LEMMA SystemInvariant == ASSUME Paths # {} PROVE SystemSpec => []SystemInv
<1>1. SystemInv /\ [SystemNext]_systemVars => SystemInv'
  BY SystemStep
<1> QED BY <1>1, SystemInitInv, PTL DEF SystemSpec

\* A step that one executor takes the other takes as well, to the same state,
\* along every execution; ExecutorsCoincide says so of every pair of states
\* whose first one satisfies the invariant.
THEOREM ExecutorsAlwaysAgree ==
    ASSUME Paths # {}
    PROVE  SystemSpec =>
             [][\A st \in Step \ DirectFree : ExecuteMut(st) <=> KernelExecute(st)]_systemVars
<1> DEFINE Agree == \A st \in Step \ DirectFree : ExecuteMut(st) <=> KernelExecute(st)
<1>1. SystemInv => Agree
  BY ExecutorsCoincide
<1> QED BY <1>1, SystemInvariant, PTL

\* Every step of every execution is confined to its subject and invisible
\* below its level.
THEOREM StepsAlwaysConfined ==
    ASSUME Paths # {}
    PROVE  SystemSpec =>
             [][\A st \in Step :
                   ExecuteMut(st) \/ KernelExecute(st) => Confined(st)]_systemVars
<1> DEFINE Conf == \A st \in Step : ExecuteMut(st) \/ KernelExecute(st) => Confined(st)
<1>1. SystemInv => Conf
  BY StepsAreConfined
<1> QED BY <1>1, SystemInvariant, PTL

\* In the whole system too no plugin is granted more than its quota
\* (execute_kernel_alloc).
THEOREM SystemQuotasHold ==
    ASSUME Paths # {} PROVE SystemSpec => []QuotaSound
<1>1. SystemInv => QuotaSound
  BY DEF SystemInv, KernelPart, QuotaInv, QuotaSound
<1> QED BY <1>1, SystemInvariant, PTL

\* In the whole system an address is handed out once and keeps its owner until
\* it is freed, and an address that either executor freed, even one that was
\* not handed out yet, is never live afterwards.
THEOREM SystemAddressesNeverReused ==
    ASSUME Paths # {} PROVE SystemSpec => ResourceLifecycle
<1> DEFINE Life ==
       /\ \A a \in DOMAIN resources :
             a \in DOMAIN resources' /\ resources'[a] \in {resources[a], Freed}
       /\ \A a \in freed : a \in freed' /\ ~IsLive(a)'
<1>1. SystemInv /\ [SystemNext]_systemVars => [Life]_kernelVars
  <2> SUFFICES ASSUME SystemInv, [SystemNext]_systemVars PROVE Life
    OBVIOUS
  <2>1. BootedStep
    BY StepSorted DEF SortedStep, SendStep, ExecuteCapSendMut, Forward, BootedStep, kernelVars
  <2>2. HistoryKept
    BY <2>1, BootedHistoryStep DEF SystemInv, KernelPart
  <2> QED BY <2>2 DEF HistoryKept, IsLive
<1> QED BY <1>1, SystemInvariant, PTL DEF SystemSpec, ResourceLifecycle

\* Authority is confined in the table after boot.
LEMMA BootConfined == BootTable => AuthorityConfined
<1> SUFFICES ASSUME BootTable PROVE AuthorityConfined
  OBVIOUS
<1>1. IdsBehind
  BY MaxCapIdAssumption DEF BootTable, CapTypeOK, IdsBehind, CapId
<1> QED BY <1>1, LinksConfineChains DEF BootTable, ConfineInv

\* In the whole system a plugin's level and account change only under a right
\* that is live and unrevoked along the whole chain of delegations.
THEOREM SystemEffectsMediated ==
    ASSUME Paths # {} PROVE SystemSpec => EffectsMediated
<1>1. SystemInv /\ [SystemNext]_systemVars => [MediatedStep]_kernelVars
  <2> SUFFICES ASSUME SystemInv, [SystemNext]_systemVars PROVE [MediatedStep]_kernelVars
    OBVIOUS
  <2>1. BootedStep
    BY StepSorted DEF SortedStep, SendStep, ExecuteCapSendMut, Forward, BootedStep, kernelVars
  <2>2. TokensFaithful /\ AuthorityConfined
    BY BootConfined DEF SystemInv, KernelPart
  <2>3. CASE [KernelNext]_kernelVars
    BY <2>2, <2>3, KernelStepMediated
  <2>4. CASE UNCHANGED pluginVars
    BY <2>4 DEF pluginVars, MediatedStep
  <2> QED BY <2>1, <2>3, <2>4, BootedStepIsKernelStep
<1> QED BY <1>1, SystemInvariant, PTL DEF SystemSpec, EffectsMediated, MediatedStep


-----------------------------------------------------------------------------
(* Mail *)

\* What an actor has consumed is the beginning of what was accepted for it.
ConsumedIsPrefix ==
    \A a \in Actor : SubSeq(accepted[a], 1, Len(consumed[a])) = consumed[a]

\* The first part of a concatenation.
LEMMA PrefixOfConcat ==
    ASSUME NEW S, NEW s \in Seq(S), NEW t \in Seq(S)
    PROVE  SubSeq(s \o t, 1, Len(s)) = s
<1>1. Len(s) \in Nat
  BY LenProperties
<1>2. CASE s = <<>>
  <2>1. Len(s) = 0
    BY <1>2, EmptySeq
  <2>2. s \o t \in Seq(S)
    BY ConcatProperties
  <2>3. SubSeq(s \o t, 1, 0) = <<>>
    BY <2>2, SubSeqEmpty
  <2> QED BY <1>2, <2>1, <2>3
<1>3. CASE s # <<>>
  <2>1. Len(s) # 0
    BY <1>3, EmptySeq
  <2>2. SubSeq(s \o t, 1, Len(s)) = SubSeq(s, 1, Len(s))
    BY <1>1, <2>1, SubSeqOfConcat1
  <2> QED BY <2>2, SubSeqFull
<1> QED BY <1>2, <1>3

\* The mail of the invariant is ordered.
LEMMA MailOrdered == SystemInv => ConsumedIsPrefix
<1> SUFFICES ASSUME SystemInv, NEW a \in Actor
             PROVE  SubSeq(accepted[a], 1, Len(consumed[a])) = consumed[a]
  BY DEF ConsumedIsPrefix
<1> DEFINE r == mailbox[a] \o (pending[a] \o outbox[a])
<1>1. consumed[a] \in Seq(PluginId) /\ r \in Seq(PluginId)
  <2>1. /\ consumed[a] \in Seq(PluginId) /\ mailbox[a] \in Seq(PluginId)
        /\ pending[a] \in Seq(PluginId) /\ outbox[a] \in Seq(PluginId)
    BY MailTypes DEF SystemInv
  <2>2. pending[a] \o outbox[a] \in Seq(PluginId)
    BY <2>1, ConcatProperties
  <2> QED BY <2>1, <2>2, ConcatProperties
<1>2. accepted[a] = consumed[a] \o r
  BY DEF SystemInv, MailInv
<1> HIDE DEF r
<1> QED BY <1>1, <1>2, PrefixOfConcat

\* Every message accepted in a step comes from a holder of the right to send.
AcceptedUnderRight ==
    \A a \in Actor : \A i \in (Len(accepted[a]) + 1)..Len(accepted'[a]) :
        HoldsLive(accepted'[a][i], 0, "Send")

\* cap_send looks at the source of every message, and its token stands for a
\* right that is live.
LEMMA SendIsMediated ==
    ASSUME SystemInv, NEW st \in HostCallStep, HostCallPre(st), ExecuteCapSendMut(st)
    PROVE  AcceptedUnderRight
<1> SUFFICES ASSUME NEW a \in Actor, NEW i \in (Len(accepted[a]) + 1)..Len(accepted'[a])
             PROVE  HoldsLive(accepted'[a][i], 0, "Send")
  BY DEF AcceptedUnderRight
<1> DEFINE n == SourcesFor(a, st.msgs)
           s == accepted[a]
<1>1. /\ s \in Seq(PluginId) /\ n \in Seq(PluginId)
      /\ \A k \in 1..Len(n) : k \in DOMAIN st.msgs /\ n[k] = st.msgs[k].src
  BY MailTypes, SourcesTyped DEF SystemInv
<1>2. accepted'[a] = s \o n
  BY DEF ExecuteCapSendMut
<1>3. st.hc.fn = "CapSend" /\ \A k \in DOMAIN st.msgs : st.msgs[k].src = st.hc.caller
  BY DEF ExecuteCapSendMut, CapSendPre, Sendable
<1>4. HoldsLive(st.hc.caller, 0, "Send")
  <2>1. /\ Validate(st.auth) /\ st.auth \in tokens
        /\ st.auth.action = RequiredAction(st.hc)
    BY DEF HostCallPre, Admitted
  <2>2. /\ st.auth.action.subject = st.hc.caller /\ st.auth.action.target = 0
        /\ st.auth.action.right = "Send"
    BY <1>3, <2>1 DEF RequiredAction, RequiredTarget, RequiredRight
  <2>3. TokensFaithful /\ AuthorityConfined
    BY BootConfined DEF SystemInv, KernelPart
  <2> QED BY <2>1, <2>2, <2>3, ValidTokenIsLive
<1> HIDE DEF n, s
<1>5. Len(s) \in Nat /\ Len(n) \in Nat /\ Len(s \o n) = Len(s) + Len(n)
  BY <1>1, LenProperties, ConcatProperties
<1>6. i \in (Len(s) + 1)..(Len(s) + Len(n))
  BY <1>2, <1>5 DEF s
<1>7. i - Len(s) \in 1..Len(n) /\ i \in 1..(Len(s) + Len(n)) /\ ~(i <= Len(s))
  BY <1>5, <1>6
<1>8. (s \o n)[i] = n[i - Len(s)]
  BY <1>1, <1>7, ConcatProperties
<1>9. n[i - Len(s)] = st.hc.caller
  BY <1>1, <1>3, <1>7
<1> QED BY <1>2, <1>4, <1>8, <1>9

\* For any number of plugins, actors and messages: a message is accepted only
\* under a right to send that is live and unrevoked, and the actors consume,
\* in order, what was accepted for them.
THEOREM MailIsMediated ==
    ASSUME Paths # {} PROVE SystemSpec => MailMediated
<1> DEFINE Mail ==
       \A a \in Actor :
          /\ \A i \in (Len(accepted[a]) + 1)..Len(accepted'[a]) :
                HoldsLive(accepted'[a][i], 0, "Send")
          /\ SubSeq(accepted'[a], 1, Len(consumed'[a])) = consumed'[a]
<1>1. SystemInv /\ [SystemNext]_systemVars => AcceptedUnderRight
  <2> SUFFICES ASSUME SystemInv, [SystemNext]_systemVars PROVE AcceptedUnderRight
    OBVIOUS
  <2>1. CASE accepted' = accepted
    <3>1. \A a \in Actor : Len(accepted[a]) \in Nat
      BY MailTypes, LenProperties DEF SystemInv
    <3> QED BY <2>1, <3>1 DEF AcceptedUnderRight
  <2>2. CASE SendStep
    BY <2>2, SendIsMediated DEF SendStep
  <2> QED BY <2>1, <2>2, StepSorted DEF SortedStep, mailVars, Forward
<1>2. AcceptedUnderRight /\ ConsumedIsPrefix' => Mail
  BY DEF AcceptedUnderRight, ConsumedIsPrefix
<1> HIDE DEF Mail
<1>3. SystemSpec => [][Mail]_systemVars
  BY <1>1, <1>2, MailOrdered, SystemInvariant, PTL DEF SystemSpec
<1> QED BY <1>3 DEF Mail, MailMediated


-----------------------------------------------------------------------------
(* The promises of Kernel and of Actors, kept by the system *)

\* In the whole system a token that validates, however old it is and whatever
\* either executor did since, stands for a live right whose whole chain of
\* delegations is valid (Authorized::validate).
THEOREM SystemTokensFresh ==
    ASSUME Paths # {} PROVE SystemSpec => []TokensFresh
<1>1. SystemInv => TokensFresh
  BY BootConfined, ValidTokenIsLive DEF SystemInv, KernelPart, TokensFresh
<1> QED BY <1>1, SystemInvariant, PTL

\* A free, through either executor, looks at every valid capability, and a
\* revocation only takes validity away.
LEMMA BootedNoDangling ==
    ASSUME BootTable, NoDangling, BootedStep PROVE NoDangling'
<1>0. CapTypeOK
  BY DEF BootTable
<1>1. CASE UNCHANGED <<caps, freed>>
  BY <1>1 DEF NoDangling
<1>2. ASSUME NEW c \in CapId, RevokePure(c) \/ RevokeFast(c), freed' = freed PROVE NoDangling'
  BY <1>0, <1>2, RevokeNoDangling
<1>3. ASSUME NEW a, ~AnyValidTargeting(a), freed' = freed \cup {a}, caps' = caps PROVE NoDangling'
  BY <1>3 DEF NoDangling, AnyValidTargeting
<1>4. ASSUME NEW c \in CapId, Revoke(c) PROVE NoDangling'
  BY <1>2, <1>4 DEF Revoke, memVars
<1>5. ASSUME NEW hc \in HostCall, NEW t \in tokens, HostRevoke(hc, t) PROVE NoDangling'
  <2>1. RevokePure(hc.arg) \/ RevokeFast(hc.arg)
    BY <1>5 DEF HostRevoke
  <2>2. hc.arg \in CapId /\ freed' = freed
    BY <1>0, <1>5, <2>1 DEF HostRevoke, RevokePure, RevokeFast, CapTypeOK, memVars
  <2> QED BY <1>2, <2>1, <2>2
<1>6. ASSUME NEW a \in Addr, FreeFast(a) PROVE NoDangling'
  BY <1>3, <1>6 DEF FreeFast, CanFreeFast, capVars
<1>7. ASSUME NEW a \in Addr, CanFreePure(a), freed' = freed \cup {a}, UNCHANGED capVars
      PROVE  NoDangling'
  BY <1>3, <1>7 DEF CanFreePure, capVars
<1>8. \/ UNCHANGED <<caps, freed>>
      \/ \E c \in CapId : Revoke(c)
      \/ \E a \in Addr : FreeFast(a)
      \/ \E a \in Addr :
            CanFreePure(a) /\ freed' = freed \cup {a} /\ UNCHANGED capVars
      \/ \E hc \in HostCall, t \in tokens : HostRevoke(hc, t)
  BY DEF BootedStep, kernelVars, capVars, memVars, Alloc, AllocFor, Authorize, HostAlloc,
         HostDeclassify
<1> QED BY <1>1, <1>4, <1>5, <1>6, <1>7, <1>8

\* In the whole system no valid capability targets a freed address, whichever
\* executor freed it or revoked the capabilities that did.
THEOREM SystemTemporalSafety ==
    ASSUME Paths # {} PROVE SystemSpec => []NoDangling
<1>1. SystemInit => NoDangling
  BY DEF SystemInit, NoDangling
<1>2. SystemInv /\ NoDangling /\ [SystemNext]_systemVars => NoDangling'
  <2> SUFFICES ASSUME SystemInv, NoDangling, [SystemNext]_systemVars PROVE NoDangling'
    OBVIOUS
  <2>1. BootedStep
    BY StepSorted DEF SortedStep, SendStep, ExecuteCapSendMut, Forward, BootedStep, kernelVars
  <2> QED BY <2>1, BootedNoDangling DEF SystemInv, KernelPart
<1> QED BY <1>1, <1>2, SystemInvariant, PTL DEF SystemSpec

\* In the whole system, too, mailbox and pending queue are one FIFO queue per
\* actor: steps of plugins through either executor, routing, blocking and the
\* forwarding of accepted messages neither lose nor duplicate nor reorder.
THEOREM SystemImplementsQueue ==
    ASSUME Paths # {} PROVE SystemSpec => RefinesMessageQueue
<1>1. SystemInit => Promise!MQInit
  <2> SUFFICES ASSUME SystemInit PROVE Promise!MQInit
    OBVIOUS
  <2>1. \A a \in Actor : mailbox[a] \o pending[a] = <<>>
    BY ConcatEmptySeq, EmptySeq DEF SystemInit
  <2>2. Queue = [a \in Actor |-> <<>>]
    BY <2>1 DEF Queue
  <2> QED BY <2>2 DEF Promise!MQInit, SystemInit
<1>2. SystemInv /\ [SystemNext]_systemVars => [Promise!MQNext]_(Promise!mqVars)
  <2> SUFFICES ASSUME SystemInv, [SystemNext]_systemVars
               PROVE  [Promise!MQNext]_(Promise!mqVars)
    OBVIOUS
  <2>1. [ActorsNext]_actorVars
    <3>1. ASSUME NEW a \in Actor, Forward(a) PROVE ActorsNext
      <4>1. Head(outbox[a]) \in Msg
        BY <3>1, SystemAssumption, HeadTailProperties DEF SystemInv, MailInv, Forward
      <4> QED BY <3>1, <4>1 DEF Forward, ActorsNext
    <3> QED BY <3>1, StepSorted
            DEF SortedStep, SendStep, ExecuteCapSendMut, ActorStep, ActorsNext
  <2> QED BY <2>1, RefinementStep DEF SystemInv
<1> QED BY <1>1, <1>2, SystemInvariant, PTL
        DEF SystemSpec, RefinesMessageQueue, Promise!MQSpec
=============================================================================
