---------------------------- MODULE KernelProofs ----------------------------
(***************************************************************************)
(* Theorems about Kernel: its steps are steps of Capabilities, so what is  *)
(* proved of the capability table holds of the whole kernel; no valid      *)
(* capability ever targets freed memory; no address is used twice; the     *)
(* host function mem_free never succeeds; quotas hold.                     *)
(***************************************************************************)
EXTENDS Kernel, CapabilitiesProofs, FiniteSetTheorems

\* Every kernel step is, for the capability table, a step of Capabilities or
\* no step.  A host call that revokes names a capability of the table.
LEMMA KernelStepIsCapStep ==
    CapTypeOK /\ [KernelNext]_kernelVars => [CapNext]_capVars
<1> SUFFICES ASSUME CapTypeOK, [KernelNext]_kernelVars PROVE [CapNext]_capVars
  OBVIOUS
<1>1. ASSUME NEW p \in PluginId, NEW l \in Level, Register(p, l) PROVE CapNext
  BY <1>1 DEF Register, CapNext
<1>2. ASSUME NEW id \in CapId, NEW cap \in Capability, NEW p \in PluginId,
             InsertRaw(id, cap, p)
      PROVE  CapNext
  BY <1>2 DEF InsertRaw, CapNext
<1>3. ASSUME NEW c \in CapId, NEW p \in PluginId, NEW rs \in SUBSET Right,
             Delegate(c, p, rs)
      PROVE  CapNext
  BY <1>3 DEF Delegate, CapNext
<1>4. ASSUME NEW c \in CapId, Revoke(c) PROVE CapNext
  BY <1>4 DEF Revoke, CapNext
<1>5. ASSUME NEW p \in PluginId, Alloc(p) PROVE UNCHANGED capVars
  BY <1>5 DEF Alloc
<1>6. ASSUME NEW a \in Addr, FreePure(a) \/ FreeFast(a) PROVE UNCHANGED capVars
  BY <1>6 DEF FreePure, FreeFast
<1>7. ASSUME NEW hc \in HostCall, NEW c \in CapId, Authorize(hc, c)
      PROVE  UNCHANGED capVars
  BY <1>7 DEF Authorize
<1>8. ASSUME NEW hc \in HostCall, NEW t \in tokens,
             HostCapCall(hc, t) \/ HostAlloc(hc, t) \/ HostDeclassify(hc, t)
      PROVE  UNCHANGED capVars
  BY <1>8 DEF HostCapCall, HostAlloc, HostDeclassify, kernelVars
<1>9. ASSUME NEW hc \in HostCall, NEW t \in tokens, HostRevoke(hc, t)
      PROVE  CapNext
  <2>1. RevokePure(hc.arg) \/ RevokeFast(hc.arg)
    BY <1>9 DEF HostRevoke
  <2>2. hc.arg \in CapId
    BY <2>1 DEF RevokePure, RevokeFast, CapTypeOK
  <2> QED BY <2>1, <2>2 DEF CapNext
<1>10. CASE UNCHANGED kernelVars
  BY <1>10 DEF kernelVars
<1> QED BY <1>1, <1>2, <1>3, <1>4, <1>5, <1>6, <1>7, <1>8, <1>9, <1>10 DEF KernelNext

\* The kernel implements Capabilities: resources, tokens and host calls add
\* nothing to what can happen to the capability table.
THEOREM KernelImplementsCapabilities == KernelSpec => CapSpec
<1>1. KernelInit => CapInit /\ CapTypeOK
  BY TypeInit DEF KernelInit
<1>2. CapTypeOK /\ [KernelNext]_kernelVars => CapTypeOK' /\ [CapNext]_capVars
  BY KernelStepIsCapStep, TypeStep
<1> QED BY <1>1, <1>2, PTL DEF KernelSpec, CapSpec

-----------------------------------------------------------------------------
\* Marking capabilities revoked leaves none dangling.
LEMMA RevokeNoDangling ==
    ASSUME CapTypeOK, NoDangling, NEW c \in CapId,
           RevokePure(c) \/ RevokeFast(c), freed' = freed
    PROVE  NoDangling'
<1>1. PICK R : caps' = MarkRevoked(caps, R)
  BY DEF RevokePure, RevokeFast
<1>2. /\ DOMAIN caps' = DOMAIN caps
      /\ \A k \in DOMAIN caps : /\ caps'[k].target = caps[k].target
                                /\ caps'[k].valid => caps[k].valid
  BY <1>1, MarkRevokedFacts DEF CapTypeOK
<1> QED BY <1>2 DEF NoDangling

\* Inserting a capability whose target has not been freed leaves none dangling.
LEMMA InsertNoDangling ==
    ASSUME CapTypeOK, NoDangling, NEW id \in CapId, NEW cap \in Capability,
           NEW p \in PluginId, ApplyCapDelegate(id, cap, p),
           cap.target \notin freed, freed' = freed
    PROVE  NoDangling'
  BY ApplyCapDelegateFacts DEF NoDangling

\* Every step keeps valid capabilities away from freed memory, when raw
\* insertions do not target freed memory.
LEMMA NoDanglingStep ==
    ASSUME RawInputs = "checked", CapTypeOK, NoDangling, [KernelNext]_kernelVars
    PROVE  NoDangling'
<1>1. ASSUME NEW p \in PluginId, NEW l \in Level, Register(p, l) PROVE NoDangling'
  BY <1>1 DEF Register, RegisterPlugin, memVars, NoDangling
<1>2. ASSUME NEW id \in CapId, NEW cap \in Capability, NEW p \in PluginId,
             InsertRaw(id, cap, p)
      PROVE  NoDangling'
  BY <1>2, InsertNoDangling DEF InsertRaw, InsertCapRaw, memVars
<1>3. ASSUME NEW c \in CapId, NEW p \in PluginId, NEW rs \in SUBSET Right,
             Delegate(c, p, rs)
      PROVE  NoDangling'
  <2>1. freed' = freed
    BY <1>3 DEF Delegate, memVars
  <2>2. CASE DelegateCap(c, p, rs)
    <3> DEFINE child == NewCapability(p, caps[c].target, rs \cap caps[c].rights, c)
    <3>1. c \in DOMAIN caps /\ caps[c].valid /\ ApplyCapDelegate(nextCapId, child, p)
      BY <2>2 DEF DelegateCap, CanDelegate
    <3>2. child \in Capability /\ nextCapId \in CapId
      BY <3>1, ChildTyped DEF CapTypeOK
    <3>3. child.target \notin freed
      BY <3>1 DEF NewCapability, NoDangling
    <3> HIDE DEF child
    <3> QED BY <2>1, <3>1, <3>2, <3>3, InsertNoDangling
  <2>3. CASE DelegateCapFails(c, p, rs)
    BY <2>1, <2>3 DEF DelegateCapFails, NoDangling
  <2> QED BY <1>3, <2>2, <2>3 DEF Delegate
<1>4. ASSUME NEW c \in CapId, Revoke(c) PROVE NoDangling'
  BY <1>4, RevokeNoDangling DEF Revoke, memVars
<1>5. ASSUME NEW p \in PluginId, Alloc(p) PROVE NoDangling'
  BY <1>5 DEF Alloc, AllocFor, capVars, NoDangling
<1>6. ASSUME NEW a \in Addr, FreePure(a) \/ FreeFast(a) PROVE NoDangling'
  <2>1. caps' = caps /\ freed' = freed \cup {a} /\ ~AnyValidTargeting(a)
    BY <1>6 DEF FreePure, FreeFast, CanFreePure, CanFreeFast, capVars
  <2> QED BY <2>1 DEF NoDangling, AnyValidTargeting
<1>7. ASSUME NEW hc \in HostCall, NEW c \in CapId, Authorize(hc, c) PROVE NoDangling'
  BY <1>7 DEF Authorize, capVars, memVars, NoDangling
<1>8. ASSUME NEW hc \in HostCall, NEW t \in tokens,
             HostCapCall(hc, t) \/ HostAlloc(hc, t) \/ HostDeclassify(hc, t)
      PROVE  NoDangling'
  <2>1. caps' = caps /\ freed' = freed
    BY <1>8 DEF HostCapCall, HostAlloc, HostDeclassify, AllocFor, kernelVars, capVars, memVars
  <2> QED BY <2>1 DEF NoDangling
<1>9. ASSUME NEW hc \in HostCall, NEW t \in tokens, HostRevoke(hc, t) PROVE NoDangling'
  <2>1. (RevokePure(hc.arg) \/ RevokeFast(hc.arg)) /\ freed' = freed
    BY <1>9 DEF HostRevoke, memVars
  <2>2. hc.arg \in CapId
    BY <2>1 DEF RevokePure, RevokeFast, CapTypeOK
  <2> QED BY <2>1, <2>2, RevokeNoDangling
<1>10. CASE UNCHANGED kernelVars
  BY <1>10 DEF kernelVars, capVars, memVars, NoDangling
<1> QED BY <1>1, <1>2, <1>3, <1>4, <1>5, <1>6, <1>7, <1>8, <1>9, <1>10 DEF KernelNext

\* Temporal safety for every instance: whichever free and revocation paths are
\* taken, no valid capability targets a freed address.
THEOREM TemporalSafety ==
    ASSUME RawInputs = "checked" PROVE KernelSpec => []NoDangling
<1>1. KernelInit => CapTypeOK /\ NoDangling
  <2>1. KernelInit => DOMAIN caps = {}
    BY DEF KernelInit, CapInit
  <2> QED BY <2>1, TypeInit DEF KernelInit, NoDangling
<1>2. CapTypeOK /\ NoDangling /\ [KernelNext]_kernelVars => CapTypeOK' /\ NoDangling'
  BY NoDanglingStep, KernelStepIsCapStep, TypeStep
<1> QED BY <1>1, <1>2, PTL DEF KernelSpec

-----------------------------------------------------------------------------
(* The host function mem_free *)

\* A token's copy and the table's entry differ at most in validity.
TokensFaithful ==
    \A t \in tokens :
        /\ t.id \in DOMAIN caps
        /\ caps[t.id] \in {t.cap, [t.cap EXCEPT !.valid = FALSE]}
        /\ t.cap \in Capability

\* Tokens stay faithful because the table never changes an entry but to
\* invalidate it, and new tokens are copies.
LEMMA TokensFaithfulStep ==
    ASSUME CapTypeOK, TokensFaithful, [KernelNext]_kernelVars
    PROVE  TokensFaithful'
<1>1. EntriesKept
  <2>1. CASE UNCHANGED capVars
    BY <2>1 DEF capVars, EntriesKept
  <2> QED BY <2>1, KernelStepIsCapStep, EntriesKeptStep
<1>2. ASSUME NEW t \in tokens
      PROVE  /\ t.id \in DOMAIN caps'
             /\ caps'[t.id] \in {t.cap, [t.cap EXCEPT !.valid = FALSE]}
             /\ t.cap \in Capability
  BY <1>1 DEF EntriesKept, TokensFaithful, Capability
<1>3. CASE tokens' = tokens
  BY <1>2, <1>3 DEF TokensFaithful
<1>4. ASSUME NEW hc \in HostCall, NEW c \in CapId, Authorize(hc, c)
      PROVE  TokensFaithful'
  <2> DEFINE n == [id |-> c, cap |-> caps[c], action |-> RequiredAction(hc)]
  <2>1. c \in DOMAIN caps /\ tokens' = tokens \cup {n} /\ caps' = caps
    BY <1>4 DEF Authorize, Authorized, capVars
  <2>2. n.id \in DOMAIN caps' /\ caps'[n.id] = n.cap /\ n.cap \in Capability
    BY <2>1 DEF CapTypeOK
  <2> HIDE DEF n
  <2> QED BY <1>2, <2>1, <2>2 DEF TokensFaithful
<1>5. tokens' = tokens \/ \E hc \in HostCall, c \in CapId : Authorize(hc, c)
  BY DEF KernelNext, kernelVars, Register, InsertRaw, Delegate, Revoke, Alloc,
         FreePure, FreeFast, HostCapCall, HostAlloc, HostRevoke, HostDeclassify
<1> QED BY <1>3, <1>4, <1>5

\* Tokens are faithful copies in every reachable state.
LEMMA TokensStayFaithful == KernelSpec => []TokensFaithful
<1>1. KernelInit => CapTypeOK /\ TokensFaithful
  BY TypeInit DEF KernelInit, TokensFaithful
<1>2. CapTypeOK /\ TokensFaithful /\ [KernelNext]_kernelVars
        => CapTypeOK' /\ TokensFaithful'
  BY TokensFaithfulStep, KernelStepIsCapStep, TypeStep
<1> QED BY <1>1, <1>2, PTL DEF KernelSpec

\* What authorizes a mem_free forbids it: the token's capability is valid and
\* targets the address.
LEMMA FaithfulTokensRefuse == TokensFaithful => HostFreeRefused
<1> SUFFICES ASSUME TokensFaithful,
                    NEW hc \in HostCall, NEW t \in tokens, HostFreeReached(hc, t)
             PROVE  FALSE
  BY DEF HostFreeRefused
<1>1. hc.fn = "MemFree" /\ t.action = RequiredAction(hc) /\ ~AnyValidTargeting(hc.arg)
  BY DEF HostFreeReached, Admitted
<1>2. CheckCapability(t.id, t.cap, t.action) /\ CheckValidity(t.id, t.cap)
  BY DEF HostFreeReached, Admitted, Validate
<1>3. t.action.target = hc.arg
  BY <1>1 DEF RequiredAction, RequiredTarget
<1>4. t.id \in DOMAIN caps /\ caps[t.id].valid /\ t.cap.target = hc.arg
  BY <1>2, <1>3 DEF CheckCapability, CheckValidity
<1>5. caps[t.id].target = t.cap.target
  BY DEF TokensFaithful, Capability
<1> QED BY <1>1, <1>4, <1>5 DEF AnyValidTargeting

\* For every instance, policy and age of tokens, the host function mem_free is
\* refused: what authorizes it forbids it.
THEOREM HostFreeNeverSucceeds == KernelSpec => []HostFreeRefused
BY FaithfulTokensRefuse, TokensStayFaithful, PTL

-----------------------------------------------------------------------------
(* Complete mediation *)

\* A token that validates stands for a live right with a valid chain, given
\* that tokens are faithful copies and that authority is confined.
LEMMA ValidTokenIsLive ==
    ASSUME TokensFaithful, AuthorityConfined, NEW t \in tokens, Validate(t)
    PROVE  /\ HoldsLive(t.action.subject, t.action.target, t.action.right)
           /\ CapCallOk(t.action.subject)
<1>1. CheckCapability(t.id, t.cap, t.action) /\ CheckValidity(t.id, t.cap)
      /\ IsLive(t.action.target)
  BY DEF Validate
<1>2. t.id \in DOMAIN caps /\ caps[t.id].valid /\ t.id \in held[t.action.subject]
  BY <1>1 DEF CheckCapability, CheckValidity
<1>3. /\ caps[t.id].holder = t.action.subject
      /\ caps[t.id].target = t.action.target
      /\ t.action.right \in caps[t.id].rights
  <2>1. /\ caps[t.id].holder = t.cap.holder /\ caps[t.id].target = t.cap.target
        /\ caps[t.id].rights = t.cap.rights
    BY DEF TokensFaithful, Capability
  <2> QED BY <1>1, <2>1 DEF CheckCapability
<1>4. \A b \in AncestorsOrSelf(t.id) : caps[b].valid
  BY <1>2 DEF AncestorsOrSelf, AuthorityConfined
<1>5. HoldsLive(t.action.subject, t.action.target, t.action.right)
  BY <1>1, <1>2, <1>3, <1>4 DEF HoldsLive
<1>6. CapCallOk(t.action.subject)
  BY <1>2 DEF CapCallOk
<1> QED BY <1>5, <1>6

\* Complete mediation for every instance: however long ago a token was built
\* and whatever was revoked or freed since, it validates only for a right that
\* is live now, with every ancestor of its capability valid.
THEOREM CompleteMediation ==
    ASSUME Disciplined PROVE KernelSpec => []TokensFresh
<1>1. TokensFaithful /\ AuthorityConfined => TokensFresh
  BY ValidTokenIsLive DEF TokensFresh
<1>2. CapSpec => []AuthorityConfined
  BY Confinement
<1> QED BY <1>1, <1>2, KernelImplementsCapabilities, TokensStayFaithful, PTL

\* A step changes a registered plugin's level or memory account only under a
\* right that is live and unrevoked along the whole chain.
MediatedStep ==
    \A p \in plugins :
        /\ level'[p] # level[p] => HoldsLive(p, 0, "Declassify")
        /\ memUsed'[p] # memUsed[p] => HoldsLive(p, 0, "Create")

\* Every step of the kernel is mediated, given faithful tokens and confinement.
LEMMA KernelStepMediated ==
    ASSUME TokensFaithful, AuthorityConfined, [KernelNext]_kernelVars
    PROVE  [MediatedStep]_kernelVars
<1>1. CASE UNCHANGED <<level, memUsed>>
  BY <1>1 DEF MediatedStep
<1>2. ASSUME NEW p \in PluginId, NEW l \in Level, Register(p, l) PROVE MediatedStep
  <2>1. /\ p \notin plugins /\ level' = [level EXCEPT ![p] = l]
        /\ memUsed' = [memUsed EXCEPT ![p] = 0]
    BY <1>2 DEF Register, RegisterPlugin
  <2> QED BY <2>1 DEF MediatedStep
<1>3. ASSUME NEW hc \in HostCall, NEW t \in tokens, HostAlloc(hc, t) PROVE MediatedStep
  <2>1. Validate(t) /\ t.action = RequiredAction(hc) /\ hc.fn = "KernelAlloc"
    BY <1>3 DEF HostAlloc, Admitted
  <2>2. t.action.subject = hc.caller /\ t.action.target = 0 /\ t.action.right = "Create"
    BY <2>1 DEF RequiredAction, RequiredTarget, RequiredRight
  <2>3. HoldsLive(hc.caller, 0, "Create")
    BY <2>1, <2>2, ValidTokenIsLive
  <2>4. level' = level /\ \A p \in plugins : p # hc.caller => memUsed'[p] = memUsed[p]
    BY <1>3 DEF HostAlloc
  <2> QED BY <2>3, <2>4 DEF MediatedStep
<1>4. ASSUME NEW hc \in HostCall, NEW t \in tokens, HostDeclassify(hc, t) PROVE MediatedStep
  <2>1. Validate(t) /\ t.action = RequiredAction(hc) /\ hc.fn = "Declassify"
    BY <1>4 DEF HostDeclassify, Admitted
  <2>2. t.action.subject = hc.caller /\ t.action.target = 0 /\ t.action.right = "Declassify"
    BY <2>1 DEF RequiredAction, RequiredTarget, RequiredRight
  <2>3. HoldsLive(hc.caller, 0, "Declassify")
    BY <2>1, <2>2, ValidTokenIsLive
  <2>4. memUsed' = memUsed /\ \A p \in plugins : p # hc.caller => level'[p] = level[p]
    BY <1>4 DEF HostDeclassify
  <2> QED BY <2>3, <2>4 DEF MediatedStep
<1>5. \/ UNCHANGED <<level, memUsed>>
      \/ \E p \in PluginId, l \in Level : Register(p, l)
      \/ \E hc \in HostCall, t \in tokens : HostAlloc(hc, t) \/ HostDeclassify(hc, t)
  BY DEF KernelNext, kernelVars, pluginVars, InsertRaw, Delegate, Revoke,
         Alloc, FreePure, FreeFast, Authorize, HostCapCall, HostRevoke
<1> QED BY <1>1, <1>2, <1>3, <1>4, <1>5

\* For every instance a registered plugin's level and memory account change
\* only under a right that is live and unrevoked along the whole chain.
THEOREM EffectsAreMediated ==
    ASSUME Disciplined PROVE KernelSpec => EffectsMediated
<1>1. TokensFaithful /\ AuthorityConfined /\ [KernelNext]_kernelVars
        => [MediatedStep]_kernelVars
  BY KernelStepMediated
<1>2. CapSpec => []AuthorityConfined
  BY Confinement
<1> QED BY <1>1, <1>2, KernelImplementsCapabilities, TokensStayFaithful, PTL
        DEF KernelSpec, EffectsMediated, MediatedStep

-----------------------------------------------------------------------------
(* Addresses *)

\* The addresses handed out so far are an initial segment of the numbers.
Contiguous == \E n \in Nat : DOMAIN resources = 0..(n-1)

\* The next address, the number of entries, is then a new one.
LEMMA AllocAddrIsNew ==
    ASSUME NEW n \in Nat, DOMAIN resources = 0..(n-1)
    PROVE  AllocAddr = n /\ AllocAddr \notin DOMAIN resources
<1>1. Cardinality(0..(n-1)) = IF 0 > n-1 THEN 0 ELSE (n-1)-0+1
  BY FS_Interval
<1>2. AllocAddr = n
  BY <1>1 DEF AllocAddr
<1> QED BY <1>2

\* What a step does to the resource history.
HistoryKept ==
    /\ \A a \in DOMAIN resources :
          a \in DOMAIN resources' /\ resources'[a] \in {resources[a], Freed}
    /\ \A a \in freed : a \in freed'

\* An allocation adds one new address and changes no other.
LEMMA AllocForFacts ==
    ASSUME Contiguous, NEW p \in PluginId, AllocFor(p)
    PROVE  Contiguous' /\ HistoryKept
<1>1. PICK n \in Nat : DOMAIN resources = 0..(n-1)
  BY DEF Contiguous
<1>2. AllocAddr = n /\ AllocAddr \notin DOMAIN resources
  BY <1>1, AllocAddrIsNew
<1>3. /\ resources' = [a \in DOMAIN resources \cup {n} |->
                          IF a = n THEN p ELSE resources[a]]
      /\ freed' = freed
  BY <1>2 DEF AllocFor
<1>4. DOMAIN resources' = 0..((n+1)-1)
  BY <1>1, <1>3
<1>5. Contiguous'
  <2>1. n + 1 \in Nat
    OBVIOUS
  <2> QED BY <1>4, <2>1 DEF Contiguous
<1>6. HistoryKept
  BY <1>2, <1>3 DEF HistoryKept
<1> QED BY <1>5, <1>6

\* Every step keeps the addresses contiguous and the history intact.
LEMMA ResourceStep ==
    ASSUME Contiguous, [KernelNext]_kernelVars
    PROVE  Contiguous' /\ HistoryKept
<1>1. CASE UNCHANGED memVars
  BY <1>1 DEF memVars, Contiguous, HistoryKept
<1>2. ASSUME NEW p \in PluginId, Alloc(p) PROVE Contiguous' /\ HistoryKept
  BY <1>2, AllocForFacts DEF Alloc
<1>3. ASSUME NEW a \in Addr, FreePure(a) PROVE Contiguous' /\ HistoryKept
  BY <1>3 DEF FreePure, Contiguous, HistoryKept
<1>4. ASSUME NEW a \in Addr, FreeFast(a) PROVE Contiguous' /\ HistoryKept
  <2>1. /\ resources' = [resources EXCEPT ![a] = Freed]
        /\ freed' = freed \cup {a}
    BY <1>4 DEF FreeFast
  <2>2. DOMAIN resources' = DOMAIN resources
    BY <2>1
  <2> QED BY <2>1, <2>2 DEF Contiguous, HistoryKept
<1>5. ASSUME NEW hc \in HostCall, NEW t \in tokens, HostAlloc(hc, t)
      PROVE  Contiguous' /\ HistoryKept
  <2>1. hc.caller \in PluginId /\ AllocFor(hc.caller)
    BY <1>5 DEF HostAlloc, HostCall
  <2> QED BY <2>1, AllocForFacts
<1>6. \/ UNCHANGED memVars
      \/ \E p \in PluginId : Alloc(p)
      \/ \E a \in Addr : FreePure(a) \/ FreeFast(a)
      \/ \E hc \in HostCall, t \in tokens : HostAlloc(hc, t)
  BY DEF KernelNext, kernelVars, Register, InsertRaw, Delegate, Revoke,
         Authorize, HostCapCall, HostRevoke, HostDeclassify
<1> QED BY <1>1, <1>2, <1>3, <1>4, <1>5, <1>6

\* For every instance an address is handed out once, keeps its owner until it
\* is freed, and is never live again afterwards.
THEOREM AddressesAreNeverReused == KernelSpec => ResourceLifecycle
<1>1. KernelInit => Contiguous
  <2>1. KernelInit => DOMAIN resources = 0..(0-1)
    BY DEF KernelInit
  <2> QED BY <2>1 DEF Contiguous
<1>2. Contiguous /\ [KernelNext]_kernelVars => Contiguous' /\ HistoryKept
  BY ResourceStep
<1> DEFINE Life ==
       /\ \A a \in DOMAIN resources :
             a \in DOMAIN resources' /\ resources'[a] \in {resources[a], Freed}
       /\ \A a \in freed : a \in freed' /\ ~IsLive(a)'
<1>3. HistoryKept => Life
  BY DEF HistoryKept, IsLive
<1>4. Contiguous /\ [KernelNext]_kernelVars => [Life]_kernelVars
  BY <1>2, <1>3
<1> QED BY <1>1, <1>2, <1>4, PTL DEF KernelSpec, ResourceLifecycle

\* The in-place free only frees what is in use, so while it is the only one in
\* use a freed address is one that was handed out.
FreedWereHandedOut == Contiguous /\ freed \subseteq DOMAIN resources

\* Without the pure path every step keeps that, and an address that is handed
\* out is live.
LEMMA AllocStep ==
    ASSUME "pure" \notin Paths, FreedWereHandedOut, [KernelNext]_kernelVars
    PROVE  /\ FreedWereHandedOut'
           /\ \A a \in DOMAIN resources' \ DOMAIN resources : IsLive(a)'
<1> DEFINE Goal == /\ freed' \subseteq DOMAIN resources'
                   /\ \A a \in DOMAIN resources' \ DOMAIN resources : IsLive(a)'
<1>0. Contiguous /\ Contiguous' /\ freed \subseteq DOMAIN resources
  BY ResourceStep DEF FreedWereHandedOut
<1>1. ASSUME UNCHANGED memVars PROVE Goal
  BY <1>0, <1>1 DEF memVars
<1>2. ASSUME NEW p \in PluginId, AllocFor(p) PROVE Goal
  <2>1. PICK n \in Nat : DOMAIN resources = 0..(n-1)
    BY <1>0 DEF Contiguous
  <2>2. AllocAddr \notin DOMAIN resources
    BY <2>1, AllocAddrIsNew
  <2>3. /\ resources' = [a \in DOMAIN resources \cup {AllocAddr} |->
                            IF a = AllocAddr THEN p ELSE resources[a]]
        /\ freed' = freed
    BY <1>2 DEF AllocFor
  <2>4. p # Freed
    BY KernelAssumption
  <2> QED BY <1>0, <2>2, <2>3, <2>4 DEF IsLive
<1>3. ASSUME NEW a \in Addr, FreeFast(a) PROVE Goal
  BY <1>0, <1>3 DEF FreeFast, CanFreeFast
<1>4. ASSUME NEW hc \in HostCall, NEW t \in tokens, HostAlloc(hc, t) PROVE Goal
  <2>1. hc.caller \in PluginId /\ AllocFor(hc.caller)
    BY <1>4 DEF HostAlloc, HostCall
  <2> QED BY <1>2, <2>1
<1>5. \/ UNCHANGED memVars
      \/ \E p \in PluginId : AllocFor(p)
      \/ \E a \in Addr : FreeFast(a)
      \/ \E hc \in HostCall, t \in tokens : HostAlloc(hc, t)
  BY DEF KernelNext, kernelVars, Register, InsertRaw, Delegate, Revoke, Alloc,
         FreePure, Authorize, HostCapCall, HostRevoke, HostDeclassify
<1> HIDE DEF Goal
<1>6. Goal
  BY <1>1, <1>2, <1>3, <1>4, <1>5 DEF Goal
<1> QED BY <1>0, <1>6 DEF Goal, FreedWereHandedOut

\* While frees go through the in-place path, for any number of addresses an
\* address that is handed out is live.  The pure path, which may free an
\* address that was never handed out, makes it false.
THEOREM AllocatedIsLive ==
    ASSUME "pure" \notin Paths PROVE KernelSpec => AllocIsLive
<1>1. KernelInit => FreedWereHandedOut
  <2>1. KernelInit => DOMAIN resources = 0..(0-1) /\ freed = {}
    BY DEF KernelInit
  <2> QED BY <2>1 DEF FreedWereHandedOut, Contiguous
<1> DEFINE NewLive == \A a \in DOMAIN resources' \ DOMAIN resources : IsLive(a)'
<1>2. FreedWereHandedOut /\ [KernelNext]_kernelVars => FreedWereHandedOut' /\ [NewLive]_kernelVars
  BY AllocStep
<1> QED BY <1>1, <1>2, PTL DEF KernelSpec, AllocIsLive

-----------------------------------------------------------------------------
(* Quotas *)

\* The memory account is what has been granted, it is within the quota, and a
\* plugin that is not registered has been granted nothing.
QuotaInv ==
    /\ memUsed \in [PluginId -> Nat]
    /\ granted = memUsed
    /\ \A p \in PluginId : memUsed[p] <= Quota
    /\ \A p \in PluginId \ plugins : memUsed[p] = 0

\* Every step keeps the account exact and within the quota.
LEMMA QuotaStep ==
    ASSUME QuotaInv, [KernelNext]_kernelVars PROVE QuotaInv'
<1>1. CASE UNCHANGED <<memUsed, granted, plugins>>
  BY <1>1 DEF QuotaInv
<1>2. ASSUME NEW p \in PluginId, NEW l \in Level, Register(p, l) PROVE QuotaInv'
  <2>1. /\ p \notin plugins /\ plugins' = plugins \cup {p}
        /\ memUsed' = [memUsed EXCEPT ![p] = 0] /\ granted' = granted
    BY <1>2 DEF Register, RegisterPlugin
  <2>2. memUsed' = memUsed
    BY <2>1 DEF QuotaInv
  <2> QED BY <2>1, <2>2 DEF QuotaInv
<1>3. ASSUME NEW hc \in HostCall, NEW t \in tokens, HostAlloc(hc, t)
      PROVE  QuotaInv'
  <2> DEFINE p == hc.caller
             n == hc.arg
  <2>1. p \in PluginId /\ p \in plugins /\ n \in Nat
    BY <1>3, KernelAssumption DEF HostAlloc, Admitted, HostCall
  <2>2. memUsed[p] \in Nat /\ memUsed[p] + n <= MaxWord /\ memUsed[p] + n <= Quota
    BY <1>3, <2>1 DEF HostAlloc, CanAllocMemory, QuotaInv
  <2>3. memUsed' = [memUsed EXCEPT ![p] =
                       IF @ + n > MaxWord THEN MaxWord ELSE @ + n]
        /\ granted' = [granted EXCEPT ![p] = @ + n] /\ plugins' = plugins
    BY <1>3 DEF HostAlloc, capVars
  <2> HIDE DEF p, n
  <2>4. memUsed' = [memUsed EXCEPT ![p] = memUsed[p] + n]
    <3>1. ~(memUsed[p] + n > MaxWord)
      BY <2>1, <2>2, KernelAssumption
    <3> QED BY <2>3, <3>1
  <2>5. granted' = memUsed'
    BY <2>3, <2>4 DEF QuotaInv
  <2>6. ASSUME NEW q \in PluginId
        PROVE  /\ memUsed'[q] \in Nat /\ memUsed'[q] <= Quota
               /\ q \notin plugins => memUsed'[q] = 0
    <3>1. memUsed[q] \in Nat /\ memUsed[q] <= Quota /\ (q \notin plugins => memUsed[q] = 0)
      BY DEF QuotaInv
    <3>2. memUsed'[q] = IF q = p THEN memUsed[p] + n ELSE memUsed[q]
      BY <2>1, <2>4 DEF QuotaInv
    <3> QED BY <3>1, <3>2, <2>1, <2>2
  <2>7. memUsed' \in [PluginId -> Nat]
    BY <2>1, <2>2, <2>4 DEF QuotaInv
  <2> QED BY <2>3, <2>5, <2>6, <2>7 DEF QuotaInv
<1>4. \/ UNCHANGED <<memUsed, granted, plugins>>
      \/ \E p \in PluginId, l \in Level : Register(p, l)
      \/ \E hc \in HostCall, t \in tokens : HostAlloc(hc, t)
  BY DEF KernelNext, kernelVars, pluginVars, capVars, InsertRaw, InsertCapRaw,
         Delegate, DelegateCap, DelegateCapFails, Revoke, RevokePure, RevokeFast,
         Alloc, FreePure, FreeFast, Authorize, HostCapCall, HostRevoke, HostDeclassify
<1> QED BY <1>1, <1>2, <1>3, <1>4

\* For every quota, word size and sequence of requests kernel_alloc grants a
\* plugin no more than its quota in total.
THEOREM QuotasHold == KernelSpec => []QuotaSound
<1>1. KernelInit => QuotaInv
  BY KernelAssumption DEF KernelInit, CapInit, QuotaInv
<1>2. QuotaInv /\ [KernelNext]_kernelVars => QuotaInv'
  BY QuotaStep
<1>3. QuotaInv => QuotaSound
  BY DEF QuotaInv, QuotaSound
<1> QED BY <1>1, <1>2, <1>3, PTL DEF KernelSpec

-----------------------------------------------------------------------------
(* Types *)

\* What the memory accounts and the addresses need besides their own types.
KernelTypeInv == KernelTypeOK /\ Contiguous /\ QuotaInv

\* An allocation is typed: the address it hands out is below the bound.
LEMMA AllocForTyped ==
    ASSUME KernelTypeInv, NEW p \in PluginId, AllocFor(p)
    PROVE  /\ DOMAIN resources' \subseteq Addr
           /\ resources' \in [DOMAIN resources' -> PluginId \cup {Freed}]
           /\ freed' \subseteq Addr
<1>1. PICK n \in Nat : DOMAIN resources = 0..(n-1)
  BY DEF KernelTypeInv, Contiguous
<1>2. AllocAddr = n
  BY <1>1, AllocAddrIsNew
<1>3. n \in Addr
  BY <1>2, KernelAssumption DEF AllocFor, Addr
<1> QED BY <1>2, <1>3 DEF AllocFor, KernelTypeInv, KernelTypeOK

\* Every step keeps the types of the resource history.
LEMMA ResourceTypeStep ==
    ASSUME KernelTypeInv, [KernelNext]_kernelVars
    PROVE  /\ DOMAIN resources' \subseteq Addr
           /\ resources' \in [DOMAIN resources' -> PluginId \cup {Freed}]
           /\ freed' \subseteq Addr
<1> DEFINE Goal == /\ DOMAIN resources' \subseteq Addr
                   /\ resources' \in [DOMAIN resources' -> PluginId \cup {Freed}]
                   /\ freed' \subseteq Addr
<1>0. /\ DOMAIN resources \subseteq Addr
      /\ resources \in [DOMAIN resources -> PluginId \cup {Freed}]
      /\ freed \subseteq Addr
  BY DEF KernelTypeInv, KernelTypeOK
<1>1. CASE UNCHANGED memVars
  BY <1>0, <1>1 DEF memVars
<1>2. ASSUME NEW p \in PluginId, Alloc(p) PROVE Goal
  BY <1>2, AllocForTyped DEF Alloc
<1>3. ASSUME NEW a \in Addr, FreePure(a) PROVE Goal
  BY <1>0, <1>3 DEF FreePure
<1>4. ASSUME NEW a \in Addr, FreeFast(a) PROVE Goal
  BY <1>0, <1>4 DEF FreeFast
<1>5. ASSUME NEW hc \in HostCall, NEW t \in tokens, HostAlloc(hc, t) PROVE Goal
  <2>1. hc.caller \in PluginId /\ AllocFor(hc.caller)
    BY <1>5 DEF HostAlloc, HostCall
  <2> QED BY <2>1, AllocForTyped
<1>6. \/ UNCHANGED memVars
      \/ \E p \in PluginId : Alloc(p)
      \/ \E a \in Addr : FreePure(a) \/ FreeFast(a)
      \/ \E hc \in HostCall, t \in tokens : HostAlloc(hc, t)
  BY DEF KernelNext, kernelVars, Register, InsertRaw, Delegate, Revoke,
         Authorize, HostCapCall, HostRevoke, HostDeclassify
<1> HIDE DEF Goal
<1>7. Goal
  BY <1>1, <1>2, <1>3, <1>4, <1>5, <1>6 DEF Goal
<1> QED BY <1>7 DEF Goal

\* Levels stay levels, and accounts stay below the largest word because they
\* only grow through checked_add.
LEMMA PluginTypeStep ==
    ASSUME KernelTypeInv, [KernelNext]_kernelVars
    PROVE  level' \in [PluginId -> 0..3] /\ memUsed' \in [PluginId -> 0..MaxWord]
<1> DEFINE Goal == level' \in [PluginId -> 0..3] /\ memUsed' \in [PluginId -> 0..MaxWord]
<1>0. level \in [PluginId -> 0..3] /\ memUsed \in [PluginId -> 0..MaxWord] /\ MaxWord \in Nat
  BY KernelAssumption DEF KernelTypeInv, KernelTypeOK
<1>1. CASE UNCHANGED <<level, memUsed>>
  BY <1>0, <1>1
<1>2. ASSUME NEW p \in PluginId, NEW l \in Level, Register(p, l) PROVE Goal
  <2>1. l \in 0..3 /\ 0 \in 0..MaxWord
    BY <1>0, KernelAssumption
  <2> QED BY <1>0, <1>2, <2>1 DEF Register
<1>3. ASSUME NEW hc \in HostCall, NEW t \in tokens, HostAlloc(hc, t) PROVE Goal
  <2>1. hc.caller \in PluginId /\ hc.arg \in Nat
    BY KernelAssumption DEF HostCall
  <2>2. memUsed[hc.caller] \in Nat
    BY <1>0, <2>1
  <2>3. (IF memUsed[hc.caller] + hc.arg > MaxWord THEN MaxWord
         ELSE memUsed[hc.caller] + hc.arg) \in 0..MaxWord
    BY <1>0, <2>1, <2>2
  <2> QED BY <1>0, <1>3, <2>3 DEF HostAlloc
<1>4. ASSUME NEW hc \in HostCall, NEW t \in tokens, HostDeclassify(hc, t) PROVE Goal
  BY <1>0, <1>4 DEF HostDeclassify
<1>5. \/ UNCHANGED <<level, memUsed>>
      \/ \E p \in PluginId, l \in Level : Register(p, l)
      \/ \E hc \in HostCall, t \in tokens : HostAlloc(hc, t) \/ HostDeclassify(hc, t)
  BY DEF KernelNext, kernelVars, pluginVars, InsertRaw, Delegate, Revoke, Alloc,
         FreePure, FreeFast, Authorize, HostCapCall, HostRevoke
<1> HIDE DEF Goal
<1>6. Goal
  BY <1>1, <1>2, <1>3, <1>4, <1>5 DEF Goal
<1> QED BY <1>6 DEF Goal

\* A token is typed: it copies a typed entry of the table, and the host call it
\* stands for is one that has a required action.
LEMMA TokenTyped ==
    ASSUME CapTypeOK, NEW hc \in HostCall, NEW c \in DOMAIN caps, ~IsThreadOperation(hc.fn)
    PROVE  Authorized(hc, c) \in Token
<1>1. c \in CapId /\ caps[c] \in Capability
  BY DEF CapTypeOK
<1>2. hc.caller \in PluginId /\ hc.fn \in HostFn /\ hc.arg \in Nat
  BY KernelAssumption DEF HostCall
<1>3. RequiredTarget(hc) \in Nat
  BY <1>2 DEF RequiredTarget
<1>4. RequiredRight(hc) \in {"Read", "Send", "Create", "Delete", "Revoke", "Declassify"}
  <2>1. hc.fn \in {"CapCall", "CapSend", "KernelAlloc", "CapRevoke", "Declassify", "MemFree"}
    BY <1>2, KernelAssumption DEF IsThreadOperation
  <2> QED BY <2>1 DEF RequiredRight
<1>5. RequiredAction(hc) \in Action
  BY <1>2, <1>3, <1>4 DEF RequiredAction, Action
<1> HIDE DEF Capability, Action
<1> QED BY <1>1, <1>5 DEF Authorized, Token

\* Only host_call_atomic makes tokens.
LEMMA TokenTypeStep ==
    ASSUME KernelTypeInv, [KernelNext]_kernelVars PROVE tokens' \subseteq Token
<1>0. CapTypeOK /\ tokens \subseteq Token
  BY DEF KernelTypeInv, KernelTypeOK
<1>1. CASE UNCHANGED tokens
  BY <1>0, <1>1
<1>2. ASSUME NEW hc \in HostCall, NEW c \in CapId, Authorize(hc, c)
      PROVE  tokens' \subseteq Token
  <2>1. Authorized(hc, c) \in Token
    BY <1>0, <1>2, TokenTyped DEF Authorize
  <2> QED BY <1>0, <1>2, <2>1 DEF Authorize
<1>3. \/ UNCHANGED tokens
      \/ \E hc \in HostCall, c \in CapId : Authorize(hc, c)
  BY DEF KernelNext, kernelVars, Register, InsertRaw, Delegate, Revoke, Alloc,
         FreePure, FreeFast, HostCapCall, HostAlloc, HostRevoke, HostDeclassify
<1> QED BY <1>1, <1>2, <1>3

\* Every step keeps the types.
LEMMA KernelTypeStep == KernelTypeInv /\ [KernelNext]_kernelVars => KernelTypeInv'
<1> SUFFICES ASSUME KernelTypeInv, [KernelNext]_kernelVars PROVE KernelTypeInv'
  OBVIOUS
<1>1. CapTypeOK'
  BY KernelStepIsCapStep, TypeStep DEF KernelTypeInv, KernelTypeOK
<1>2. Contiguous' /\ QuotaInv'
  BY ResourceStep, QuotaStep DEF KernelTypeInv
<1>3. granted' \in [PluginId -> 0..MaxWord]
  BY <1>2, PluginTypeStep DEF QuotaInv
<1> QED BY <1>1, <1>2, <1>3, ResourceTypeStep, PluginTypeStep, TokenTypeStep
        DEF KernelTypeInv, KernelTypeOK

\* The kernel starts well typed.
LEMMA KernelTypeInit == KernelInit => KernelTypeInv
<1> SUFFICES ASSUME KernelInit PROVE KernelTypeInv
  OBVIOUS
<1>1. CapTypeOK
  BY TypeInit DEF KernelInit
<1>2. DOMAIN resources = 0..(0-1) /\ freed = {}
  BY DEF KernelInit
<1>3. Contiguous
  BY <1>2 DEF Contiguous
<1>4. QuotaInv
  BY KernelAssumption DEF KernelInit, CapInit, QuotaInv
<1>5. KernelTypeOK
  BY <1>1, KernelAssumption DEF KernelInit, KernelTypeOK
<1> QED BY <1>3, <1>4, <1>5 DEF KernelTypeInv

\* For every instance the whole kernel state keeps its types: the capability
\* table, the resource history, the levels and accounts, and the outstanding
\* tokens.  In particular no address leaves the address space, no level is
\* raised past Secret, and no token stands for a thread operation.
THEOREM KernelTypeCorrect == KernelSpec => []KernelTypeOK
<1>1. KernelTypeInv => KernelTypeOK
  BY DEF KernelTypeInv
<1> QED BY <1>1, KernelTypeInit, KernelTypeStep, PTL DEF KernelSpec
=============================================================================
