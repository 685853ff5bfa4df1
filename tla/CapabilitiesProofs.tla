------------------------- MODULE CapabilitiesProofs -------------------------
(***************************************************************************)
(* Proofs about the capability table for every set of plugins, resources   *)
(* and rights and every size of the id space.                              *)
(***************************************************************************)
EXTENDS Capabilities, WellFoundedInduction, TLAPS

(* The part of AuthorityConfined that speaks of one parent link only; the   *)
(* inductive invariant needs it because a step sees one link at a time.     *)
LinkConfined ==
    \A c \in DOMAIN caps : caps[c].parent # None =>
        /\ caps[c].parent \in DOMAIN caps
        /\ caps[c].target = caps[caps[c].parent].target
        /\ caps[c].rights \subseteq caps[caps[c].parent].rights
        /\ caps[c].valid => caps[caps[c].parent].valid

(* No id of the table is ahead of the counter. *)
IdsBehind == \A c \in DOMAIN caps : c <= nextCapId

-----------------------------------------------------------------------------
(* What breadth-first collection returns *)

\* The collected set contains the root and every child of a member.
LEMMA DescendantsClosed ==
    ASSUME NEW ch \in [CapId -> SUBSET CapId], NEW root \in CapId
    PROVE  /\ CollectDescendants(ch, root) \subseteq CapId
           /\ root \in CollectDescendants(ch, root)
           /\ \A p \in CollectDescendants(ch, root) :
                 ch[p] \subseteq CollectDescendants(ch, root)
  BY DEF CollectDescendants

\* It is contained in every set that contains the root and is closed.
LEMMA DescendantsLeast ==
    ASSUME NEW ch, NEW root, NEW S \in SUBSET CapId,
           root \in S, \A p \in S : ch[p] \subseteq S
    PROVE  CollectDescendants(ch, root) \subseteq S
  BY DEF CollectDescendants

\* If the parent of k is revoked by the fuelled walk, so is k, provided the
\* parent has the smaller id: the walk from k is one link longer and starts
\* with more fuel.
LEMMA RevokeSetClosed ==
    ASSUME NEW t, DOMAIN t \subseteq CapId, NEW k \in DOMAIN t, NEW a,
           t[k].parent \in DOMAIN t, t[k].parent < k,
           InRevokeSet(t, t[k].parent, a)
    PROVE  InRevokeSet(t, k, a)
<1> DEFINE p == t[k].parent
<1>0. k \in Nat /\ p \in Nat /\ p < k
  BY MaxCapIdAssumption DEF CapId
<1>1. CASE p = a
  <2> DEFINE s == [i \in 1..1 |-> k]
  <2>1. s \in [1..1 -> DOMAIN t] /\ s[1] = k /\ 1 \in 1..k
    BY <1>0
  <2>2. \A i \in 1..(1-1) : t[s[i]].parent = s[i+1]
    OBVIOUS
  <2>3. HasAncestor(t, k, a)
    BY <1>1, <2>1, <2>2 DEF HasAncestor
  <2> QED BY <2>3 DEF InRevokeSet
<1>2. CASE HasAncestor(t, p, a)
  <2>1. PICK n \in 1..p : \E s \in [1..n -> DOMAIN t] :
           /\ s[1] = p
           /\ \A i \in 1..(n-1) : t[s[i]].parent = s[i+1]
           /\ t[s[n]].parent = a
    BY <1>2 DEF HasAncestor
  <2>2. PICK s \in [1..n -> DOMAIN t] :
           /\ s[1] = p
           /\ \A i \in 1..(n-1) : t[s[i]].parent = s[i+1]
           /\ t[s[n]].parent = a
    BY <2>1
  <2> DEFINE u == [i \in 1..(n+1) |-> IF i = 1 THEN k ELSE s[i-1]]
  <2>3. n + 1 \in 1..k /\ n \in Nat /\ n >= 1
    BY <1>0
  <2>4. u \in [1..(n+1) -> DOMAIN t] /\ u[1] = k
    BY <2>3
  <2>5. ASSUME NEW i \in 1..((n+1)-1)
        PROVE  t[u[i]].parent = u[i+1]
    <3>1. CASE i = 1
      BY <3>1, <2>2, <2>3
    <3>2. CASE i # 1
      <4>1. i - 1 \in 1..(n-1) /\ i \in 1..(n+1) /\ i + 1 \in 1..(n+1) /\ (i-1)+1 = i /\ (i+1)-1 = i
        BY <3>2, <2>3
      <4>2. u[i] = s[i-1] /\ u[i+1] = s[i]
        BY <4>1, <3>2
      <4> QED BY <4>1, <4>2, <2>2
    <3> QED BY <3>1, <3>2
  <2>6. t[u[n+1]].parent = a
    BY <2>2, <2>3
  <2>7. HasAncestor(t, k, a)
    BY <2>3, <2>4, <2>5, <2>6 DEF HasAncestor
  <2> QED BY <2>7 DEF InRevokeSet
<1> QED BY <1>1, <1>2 DEF InRevokeSet

-----------------------------------------------------------------------------
(* Typing and the children index: these hold whatever insert_cap_raw is given *)

\* Marking capabilities revoked keeps the table's domain, its types and every
\* field but valid, which can only become FALSE.
LEMMA MarkRevokedFacts ==
    ASSUME NEW R, DOMAIN caps \subseteq CapId, caps \in [DOMAIN caps -> Capability],
           caps' = MarkRevoked(caps, R)
    PROVE  /\ DOMAIN caps' = DOMAIN caps
           /\ caps' \in [DOMAIN caps' -> Capability]
           /\ \A c \in DOMAIN caps :
                 /\ caps'[c].holder = caps[c].holder
                 /\ caps'[c].parent = caps[c].parent
                 /\ caps'[c].target = caps[c].target
                 /\ caps'[c].rights = caps[c].rights
                 /\ caps'[c].valid <=> (caps[c].valid /\ c \notin R)
                 /\ caps'[c] \in {caps[c], [caps[c] EXCEPT !.valid = FALSE]}
  BY DEF MarkRevoked, Capability

\* What inserting a capability under a free id does to table and index.
LEMMA InsertFacts ==
    ASSUME CapTypeOK, NEW id \in CapId, NEW cap \in Capability, id \notin DOMAIN caps,
           caps' = InsertCap(caps, id, cap),
           children' = AddChildToIndex(children, cap.parent, id)
    PROVE  /\ DOMAIN caps' = DOMAIN caps \cup {id}
           /\ DOMAIN caps' \subseteq CapId
           /\ caps' \in [DOMAIN caps' -> Capability]
           /\ caps'[id] = cap
           /\ \A c \in DOMAIN caps : caps'[c] = caps[c]
           /\ children' \in [CapId -> SUBSET CapId]
  BY DEF CapTypeOK, InsertCap, AddChildToIndex

\* Inserting a capability under a free id leaves the others alone.
LEMMA ApplyCapDelegateFacts ==
    ASSUME CapTypeOK, NEW id \in CapId, NEW cap \in Capability, NEW p \in PluginId,
           ApplyCapDelegate(id, cap, p)
    PROVE  /\ id \notin DOMAIN caps
           /\ DOMAIN caps' = DOMAIN caps \cup {id}
           /\ DOMAIN caps' \subseteq CapId
           /\ caps' \in [DOMAIN caps' -> Capability]
           /\ caps'[id] = cap
           /\ \A c \in DOMAIN caps : caps'[c] = caps[c]
           /\ children' \in [CapId -> SUBSET CapId]
           /\ held' \in [PluginId -> SUBSET CapId]
  BY DEF CapTypeOK, ApplyCapDelegate, InsertCap, AddChildToIndex

\* A capability that delegate_cap mints is well typed.
LEMMA ChildTyped ==
    ASSUME CapTypeOK, NEW parent \in CapId, parent \in DOMAIN caps,
           NEW target \in PluginId, NEW requested \in SUBSET Right
    PROVE  NewCapability(target, caps[parent].target,
                         requested \cap caps[parent].rights, parent) \in Capability
  BY DEF CapTypeOK, NewCapability, Capability

\* Every step keeps the types.
LEMMA TypeStep == CapTypeOK /\ [CapNext]_capVars => CapTypeOK'
<1> SUFFICES ASSUME CapTypeOK, [CapNext]_capVars PROVE CapTypeOK'
  OBVIOUS
<1>1. ASSUME NEW p \in PluginId, RegisterPlugin(p) PROVE CapTypeOK'
  BY <1>1 DEF RegisterPlugin, CapTypeOK
<1>2. ASSUME NEW id \in CapId, NEW cap \in Capability, NEW p \in PluginId,
             InsertCapRaw(id, cap, p)
      PROVE  CapTypeOK'
  <2>1. ApplyCapDelegate(id, cap, p) /\ UNCHANGED <<nextCapId, plugins>>
    BY <1>2 DEF InsertCapRaw
  <2> QED BY <2>1, ApplyCapDelegateFacts DEF CapTypeOK
<1>3. ASSUME NEW c \in CapId, NEW p \in PluginId, NEW rs \in SUBSET Right,
             DelegateCap(c, p, rs)
      PROVE  CapTypeOK'
  <2> DEFINE child == NewCapability(p, caps[c].target, rs \cap caps[c].rights, c)
  <2>1. c \in DOMAIN caps /\ ApplyCapDelegate(nextCapId, child, p) /\ plugins' = plugins
    BY <1>3 DEF DelegateCap, CanDelegate
  <2>2. child \in Capability /\ nextCapId \in CapId
    BY <2>1, ChildTyped DEF CapTypeOK
  <2>3. nextCapId' \in CapId
    BY <1>3, MaxCapIdAssumption DEF DelegateCap, AllocCapId, CapTypeOK, CapId
  <2> HIDE DEF child
  <2> QED BY <2>1, <2>2, <2>3, ApplyCapDelegateFacts DEF CapTypeOK
<1>4. ASSUME NEW c \in CapId, NEW p \in PluginId, NEW rs \in SUBSET Right,
             DelegateCapFails(c, p, rs)
      PROVE  CapTypeOK'
  BY <1>4, MaxCapIdAssumption DEF DelegateCapFails, AllocCapId, CapTypeOK, CapId
<1>5. ASSUME NEW c \in CapId, RevokePure(c) PROVE CapTypeOK'
  BY <1>5, MarkRevokedFacts DEF RevokePure, CapTypeOK
<1>6. ASSUME NEW c \in CapId, RevokeFast(c) PROVE CapTypeOK'
  BY <1>6, MarkRevokedFacts DEF RevokeFast, CapTypeOK
<1>7. CASE UNCHANGED capVars
  BY <1>7 DEF capVars, CapTypeOK
<1> QED BY <1>1, <1>2, <1>3, <1>4, <1>5, <1>6, <1>7 DEF CapNext

\* The initial kernel is well typed.
LEMMA TypeInit == CapInit => CapTypeOK
<1> SUFFICES ASSUME CapInit PROVE CapTypeOK
  OBVIOUS
<1>1. DOMAIN caps = {} /\ caps \in [DOMAIN caps -> Capability]
  BY DEF CapInit
<1>2. nextCapId \in CapId
  BY MaxCapIdAssumption DEF CapInit, CapId
<1> QED BY <1>1, <1>2 DEF CapInit, CapTypeOK

\* The capability table, the index, the counter and the handles are well typed
\* in every reachable state.
THEOREM TypeCorrect == CapSpec => []CapTypeOK
<1>1. CapInit => CapTypeOK
  BY TypeInit
<1>2. CapTypeOK /\ [CapNext]_capVars => CapTypeOK'
  BY TypeStep
<1> QED BY <1>1, <1>2, PTL DEF CapSpec

\* Inserting a capability under a free id keeps the index in step with the
\* parent fields.
LEMMA InsertIndex ==
    ASSUME CapTypeOK, IndexConsistent,
           NEW id \in CapId, NEW cap \in Capability, id \notin DOMAIN caps,
           caps' = InsertCap(caps, id, cap),
           children' = AddChildToIndex(children, cap.parent, id)
    PROVE  IndexConsistent'
<1>1. ASSUME NEW q \in CapId, NEW c \in CapId
      PROVE  c \in children'[q] <=> (c \in DOMAIN caps' /\ caps'[c].parent = q)
  <2>1. children'[q] = IF q = cap.parent THEN children[q] \cup {id} ELSE children[q]
    BY DEF AddChildToIndex
  <2>2. c \in children[q] <=> (c \in DOMAIN caps /\ caps[c].parent = q)
    BY DEF IndexConsistent
  <2>3. DOMAIN caps' = DOMAIN caps \cup {id} /\ caps'[id] = cap
    BY InsertFacts
  <2>4. c \in DOMAIN caps => caps'[c] = caps[c]
    BY InsertFacts
  <2>5. CASE c = id
    <3>1. c \notin children[q]
      BY <2>5, <2>2, <2>3
    <3> QED BY <3>1, <2>5, <2>1, <2>3
  <2>6. CASE c # id
    BY <2>6, <2>1, <2>2, <2>3, <2>4
  <2> QED BY <2>5, <2>6
<1> QED BY <1>1 DEF IndexConsistent

\* So does State::apply_cap_delegate.
LEMMA ApplyCapDelegateIndex ==
    ASSUME CapTypeOK, IndexConsistent,
           NEW id \in CapId, NEW cap \in Capability, NEW p \in PluginId,
           ApplyCapDelegate(id, cap, p)
    PROVE  IndexConsistent'
  BY InsertIndex DEF ApplyCapDelegate

\* Every step keeps the index consistent with the parent fields.
LEMMA IndexStep ==
    CapTypeOK /\ IndexConsistent /\ [CapNext]_capVars => IndexConsistent'
<1> SUFFICES ASSUME CapTypeOK, IndexConsistent, [CapNext]_capVars PROVE IndexConsistent'
  OBVIOUS
<1>1. ASSUME NEW p \in PluginId, RegisterPlugin(p) PROVE IndexConsistent'
  BY <1>1 DEF RegisterPlugin, IndexConsistent
<1>2. ASSUME NEW id \in CapId, NEW cap \in Capability, NEW p \in PluginId,
             InsertCapRaw(id, cap, p)
      PROVE  IndexConsistent'
  BY <1>2, ApplyCapDelegateIndex DEF InsertCapRaw
<1>3. ASSUME NEW c \in CapId, NEW p \in PluginId, NEW rs \in SUBSET Right,
             DelegateCap(c, p, rs)
      PROVE  IndexConsistent'
  <2> DEFINE child == NewCapability(p, caps[c].target, rs \cap caps[c].rights, c)
  <2>1. c \in DOMAIN caps /\ ApplyCapDelegate(nextCapId, child, p)
    BY <1>3 DEF DelegateCap, CanDelegate
  <2>2. child \in Capability /\ nextCapId \in CapId
    BY <2>1, ChildTyped DEF CapTypeOK
  <2> HIDE DEF child
  <2> QED BY <2>1, <2>2, ApplyCapDelegateIndex
<1>4. ASSUME NEW c \in CapId, NEW p \in PluginId, NEW rs \in SUBSET Right,
             DelegateCapFails(c, p, rs)
      PROVE  IndexConsistent'
  BY <1>4 DEF DelegateCapFails, IndexConsistent
<1>5. ASSUME NEW c \in CapId, RevokePure(c) PROVE IndexConsistent'
  BY <1>5, MarkRevokedFacts DEF RevokePure, CapTypeOK, IndexConsistent
<1>6. ASSUME NEW c \in CapId, RevokeFast(c) PROVE IndexConsistent'
  BY <1>6, MarkRevokedFacts DEF RevokeFast, CapTypeOK, IndexConsistent
<1>7. CASE UNCHANGED capVars
  BY <1>7 DEF capVars, IndexConsistent
<1> QED BY <1>1, <1>2, <1>3, <1>4, <1>5, <1>6, <1>7 DEF CapNext

\* The children index and the parent fields tell the same story in every
\* reachable state, even after arbitrary raw insertions.
THEOREM IndexCorrect == CapSpec => []IndexConsistent
<1>1. CapInit => CapTypeOK /\ IndexConsistent
  <2>1. CapInit => DOMAIN caps = {} /\ \A q \in CapId : children[q] = {}
    BY DEF CapInit
  <2> QED BY <2>1, TypeInit DEF IndexConsistent
<1>2. CapTypeOK /\ IndexConsistent /\ [CapNext]_capVars => CapTypeOK' /\ IndexConsistent'
  BY TypeStep, IndexStep
<1> QED BY <1>1, <1>2, PTL DEF CapSpec

\* A capability handed to its own holder keeps all handles sound.
LEMMA ApplyCapDelegateHandles ==
    ASSUME CapTypeOK, HandlesSound,
           NEW id \in CapId, NEW cap \in Capability, NEW p \in PluginId,
           ApplyCapDelegate(id, cap, p), cap.holder = p, plugins' = plugins
    PROVE  HandlesSound'
<1>1. ASSUME NEW q \in plugins, NEW c \in held'[q]
      PROVE  c \in DOMAIN caps' /\ caps'[c].holder = q
  <2>0. q \in PluginId /\ held \in [PluginId -> SUBSET CapId]
    BY DEF CapTypeOK
  <2>1. c \in held[q] \/ (c = id /\ q = p)
    BY <2>0 DEF ApplyCapDelegate
  <2>2. CASE c \in held[q]
    <3>1. c \in DOMAIN caps /\ caps[c].holder = q
      BY <2>2 DEF HandlesSound
    <3> QED BY <3>1, ApplyCapDelegateFacts
  <2>3. CASE c = id /\ q = p
    BY <2>3, ApplyCapDelegateFacts
  <2> QED BY <2>1, <2>2, <2>3
<1> QED BY <1>1 DEF HandlesSound

\* Every step keeps the handles sound when raw insertions hand a capability to
\* its holder.
LEMMA HandlesStep ==
    ASSUME RawInputs # "any", CapTypeOK, HandlesSound, [CapNext]_capVars
    PROVE  HandlesSound'
<1>1. ASSUME NEW p \in PluginId, RegisterPlugin(p) PROVE HandlesSound'
  BY <1>1 DEF RegisterPlugin, HandlesSound, CapTypeOK
<1>2. ASSUME NEW id \in CapId, NEW cap \in Capability, NEW p \in PluginId,
             InsertCapRaw(id, cap, p)
      PROVE  HandlesSound'
  <2>1. cap.holder = p
    BY <1>2, ModeAssumption DEF InsertCapRaw, RootRaw, WellFormedRaw
  <2>2. ApplyCapDelegate(id, cap, p) /\ plugins' = plugins
    BY <1>2 DEF InsertCapRaw
  <2> QED BY <2>1, <2>2, ApplyCapDelegateHandles
<1>3. ASSUME NEW c \in CapId, NEW p \in PluginId, NEW rs \in SUBSET Right,
             DelegateCap(c, p, rs)
      PROVE  HandlesSound'
  <2> DEFINE child == NewCapability(p, caps[c].target, rs \cap caps[c].rights, c)
  <2>1. c \in DOMAIN caps /\ ApplyCapDelegate(nextCapId, child, p) /\ plugins' = plugins
    BY <1>3 DEF DelegateCap, CanDelegate
  <2>2. child \in Capability /\ nextCapId \in CapId
    BY <2>1, ChildTyped DEF CapTypeOK
  <2>3. child.holder = p
    BY DEF NewCapability
  <2> HIDE DEF child
  <2> QED BY <2>1, <2>2, <2>3, ApplyCapDelegateHandles
<1>4. ASSUME NEW c \in CapId, NEW p \in PluginId, NEW rs \in SUBSET Right,
             DelegateCapFails(c, p, rs)
      PROVE  HandlesSound'
  BY <1>4 DEF DelegateCapFails, HandlesSound
<1>5. ASSUME NEW c \in CapId, RevokePure(c) PROVE HandlesSound'
  BY <1>5, MarkRevokedFacts DEF RevokePure, CapTypeOK, HandlesSound
<1>6. ASSUME NEW c \in CapId, RevokeFast(c) PROVE HandlesSound'
  BY <1>6, MarkRevokedFacts DEF RevokeFast, CapTypeOK, HandlesSound
<1>7. CASE UNCHANGED capVars
  BY <1>7 DEF capVars, HandlesSound
<1> QED BY <1>1, <1>2, <1>3, <1>4, <1>5, <1>6, <1>7 DEF CapNext

\* Unless insert_cap_raw hands a capability to someone other than its holder,
\* every handle a plugin holds names a capability of the table that is its own.
THEOREM HandlesCorrect ==
    ASSUME RawInputs # "any" PROVE CapSpec => []HandlesSound
<1>1. CapInit => CapTypeOK /\ HandlesSound
  <2>1. CapInit => plugins = {}
    BY DEF CapInit
  <2> QED BY <2>1, TypeInit DEF HandlesSound
<1>2. CapTypeOK /\ HandlesSound /\ [CapNext]_capVars => CapTypeOK' /\ HandlesSound'
  BY TypeStep, HandlesStep
<1> QED BY <1>1, <1>2, PTL DEF CapSpec

-----------------------------------------------------------------------------
(* What no step may do *)

\* Every entry of the table survives a step; at most it becomes invalid.
EntriesKept ==
    \A c \in DOMAIN caps :
        /\ c \in DOMAIN caps'
        /\ caps'[c] \in {caps[c], [caps[c] EXCEPT !.valid = FALSE]}

\* No operation replaces or removes an entry or makes it valid again.
LEMMA EntriesKeptStep == CapTypeOK /\ CapNext => EntriesKept
<1> SUFFICES ASSUME CapTypeOK, CapNext PROVE EntriesKept
  OBVIOUS
<1> USE DEF EntriesKept
<1>1. ASSUME NEW p \in PluginId, RegisterPlugin(p) PROVE EntriesKept
  BY <1>1 DEF RegisterPlugin
<1>2. ASSUME NEW id \in CapId, NEW cap \in Capability, NEW p \in PluginId,
             InsertCapRaw(id, cap, p)
      PROVE  EntriesKept
  BY <1>2, ApplyCapDelegateFacts DEF InsertCapRaw
<1>3. ASSUME NEW c \in CapId, NEW p \in PluginId, NEW rs \in SUBSET Right,
             DelegateCap(c, p, rs)
      PROVE  EntriesKept
  <2> DEFINE child == NewCapability(p, caps[c].target, rs \cap caps[c].rights, c)
  <2>1. c \in DOMAIN caps /\ ApplyCapDelegate(nextCapId, child, p)
    BY <1>3 DEF DelegateCap, CanDelegate
  <2>2. child \in Capability /\ nextCapId \in CapId
    BY <2>1, ChildTyped DEF CapTypeOK
  <2> HIDE DEF child
  <2> QED BY <2>1, <2>2, ApplyCapDelegateFacts
<1>4. ASSUME NEW c \in CapId, NEW p \in PluginId, NEW rs \in SUBSET Right,
             DelegateCapFails(c, p, rs)
      PROVE  EntriesKept
  BY <1>4 DEF DelegateCapFails
<1>5. ASSUME NEW c \in CapId, RevokePure(c) PROVE EntriesKept
  BY <1>5, MarkRevokedFacts DEF RevokePure, CapTypeOK
<1>6. ASSUME NEW c \in CapId, RevokeFast(c) PROVE EntriesKept
  BY <1>6, MarkRevokedFacts DEF RevokeFast, CapTypeOK
<1> QED BY <1>1, <1>2, <1>3, <1>4, <1>5, <1>6 DEF CapNext

\* A capability keeps its identity and a revoked one stays revoked, through
\* every operation and whatever insert_cap_raw is given.
THEOREM RevocationIsPermanent == CapSpec => RevocationPermanent
<1>1. CapTypeOK /\ [CapNext]_capVars => [EntriesKept]_capVars
  BY EntriesKeptStep
<1> QED BY <1>1, TypeCorrect, PTL DEF CapSpec, RevocationPermanent, EntriesKept

-----------------------------------------------------------------------------
(* Confinement *)

\* The two disciplines under which authority is confined: raw insertions are
\* checked, or they are roots and every revocation takes the in-place path.
Disciplined == RawInputs = "checked" \/ (RawInputs = "roots" /\ Paths = {"fast"})

\* The inductive invariant.  The order of ids is only needed, and only true,
\* when raw insertions are checked; it is what gives the pure walk its fuel.
ConfineInv ==
    /\ CapTypeOK
    /\ IndexConsistent
    /\ LinkConfined
    /\ RawInputs = "checked" => IdsBehind /\ ParentLt

\* Marking a set revoked keeps every link confined if the set is closed from
\* parents to children.
LEMMA MarkRevokedConfined ==
    ASSUME ConfineInv, NEW R, caps' = MarkRevoked(caps, R),
           UNCHANGED <<children, nextCapId, plugins, held>>,
           \A c \in DOMAIN caps : caps[c].parent # None /\ caps[c].parent \in R => c \in R
    PROVE  LinkConfined' /\ (RawInputs = "checked" => IdsBehind' /\ ParentLt')
<1>1. /\ DOMAIN caps' = DOMAIN caps
      /\ \A c \in DOMAIN caps :
                 /\ caps'[c].parent = caps[c].parent
                 /\ caps'[c].target = caps[c].target
                 /\ caps'[c].rights = caps[c].rights
                 /\ caps'[c].valid <=> (caps[c].valid /\ c \notin R)
  BY MarkRevokedFacts DEF ConfineInv, CapTypeOK
<1>2. LinkConfined'
  BY <1>1 DEF ConfineInv, LinkConfined
<1>3. RawInputs = "checked" => IdsBehind' /\ ParentLt'
  BY <1>1 DEF ConfineInv, IdsBehind, ParentLt
<1> QED BY <1>2, <1>3

\* Inserting a capability whose parent, if any, is in the table, valid and
\* covers it keeps every link confined.
LEMMA InsertConfined ==
    ASSUME ConfineInv, NEW id \in CapId, NEW cap \in Capability, NEW p \in PluginId,
           ApplyCapDelegate(id, cap, p),
           cap.parent # None =>
             /\ cap.parent \in DOMAIN caps
             /\ caps[cap.parent].valid
             /\ cap.target = caps[cap.parent].target
             /\ cap.rights \subseteq caps[cap.parent].rights
    PROVE  LinkConfined'
<1>1. /\ id \notin DOMAIN caps
      /\ DOMAIN caps' = DOMAIN caps \cup {id}
      /\ caps'[id] = cap
      /\ \A c \in DOMAIN caps : caps'[c] = caps[c]
  BY ApplyCapDelegateFacts DEF ConfineInv
<1>2. ASSUME NEW c \in DOMAIN caps', caps'[c].parent # None
      PROVE  /\ caps'[c].parent \in DOMAIN caps'
             /\ caps'[c].target = caps'[caps'[c].parent].target
             /\ caps'[c].rights \subseteq caps'[caps'[c].parent].rights
             /\ caps'[c].valid => caps'[caps'[c].parent].valid
  <2>1. CASE c = id
    BY <1>1, <1>2, <2>1
  <2>2. CASE c \in DOMAIN caps
    BY <1>1, <1>2, <2>2 DEF ConfineInv, LinkConfined
  <2> QED BY <1>1, <2>1, <2>2
<1> QED BY <1>2 DEF LinkConfined

\* Inserting keeps the ids in order if the new id is not ahead of the new
\* counter and the parent, if any, is an older id of the table.
LEMMA InsertOrdered ==
    ASSUME CapTypeOK, IdsBehind, ParentLt,
           NEW id \in CapId, NEW cap \in Capability, NEW p \in PluginId,
           ApplyCapDelegate(id, cap, p), nextCapId' \in CapId,
           nextCapId <= nextCapId', id <= nextCapId',
           cap.parent # None => cap.parent \in DOMAIN caps /\ cap.parent < id
    PROVE  IdsBehind' /\ ParentLt'
<1>1. /\ DOMAIN caps' = DOMAIN caps \cup {id}
      /\ caps'[id] = cap
      /\ \A c \in DOMAIN caps : caps'[c] = caps[c]
  BY ApplyCapDelegateFacts
<1>2. IdsBehind'
  BY <1>1, MaxCapIdAssumption DEF IdsBehind, CapTypeOK, CapId
<1>3. ParentLt'
  BY <1>1 DEF ParentLt
<1> QED BY <1>2, <1>3

\* Every step of a disciplined kernel keeps the inductive invariant.
LEMMA ConfineStep ==
    ASSUME Disciplined PROVE ConfineInv /\ [CapNext]_capVars => ConfineInv'
<1> SUFFICES ASSUME ConfineInv, [CapNext]_capVars
             PROVE  LinkConfined' /\ (RawInputs = "checked" => IdsBehind' /\ ParentLt')
  BY TypeStep, IndexStep DEF ConfineInv
<1> DEFINE Goal == LinkConfined' /\ (RawInputs = "checked" => IdsBehind' /\ ParentLt')
<1>0. CapTypeOK /\ IndexConsistent /\ LinkConfined
  BY DEF ConfineInv
<1>1. ASSUME NEW p \in PluginId, RegisterPlugin(p) PROVE Goal
  BY <1>1 DEF RegisterPlugin, ConfineInv, LinkConfined, IdsBehind, ParentLt
<1>2. ASSUME NEW id \in CapId, NEW cap \in Capability, NEW p \in PluginId,
             InsertCapRaw(id, cap, p)
      PROVE  Goal
  <2>1. ApplyCapDelegate(id, cap, p) /\ nextCapId' = nextCapId
    BY <1>2 DEF InsertCapRaw
  <2>2. cap.parent # None =>
             /\ cap.parent \in DOMAIN caps
             /\ caps[cap.parent].valid
             /\ cap.target = caps[cap.parent].target
             /\ cap.rights \subseteq caps[cap.parent].rights
    BY <1>2 DEF Disciplined, InsertCapRaw, RootRaw, WellFormedRaw
  <2>3. LinkConfined'
    BY <2>1, <2>2, InsertConfined
  <2>4. ASSUME RawInputs = "checked" PROVE IdsBehind' /\ ParentLt'
    <3>1. id <= nextCapId /\ (cap.parent # None => cap.parent \in DOMAIN caps /\ cap.parent < id)
      BY <1>2, <2>4 DEF InsertCapRaw, WellFormedRaw
    <3>2. nextCapId' \in CapId /\ nextCapId <= nextCapId' /\ id <= nextCapId'
      BY <3>1, <2>1, <1>0, MaxCapIdAssumption DEF CapTypeOK, CapId
    <3> QED BY <3>1, <3>2, <2>1, <2>4, InsertOrdered DEF ConfineInv
  <2> QED BY <2>3, <2>4
<1>3. ASSUME NEW c \in CapId, NEW p \in PluginId, NEW rs \in SUBSET Right,
             DelegateCap(c, p, rs)
      PROVE  Goal
  <2> DEFINE child == NewCapability(p, caps[c].target, rs \cap caps[c].rights, c)
  <2>1. c \in DOMAIN caps /\ caps[c].valid /\ ApplyCapDelegate(nextCapId, child, p)
    BY <1>3 DEF DelegateCap, CanDelegate
  <2>2. child \in Capability /\ nextCapId \in CapId
    BY <2>1, <1>0, ChildTyped DEF CapTypeOK
  <2>3. child.parent = c /\ child.target = caps[c].target /\ child.rights \subseteq caps[c].rights
    BY DEF NewCapability
  <2>4. nextCapId' = nextCapId + 1 /\ nextCapId < MaxCapId
    BY <1>3 DEF DelegateCap, AllocCapId
  <2>5. nextCapId \notin DOMAIN caps
    BY <2>1 DEF ApplyCapDelegate
  <2> HIDE DEF child
  <2>6. LinkConfined'
    BY <2>1, <2>2, <2>3, InsertConfined
  <2>7. ASSUME RawInputs = "checked" PROVE IdsBehind' /\ ParentLt'
    <3>1. c < nextCapId
      <4>1. c <= nextCapId
        BY <2>1, <2>7 DEF ConfineInv, IdsBehind
      <4> QED BY <4>1, <2>1, <2>2, <2>5, MaxCapIdAssumption DEF CapId
    <3>2. nextCapId' \in CapId /\ nextCapId <= nextCapId'
      BY <2>2, <2>4, MaxCapIdAssumption DEF CapId
    <3> QED BY <2>1, <2>2, <2>3, <2>7, <3>1, <3>2, InsertOrdered DEF ConfineInv
  <2> QED BY <2>6, <2>7
<1>4. ASSUME NEW c \in CapId, NEW p \in PluginId, NEW rs \in SUBSET Right,
             DelegateCapFails(c, p, rs)
      PROVE  Goal
  <2>1. caps' = caps /\ nextCapId' = nextCapId + 1
    BY <1>4 DEF DelegateCapFails, AllocCapId
  <2>2. LinkConfined' /\ (RawInputs = "checked" => ParentLt')
    BY <2>1 DEF ConfineInv, LinkConfined, ParentLt
  <2>3. RawInputs = "checked" => IdsBehind'
    BY <2>1, <1>0, MaxCapIdAssumption DEF ConfineInv, IdsBehind, CapTypeOK, CapId
  <2> QED BY <2>2, <2>3
<1>5. ASSUME NEW c \in CapId, RevokePure(c) PROVE Goal
  <2>1. RawInputs = "checked"
    BY <1>5 DEF Disciplined, RevokePure
  <2>2. ASSUME NEW k \in DOMAIN caps, caps[k].parent # None, caps[k].parent \in RevokeSet(caps, c)
        PROVE  k \in RevokeSet(caps, c)
    <3>1. caps[k].parent \in DOMAIN caps /\ caps[k].parent < k
      BY <2>1, <2>2 DEF ConfineInv, ParentLt
    <3>2. InRevokeSet(caps, caps[k].parent, c)
      BY <2>2 DEF RevokeSet
    <3>3. InRevokeSet(caps, k, c)
      BY <3>1, <3>2, <1>0, RevokeSetClosed DEF CapTypeOK
    <3> QED BY <3>3 DEF RevokeSet
  <2>3. caps' = MarkRevoked(caps, RevokeSet(caps, c)) /\ UNCHANGED <<children, nextCapId, plugins, held>>
    BY <1>5 DEF RevokePure
  <2> QED BY <2>2, <2>3, MarkRevokedConfined
<1>6. ASSUME NEW c \in CapId, RevokeFast(c) PROVE Goal
  <2>2. ASSUME NEW k \in DOMAIN caps, caps[k].parent # None,
               caps[k].parent \in FastRevokeSet(caps, children, c)
        PROVE  k \in FastRevokeSet(caps, children, c)
    <3>1. caps[k].parent \in CapId /\ k \in CapId /\ caps[k].parent \in CollectDescendants(children, c)
      BY <2>2, <1>0 DEF CapTypeOK, FastRevokeSet
    <3>2. k \in children[caps[k].parent]
      BY <3>1, <1>0 DEF IndexConsistent
    <3>3. k \in CollectDescendants(children, c)
      BY <3>1, <3>2, <1>0, DescendantsClosed DEF CapTypeOK
    <3> QED BY <3>3 DEF FastRevokeSet
  <2>3. caps' = MarkRevoked(caps, FastRevokeSet(caps, children, c)) /\ UNCHANGED <<children, nextCapId, plugins, held>>
    BY <1>6 DEF RevokeFast
  <2> QED BY <2>2, <2>3, MarkRevokedConfined
<1>7. CASE UNCHANGED capVars
  BY <1>7 DEF capVars, ConfineInv, LinkConfined, IdsBehind, ParentLt
<1> QED BY <1>1, <1>2, <1>3, <1>4, <1>5, <1>6, <1>7 DEF CapNext

\* Confinement of every single link, with a consistent index, is confinement
\* at every depth: the well-behaved capabilities below a form a closed set.
LEMMA LinksConfineChains ==
    ConfineInv => AuthorityConfined
<1> SUFFICES ASSUME ConfineInv, NEW a \in DOMAIN caps
             PROVE  \A d \in CollectDescendants(children, a) :
                       /\ d \in DOMAIN caps
                       /\ caps[d].target = caps[a].target
                       /\ caps[d].rights \subseteq caps[a].rights
                       /\ caps[d].valid => caps[a].valid
  BY DEF AuthorityConfined
<1> DEFINE S == {d \in DOMAIN caps :
                       /\ caps[d].target = caps[a].target
                       /\ caps[d].rights \subseteq caps[a].rights
                       /\ caps[d].valid => caps[a].valid}
<1>1. S \in SUBSET CapId /\ a \in S
  BY DEF ConfineInv, CapTypeOK
<1>2. ASSUME NEW p \in S, NEW c \in children[p] PROVE c \in S
  <2>1. p \in CapId /\ c \in CapId
    BY <1>1, <1>2 DEF ConfineInv, CapTypeOK
  <2>2. c \in DOMAIN caps /\ caps[c].parent = p /\ p # None
    BY <2>1, NoneAssumption DEF ConfineInv, IndexConsistent
  <2> QED BY <2>2 DEF ConfineInv, LinkConfined
<1>3. CollectDescendants(children, a) \subseteq S
  <2> HIDE DEF S
  <2> QED BY <1>1, <1>2, DescendantsLeast
<1> QED BY <1>3

\* The initial kernel satisfies the inductive invariant.
LEMMA ConfineInit == CapInit => ConfineInv
<1> SUFFICES ASSUME CapInit PROVE ConfineInv
  OBVIOUS
<1>1. DOMAIN caps = {} /\ \A q \in CapId : children[q] = {}
  BY DEF CapInit
<1> QED BY <1>1, TypeInit DEF ConfineInv, IndexConsistent, LinkConfined, IdsBehind, ParentLt

\* In a disciplined kernel no capability amplifies authority at any depth of
\* delegation, and none outlives the revocation of any of its ancestors.
THEOREM Confinement ==
    ASSUME Disciplined PROVE CapSpec => []AuthorityConfined
<1>1. CapInit => ConfineInv
  BY ConfineInit
<1>2. ConfineInv /\ [CapNext]_capVars => ConfineInv'
  BY ConfineStep
<1>3. ConfineInv => AuthorityConfined
  BY LinksConfineChains
<1> QED BY <1>1, <1>2, <1>3, PTL DEF CapSpec

\* With checked raw insertions a parent is always an older capability of the
\* table, the condition the pure revocation's fuel depends on.
THEOREM ParentsAreOlder ==
    ASSUME RawInputs = "checked" PROVE CapSpec => []ParentLt
<1>1. CapInit => ConfineInv
  BY ConfineInit
<1>2. ConfineInv /\ [CapNext]_capVars => ConfineInv'
  BY ConfineStep DEF Disciplined
<1>3. ConfineInv => ParentLt
  BY DEF ConfineInv
<1> QED BY <1>1, <1>2, <1>3, PTL DEF CapSpec

-----------------------------------------------------------------------------
(* The two revocation paths *)

\* A nonempty set of naturals has a least element.
LEMMA LeastNatural ==
    ASSUME NEW T, T \subseteq Nat, T # {}
    PROVE  \E x \in T : \A y \in T : x <= y
<1> DEFINE R == {ss \in Nat \X Nat : ss[1] < ss[2]}
<1>1. IsWellFoundedOn(R, Nat)
  BY NatLessThanWellFounded DEF OpToRel
<1>2. \E x \in T : \A y \in T : ~ (<<y, x>> \in R)
  <2> HIDE DEF R
  <2> QED BY <1>1, WFMin
<1>3. PICK x \in T : \A y \in T : ~ (<<y, x>> \in R)
  BY <1>2
<1>4. ASSUME NEW y \in T PROVE x <= y
  <2>1. <<y, x>> \in Nat \X Nat /\ ~ (y < x)
    BY <1>3
  <2> QED BY <2>1
<1> QED BY <1>4

\* The fuelled walk only ever finds descendants: the last capability of a walk
\* is a child of c, and each earlier one a child of its successor.
LEMMA WalkFindsDescendants ==
    ASSUME CapTypeOK, IndexConsistent, NEW c \in CapId, NEW k \in DOMAIN caps,
           HasAncestor(caps, k, c)
    PROVE  k \in CollectDescendants(children, c)
<1> DEFINE D == CollectDescendants(children, c)
<1>1. PICK n \in 1..k : \E s \in [1..n -> DOMAIN caps] :
         /\ s[1] = k
         /\ \A i \in 1..(n-1) : caps[s[i]].parent = s[i+1]
         /\ caps[s[n]].parent = c
  BY DEF HasAncestor
<1>2. PICK s \in [1..n -> DOMAIN caps] :
         /\ s[1] = k
         /\ \A i \in 1..(n-1) : caps[s[i]].parent = s[i+1]
         /\ caps[s[n]].parent = c
  BY <1>1
<1>3. n \in Nat /\ n >= 1
  BY MaxCapIdAssumption DEF CapTypeOK, CapId
<1>4. c \in D /\ \A p \in CapId, d \in CapId :
          p \in D /\ d \in DOMAIN caps /\ caps[d].parent = p => d \in D
  BY DescendantsClosed DEF CapTypeOK, IndexConsistent
<1> DEFINE T == {j \in 0..(n-1) : s[n-j] \notin D}
<1> HIDE DEF D
<1>5. SUFFICES ASSUME T # {} PROVE FALSE
  <2>1. n-1 \in 0..(n-1) /\ n-(n-1) = 1
    BY <1>3
  <2> QED BY <2>1, <1>2 DEF D
<1>6. PICK j \in T : \A i \in T : j <= i
  <2>1. T \subseteq Nat
    BY <1>3
  <2> HIDE DEF T
  <2> QED BY <2>1, <1>5, LeastNatural
<1>7. j \in 0..(n-1) /\ s[n-j] \notin D /\ n-j \in 1..n /\ s[n-j] \in DOMAIN caps /\ s[n-j] \in CapId
  BY <1>3 DEF CapTypeOK
<1>8. CASE j = 0
  <2>1. n-j = n
    BY <1>8, <1>3
  <2> QED BY <2>1, <1>2, <1>4, <1>7
<1>9. CASE j # 0
  <2>1. j-1 \in 0..(n-1) /\ n-j \in 1..(n-1) /\ n-(j-1) = (n-j)+1 /\ ~(j <= j-1) /\ (n-j)+1 \in 1..n
    BY <1>9, <1>7, <1>3
  <2>2. j-1 \notin T
    BY <2>1, <1>6
  <2>3. s[(n-j)+1] \in D
    BY <2>1, <2>2
  <2>4. caps[s[n-j]].parent = s[(n-j)+1] /\ s[(n-j)+1] \in CapId
    BY <2>1, <1>2 DEF CapTypeOK
  <2> QED BY <2>3, <2>4, <1>4, <1>7
<1> QED BY <1>8, <1>9

\* In a table whose parents are older the walk up, with its fuel, and the walk
\* down the index mark the same capabilities.
LEMMA WalksAgree == CapTypeOK /\ IndexConsistent /\ ParentLt => RevocationPathsAgree
<1> SUFFICES ASSUME CapTypeOK, IndexConsistent, ParentLt, NEW c \in DOMAIN caps
             PROVE  RevokeSet(caps, c) = FastRevokeSet(caps, children, c)
  BY DEF RevocationPathsAgree
<1>0. CapTypeOK /\ IndexConsistent /\ ParentLt /\ c \in CapId
  BY DEF CapTypeOK
<1>1. ASSUME NEW k \in RevokeSet(caps, c) PROVE k \in FastRevokeSet(caps, children, c)
  <2>1. k \in DOMAIN caps /\ (k = c \/ HasAncestor(caps, k, c))
    BY <1>1 DEF RevokeSet, InRevokeSet
  <2>2. k \in CollectDescendants(children, c)
    BY <2>1, <1>0, WalkFindsDescendants, DescendantsClosed DEF CapTypeOK
  <2> QED BY <2>1, <2>2 DEF FastRevokeSet
<1>2. FastRevokeSet(caps, children, c) \subseteq RevokeSet(caps, c)
  <2>1. RevokeSet(caps, c) \in SUBSET CapId /\ c \in RevokeSet(caps, c)
    BY <1>0 DEF RevokeSet, InRevokeSet, CapTypeOK
  <2>2. ASSUME NEW p \in RevokeSet(caps, c), NEW d \in children[p]
        PROVE  d \in RevokeSet(caps, c)
    <3>1. p \in CapId /\ d \in CapId
      BY <2>1, <2>2, <1>0 DEF CapTypeOK
    <3>2. d \in DOMAIN caps /\ caps[d].parent = p /\ p # None
      BY <3>1, <1>0, NoneAssumption DEF IndexConsistent
    <3>3. caps[d].parent \in DOMAIN caps /\ caps[d].parent < d
      BY <3>2, <1>0 DEF ParentLt
    <3>4. InRevokeSet(caps, caps[d].parent, c)
      BY <3>2 DEF RevokeSet
    <3>5. InRevokeSet(caps, d, c)
      BY <3>2, <3>3, <3>4, <1>0, RevokeSetClosed DEF CapTypeOK
    <3> QED BY <3>2, <3>5 DEF RevokeSet
  <2> QED BY <2>1, <2>2, DescendantsLeast DEF FastRevokeSet
<1> QED BY <1>1, <1>2

\* With checked raw insertions the fuelled walk up the parent fields and the
\* breadth-first walk down the index revoke the same capabilities.
THEOREM PathsAgree ==
    ASSUME RawInputs = "checked" PROVE CapSpec => []RevocationPathsAgree
<1>1. CapInit => ConfineInv
  BY ConfineInit
<1>2. ConfineInv /\ [CapNext]_capVars => ConfineInv'
  BY ConfineStep DEF Disciplined
<1>3. ConfineInv => RevocationPathsAgree
  BY WalksAgree DEF ConfineInv
<1> QED BY <1>1, <1>2, <1>3, PTL DEF CapSpec
=============================================================================
