-------------------------- MODULE KernelCoreProofs --------------------------
(***************************************************************************)
(* KernelStateCore for any number of plugins, capabilities, keys and       *)
(* approved requests: what a plugin can use it is entitled to, a           *)
(* revocation misses only delegations that it overtook, and what cannot be *)
(* used any more never can be.  kernel_dispatch checks neither parent nor  *)
(* seal nor holder, so all of it rests on what the shell approved and on   *)
(* the table never changing an entry but to invalidate it.                 *)
(***************************************************************************)
EXTENDS KernelCore, CapabilitiesProofs

\* The authority of cap is covered by that of its parent, valid or not.
Covered(cap) ==
    cap.parent # None =>
        /\ cap.parent \in DOMAIN caps
        /\ cap.target = caps[cap.parent].target
        /\ cap.rights \subseteq caps[cap.parent].rights

\* A handle belongs to a plugin that has metadata, and names an entry of the
\* table whose holder that plugin is.
HandlesOwned ==
    \A p \in PluginId : \A c \in held[p] :
        p \in plugins /\ c \in DOMAIN caps /\ caps[c].holder = p

\* The table: every link is covered, in the table and in the requests that
\* may still enter it.
TableInv ==
    /\ CapTypeOK
    /\ IndexConsistent
    /\ HandlesOwned
    /\ \A c \in DOMAIN caps : Covered(caps[c])
    /\ \A req \in approved : req.id \in CapId /\ req.cap \in Capability /\ Covered(req.cap)

-----------------------------------------------------------------------------
(* The table *)

\* A dispatched delegation, as an insertion into table and index.
LEMMA DispatchFacts ==
    ASSUME TableInv, NEW req \in approved, DispatchCapDelegate(req)
    PROVE  /\ req.id \in CapId /\ req.cap \in Capability /\ Covered(req.cap)
           /\ req.id \notin DOMAIN caps
           /\ DOMAIN caps' = DOMAIN caps \cup {req.id}
           /\ caps'[req.id] = req.cap
           /\ \A c \in DOMAIN caps : caps'[c] = caps[c]
           /\ plugins' = plugins \cup {req.cap.holder}
           /\ held' = [held EXCEPT ![req.cap.holder] = held[req.cap.holder] \cup {req.id}]
           /\ CapTypeOK' /\ IndexConsistent'
<1>0. /\ req.id \in CapId /\ req.cap \in Capability /\ Covered(req.cap)
      /\ CapTypeOK /\ IndexConsistent
  BY DEF TableInv
<1>1. /\ req.id \notin DOMAIN caps
      /\ caps' = InsertCap(caps, req.id, req.cap)
      /\ children' = AddChildToIndex(children, req.cap.parent, req.id)
      /\ plugins' = plugins \cup {req.cap.holder}
      /\ held' = [held EXCEPT ![req.cap.holder] = held[req.cap.holder] \cup {req.id}]
      /\ nextCapId' = nextCapId
  BY DEF DispatchCapDelegate, SetPluginMeta
<1> DEFINE id == req.id
           cap == req.cap
<1>2. /\ DOMAIN caps' = DOMAIN caps \cup {id}
      /\ DOMAIN caps' \subseteq CapId
      /\ caps' \in [DOMAIN caps' -> Capability]
      /\ caps'[id] = cap
      /\ \A c \in DOMAIN caps : caps'[c] = caps[c]
      /\ children' \in [CapId -> SUBSET CapId]
  <2> HIDE DEF id, cap
  <2> QED BY <1>0, <1>1, InsertFacts DEF id, cap
<1>3. IndexConsistent'
  BY <1>0, <1>1, InsertIndex
<1>4. CapTypeOK'
  <2>1. cap.holder \in PluginId
    BY <1>0 DEF Capability
  <2> QED BY <1>0, <1>1, <1>2, <2>1 DEF CapTypeOK
<1> QED BY <1>0, <1>1, <1>2, <1>3, <1>4

\* No dispatch changes an entry but to invalidate it.
LEMMA CoreEntriesKept ==
    ASSUME TableInv, [CoreNext]_coreVars PROVE EntriesKept
<1>1. CASE caps' = caps
  BY <1>1 DEF EntriesKept
<1>2. ASSUME NEW req \in approved, Dispatch(req) PROVE EntriesKept
  BY <1>2, DispatchFacts DEF Dispatch, EntriesKept
<1>3. ASSUME NEW c \in CapId, DispatchCapRevoke(c) PROVE EntriesKept
  BY <1>3, MarkRevokedFacts DEF DispatchCapRevoke, TableInv, CapTypeOK, EntriesKept
<1>4. \/ caps' = caps
      \/ \E req \in approved : Dispatch(req)
      \/ \E c \in CapId : DispatchCapRevoke(c)
  BY DEF CoreNext, coreVars, capVars, ApproveRoot, ApproveDelegation, Approve,
         DispatchCollision, DispatchSetPluginLevel, DispatchSetResourceLevel,
         DispatchTick, DispatchRotateKey
<1> QED BY <1>1, <1>2, <1>3, <1>4

\* So what was covered stays covered.
LEMMA CoveredKept ==
    ASSUME CapTypeOK, EntriesKept, NEW cap, Covered(cap) PROVE Covered(cap)'
<1>1. \A c \in DOMAIN caps : /\ c \in DOMAIN caps'
                             /\ caps'[c].target = caps[c].target
                             /\ caps'[c].rights = caps[c].rights
  BY DEF CapTypeOK, EntriesKept, Capability
<1> QED BY <1>1 DEF Covered

\* The shell approves only what is covered.
LEMMA ApproveCovered ==
    ASSUME TableInv, [CoreNext]_coreVars, NEW req \in approved', req \notin approved
    PROVE  req.id \in CapId /\ req.cap \in Capability /\ Covered(req.cap)
<1>1. ASSUME NEW p \in PluginId, NEW r \in ResourceId, ApproveRoot(p, r)
      PROVE  req.id \in CapId /\ req.cap \in Capability /\ Covered(req.cap)
  <2>1. req.id = 0 /\ req.cap = NewCapability(p, r, Right, None)
    BY <1>1 DEF ApproveRoot, Approve, Request
  <2>2. 0 \in CapId
    BY MaxCapIdAssumption DEF CapId
  <2> QED BY <2>1, <2>2 DEF NewCapability, Capability, Covered
<1>2. ASSUME NEW id \in CapId, NEW p \in PluginId, NEW parent \in DOMAIN caps,
             NEW rs \in SUBSET Right, ApproveDelegation(id, p, parent, rs)
      PROVE  req.id \in CapId /\ req.cap \in Capability /\ Covered(req.cap)
  <2>1. /\ req.id = id /\ req.cap = NewCapability(p, caps[parent].target, rs, parent)
        /\ rs \subseteq caps[parent].rights
    BY <1>2 DEF ApproveDelegation, Approve, Request
  <2>2. caps[parent] \in Capability /\ parent \in CapId
    BY DEF TableInv, CapTypeOK
  <2> QED BY <2>1, <2>2 DEF NewCapability, Capability, Covered
<1>3. \/ \E p \in PluginId, r \in ResourceId : ApproveRoot(p, r)
      \/ \E id \in CapId, p \in PluginId, parent \in DOMAIN caps, rs \in SUBSET Right :
            ApproveDelegation(id, p, parent, rs)
  BY DEF CoreNext, coreVars, Dispatch, DispatchCollision, DispatchCapRevoke,
         DispatchSetPluginLevel, DispatchSetResourceLevel, DispatchTick, DispatchRotateKey
<1> QED BY <1>1, <1>2, <1>3

\* Types, index and handles.
LEMMA CoreTableTypes ==
    ASSUME TableInv, [CoreNext]_coreVars
    PROVE  CapTypeOK' /\ IndexConsistent' /\ HandlesOwned'
<1>0. CapTypeOK /\ IndexConsistent /\ HandlesOwned
  BY DEF TableInv
<1>1. CASE UNCHANGED capVars
  BY <1>0, <1>1 DEF capVars, CapTypeOK, IndexConsistent, HandlesOwned
<1>2. ASSUME NEW req \in approved, Dispatch(req)
      PROVE  CapTypeOK' /\ IndexConsistent' /\ HandlesOwned'
  <2>1. DispatchCapDelegate(req)
    BY <1>2 DEF Dispatch
  <2>2. CapTypeOK' /\ IndexConsistent'
    BY <2>1, DispatchFacts
  <2>3. ASSUME NEW p \in PluginId, NEW c \in held'[p]
        PROVE  p \in plugins' /\ c \in DOMAIN caps' /\ caps'[c].holder = p
    <3>1. held \in [PluginId -> SUBSET CapId]
      BY <1>0 DEF CapTypeOK
    <3>2. CASE c \in held[p]
      BY <1>0, <2>1, <3>2, DispatchFacts DEF HandlesOwned
    <3>3. CASE c \notin held[p]
      <4>1. held' = [held EXCEPT ![req.cap.holder] = held[req.cap.holder] \cup {req.id}]
        BY <2>1, DispatchFacts
      <4>2. p = req.cap.holder /\ c = req.id
        BY <3>1, <3>3, <4>1
      <4> QED BY <2>1, <4>2, DispatchFacts
    <3> QED BY <3>2, <3>3
  <2> QED BY <2>2, <2>3 DEF HandlesOwned
<1>3. ASSUME NEW c \in CapId, DispatchCapRevoke(c)
      PROVE  CapTypeOK' /\ IndexConsistent' /\ HandlesOwned'
  <2>1. /\ DOMAIN caps' = DOMAIN caps /\ caps' \in [DOMAIN caps' -> Capability]
        /\ \A k \in DOMAIN caps : caps'[k].holder = caps[k].holder /\ caps'[k].parent = caps[k].parent
    BY <1>0, <1>3, MarkRevokedFacts DEF DispatchCapRevoke, CapTypeOK
  <2>2. children' = children /\ nextCapId' = nextCapId /\ plugins' = plugins /\ held' = held
    BY <1>3 DEF DispatchCapRevoke
  <2>3. CapTypeOK'
    BY <1>0, <2>1, <2>2 DEF CapTypeOK
  <2>4. IndexConsistent'
    BY <1>0, <2>1, <2>2 DEF IndexConsistent
  <2>5. HandlesOwned'
    BY <1>0, <2>1, <2>2 DEF HandlesOwned, CapTypeOK
  <2> QED BY <2>3, <2>4, <2>5
<1>4. ASSUME NEW p \in PluginId, NEW l \in Level, DispatchSetPluginLevel(p, l)
      PROVE  CapTypeOK' /\ IndexConsistent' /\ HandlesOwned'
  <2>1. /\ UNCHANGED <<caps, children, nextCapId>>
        /\ plugins' = plugins \cup {p} /\ held' = held
    BY <1>0, <1>4 DEF DispatchSetPluginLevel, SetPluginMeta, CapTypeOK
  <2> QED BY <1>0, <2>1 DEF CapTypeOK, IndexConsistent, HandlesOwned
<1>5. \/ UNCHANGED capVars
      \/ \E req \in approved : Dispatch(req)
      \/ \E c \in CapId : DispatchCapRevoke(c)
      \/ \E p \in PluginId, l \in Level : DispatchSetPluginLevel(p, l)
  BY DEF CoreNext, coreVars, ApproveRoot, ApproveDelegation, Approve,
         DispatchCollision, DispatchSetResourceLevel, DispatchTick, DispatchRotateKey
<1> QED BY <1>1, <1>2, <1>3, <1>4, <1>5

\* Every entry of the table after a step was there before, or came from an
\* approved request.
LEMMA NewEntryWasApproved ==
    ASSUME TableInv, [CoreNext]_coreVars, NEW c \in DOMAIN caps'
    PROVE  c \in DOMAIN caps \/ \E req \in approved : Dispatch(req) /\ c = req.id /\ caps'[c] = req.cap
<1>1. CASE caps' = caps
  BY <1>1
<1>2. ASSUME NEW req \in approved, Dispatch(req)
      PROVE  c \in DOMAIN caps \/ (Dispatch(req) /\ c = req.id /\ caps'[c] = req.cap)
  BY <1>2, DispatchFacts DEF Dispatch
<1>3. ASSUME NEW k \in CapId, DispatchCapRevoke(k) PROVE c \in DOMAIN caps
  BY <1>3, MarkRevokedFacts DEF DispatchCapRevoke, TableInv, CapTypeOK
<1>4. \/ caps' = caps
      \/ \E req \in approved : Dispatch(req)
      \/ \E k \in CapId : DispatchCapRevoke(k)
  BY DEF CoreNext, coreVars, capVars, ApproveRoot, ApproveDelegation, Approve,
         DispatchCollision, DispatchSetPluginLevel, DispatchSetResourceLevel,
         DispatchTick, DispatchRotateKey
<1> QED BY <1>1, <1>2, <1>3, <1>4

\* Every step keeps the table invariant.
LEMMA TableStep == TableInv /\ [CoreNext]_coreVars => TableInv'
<1> SUFFICES ASSUME TableInv, [CoreNext]_coreVars PROVE TableInv'
  OBVIOUS
<1>0. CapTypeOK /\ EntriesKept
  BY CoreEntriesKept DEF TableInv
<1>1. CapTypeOK' /\ IndexConsistent' /\ HandlesOwned'
  BY CoreTableTypes
<1>2. ASSUME NEW req \in approved'
      PROVE  req.id \in CapId /\ req.cap \in Capability /\ Covered(req.cap)'
  <2>1. req.id \in CapId /\ req.cap \in Capability /\ Covered(req.cap)
    BY ApproveCovered DEF TableInv
  <2> QED BY <1>0, <2>1, CoveredKept
<1>3. ASSUME NEW c \in DOMAIN caps' PROVE Covered(caps[c])'
  <2>1. CASE c \in DOMAIN caps
    <3>1. Covered(caps[c])
      BY <2>1 DEF TableInv
    <3>2. /\ caps'[c].parent = caps[c].parent /\ caps'[c].target = caps[c].target
          /\ caps'[c].rights = caps[c].rights
      BY <1>0, <2>1 DEF CapTypeOK, EntriesKept, Capability
    <3>3. \A k \in DOMAIN caps : /\ k \in DOMAIN caps'
                                 /\ caps'[k].target = caps[k].target
                                 /\ caps'[k].rights = caps[k].rights
      BY <1>0 DEF CapTypeOK, EntriesKept, Capability
    <3> QED BY <3>1, <3>2, <3>3 DEF Covered
  <2>2. ASSUME NEW req \in approved, caps'[c] = req.cap PROVE Covered(caps[c])'
    <3>1. Covered(req.cap)'
      BY <1>0, CoveredKept DEF TableInv
    <3> QED BY <2>2, <3>1 DEF Covered
  <2> QED BY <2>1, <2>2, NewEntryWasApproved
<1> QED BY <1>1, <1>2, <1>3 DEF TableInv

\* The empty core.
LEMMA TableInit == CoreInit => TableInv
<1> SUFFICES ASSUME CoreInit PROVE TableInv
  OBVIOUS
<1>1. CapTypeOK
  BY TypeInit DEF CoreInit
<1>2. DOMAIN caps = {} /\ approved = {} /\ \A p \in PluginId : held[p] = {}
  BY DEF CoreInit, CapInit
<1>3. IndexConsistent
  BY <1>2 DEF CoreInit, CapInit, IndexConsistent
<1> QED BY <1>1, <1>2, <1>3 DEF TableInv, HandlesOwned

\* The invariant holds in every reachable state.
LEMMA TableInvariant == CoreSpec => []TableInv
BY TableInit, TableStep, PTL DEF CoreSpec

-----------------------------------------------------------------------------
(* Orphans *)

\* A revocation reaches every capability below the one it names, so it leaves
\* no valid capability under a parent it invalidates.
LEMMA OrphansStep ==
    ASSUME TableInv, OrphansOvertaken, [CoreNext]_coreVars PROVE OrphansOvertaken'
<1>0. CapTypeOK /\ IndexConsistent /\ EntriesKept
  BY CoreEntriesKept DEF TableInv
<1>1. CASE UNCHANGED <<caps, overtaken>>
  BY <1>1 DEF OrphansOvertaken, CapIsValid
<1>2. ASSUME NEW req \in approved, Dispatch(req) PROVE OrphansOvertaken'
  <2>1. /\ DOMAIN caps' = DOMAIN caps \cup {req.id} /\ caps'[req.id] = req.cap
        /\ \A c \in DOMAIN caps : caps'[c] = caps[c]
    BY <1>2, DispatchFacts DEF Dispatch
  <2>2. overtaken' = IF req.cap.parent # None /\ ~CapIsValid(req.cap.parent)
                     THEN overtaken \cup {req.id} ELSE overtaken
    BY <1>2 DEF Dispatch
  <2>3. \A c : CapIsValid(c) => CapIsValid(c)'
    BY <2>1 DEF CapIsValid
  <2>4. ASSUME NEW c \in DOMAIN caps', caps'[c].valid, caps'[c].parent # None,
               ~CapIsValid(caps'[c].parent)
        PROVE  c \in overtaken'
    <3>1. CASE c \in DOMAIN caps
      BY <2>1, <2>2, <2>4, <3>1 DEF OrphansOvertaken
    <3>2. CASE c \notin DOMAIN caps
      <4>1. c = req.id /\ caps'[c] = req.cap
        BY <2>1, <3>2
      <4> QED BY <2>2, <2>4, <4>1
    <3> QED BY <3>1, <3>2
  <2>5. ASSUME NEW c \in DOMAIN caps', caps'[c].parent # None,
               ~CapIsValid(caps[c].parent)'
        PROVE  ~CapIsValid(caps'[c].parent)
    BY <2>5, <2>1 DEF CapIsValid
  <2> QED BY <2>4, <2>5 DEF OrphansOvertaken
<1>3. ASSUME NEW c \in CapId, DispatchCapRevoke(c) PROVE OrphansOvertaken'
  <2> DEFINE R == FastRevokeSet(caps, children, c)
  <2>1. /\ DOMAIN caps' = DOMAIN caps /\ overtaken' = overtaken
        /\ \A k \in DOMAIN caps : /\ caps'[k].parent = caps[k].parent
                                  /\ caps'[k].valid <=> (caps[k].valid /\ k \notin R)
    BY <1>0, <1>3, MarkRevokedFacts DEF DispatchCapRevoke, CapTypeOK
  <2>2. ASSUME NEW k \in DOMAIN caps, caps[k].parent \in R PROVE k \in R
    <3>1. k \in CapId /\ caps[k].parent \in CapId
      BY <1>0, <2>2 DEF CapTypeOK, R, FastRevokeSet
    <3>2. k \in children[caps[k].parent]
      BY <1>0, <3>1 DEF IndexConsistent
    <3>3. k \in CollectDescendants(children, c)
      BY <1>0, <2>2, <3>2, DescendantsClosed DEF CapTypeOK, R, FastRevokeSet
    <3> QED BY <3>3 DEF R, FastRevokeSet
  <2> HIDE DEF R
  <2>3. ASSUME NEW k \in DOMAIN caps, caps'[k].valid, caps[k].parent # None,
               ~CapIsValid(caps[k].parent)'
        PROVE  k \in overtaken
    <3>1. caps[k].valid /\ k \notin R
      BY <2>1, <2>3
    <3>2. ~CapIsValid(caps[k].parent)
      <4>1. caps'[k].parent = caps[k].parent
        BY <2>1
      <4>2. caps[k].parent \notin R
        BY <2>2, <3>1
      <4> QED BY <2>1, <2>3, <4>1, <4>2 DEF CapIsValid
    <3> QED BY <2>3, <3>1, <3>2 DEF OrphansOvertaken
  <2> QED BY <2>1, <2>3 DEF OrphansOvertaken
<1>4. \/ UNCHANGED <<caps, overtaken>>
      \/ \E req \in approved : Dispatch(req)
      \/ \E c \in CapId : DispatchCapRevoke(c)
  BY DEF CoreNext, coreVars, capVars, ApproveRoot, ApproveDelegation, Approve,
         DispatchCollision, DispatchSetPluginLevel, DispatchSetResourceLevel,
         DispatchTick, DispatchRotateKey
<1> QED BY <1>1, <1>2, <1>3, <1>4

\* For any number of approved and repeated requests, a valid capability with a
\* revoked parent is one whose dispatch a revocation overtook.
THEOREM RevocationMissesOnlyOvertaken == CoreSpec => []OrphansOvertaken
<1>1. CoreInit => OrphansOvertaken
  BY DEF CoreInit, CapInit, OrphansOvertaken
<1>2. TableInv /\ OrphansOvertaken /\ [CoreNext]_coreVars => OrphansOvertaken'
  BY OrphansStep
<1> QED BY <1>1, <1>2, TableInvariant, PTL DEF CoreSpec

-----------------------------------------------------------------------------
(* Seals *)

\* The previous key and its epoch come together, one epoch back.
PreviousPaired ==
    \/ previous = None /\ previousEpoch = None
    \/ previous \in Key /\ previousEpoch \in Nat /\ previousEpoch + 1 = epoch

\* A seal carries an epoch that has been, and the tag of the key of its epoch
\* as long as that key is known.
SealOfEpoch(s) ==
    /\ s.payload.epoch \in Nat /\ s.payload.epoch <= epoch
    /\ s.payload.epoch = epoch => s.tag = Keys!SealPayload(current, s.payload)
    /\ previous # None /\ s.payload.epoch + 1 = epoch =>
          s.tag = Keys!SealPayload(previous, s.payload)

\* The seals of the table and those of the requests that may still enter it.
SealInv ==
    /\ current \in Key /\ epoch \in 0..MaxEpoch /\ PreviousPaired
    /\ DOMAIN seal = DOMAIN caps
    /\ \A c \in DOMAIN seal : SealOfEpoch(seal[c])
    /\ \A req \in approved : SealOfEpoch(req.seal)

\* A rotation, to whatever key, keeps what is known of a seal.
LEMMA RotationKeepsSeals ==
    ASSUME SealInv, NEW k \in Key, DispatchRotateKey(k), NEW s, SealOfEpoch(s)
    PROVE  SealOfEpoch(s)'
<1>1. /\ previous' = current /\ current' = k /\ epoch' = epoch + 1
  BY DEF DispatchRotateKey, Keys!RotateKey
<1>2. s.payload.epoch \in Nat /\ s.payload.epoch <= epoch /\ epoch \in Nat
  BY CoreAssumption DEF SealInv, SealOfEpoch
<1> QED BY <1>1, <1>2 DEF SealOfEpoch, Keys!SealPayload, Keys!SerializePayload

\* Without a rotation nothing about a seal changes.
LEMMA SealsStay ==
    ASSUME UNCHANGED keyState, NEW s, SealOfEpoch(s) PROVE SealOfEpoch(s)'
  BY DEF keyState, SealOfEpoch, Keys!SealPayload, Keys!SerializePayload

\* The shell seals with the current key.
LEMMA RequestSealed ==
    ASSUME SealInv, NEW id, NEW cap PROVE SealOfEpoch(Request(id, cap).seal)
<1> DEFINE pl == [parent |-> cap.parent, epoch |-> epoch]
<1>1. /\ Request(id, cap).seal.payload = pl /\ pl.epoch = epoch
      /\ Request(id, cap).seal.tag = Keys!SealPayload(current, pl)
  BY DEF Request
<1>2. epoch \in Nat
  BY CoreAssumption DEF SealInv
<1> HIDE DEF pl
<1> QED BY <1>1, <1>2 DEF SealOfEpoch

\* Every step keeps the invariant of the seals.
LEMMA SealStep ==
    ASSUME TableInv, SealInv, [CoreNext]_coreVars PROVE SealInv'
<1>0. /\ current \in Key /\ epoch \in 0..MaxEpoch /\ PreviousPaired
      /\ DOMAIN seal = DOMAIN caps
      /\ \A c \in DOMAIN seal : SealOfEpoch(seal[c])
      /\ \A req \in approved : SealOfEpoch(req.seal)
  BY DEF SealInv
<1>1. ASSUME UNCHANGED <<keyState, seal>>, DOMAIN caps' = DOMAIN caps,
             \A req \in approved' : SealOfEpoch(req.seal)
      PROVE  SealInv'
  <2>1. \A req \in approved' : SealOfEpoch(req.seal)'
    BY <1>1, SealsStay
  <2>2. \A c \in DOMAIN seal' : SealOfEpoch(seal[c])'
    BY <1>0, <1>1 DEF keyState, SealOfEpoch, Keys!SealPayload, Keys!SerializePayload
  <2>3. current' \in Key /\ epoch' \in 0..MaxEpoch /\ PreviousPaired'
    BY <1>0, <1>1 DEF keyState, PreviousPaired
  <2> QED BY <1>0, <1>1, <2>1, <2>2, <2>3 DEF SealInv
<1>2. ASSUME NEW id, NEW cap, Approve(id, cap) PROVE SealInv'
  <2>1. /\ approved' = approved \cup {Request(id, cap)} /\ UNCHANGED <<keyState, seal>>
        /\ caps' = caps
    BY <1>2 DEF Approve, capVars
  <2>2. \A req \in approved' : SealOfEpoch(req.seal)
    BY <1>0, <2>1, RequestSealed
  <2> QED BY <1>1, <2>1, <2>2
<1>3. ASSUME NEW req \in approved, Dispatch(req) PROVE SealInv'
  <2>1. /\ seal' = InsertCap(seal, req.id, req.seal) /\ UNCHANGED keyState
        /\ approved' \subseteq approved
    BY <1>3 DEF Dispatch, DispatchCapDelegate
  <2>2. DOMAIN caps' = DOMAIN caps \cup {req.id} /\ req.id \notin DOMAIN caps
    BY <1>3, DispatchFacts DEF Dispatch
  <2>3. /\ DOMAIN seal' = DOMAIN seal \cup {req.id} /\ seal'[req.id] = req.seal
        /\ \A c \in DOMAIN seal : seal'[c] = seal[c]
    BY <1>0, <2>1, <2>2 DEF InsertCap
  <2>4. \A c \in DOMAIN seal' : SealOfEpoch(seal'[c])
    BY <1>0, <2>3
  <2>5. \A c \in DOMAIN seal' : SealOfEpoch(seal[c])'
    BY <2>1, <2>4 DEF keyState, SealOfEpoch, Keys!SealPayload, Keys!SerializePayload
  <2>6. \A r \in approved' : SealOfEpoch(r.seal)'
    BY <1>0, <2>1, SealsStay
  <2>7. current' \in Key /\ epoch' \in 0..MaxEpoch /\ PreviousPaired'
    BY <1>0, <2>1 DEF keyState, PreviousPaired
  <2> QED BY <1>0, <2>2, <2>3, <2>5, <2>6, <2>7 DEF SealInv
<1>4. ASSUME NEW c \in CapId, DispatchCapRevoke(c) PROVE SealInv'
  <2>1. UNCHANGED <<keyState, seal, approved>> /\ DOMAIN caps' = DOMAIN caps
    BY <1>4, MarkRevokedFacts DEF DispatchCapRevoke, TableInv, CapTypeOK
  <2> QED BY <1>0, <1>1, <2>1
<1>5. ASSUME NEW k \in Key, DispatchRotateKey(k) PROVE SealInv'
  <2>1. /\ epoch < MaxEpoch /\ previous' = current /\ previousEpoch' = epoch
        /\ current' = k /\ epoch' = epoch + 1
        /\ seal' = seal /\ approved' = approved /\ caps' = caps
    BY <1>5 DEF DispatchRotateKey, Keys!RotateKey, capVars
  <2>2. current' \in Key /\ epoch' \in 0..MaxEpoch /\ PreviousPaired'
    BY <1>0, <2>1, CoreAssumption DEF PreviousPaired
  <2>3. \A r \in approved' : SealOfEpoch(r.seal)'
    BY <1>0, <1>5, <2>1, RotationKeepsSeals
  <2>4. ASSUME NEW c \in DOMAIN seal PROVE SealOfEpoch(seal[c])'
    <3> DEFINE s == seal[c]
    <3>1. s.payload.epoch \in Nat /\ s.payload.epoch <= epoch /\ epoch \in Nat
      BY <1>0, CoreAssumption DEF SealOfEpoch
    <3>2. SealOfEpoch(s)
      BY <1>0
    <3> QED BY <2>1, <3>1, <3>2 DEF SealOfEpoch, Keys!SealPayload, Keys!SerializePayload
  <2> QED BY <1>0, <2>1, <2>2, <2>3, <2>4 DEF SealInv
<1>6. \/ \E id, cap : Approve(id, cap)
      \/ \E req \in approved : Dispatch(req)
      \/ \E c \in CapId : DispatchCapRevoke(c)
      \/ \E k \in Key : DispatchRotateKey(k)
      \/ UNCHANGED <<keyState, seal, caps>> /\ approved' \subseteq approved
  BY DEF CoreNext, coreVars, capVars, ApproveRoot, ApproveDelegation,
         DispatchCollision, DispatchSetPluginLevel, DispatchSetResourceLevel,
         DispatchTick
<1>7. CASE UNCHANGED <<keyState, seal, caps>> /\ approved' \subseteq approved
  BY <1>0, <1>1, <1>7
<1> QED BY <1>2, <1>3, <1>4, <1>5, <1>6, <1>7

\* The two invariants hold in every reachable state.
LEMMA SealInvariant == CoreSpec => [](TableInv /\ SealInv)
<1>1. CoreInit => SealInv
  <2>1. CoreInit => DOMAIN caps = {} /\ DOMAIN seal = {} /\ approved = {}
    BY DEF CoreInit, CapInit
  <2>2. CoreInit => current \in Key /\ epoch = 0 /\ previous = None /\ previousEpoch = None
    BY DEF CoreInit, Keys!KeysInit
  <2> QED BY <2>1, <2>2, CoreAssumption DEF SealInv, PreviousPaired
<1>2. TableInv /\ SealInv /\ [CoreNext]_coreVars => SealInv'
  BY SealStep
<1> QED BY <1>1, <1>2, TableInvariant, PTL DEF CoreSpec

\* The epochs whose seals are accepted.
InWindow(c) ==
    \/ seal[c].payload.epoch = epoch
    \/ previous # None /\ seal[c].payload.epoch + 1 = epoch

\* A capability of the table verifies exactly while its key is the current one
\* or the one before.
SealsVerifyInWindow ==
    \A c \in DOMAIN caps :
        /\ VerifyCapSeal(c) <=> InWindow(c)
        /\ seal[c].payload.epoch \in Nat /\ seal[c].payload.epoch <= epoch /\ epoch \in Nat

\* What is known of the seals implies it.
LEMMA SealWindow == SealInv => SealsVerifyInWindow
<1> SUFFICES ASSUME SealInv, NEW c \in DOMAIN caps
             PROVE  /\ VerifyCapSeal(c) <=> InWindow(c)
                    /\ seal[c].payload.epoch \in Nat /\ seal[c].payload.epoch <= epoch
                    /\ epoch \in Nat
  BY DEF SealsVerifyInWindow
<1> DEFINE s == seal[c]
<1>1. SealOfEpoch(s) /\ epoch \in Nat /\ PreviousPaired
  BY CoreAssumption DEF SealInv
<1>2. Keys!EpochValid(s.payload.epoch) <=> InWindow(c)
  BY <1>1, CoreAssumption DEF Keys!EpochValid, SealOfEpoch, PreviousPaired, InWindow
<1>3. ASSUME InWindow(c) PROVE Keys!VerifySeal(s.payload, s.tag)
  BY <1>1, <1>3 DEF SealOfEpoch, Keys!VerifySeal, InWindow
<1>4. VerifyCapSeal(c) <=> InWindow(c)
  BY <1>2, <1>3 DEF VerifyCapSeal, Keys!VerifyCapSeal
<1> QED BY <1>1, <1>4 DEF SealOfEpoch

\* The same after a step.
LEMMA SealWindowNext == SealInv' => SealsVerifyInWindow'
BY SealWindow, PTL

-----------------------------------------------------------------------------
(* Use *)

\* What is below a capability is covered by it: the covered ones form a set
\* closed under the index.
LEMMA ChainsCovered ==
    ASSUME TableInv, NEW a \in DOMAIN caps, NEW c \in CollectDescendants(children, a)
    PROVE  caps[c].target = caps[a].target /\ caps[c].rights \subseteq caps[a].rights
<1> DEFINE S == {d \in DOMAIN caps : /\ caps[d].target = caps[a].target
                                     /\ caps[d].rights \subseteq caps[a].rights}
<1>1. S \in SUBSET CapId /\ a \in S
  BY DEF TableInv, CapTypeOK
<1>2. ASSUME NEW p \in S, NEW k \in children[p] PROVE k \in S
  <2>1. p \in CapId /\ k \in CapId
    BY <1>1, <1>2 DEF TableInv, CapTypeOK
  <2>2. k \in DOMAIN caps /\ caps[k].parent = p /\ p # None
    BY <2>1, NoneAssumption DEF TableInv, IndexConsistent
  <2> QED BY <2>2 DEF TableInv, Covered
<1>3. CollectDescendants(children, a) \subseteq S
  <2> HIDE DEF S
  <2> QED BY <1>1, <1>2, DescendantsLeast
<1> QED BY <1>3

\* For every instance of the core a capability that a plugin can use is its
\* own, sealed under the current key or the one before it, and gives nothing
\* that any of its ancestors does not give.
THEOREM UseIsEntitled == CoreSpec => []UsableEntitled
<1>1. TableInv /\ SealInv => UsableEntitled
  <2> SUFFICES ASSUME TableInv, SealInv, NEW p \in PluginId, NEW c \in DOMAIN caps, Usable(p, c)
               PROVE  /\ caps[c].holder = p
                      /\ seal[c].payload.epoch \in {epoch, epoch - 1}
                      /\ \A a \in DOMAIN caps : c \in CollectDescendants(children, a) =>
                            caps[c].target = caps[a].target /\ caps[c].rights \subseteq caps[a].rights
    BY DEF UsableEntitled
  <2>1. caps[c].holder = p
    BY DEF Usable, PluginHolds, TableInv, HandlesOwned
  <2>2. seal[c].payload.epoch \in {epoch, epoch - 1}
    BY SealWindow DEF SealsVerifyInWindow, Usable, InWindow
  <2>3. \A a \in DOMAIN caps : c \in CollectDescendants(children, a) =>
           caps[c].target = caps[a].target /\ caps[c].rights \subseteq caps[a].rights
    BY ChainsCovered
  <2> QED BY <2>1, <2>2, <2>3
<1> QED BY <1>1, SealInvariant, PTL

\* A step brings back none of the three conditions of use.
LEMMA UseNotRegained ==
    ASSUME TableInv, SealInv, TableInv', SealInv', [CoreNext]_coreVars,
           NEW c \in DOMAIN caps, NEW p \in PluginId, Usable(p, c)'
    PROVE  Usable(p, c)
<1>1. EntriesKept
  BY CoreEntriesKept
<1>2. c \in DOMAIN caps'
  BY <1>1 DEF EntriesKept
<1>3. CapIsValid(c)
  BY <1>1 DEF EntriesKept, CapIsValid, Usable, TableInv, CapTypeOK, Capability
<1>4. PluginHolds(p, c)
  <2>1. p \in plugins' /\ c \in held'[p]
    BY DEF Usable, PluginHolds
  <2>2. c \in held[p]
    <3>1. held \in [PluginId -> SUBSET CapId]
      BY DEF TableInv, CapTypeOK
    <3>2. ASSUME NEW req \in approved, Dispatch(req) PROVE c \in held[p]
      <4>1. /\ held' = [held EXCEPT ![req.cap.holder] = held[req.cap.holder] \cup {req.id}]
            /\ req.id \notin DOMAIN caps
        BY <3>2, DispatchFacts DEF Dispatch
      <4> QED BY <2>1, <3>1, <4>1
    <3>3. ASSUME NEW q \in PluginId, NEW l \in Level, DispatchSetPluginLevel(q, l)
          PROVE  c \in held[p]
      BY <2>1, <3>1, <3>3 DEF DispatchSetPluginLevel, SetPluginMeta
    <3>4. \/ held' = held
          \/ \E req \in approved : Dispatch(req)
          \/ \E q \in PluginId, l \in Level : DispatchSetPluginLevel(q, l)
      BY DEF CoreNext, coreVars, capVars, ApproveRoot, ApproveDelegation, Approve,
             DispatchCollision, DispatchCapRevoke, DispatchSetResourceLevel,
             DispatchTick, DispatchRotateKey
    <3> QED BY <2>1, <3>2, <3>3, <3>4
  <2> QED BY <2>2 DEF TableInv, HandlesOwned, PluginHolds
<1>5. VerifyCapSeal(c)
  <2>1. InWindow(c)'
    BY <1>2, SealWindowNext DEF SealsVerifyInWindow, Usable
  <2>2. seal'[c] = seal[c]
    <3>1. ASSUME NEW req \in approved, Dispatch(req) PROVE seal'[c] = seal[c]
      <4>1. seal' = InsertCap(seal, req.id, req.seal) /\ req.id \notin DOMAIN caps
        BY <3>1 DEF Dispatch, DispatchCapDelegate
      <4> QED BY <4>1 DEF SealInv, InsertCap
    <3>2. seal' = seal \/ \E req \in approved : Dispatch(req)
      BY DEF CoreNext, coreVars, ApproveRoot, ApproveDelegation, Approve,
             DispatchCollision, DispatchCapRevoke, DispatchSetPluginLevel,
             DispatchSetResourceLevel, DispatchTick, DispatchRotateKey
    <3> QED BY <3>1, <3>2
  <2>3. UNCHANGED <<epoch, previous>> \/ epoch' = epoch + 1
    BY DEF CoreNext, coreVars, keyState, ApproveRoot, ApproveDelegation, Approve,
           Dispatch, DispatchCapDelegate, DispatchCollision, DispatchCapRevoke,
           DispatchSetPluginLevel, DispatchSetResourceLevel, DispatchTick,
           DispatchRotateKey, Keys!RotateKey
  <2>4. /\ VerifyCapSeal(c) <=> InWindow(c)
        /\ seal[c].payload.epoch \in Nat /\ seal[c].payload.epoch <= epoch /\ epoch \in Nat
    BY SealWindow DEF SealsVerifyInWindow
  <2>5. InWindow(c)
    BY <2>1, <2>2, <2>3, <2>4 DEF InWindow
  <2> QED BY <2>4, <2>5
<1> QED BY <1>3, <1>4, <1>5 DEF Usable

\* For every instance of the core a capability of the table that a plugin
\* cannot use never becomes usable for it: no later delegation, change of
\* metadata or rotation, be it to a key that was in use before, brings it back.
THEOREM UseIsLostForGood == CoreSpec => UsabilityFinal
<1> DEFINE Final == \A c \in DOMAIN caps : \A p \in PluginId : ~Usable(p, c) => ~Usable(p, c)'
<1>1. TableInv /\ SealInv /\ (TableInv /\ SealInv)' /\ [CoreNext]_coreVars => [Final]_coreVars
  BY UseNotRegained
<1> QED BY <1>1, SealInvariant, PTL DEF CoreSpec, UsabilityFinal
=============================================================================
