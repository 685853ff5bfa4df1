------------------------ MODULE SealsAndPolicyProofs ------------------------
(***************************************************************************)
(* The checks in front of every capability use that keep little state:     *)
(* seals under rotating keys, for any keys, any number of rotations and    *)
(* of minted capabilities; and the policy combinators, which never decide  *)
(* for a source that has not answered, in expressions of any size.         *)
(***************************************************************************)
EXTENDS Keys, Policy, TLAPS

-----------------------------------------------------------------------------
(* Seals *)

\* The previous key and its epoch come and go together, one epoch back.
PreviousPaired ==
    \/ previous = None /\ previousEpoch = None
    \/ previous \in Key /\ previousEpoch \in Nat /\ previousEpoch + 1 = epoch

\* A minted capability carries an epoch that has been, and a seal under the
\* key of its epoch as long as that key is known.
SealOfEpoch(c) ==
    /\ c.payload \in Payload
    /\ c.payload.epoch <= epoch
    /\ \E k \in Key : c.tag = SealPayload(k, c.payload)
    /\ c.payload.epoch = epoch => c.tag = SealPayload(current, c.payload)
    /\ previous # None /\ c.payload.epoch + 1 = epoch =>
          c.tag = SealPayload(previous, c.payload)

KeysInv ==
    /\ current \in Key
    /\ epoch \in 0..MaxEpoch
    /\ PreviousPaired
    /\ \A c \in minted : SealOfEpoch(c)

-----------------------------------------------------------------------------
\* The initial key state satisfies the invariant.
LEMMA KeysInitInv == KeysInit => KeysInv
BY KeysAssumption DEF KeysInit, KeysInv, PreviousPaired

\* Minting, rotating to any key and ending the grace period preserve it.
LEMMA KeysStepInv == KeysInv /\ [KeysNext]_keyVars => KeysInv'
<1> SUFFICES ASSUME KeysInv, [KeysNext]_keyVars PROVE KeysInv'
    OBVIOUS
<1>1. ASSUME NEW p \in ParentId \cup {None}, Mint(p) PROVE KeysInv'
    <2> DEFINE pl == [parent |-> p, epoch |-> epoch]
               new == [payload |-> pl, tag |-> SealPayload(current, pl)]
    <2>1. minted' = minted \cup {new} /\ UNCHANGED <<current, epoch, previous, previousEpoch>>
        BY <1>1 DEF Mint
    <2>2. SealOfEpoch(new)
        <3>1. new.payload = pl /\ pl.epoch = epoch /\ new.tag = SealPayload(current, new.payload)
            OBVIOUS
        <3>2. pl \in Payload
            BY DEF Payload, KeysInv
        <3> QED
            BY <3>1, <3>2, KeysAssumption DEF SealOfEpoch, KeysInv
    <2>3. \A c \in minted' : SealOfEpoch(c)
        BY <2>1, <2>2 DEF KeysInv
    <2>4. \A c \in minted' : SealOfEpoch(c)'
        BY <2>1, <2>3 DEF SealOfEpoch, SealPayload, SerializePayload
    <2> QED
        BY <2>1, <2>4 DEF KeysInv, PreviousPaired
<1>2. ASSUME NEW k \in Key, RotateKey(k) PROVE KeysInv'
    <2>1. epoch \in Nat /\ epoch' = epoch + 1 /\ epoch < MaxEpoch /\ MaxEpoch \in Nat
        BY <1>2, KeysAssumption DEF RotateKey, KeysInv
    <2>2. PreviousPaired' /\ current' \in Key /\ epoch' \in 0..MaxEpoch
        BY <1>2, <2>1 DEF RotateKey, KeysInv, PreviousPaired
    <2>3. ASSUME NEW c \in minted PROVE SealOfEpoch(c)'
        <3>1. SealOfEpoch(c) /\ c.payload.epoch \in Nat
            BY KeysAssumption DEF KeysInv, SealOfEpoch, Payload
        <3> QED
            BY <1>2, <2>1, <3>1 DEF RotateKey, SealOfEpoch, SealPayload, SerializePayload
    <2> QED
        BY <1>2, <2>2, <2>3 DEF KeysInv, RotateKey
<1>3. ASSUME ClearPrevious PROVE KeysInv'
    BY <1>3 DEF ClearPrevious, KeysInv, PreviousPaired, SealOfEpoch, SealPayload, SerializePayload
<1>4. ASSUME UNCHANGED keyVars PROVE KeysInv'
    BY <1>4 DEF keyVars, KeysInv, PreviousPaired, SealOfEpoch, SealPayload, SerializePayload
<1> QED
    BY <1>1, <1>2, <1>3, <1>4 DEF KeysNext

LEMMA KeysInvariant == KeysSpec => []KeysInv
BY KeysInitInv, KeysStepInv, PTL DEF KeysSpec

-----------------------------------------------------------------------------
\* Two payloads have the same serialization only if they are equal.
LEMMA SerializeInjective ==
    ASSUME NEW p \in Payload, NEW q \in Payload,
           SerializePayload(p) = SerializePayload(q)
    PROVE  p = q
<1>1. p.epoch = q.epoch
    BY DEF SerializePayload
<1>2. p.parent = q.parent
    <2> DEFINE Code(x) == IF x.parent = None THEN 0 ELSE x.parent + 1
    <2>1. Code(p) = Code(q)
        BY DEF SerializePayload
    <2>2. p.parent \in Nat \cup {None} /\ q.parent \in Nat \cup {None}
        BY KeysAssumption DEF Payload
    <2> QED
        BY <2>1, <2>2
<1> QED
    BY <1>1, <1>2 DEF Payload

\* In a state of the invariant a minted capability verifies exactly in its
\* window.
LEMMA Window ==
    ASSUME KeysInv, NEW c \in minted
    PROVE  VerifyCapSeal(c) <=>
               \/ c.payload.epoch = epoch
               \/ previous # None /\ c.payload.epoch + 1 = epoch
<1>1. SealOfEpoch(c) /\ c.payload.epoch \in Nat /\ epoch \in Nat /\ PreviousPaired
    BY KeysAssumption DEF KeysInv, SealOfEpoch, Payload
<1>2. EpochValid(c.payload.epoch) <=>
          \/ c.payload.epoch = epoch
          \/ previous # None /\ c.payload.epoch + 1 = epoch
    BY <1>1, KeysAssumption DEF EpochValid, SealOfEpoch, PreviousPaired
<1>3. ASSUME EpochValid(c.payload.epoch) PROVE VerifySeal(c.payload, c.tag)
    BY <1>1, <1>2, <1>3 DEF SealOfEpoch, VerifySeal
<1> QED
    BY <1>2, <1>3 DEF VerifyCapSeal

\* The invariant implies the property.
LEMMA InvGraceWindow == KeysInv => GraceWindow
BY Window DEF GraceWindow

\* A seal verifies exactly while its key is current or in its grace period
\* (KeyState::verify_with_epoch), for every sequence of rotations.
THEOREM GraceWindowHolds == KeysSpec => []GraceWindow
BY InvGraceWindow, KeysInvariant, PTL

\* A seal vouches for one payload (serialize_payload is injective).
THEOREM SealsBind == KeysSpec => []SealBindsPayload
<1>1. KeysInv => SealBindsPayload
    <2> SUFFICES ASSUME KeysInv, NEW c \in minted, NEW d \in minted,
                        VerifySeal(d.payload, c.tag)
                 PROVE  c.payload = d.payload
        BY DEF SealBindsPayload
    <2>1. c.payload \in Payload /\ d.payload \in Payload
        BY DEF KeysInv, SealOfEpoch
    <2>2. PICK k : c.tag = SealPayload(k, c.payload)
        BY DEF KeysInv, SealOfEpoch
    <2>3. PICK l : c.tag = SealPayload(l, d.payload)
        BY DEF VerifySeal
    <2>4. SerializePayload(c.payload) = SerializePayload(d.payload)
        BY <2>2, <2>3 DEF SealPayload
    <2> QED
        BY <2>1, <2>4, SerializeInjective
<1> QED
    BY <1>1, KeysInvariant, PTL

\* A capability that has stopped verifying never verifies again, even when
\* RotateKey puts an old key back in service.
THEOREM ExpiryHolds == KeysSpec => ExpiryIsFinal
<1>1. KeysInv /\ KeysInv' /\ [KeysNext]_keyVars
        => [\A c \in minted : ~VerifyCapSeal(c) => ~VerifyCapSeal(c)']_keyVars
    <2> SUFFICES ASSUME KeysInv, KeysInv', [KeysNext]_keyVars, NEW c \in minted,
                        VerifyCapSeal(c)'
                 PROVE  VerifyCapSeal(c)
        OBVIOUS
    <2>1. c \in minted'
        BY DEF KeysNext, Mint, RotateKey, ClearPrevious, keyVars
    <2>2. GraceWindow
        BY InvGraceWindow
    <2>3. GraceWindow'
        BY InvGraceWindow, PTL
    <2>4. c.payload.epoch \in Nat /\ c.payload.epoch <= epoch /\ epoch \in Nat
        BY KeysAssumption DEF KeysInv, SealOfEpoch, Payload
    <2>5. \/ c.payload.epoch = epoch'
          \/ previous' # None /\ c.payload.epoch + 1 = epoch'
        BY <2>1, <2>3 DEF GraceWindow
    <2>6. \/ c.payload.epoch = epoch
          \/ previous # None /\ c.payload.epoch + 1 = epoch
        <3>1. \/ UNCHANGED <<epoch, previous>>
              \/ epoch' = epoch + 1
              \/ epoch' = epoch /\ previous' = None
            BY DEF KeysNext, Mint, RotateKey, ClearPrevious, keyVars
        <3> QED
            BY <2>4, <2>5, <3>1
    <2> QED
        BY <2>2, <2>6 DEF GraceWindow
<1> QED
    BY <1>1, KeysInvariant, PTL DEF KeysSpec, ExpiryIsFinal

-----------------------------------------------------------------------------
(* Policy decisions *)

\* a agrees with the partial answer k.
Resolves(a, k) == k \in Decision /\ a \in Decision /\ (k # "Indeterminate" => a = k)

\* The inductive invariant: the final decision resolves the known one.
PolicyInv ==
    /\ known \in Decision /\ actual \in Decision /\ overridden \in BOOLEAN
    /\ ~overridden => Resolves(actual, known)

-----------------------------------------------------------------------------
\* combine, or, not and implies are monotone: they map answers that resolve
\* partial ones to a decision that resolves the partial decision.
LEMMA CombineMonotone ==
    ASSUME NEW a, NEW k, NEW b, NEW l, Resolves(a, k), Resolves(b, l)
    PROVE  Resolves(Combine(a, b), Combine(k, l))
BY DEF Resolves, Combine, Decision

LEMMA OrMonotone ==
    ASSUME NEW a, NEW k, NEW b, NEW l, Resolves(a, k), Resolves(b, l)
    PROVE  Resolves(OrPolicy(a, b), OrPolicy(k, l))
BY DEF Resolves, OrPolicy, Decision

LEMMA NotMonotone ==
    ASSUME NEW a, NEW k, Resolves(a, k)
    PROVE  Resolves(NotPolicy(a), NotPolicy(k))
BY DEF Resolves, NotPolicy, Decision

LEMMA ImpliesMonotone ==
    ASSUME NEW a, NEW k, NEW b, NEW l, Resolves(a, k), Resolves(b, l)
    PROVE  Resolves(ImpliesPolicy(a, b), ImpliesPolicy(k, l))
BY DEF Resolves, ImpliesPolicy, Decision

\* override is monotone in its second argument only.
LEMMA OverrideMonotone ==
    ASSUME NEW a \in Decision, NEW b, NEW l, Resolves(b, l)
    PROVE  Resolves(OverridePolicy(a, b), OverridePolicy(a, l))
BY DEF Resolves, OverridePolicy, Decision

\* Every combinator gives a decision.
LEMMA CombinatorsClosed ==
    ASSUME NEW d \in Decision, NEW e \in Decision
    PROVE  /\ Combine(d, e) \in Decision /\ OrPolicy(d, e) \in Decision
           /\ NotPolicy(d) \in Decision /\ OverridePolicy(d, e) \in Decision
           /\ ImpliesPolicy(d, e) \in Decision
<1>1. Combine(d, e) \in Decision /\ OrPolicy(d, e) \in Decision
  BY DEF Combine, OrPolicy, Decision
<1>2. NotPolicy(d) \in Decision /\ ImpliesPolicy(d, e) \in Decision
  BY DEF NotPolicy, ImpliesPolicy, Decision
<1>3. OverridePolicy(d, e) \in Decision
  BY DEF OverridePolicy
<1> QED BY <1>1, <1>2, <1>3

\* What a source says in the end resolves what it says now.
LEMMA AnswersResolve ==
    ASSUME NEW x \in Answer
    PROVE  Resolves(x[2], x[1])
BY DEF Answer, Resolves, Decision

\* A policy built from a decision permits exactly if the decision is Permit.
LEMMA CheckIsPermit ==
    ASSUME NEW d \in Decision
    PROVE  Check(FromDecision(d)) = "Permit" <=> d = "Permit"
BY DEF Decision, FromDecision, Eval, Check

-----------------------------------------------------------------------------
LEMMA PolicyInvInductive ==
    PolicyInv /\ [PolicyNext]_policyVars => PolicyInv'
<1> SUFFICES ASSUME PolicyInv, [PolicyNext]_policyVars PROVE PolicyInv'
  OBVIOUS
<1> USE DEF PolicyInv
<1>1. CASE UNCHANGED policyVars
  BY <1>1 DEF policyVars, Resolves
<1>2. ASSUME NEW x \in Answer, Begin(x) PROVE PolicyInv'
  BY <1>2, AnswersResolve DEF Begin, Resolves
<1>3. ASSUME NEW x \in Answer, AndAnswer(x) PROVE PolicyInv'
  <2>1. Resolves(x[2], x[1]) BY AnswersResolve
  <2>2. known' \in Decision /\ actual' \in Decision
    BY <1>3, <2>1, CombinatorsClosed DEF AndAnswer, Resolves
  <2> QED BY <1>3, <2>1, <2>2, CombineMonotone DEF AndAnswer
<1>4. ASSUME NEW x \in Answer, OrAnswer(x) PROVE PolicyInv'
  <2>1. Resolves(x[2], x[1]) BY AnswersResolve
  <2>2. known' \in Decision /\ actual' \in Decision
    BY <1>4, <2>1, CombinatorsClosed DEF OrAnswer, Resolves
  <2> QED BY <1>4, <2>1, <2>2, OrMonotone DEF OrAnswer
<1>5. ASSUME Negate PROVE PolicyInv'
  <2>1. known' \in Decision /\ actual' \in Decision
    BY <1>5, CombinatorsClosed DEF Negate
  <2> QED BY <1>5, <2>1, NotMonotone DEF Negate
<1>6. ASSUME NEW x \in Answer, Implies(x) PROVE PolicyInv'
  <2>1. Resolves(x[2], x[1]) BY AnswersResolve
  <2>2. x[1] \in Decision /\ x[2] \in Decision BY <2>1 DEF Resolves
  <2>3. /\ ImpliesPolicy(known, x[1]) \in Decision /\ ImpliesPolicy(actual, x[2]) \in Decision
        /\ ImpliesPolicy(x[1], known) \in Decision /\ ImpliesPolicy(x[2], actual) \in Decision
    BY <2>2, CombinatorsClosed
  <2>4. known' \in Decision /\ actual' \in Decision
    BY <1>6, <2>3 DEF Implies
  <2> QED BY <1>6, <2>1, <2>4, ImpliesMonotone DEF Implies
<1>7. ASSUME NEW x \in Answer, Override(x) PROVE PolicyInv'
  <2>1. Resolves(x[2], x[1]) BY AnswersResolve
  <2>2. x[1] \in Decision /\ x[2] \in Decision BY <2>1 DEF Resolves
  <2>3. /\ OverridePolicy(known, x[1]) \in Decision /\ OverridePolicy(actual, x[2]) \in Decision
        /\ OverridePolicy(x[1], known) \in Decision /\ OverridePolicy(x[2], actual) \in Decision
    BY <2>2, CombinatorsClosed
  <2>4. overridden' \in BOOLEAN
    BY <1>7, Zenon DEF Override
  <2>5. known' \in Decision /\ actual' \in Decision /\ overridden' \in BOOLEAN
    BY <1>7, <2>3, <2>4 DEF Override
  <2>6. ASSUME ~overridden' PROVE Resolves(actual', known')
    <3>1. CASE /\ known' = OverridePolicy(known, x[1]) /\ actual' = OverridePolicy(actual, x[2])
               /\ overridden' = (overridden \/ known # actual)
      BY <3>1, <2>1, <2>6, OverrideMonotone
    <3>2. CASE /\ known' = OverridePolicy(x[1], known) /\ actual' = OverridePolicy(x[2], actual)
               /\ overridden' = (overridden \/ x[1] # x[2])
      BY <3>2, <2>2, <2>6, OverrideMonotone
    <3> QED BY <1>7, <3>1, <3>2 DEF Override
  <2> QED BY <2>5, <2>6
<1> QED BY <1>1, <1>2, <1>3, <1>4, <1>5, <1>6, <1>7 DEF PolicyNext

\* A decision from partial answers is the one all answers would give, and
\* grants no more, however the combinators are composed, unless
\* override_policy took a first decision that was not final.
THEOREM PartialAnswersDecideNothing == PolicySpec => []MissingAnswersDecideNothing
<1>1. PolicyInit => PolicyInv
  BY DEF PolicyInit, PolicyInv, Resolves, Decision
<1>2. PolicyInv => MissingAnswersDecideNothing
  BY CheckIsPermit DEF PolicyInv, Resolves, MissingAnswersDecideNothing, Decision
<1> QED BY <1>1, <1>2, PolicyInvInductive, PTL DEF PolicySpec
=============================================================================
