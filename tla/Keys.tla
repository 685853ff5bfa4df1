-------------------------------- MODULE Keys --------------------------------
(***************************************************************************)
(* Capability seals and key rotation (KeyState).  Kernel::delegate_cap     *)
(* seals a capability with the current key and stamps it with the current  *)
(* epoch; rotation keeps the replaced key for a grace period.  Nothing     *)
(* makes the caller of rotate choose a key that was never used before.     *)
(*                                                                         *)
(* HMAC-SHA256 is taken as injective in key and data.  Of the payload the  *)
(* epoch and the parent are kept: the other fields are copied verbatim     *)
(* into their own bytes.                                                   *)
(***************************************************************************)
EXTENDS Naturals, FiniteSets

CONSTANTS
    Key,        \* key values
    ParentId,   \* parent ids of minted capabilities
    None,       \* the absent parent, previous key or previous epoch
    MaxEpoch,   \* the largest epoch (u64::MAX in the code)
    MaxMinted   \* bound on minted capabilities

ASSUME KeysAssumption ==
    /\ ParentId \subseteq Nat /\ None \notin Nat /\ None \notin Key
    /\ MaxEpoch \in Nat /\ MaxMinted \in Nat

VARIABLES
    current, epoch, previous, previousEpoch,  \* KeyState
    minted                                    \* the capabilities sealed so far

keyVars == <<current, epoch, previous, previousEpoch, minted>>

Payload == [parent : ParentId \cup {None}, epoch : 0..MaxEpoch]

-----------------------------------------------------------------------------
\* Mutant: an absent parent is written like parent 0.
SerializePayloadNoShift(p) == <<p.epoch, IF p.parent = None THEN 0 ELSE p.parent>>

\* serialize_payload: 0 for no parent, id + 1 for a parent.
SerializePayload(p) == <<p.epoch, IF p.parent = None THEN 0 ELSE p.parent + 1>>

\* crypto::seal_payload
SealPayload(k, p) == <<k, SerializePayload(p)>>

\* KeyState::verify_seal: the current key first, then the previous one.
VerifySeal(p, tag) ==
    \/ tag = SealPayload(current, p)
    \/ previous # None /\ tag = SealPayload(previous, p)

\* Mutant: the key alone decides.
EpochValidAny(e) == TRUE

\* KeyState::epoch_valid
EpochValid(e) ==
    \/ e >= epoch
    \/ previousEpoch # None /\ e >= previousEpoch

\* KernelState::verify_cap_seal (KeyState::verify_with_epoch)
VerifyCapSeal(c) == EpochValid(c.payload.epoch) /\ VerifySeal(c.payload, c.tag)

-----------------------------------------------------------------------------
\* KeyState::initial
KeysInit ==
    /\ current \in Key
    /\ epoch = 0
    /\ previous = None /\ previousEpoch = None
    /\ minted = {}

\* Kernel::delegate_cap, sealing part.
Mint(parent) ==
    /\ Cardinality(minted) < MaxMinted
    /\ LET p == [parent |-> parent, epoch |-> epoch]
       IN  minted' = minted \cup {[payload |-> p, tag |-> SealPayload(current, p)]}
    /\ UNCHANGED <<current, epoch, previous, previousEpoch>>

\* Mutant: the epoch of the first key is kept as the previous one.
RotateKeyKeepsEpoch(k) ==
    /\ epoch < MaxEpoch
    /\ previous' = current
    /\ previousEpoch' = IF previousEpoch = None THEN epoch ELSE previousEpoch
    /\ current' = k
    /\ epoch' = epoch + 1
    /\ UNCHANGED minted

\* KernelState::rotate_key (KeyState::rotate, rotated); overflow panics.
RotateKey(k) ==
    /\ epoch < MaxEpoch
    /\ previous' = current
    /\ previousEpoch' = epoch
    /\ current' = k
    /\ epoch' = epoch + 1
    /\ UNCHANGED minted

\* KeyState::clear_previous
ClearPrevious ==
    /\ previous' = None /\ previousEpoch' = None
    /\ UNCHANGED <<current, epoch, minted>>

KeysNext ==
    \/ \E p \in ParentId \cup {None} : Mint(p)
    \/ \E k \in Key : RotateKey(k)
    \/ ClearPrevious

KeysSpec == KeysInit /\ [][KeysNext]_keyVars

-----------------------------------------------------------------------------
\* A capability the kernel sealed verifies exactly while its key is current
\* or in its grace period, even when an old key value is put back in service.
GraceWindow ==
    \A c \in minted :
        VerifyCapSeal(c) <=>
            \/ c.payload.epoch = epoch
            \/ previous # None /\ c.payload.epoch + 1 = epoch

\* A capability that has stopped verifying never verifies again.
ExpiryIsFinal ==
    [][\A c \in minted : ~VerifyCapSeal(c) => ~VerifyCapSeal(c)']_keyVars

\* A seal vouches for one payload: the tag of one capability never passes for
\* the payload of another, the absent parent and parent 0 included.
SealBindsPayload ==
    \A c, d \in minted : VerifySeal(d.payload, c.tag) => c.payload = d.payload
=============================================================================
