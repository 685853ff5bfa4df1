------------------------------- MODULE Rights -------------------------------
(***************************************************************************)
(* Rights: a set of access rights kept as the bits of one machine word.    *)
(* A right is its number (Right::to_u8), 0..NumRights-1 here for the ten   *)
(* rights of the code, and the word has bits to spare.  A word is the      *)
(* function from bit numbers to bits.  rightSet is a history variable: the *)
(* set the word stands for, kept with the set operations the methods are   *)
(* documented as.                                                          *)
(***************************************************************************)
EXTENDS Naturals, Sequences, Loops

CONSTANTS
    NumRights,  \* the number of rights (10)
    WordBits,   \* the width of the word (16, u16)
    MaxSlice    \* bound on the length of a slice of rights

ASSUME RightsAssumption ==
    NumRights \in Nat /\ WordBits \in Nat /\ NumRights <= WordBits /\ MaxSlice \in Nat

VARIABLES
    bits,       \* Rights.bits
    rightSet    \* history: the set it stands for

rightsVars == <<bits, rightSet>>

RightNo == 0..(NumRights - 1)
BitNo == 0..(WordBits - 1)
Word == [BitNo -> BOOLEAN]
Slice == UNION {[1..n -> RightNo] : n \in 0..MaxSlice}

\* The operations of the machine on words.
ZeroWord == [i \in BitNo |-> FALSE]
AndWord(v, w) == [i \in BitNo |-> v[i] /\ w[i]]
OrWord(v, w) == [i \in BitNo |-> v[i] \/ w[i]]
XorWord(v, w) == [i \in BitNo |-> v[i] # w[i]]
NotWord(w) == [i \in BitNo |-> ~w[i]]

\* w - 1: the borrow reaches a bit if all bits below it are 0.
Decrement(w) == [i \in BitNo |-> w[i] # (\A j \in 0..(i - 1) : ~w[j])]

\* trailing_zeros of a word that is not 0.
TrailingZeros(w) == CHOOSE i \in BitNo : w[i] /\ \A j \in 0..(i - 1) : ~w[j]

\* ALL_RIGHTS_MASK
AllRightsMask == [i \in BitNo |-> i < NumRights]

\* Right::as_mask
AsMask(r) == [i \in BitNo |-> i = r]

\* Right::from_u8 is defined for the numbers of rights only.
FromU8(b) == b \in RightNo

\* from_bits, also the deserialization.
FromBits(w) == AndWord(w, AllRightsMask)

\* singleton and from_slice: the masks of all the rights named, or-ed.
FromSlice(rs) == [i \in BitNo |-> \E k \in DOMAIN rs : AsMask(rs[k])[i]]

Contains(b, r) == AndWord(b, AsMask(r)) # ZeroWord

IsSubsetOf(b, c) == AndWord(b, NotWord(c)) = ZeroWord

ContainsAny(b, c) == AndWord(b, c) # ZeroWord

Difference(b, c) == AndWord(b, NotWord(c))

\* Mutant: the spare bits are not masked off.
ComplementUnmasked(b) == NotWord(b)

Complement(b) == AndWord(NotWord(b), AllRightsMask)

With(b, r) == OrWord(b, AsMask(r))

Without(b, r) == AndWord(b, NotWord(AsMask(r)))

\* remaining & (remaining - 1)
ClearLowest(w) == AndWord(w, Decrement(w))

\* The state of the loop of to_vec.
VecState == [remaining : Word, v : Seq(RightNo)]

\* Mutant: the bit is cleared before its number is taken.
ToVecRoundSkips(x) ==
    LET rest == ClearLowest(x.remaining)
    IN  [remaining |-> rest,
         v |-> IF rest = ZeroWord THEN x.v ELSE Append(x.v, TrailingZeros(rest))]

\* One round of to_vec: the lowest bit, then the word without it.  A bit that
\* is no right is skipped.
ToVecRound(x) ==
    LET bit == TrailingZeros(x.remaining)
    IN  [remaining |-> ClearLowest(x.remaining),
         v |-> IF FromU8(bit) THEN Append(x.v, bit) ELSE x.v]

\* to_vec, in as many rounds as there are bits at most.
ToVec(w) ==
    LET body == [x \in VecState |-> IF x.remaining # ZeroWord THEN ToVecRound(x) ELSE x]
    IN  Rounds(body, [remaining |-> w, v |-> <<>>])[WordBits].v

\* A loop over RightsIter, with what it has seen and whether next returned
\* None.
IterState == [bits : Word, seen : Seq(RightNo), done : BOOLEAN]

\* RightsIter::next.  The loop ends at the first bit that is no right.
IterNext(x) ==
    LET bit == TrailingZeros(x.bits)
    IN  IF x.bits = ZeroWord THEN [x EXCEPT !.done = TRUE]
        ELSE [bits |-> ClearLowest(x.bits),
              seen |-> IF FromU8(bit) THEN Append(x.seen, bit) ELSE x.seen,
              done |-> ~FromU8(bit)]

Iterate(w) ==
    LET body == [x \in IterState |-> IF x.done THEN x ELSE IterNext(x)]
    IN  Rounds(body, [bits |-> w, seen |-> <<>>, done |-> FALSE])[WordBits].seen

-----------------------------------------------------------------------------
RightsInit == bits = ZeroWord /\ rightSet = {}

\* The value received from a deserializer: any word.
Decode(w) ==
    /\ bits' = FromBits(w)
    /\ rightSet' = {r \in RightNo : w[r]}

Build(rs) ==
    /\ bits' = FromSlice(rs)
    /\ rightSet' = {rs[i] : i \in DOMAIN rs}

\* insert and with
Insert(r) ==
    /\ bits' = With(bits, r)
    /\ rightSet' = rightSet \cup {r}

\* remove and without
Remove(r) ==
    /\ bits' = Without(bits, r)
    /\ rightSet' = rightSet \ {r}

Invert ==
    /\ bits' = Complement(bits)
    /\ rightSet' = RightNo \ rightSet

\* The binary operations, with a value built from a slice: combine and &=,
\* union and |=, difference, symmetric_difference.
Binary(rs) ==
    LET other == FromSlice(rs)
        otherSet == {rs[i] : i \in DOMAIN rs}
    IN  \/ bits' = AndWord(bits, other) /\ rightSet' = rightSet \cap otherSet
        \/ bits' = OrWord(bits, other) /\ rightSet' = rightSet \cup otherSet
        \/ bits' = Difference(bits, other) /\ rightSet' = rightSet \ otherSet
        \/ /\ bits' = XorWord(bits, other)
           /\ rightSet' = (rightSet \ otherSet) \cup (otherSet \ rightSet)

RightsNext ==
    \/ \E w \in Word : Decode(w)
    \/ \E rs \in Slice : Build(rs) \/ Binary(rs)
    \/ \E r \in RightNo : Insert(r) \/ Remove(r)
    \/ Invert

RightsSpec == RightsInit /\ [][RightsNext]_rightsVars

-----------------------------------------------------------------------------
\* Whatever sequence of operations produced it, also from a word received with
\* spare bits set, the word has exactly the bits of the rights in the set, so
\* equality and hashing of words are those of sets.
WordRepresentsSet ==
    /\ \A i \in BitNo : bits[i] => i \in RightNo
    /\ \A r \in RightNo : Contains(bits, r) <=> r \in rightSet

\* The tests that delegation and authorization rest on agree with sets against
\* every other value, and to_vec and the iterator list every right once, in
\* order.
QueriesMatchSets ==
    /\ \A S \in SUBSET RightNo :
          LET other == CHOOSE w \in Word : /\ \A i \in BitNo : w[i] => i \in RightNo
                                           /\ \A r \in RightNo : Contains(w, r) <=> r \in S
          IN  /\ IsSubsetOf(bits, other) <=> rightSet \subseteq S
              /\ ContainsAny(bits, other) <=> rightSet \cap S # {}
    /\ LET v == ToVec(bits)
       IN  /\ Iterate(bits) = v
           /\ {v[i] : i \in DOMAIN v} = rightSet
           /\ \A i, j \in DOMAIN v : i < j => v[i] < v[j]
=============================================================================
