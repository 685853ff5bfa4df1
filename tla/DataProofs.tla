----------------------------- MODULE DataProofs -----------------------------
(***************************************************************************)
(* The data types whose operations are loops: the rights word and the      *)
(* paged memory represent sets of rights and flat maps of bytes, for words *)
(* and pages of any size.                                                  *)
(***************************************************************************)
EXTENDS Rights, LinearMemory, SequenceTheorems, WellFoundedInduction, TLAPS

-----------------------------------------------------------------------------
(* Loops *)

\* A set of numbers that is not empty has a least element.
LEMMA LeastNumber ==
    ASSUME NEW T, T \subseteq Nat, T # {}
    PROVE  \E x \in T : \A y \in T : x <= y
<1> DEFINE R == {ss \in Nat \X Nat : ss[1] < ss[2]}
<1>1. IsWellFoundedOn(R, Nat)
  BY NatLessThanWellFounded DEF OpToRel
<1>2. PICK x \in T : \A y \in T : ~ (<<y, x>> \in R)
  <2> HIDE DEF R
  <2> QED BY <1>1, WFMin
<1>3. ASSUME NEW y \in T PROVE x <= y
  <2>1. <<y, x>> \in Nat \X Nat /\ ~ (y < x)
    BY <1>2
  <2> QED BY <2>1
<1> QED BY <1>3

\* A set that has 0 and with every number its successor has all numbers.
LEMMA SetInduction ==
    ASSUME NEW P, 0 \in P, \A n \in Nat : n \in P => n + 1 \in P
    PROVE  \A n \in Nat : n \in P
<1> DEFINE T == {n \in Nat : n \notin P}
<1>1. SUFFICES ASSUME T # {} PROVE FALSE
  OBVIOUS
<1>2. PICK x \in T : \A y \in T : x <= y
  <2>1. T \subseteq Nat
    OBVIOUS
  <2> HIDE DEF T
  <2> QED BY <1>1, <2>1, LeastNumber
<1>3. x \in Nat /\ x # 0 /\ x \notin P
  OBVIOUS
<1>4. x - 1 \in Nat /\ x - 1 < x /\ (x - 1) + 1 = x
  BY <1>3
<1>5. x - 1 \in T
  BY <1>3, <1>4
<1>6. x <= x - 1
  BY <1>2, <1>5
<1> QED BY <1>3, <1>4, <1>6

\* The states of a loop whose body keeps to a set S of states: the first one
\* is the start, and each round applies the body.
LEMMA RoundsFacts ==
    ASSUME NEW S, NEW body \in [S -> S], NEW s \in S
    PROVE  /\ Rounds(body, s)[0] = s
           /\ \A n \in Nat : /\ Rounds(body, s)[n] \in S
                             /\ Rounds(body, s)[n + 1] = body[Rounds(body, s)[n]]
<1> DEFINE Prefix(g, n) == /\ g \in [0..n -> S] /\ g[0] = s
                           /\ \A k \in 1..n : g[k] = body[g[k - 1]]
           P == {n \in Nat : \E g : Prefix(g, n)}
<1>1. \A n \in Nat : n \in P
  <2>1. 0 \in P
    <3>1. Prefix([k \in 0..0 |-> s], 0)
      OBVIOUS
    <3> QED BY <3>1
  <2>2. ASSUME NEW n \in Nat, n \in P PROVE n + 1 \in P
    <3>1. PICK g : Prefix(g, n)
      BY <2>2
    <3> DEFINE h == [k \in 0..(n + 1) |-> IF k = n + 1 THEN body[g[n]] ELSE g[k]]
    <3>2. h \in [0..(n + 1) -> S] /\ h[0] = s
      BY <3>1
    <3>3. ASSUME NEW k \in 1..(n + 1) PROVE h[k] = body[h[k - 1]]
      <4>1. k \in 0..(n + 1) /\ k - 1 \in 0..(n + 1) /\ k - 1 # n + 1
        OBVIOUS
      <4>2. h[k - 1] = g[k - 1] /\ h[k] = IF k = n + 1 THEN body[g[n]] ELSE g[k]
        BY <4>1
      <4>3. CASE k = n + 1
        BY <4>2, <4>3
      <4>4. CASE k # n + 1
        <5>1. k \in 1..n
          BY <4>4
        <5> QED BY <3>1, <4>2, <4>4, <5>1
      <4> QED BY <4>3, <4>4
    <3>4. Prefix(h, n + 1)
      BY <3>2, <3>3
    <3>5. \E x : Prefix(x, n + 1)
      <4> HIDE DEF h, Prefix
      <4> QED BY <3>4
    <3> HIDE DEF Prefix
    <3> QED BY <3>5
  <2> HIDE DEF P
  <2> QED BY <2>1, <2>2, SetInduction
<1>2. ASSUME NEW g, NEW h, NEW n \in Nat, NEW m \in Nat, n <= m, Prefix(g, n), Prefix(h, m)
      PROVE  \A k \in 0..n : g[k] = h[k]
  <2> DEFINE Q == {k \in Nat : k <= n => g[k] = h[k]}
  <2>1. 0 \in Q
    BY <1>2
  <2>2. ASSUME NEW k \in Nat, k \in Q PROVE k + 1 \in Q
    <3> SUFFICES ASSUME k + 1 <= n PROVE g[k + 1] = h[k + 1]
      OBVIOUS
    <3>1. k + 1 \in 1..n /\ k + 1 \in 1..m /\ (k + 1) - 1 = k /\ k <= n
      BY <1>2
    <3>2. g[k + 1] = body[g[k]] /\ h[k + 1] = body[h[k]]
      BY <1>2, <3>1
    <3> QED BY <2>2, <3>1, <3>2
  <2>3. \A k \in Nat : k \in Q
    <3> HIDE DEF Q
    <3> QED BY <2>1, <2>2, SetInduction
  <2> QED BY <2>3
<1> DEFINE G(n) == CHOOSE g : Prefix(g, n)
           f == [n \in Nat |-> G(n)[n]]
<1>3. \A n \in Nat : Prefix(G(n), n)
  BY <1>1, Zenon
<1> HIDE DEF G, Prefix
<1>4. f[0] = s /\ \A n \in Nat : f[n] \in S /\ f[n + 1] = body[f[n]]
  <2>1. ASSUME NEW n \in Nat PROVE f[n] \in S
    <3>1. G(n) \in [0..n -> S] /\ n \in 0..n
      BY <1>3 DEF Prefix
    <3> QED BY <3>1
  <2>2. f[0] = s
    BY <1>3 DEF Prefix
  <2>3. ASSUME NEW n \in Nat PROVE f[n + 1] = body[f[n]]
    <3>1. n + 1 \in Nat /\ n <= n + 1 /\ n \in 0..n /\ n + 1 \in 1..(n + 1) /\ (n + 1) - 1 = n
      OBVIOUS
    <3>2. G(n)[n] = G(n + 1)[n]
      BY <1>2, <1>3, <3>1
    <3>3. G(n + 1)[n + 1] = body[G(n + 1)[n]]
      BY <1>3, <3>1 DEF Prefix
    <3> QED BY <3>1, <3>2, <3>3
  <2> QED BY <2>1, <2>2, <2>3
<1> HIDE DEF f
<1>5. f = [n \in Nat |-> IF n = 0 THEN s ELSE body[f[n - 1]]]
  <2>1. f = [n \in Nat |-> f[n]]
    BY DEF f
  <2>2. ASSUME NEW n \in Nat PROVE f[n] = IF n = 0 THEN s ELSE body[f[n - 1]]
    <3>1. CASE n = 0
      BY <1>4, <3>1
    <3>2. CASE n # 0
      <4>1. n - 1 \in Nat /\ (n - 1) + 1 = n
        BY <3>2
      <4> QED BY <1>4, <3>2, <4>1
    <3> QED BY <3>1, <3>2
  <2> QED BY <2>1, <2>2, Zenon
<1>6. \E r : r = [n \in Nat |-> IF n = 0 THEN s ELSE body[r[n - 1]]]
  BY <1>5
<1> DEFINE r == Rounds(body, s)
<1>7. r = [n \in Nat |-> IF n = 0 THEN s ELSE body[r[n - 1]]]
  BY <1>6, Zenon DEF Rounds
<1> HIDE DEF r
<1>8. r[0] = s
  BY <1>7, Zenon
<1>9. ASSUME NEW n \in Nat PROVE r[n + 1] = body[r[n]]
  <2>1. n + 1 \in Nat /\ n + 1 # 0 /\ (n + 1) - 1 = n
    OBVIOUS
  <2>2. r[n + 1] = IF n + 1 = 0 THEN s ELSE body[r[(n + 1) - 1]]
    BY <1>7, <2>1, Zenon
  <2> QED BY <2>1, <2>2
<1>10. \A n \in Nat : r[n] \in S
  <2> DEFINE Q == {n \in Nat : r[n] \in S}
  <2>1. 0 \in Q
    BY <1>8
  <2>2. ASSUME NEW n \in Nat, n \in Q PROVE n + 1 \in Q
    BY <1>9, <2>2
  <2>3. \A n \in Nat : n \in Q
    <3> HIDE DEF Q
    <3> QED BY <2>1, <2>2, SetInduction
  <2> QED BY <2>3
<1> QED BY <1>8, <1>9, <1>10 DEF r


-----------------------------------------------------------------------------
(* The rights word: operations and tests *)

\* The numbers of the rights are numbers of bits.
LEMMA RightsAreBits == RightNo \subseteq BitNo
BY RightsAssumption DEF RightNo, BitNo

\* contains looks at one bit.
LEMMA ContainsBit ==
    ASSUME NEW b \in Word, NEW r \in BitNo
    PROVE  Contains(b, r) <=> b[r]
<1>1. AndWord(b, AsMask(r)) = ZeroWord <=> \A i \in BitNo : ~(b[i] /\ i = r)
  BY DEF AndWord, AsMask, ZeroWord, Word
<1> QED BY <1>1 DEF Contains

\* The mask has the bits of the rights.
LEMMA MaskBits ==
    ASSUME NEW i \in BitNo PROVE AllRightsMask[i] <=> i \in RightNo
<1>1. i < NumRights <=> i \in RightNo
  BY RightsAssumption DEF RightNo, BitNo
<1>2. AllRightsMask[i] = (i < NumRights)
  BY Zenon DEF AllRightsMask
<1> QED BY <1>1, <1>2, Zenon

\* A bit is set exactly if its right is in the set: the inductive invariant.
RightsInv ==
    /\ bits \in Word /\ rightSet \subseteq RightNo
    /\ \A i \in BitNo : bits[i] <=> i \in rightSet

\* The word and the set of a slice.
LEMMA SliceFacts ==
    ASSUME NEW rs \in Slice
    PROVE  /\ FromSlice(rs) \in Word
           /\ {rs[i] : i \in DOMAIN rs} \subseteq RightNo
           /\ \A i \in BitNo : FromSlice(rs)[i] <=> i \in {rs[k] : k \in DOMAIN rs}
<1>1. PICK n \in 0..MaxSlice : rs \in [1..n -> RightNo]
  BY DEF Slice
<1>2. \A k \in DOMAIN rs : rs[k] \in RightNo /\ rs[k] \in BitNo
  BY <1>1, RightsAreBits
<1>3. \A i \in BitNo : FromSlice(rs)[i] <=> \E k \in DOMAIN rs : i = rs[k]
  BY DEF FromSlice, AsMask
<1>4. FromSlice(rs) \in Word
  BY Zenon DEF FromSlice, Word
<1>5. \A i \in BitNo : FromSlice(rs)[i] <=> i \in {rs[k] : k \in DOMAIN rs}
  BY <1>3, Zenon
<1>6. {rs[i] : i \in DOMAIN rs} \subseteq RightNo
  BY <1>2, Zenon
<1> QED BY <1>4, <1>5, <1>6, Zenon

\* The operations on words are the operations on sets, bit by bit; masked
\* with ALL_RIGHTS_MASK, so is the complement.
LEMMA RightsStep == RightsInv /\ [RightsNext]_rightsVars => RightsInv'
<1> SUFFICES ASSUME RightsInv, [RightsNext]_rightsVars PROVE RightsInv'
  OBVIOUS
<1> USE RightsAreBits DEF RightsInv, Word
<1>1. ASSUME NEW w \in Word, Decode(w) PROVE RightsInv'
  BY <1>1, RightsAssumption DEF Decode, FromBits, AndWord, AllRightsMask, RightNo, BitNo
<1>2. ASSUME NEW rs \in Slice, Build(rs) PROVE RightsInv'
  BY <1>2, SliceFacts DEF Build
<1>3. ASSUME NEW rs \in Slice, Binary(rs) PROVE RightsInv'
  <2> DEFINE other == FromSlice(rs)
             otherSet == {rs[i] : i \in DOMAIN rs}
  <2>1. other \in Word /\ otherSet \subseteq RightNo /\ \A i \in BitNo : other[i] <=> i \in otherSet
    BY SliceFacts
  <2>2. \/ bits' = AndWord(bits, other) /\ rightSet' = rightSet \cap otherSet
        \/ bits' = OrWord(bits, other) /\ rightSet' = rightSet \cup otherSet
        \/ bits' = Difference(bits, other) /\ rightSet' = rightSet \ otherSet
        \/ /\ bits' = XorWord(bits, other)
           /\ rightSet' = (rightSet \ otherSet) \cup (otherSet \ rightSet)
    BY <1>3 DEF Binary
  <2> HIDE DEF other, otherSet
  <2>3. CASE bits' = AndWord(bits, other) /\ rightSet' = rightSet \cap otherSet
    BY <2>1, <2>3 DEF AndWord
  <2>4. CASE bits' = OrWord(bits, other) /\ rightSet' = rightSet \cup otherSet
    BY <2>1, <2>4 DEF OrWord
  <2>5. CASE bits' = Difference(bits, other) /\ rightSet' = rightSet \ otherSet
    BY <2>1, <2>5 DEF Difference, AndWord, NotWord
  <2>6. CASE /\ bits' = XorWord(bits, other)
             /\ rightSet' = (rightSet \ otherSet) \cup (otherSet \ rightSet)
    BY <2>1, <2>6 DEF XorWord
  <2> QED BY <2>2, <2>3, <2>4, <2>5, <2>6
<1>4. ASSUME NEW r \in RightNo, Insert(r) PROVE RightsInv'
  BY <1>4 DEF Insert, With, OrWord, AsMask
<1>5. ASSUME NEW r \in RightNo, Remove(r) PROVE RightsInv'
  BY <1>5 DEF Remove, Without, AndWord, NotWord, AsMask
<1>6. ASSUME Invert PROVE RightsInv'
  <2>1. \A i \in BitNo : AllRightsMask[i] <=> i \in RightNo
    BY MaskBits
  <2> QED BY <1>6, <2>1 DEF Invert, Complement, AndWord, NotWord
<1>7. CASE UNCHANGED rightsVars
  BY <1>7 DEF rightsVars
<1> QED BY <1>1, <1>2, <1>3, <1>4, <1>5, <1>6, <1>7 DEF RightsNext

\* The empty set of rights.
LEMMA RightsInitInv == RightsInit => RightsInv
BY DEF RightsInit, ZeroWord, RightsInv, Word

\* Whatever the number of rights, the width of the word and the sequence of
\* operations, the word has exactly the bits of the rights in the set.
THEOREM WordIsSet == RightsSpec => []WordRepresentsSet
<1>1. RightsInv => WordRepresentsSet
  BY RightsAreBits, ContainsBit DEF RightsInv, WordRepresentsSet
<1> QED BY <1>1, RightsInitInv, RightsStep, PTL DEF RightsSpec

\* is_subset_of and contains_any, on words that stand for sets.
LEMMA TestsMatchSets ==
    ASSUME RightsInv, NEW S \in SUBSET RightNo, NEW w \in Word,
           \A i \in BitNo : w[i] <=> i \in S
    PROVE  /\ IsSubsetOf(bits, w) <=> rightSet \subseteq S
           /\ ContainsAny(bits, w) <=> rightSet \cap S # {}
<1>1. IsSubsetOf(bits, w) <=> \A i \in BitNo : ~(bits[i] /\ ~w[i])
  BY DEF IsSubsetOf, AndWord, NotWord, ZeroWord
<1>2. ContainsAny(bits, w) <=> \E i \in BitNo : bits[i] /\ w[i]
  BY DEF ContainsAny, AndWord, ZeroWord
<1> QED BY <1>1, <1>2, RightsAreBits DEF RightsInv

\* Every set of rights has a word, and only one among the masked ones.
LEMMA WordOfSet ==
    ASSUME NEW S \in SUBSET RightNo
    PROVE  LET other == CHOOSE w \in Word : /\ \A i \in BitNo : w[i] => i \in RightNo
                                            /\ \A r \in RightNo : Contains(w, r) <=> r \in S
           IN  other \in Word /\ \A i \in BitNo : other[i] <=> i \in S
<1> DEFINE P(w) == /\ \A i \in BitNo : w[i] => i \in RightNo
                   /\ \A r \in RightNo : Contains(w, r) <=> r \in S
           v == [i \in BitNo |-> i \in S]
           other == CHOOSE w \in Word : P(w)
<1>1. v \in Word /\ P(v)
  <2>1. v \in Word
    BY DEF Word
  <2>2. \A r \in RightNo : Contains(v, r) <=> r \in S
    BY <2>1, RightsAreBits, ContainsBit
  <2> QED BY <2>1, <2>2
<1>2. other \in Word /\ P(other)
  <2> HIDE DEF P, v
  <2> QED BY <1>1, Zenon
<1>3. \A i \in BitNo : other[i] <=> i \in S
  <2> HIDE DEF other
  <2> QED BY <1>2, RightsAreBits, ContainsBit
<1> QED BY <1>2, <1>3


-----------------------------------------------------------------------------
(* The rights word: iteration *)

\* A word that is not 0 has a lowest bit; decrementing flips it and what is
\* below it, so w & (w - 1) clears just this bit.
LEMMA LowestBit ==
    ASSUME NEW w \in Word, w # ZeroWord
    PROVE  /\ TrailingZeros(w) \in BitNo /\ w[TrailingZeros(w)]
           /\ \A j \in 0..(TrailingZeros(w) - 1) : ~w[j]
           /\ ClearLowest(w) \in Word
           /\ \A i \in BitNo : ClearLowest(w)[i] <=> w[i] /\ i # TrailingZeros(w)
<1> DEFINE T == {i \in BitNo : w[i]}
           t == TrailingZeros(w)
<1>0. BitNo \subseteq Nat /\ \A i \in BitNo : \A j \in 0..(i - 1) : j \in BitNo /\ j < i
  BY RightsAssumption DEF BitNo
<1>1. T # {}
  <2> SUFFICES ASSUME \A i \in BitNo : ~w[i] PROVE FALSE
    OBVIOUS
  <2>1. w = ZeroWord
    BY DEF Word, ZeroWord
  <2> QED BY <2>1
<1>2. PICK x \in T : \A y \in T : x <= y
  <2>1. T \subseteq Nat
    BY <1>0
  <2> HIDE DEF T
  <2> QED BY <1>1, <2>1, LeastNumber
<1>3. x \in BitNo /\ w[x] /\ \A j \in 0..(x - 1) : ~w[j]
  <2>1. ASSUME NEW j \in 0..(x - 1), w[j] PROVE FALSE
    <3>1. j \in T /\ j < x /\ j \in Nat /\ x \in Nat
      BY <1>0, <2>1
    <3>2. x <= j
      BY <1>2, <3>1
    <3> QED BY <3>1, <3>2
  <2> QED BY <2>1
<1>4. t \in BitNo /\ w[t] /\ \A j \in 0..(t - 1) : ~w[j]
  <2> HIDE DEF T
  <2> QED BY <1>3, Zenon DEF TrailingZeros
<1> HIDE DEF t, T
<1>5. ASSUME NEW i \in BitNo PROVE ClearLowest(w)[i] <=> w[i] /\ i # t
  <2> DEFINE low == \A j \in 0..(i - 1) : ~w[j]
  <2>1. ClearLowest(w)[i] = (w[i] /\ (w[i] # low))
    BY Zenon DEF ClearLowest, AndWord, Decrement
  <2>2. w[i] \in BOOLEAN /\ low \in BOOLEAN
    BY DEF Word
  <2>3. ASSUME w[i] PROVE low <=> i = t
    <3>1. i \in Nat /\ t \in Nat
      BY <1>0, <1>4
    <3>2. ASSUME i < t PROVE FALSE
      <4>1. i \in 0..(t - 1)
        BY <3>1, <3>2
      <4> QED BY <1>4, <2>3, <4>1
    <3>3. ASSUME t < i PROVE ~low
      <4>1. t \in 0..(i - 1)
        BY <3>1, <3>3
      <4> QED BY <1>4, <4>1
    <3>4. i = t => low
      BY <1>4
    <3> HIDE DEF low
    <3>5. i < t \/ t < i \/ i = t
      BY <3>1
    <3> QED BY <3>1, <3>2, <3>3, <3>4, <3>5
  <2> HIDE DEF low
  <2> QED BY <2>1, <2>2, <2>3, Zenon
<1>6. ClearLowest(w) \in Word
  BY Zenon DEF ClearLowest, AndWord, Word
<1> QED BY <1>4, <1>5, <1>6 DEF t


\* The loop of to_vec.
VecBody == [x \in VecState |-> IF x.remaining # ZeroWord THEN ToVecRound(x) ELSE x]
VecStart(w) == [remaining |-> w, v |-> <<>>]

\* What holds of the loop after n rounds on word w: the rights of w are those
\* listed and those that remain, the list is in order and below what remains,
\* and the n lowest bits are done with.
VecRoundInv(w, n, x) ==
    /\ \A i \in BitNo : x.remaining[i] => w[i]
    /\ \A i \in BitNo : i < n => ~x.remaining[i]
    /\ \A r \in RightNo : w[r] <=> x.remaining[r] \/ \E k \in 1..Len(x.v) : x.v[k] = r
    /\ \A j \in 1..Len(x.v), k \in 1..Len(x.v) : j < k => x.v[j] < x.v[k]
    /\ \A k \in 1..Len(x.v), i \in BitNo : x.remaining[i] => x.v[k] < i

\* The body of the loop keeps to loop states.
LEMMA VecBodyType == VecBody \in [VecState -> VecState]
<1>1. ASSUME NEW x \in VecState, x.remaining # ZeroWord PROVE ToVecRound(x) \in VecState
  <2>1. x.remaining \in Word /\ x.v \in Seq(RightNo)
    BY DEF VecState
  <2>2. ClearLowest(x.remaining) \in Word
    BY <1>1, <2>1, LowestBit
  <2>3. FromU8(TrailingZeros(x.remaining)) => Append(x.v, TrailingZeros(x.remaining)) \in Seq(RightNo)
    BY <2>1, AppendProperties DEF FromU8
  <2> QED BY <2>1, <2>2, <2>3 DEF ToVecRound, VecState
<1> QED BY <1>1 DEF VecBody

\* A round of to_vec.
LEMMA VecRoundKeeps ==
    ASSUME NEW w \in Word, NEW n \in Nat, NEW x \in VecState, VecRoundInv(w, n, x)
    PROVE  VecRoundInv(w, n + 1, VecBody[x])
<1>0. BitNo \subseteq Nat /\ RightNo \subseteq BitNo
  BY RightsAreBits, RightsAssumption DEF BitNo
<1>1. x.remaining \in Word /\ x.v \in Seq(RightNo)
  BY DEF VecState
<1>2. CASE x.remaining = ZeroWord
  <2>1. VecBody[x] = x
    BY <1>2 DEF VecBody
  <2>2. \A i \in BitNo : ~x.remaining[i]
    BY <1>2 DEF ZeroWord
  <2> QED BY <2>1, <2>2 DEF VecRoundInv
<1>3. CASE x.remaining # ZeroWord
  <2> DEFINE t == TrailingZeros(x.remaining)
             y == ToVecRound(x)
  <2>1. VecBody[x] = y
    BY <1>3 DEF VecBody
  <2>2. /\ t \in BitNo /\ x.remaining[t] /\ \A j \in 0..(t - 1) : ~x.remaining[j]
        /\ \A i \in BitNo : ClearLowest(x.remaining)[i] <=> x.remaining[i] /\ i # t
    BY <1>1, <1>3, LowestBit
  <2>3. y.remaining = ClearLowest(x.remaining) /\ y.v = IF t \in RightNo THEN Append(x.v, t) ELSE x.v
    BY DEF ToVecRound, FromU8
  <2> HIDE DEF t, y
  <2>4. \A i \in BitNo : y.remaining[i] <=> x.remaining[i] /\ i # t
    BY <2>2, <2>3
  <2>5. \A i \in BitNo : x.remaining[i] => t <= i
    <3> SUFFICES ASSUME NEW i \in BitNo, x.remaining[i], i < t PROVE FALSE
      BY <1>0, <2>2
    <3>1. i \in 0..(t - 1)
      BY <1>0, <2>2
    <3> QED BY <2>2, <3>1
  <2>6. \A i \in BitNo : y.remaining[i] => w[i]
    BY <2>4 DEF VecRoundInv
  <2>7. ASSUME NEW i \in BitNo, i < n + 1, y.remaining[i] PROVE FALSE
    <3>1. x.remaining[i] /\ i # t /\ t <= i /\ x.remaining[t] /\ t \in BitNo
      BY <2>2, <2>4, <2>5, <2>7
    <3>2. ~(t < n) /\ ~(i < n)
      BY <3>1 DEF VecRoundInv
    <3> QED BY <1>0, <2>7, <3>1, <3>2
  <2>8. CASE t \notin RightNo
    <3>1. y.v = x.v
      BY <2>3, <2>8
    <3>2. \A r \in RightNo : y.remaining[r] <=> x.remaining[r]
      BY <1>0, <2>4, <2>8
    <3> QED BY <2>1, <2>4, <2>6, <2>7, <3>1, <3>2, <1>0 DEF VecRoundInv
  <2>9. CASE t \in RightNo
    <3>1. /\ y.v \in Seq(RightNo) /\ Len(y.v) = Len(x.v) + 1 /\ y.v[Len(x.v) + 1] = t
          /\ \A k \in 1..Len(x.v) : y.v[k] = x.v[k]
      BY <1>1, <2>3, <2>9, AppendProperties
    <3>2. Len(x.v) \in Nat
      BY <1>1, LenProperties
    <3>3. \A k \in 1..Len(y.v) : k \in 1..Len(x.v) \/ k = Len(x.v) + 1
      BY <3>1, <3>2
    <3>4. \A k \in 1..Len(x.v) : k \in 1..Len(y.v) /\ x.v[k] < t /\ x.v[k] \in RightNo
      BY <1>1, <2>2, <3>1, <3>2 DEF VecRoundInv
    <3>5. Len(x.v) + 1 \in 1..Len(y.v)
      BY <3>1, <3>2
    <3>6. ASSUME NEW r \in RightNo
          PROVE  w[r] <=> y.remaining[r] \/ \E k \in 1..Len(y.v) : y.v[k] = r
      <4>1. r \in BitNo /\ (w[r] <=> x.remaining[r] \/ \E k \in 1..Len(x.v) : x.v[k] = r)
        BY <1>0 DEF VecRoundInv
      <4>2. (\E k \in 1..Len(y.v) : y.v[k] = r) <=> r = t \/ \E k \in 1..Len(x.v) : x.v[k] = r
        BY <3>1, <3>3, <3>4, <3>5
      <4> QED BY <2>2, <2>4, <4>1, <4>2
    <3>7. ASSUME NEW j \in 1..Len(y.v), NEW k \in 1..Len(y.v), j < k PROVE y.v[j] < y.v[k]
      <4>1. j \in 1..Len(x.v)
        BY <3>1, <3>2, <3>7
      <4>2. CASE k \in 1..Len(x.v)
        BY <3>1, <3>7, <4>1, <4>2 DEF VecRoundInv
      <4>3. CASE k = Len(x.v) + 1
        BY <3>1, <3>4, <4>1, <4>3
      <4> QED BY <3>3, <4>2, <4>3
    <3>8. ASSUME NEW k \in 1..Len(y.v), NEW i \in BitNo, y.remaining[i] PROVE y.v[k] < i
      <4>1. x.remaining[i] /\ t < i
        BY <1>0, <2>2, <2>4, <2>5, <3>8
      <4>2. CASE k \in 1..Len(x.v)
        BY <3>1, <4>1, <4>2 DEF VecRoundInv
      <4>3. CASE k = Len(x.v) + 1
        BY <3>1, <4>1, <4>3
      <4> QED BY <3>3, <4>2, <4>3
    <3> QED BY <2>1, <2>6, <2>7, <3>6, <3>7, <3>8 DEF VecRoundInv
  <2> QED BY <2>8, <2>9
<1> QED BY <1>2, <1>3

\* The states of to_vec on word w.
LEMMA VecRounds ==
    ASSUME NEW w \in Word, NEW n \in Nat
    PROVE  LET x == Rounds(VecBody, VecStart(w))[n]
           IN  x \in VecState /\ VecRoundInv(w, n, x)
<1> DEFINE f == Rounds(VecBody, VecStart(w))
           P == {m \in Nat : VecRoundInv(w, m, f[m])}
<1>1. VecStart(w) \in VecState
  BY EmptySeq DEF VecStart, VecState
<1>2. f[0] = VecStart(w) /\ \A m \in Nat : f[m] \in VecState /\ f[m + 1] = VecBody[f[m]]
  BY <1>1, VecBodyType, RoundsFacts
<1> HIDE DEF f
<1>3. 0 \in P
  <2>1. VecStart(w).remaining = w /\ Len(VecStart(w).v) = 0
    BY EmptySeq DEF VecStart
  <2>2. \A i \in BitNo : ~(i < 0)
    BY RightsAssumption DEF BitNo
  <2>3. VecRoundInv(w, 0, VecStart(w))
    BY <2>1, <2>2 DEF VecRoundInv
  <2> QED BY <1>2, <2>3
<1>4. ASSUME NEW m \in Nat, m \in P PROVE m + 1 \in P
  BY <1>2, <1>4, VecRoundKeeps
<1>5. n \in P
  <2> HIDE DEF P
  <2> QED BY <1>3, <1>4, SetInduction
<1> QED BY <1>2, <1>5 DEF f

\* to_vec lists the rights of a word, each once, in order.
LEMMA ToVecFacts ==
    ASSUME NEW w \in Word
    PROVE  /\ ToVec(w) \in Seq(RightNo)
           /\ \A r \in RightNo : w[r] <=> \E k \in 1..Len(ToVec(w)) : ToVec(w)[k] = r
           /\ \A j \in 1..Len(ToVec(w)), k \in 1..Len(ToVec(w)) :
                 j < k => ToVec(w)[j] < ToVec(w)[k]
<1> DEFINE x == Rounds(VecBody, VecStart(w))[WordBits]
<1>1. x \in VecState /\ VecRoundInv(w, WordBits, x)
  BY VecRounds, RightsAssumption
<1>2. ToVec(w) = x.v
  BY DEF ToVec, VecBody, VecStart
<1> HIDE DEF x
<1>3. \A r \in RightNo : ~x.remaining[r]
  <2>1. \A r \in RightNo : r \in BitNo /\ r < WordBits
    BY RightsAssumption DEF RightNo, BitNo
  <2> QED BY <1>1, <2>1 DEF VecRoundInv
<1> QED BY <1>1, <1>2, <1>3 DEF VecState, VecRoundInv


\* The loop over the iterator.
IterBody == [x \in IterState |-> IF x.done THEN x ELSE IterNext(x)]
IterStart(w) == [bits |-> w, seen |-> <<>>, done |-> FALSE]

\* The body of the loop keeps to loop states.
LEMMA IterBodyType == IterBody \in [IterState -> IterState]
<1>1. ASSUME NEW x \in IterState PROVE IterNext(x) \in IterState
  <2>1. x.bits \in Word /\ x.seen \in Seq(RightNo)
    BY DEF IterState
  <2>2. CASE x.bits = ZeroWord
    BY <2>2 DEF IterNext, IterState
  <2>3. CASE x.bits # ZeroWord
    <3> DEFINE t == TrailingZeros(x.bits)
               seen == IF FromU8(t) THEN Append(x.seen, t) ELSE x.seen
    <3>1. ClearLowest(x.bits) \in Word
      BY <2>1, <2>3, LowestBit
    <3>2. seen \in Seq(RightNo)
      BY <2>1, AppendProperties DEF FromU8
    <3>3. IterNext(x) = [bits |-> ClearLowest(x.bits), seen |-> seen, done |-> ~FromU8(t)]
      BY <2>3 DEF IterNext
    <3>4. (~FromU8(t)) \in BOOLEAN
      OBVIOUS
    <3> HIDE DEF seen
    <3> QED BY <3>1, <3>2, <3>3, <3>4 DEF IterState
  <2> QED BY <2>2, <2>3
<1> QED BY <1>1 DEF IterBody

\* The iterator and to_vec are at the same place.
InStep(x, y) == /\ x.bits = y.remaining /\ x.seen = y.v
                /\ x.done => x.bits = ZeroWord

\* On what is left of a masked word a round of each keeps them there.
LEMMA InStepKept ==
    ASSUME NEW x \in IterState, NEW y \in VecState, InStep(x, y),
           \A i \in BitNo : y.remaining[i] => i \in RightNo
    PROVE  InStep(IterBody[x], VecBody[y])
<1>1. CASE y.remaining = ZeroWord
  <2>1. VecBody[y] = y
    BY <1>1 DEF VecBody
  <2>2. IterBody[x] = IF x.done THEN x ELSE [x EXCEPT !.done = TRUE]
    BY <1>1 DEF IterBody, IterNext, InStep
  <2>3. IterBody[x].bits = x.bits /\ IterBody[x].seen = x.seen
    BY <2>2 DEF IterState
  <2> QED BY <1>1, <2>1, <2>3 DEF InStep
<1>2. CASE y.remaining # ZeroWord
  <2> DEFINE t == TrailingZeros(y.remaining)
  <2>1. t \in BitNo /\ y.remaining[t]
    BY <1>2, LowestBit DEF VecState
  <2>2. FromU8(t)
    BY <2>1 DEF FromU8
  <2>3. ~x.done /\ x.bits = y.remaining /\ x.seen = y.v
    BY <1>2 DEF InStep
  <2>4. VecBody[y] = [remaining |-> ClearLowest(y.remaining), v |-> Append(y.v, t)]
    BY <1>2, <2>2 DEF VecBody, ToVecRound
  <2>5. IterBody[x] = IterNext(x)
    BY <2>3 DEF IterBody
  <2>6. IterNext(x).bits = ClearLowest(y.remaining) /\ IterNext(x).seen = Append(y.v, t)
        /\ IterNext(x).done = ~FromU8(t)
    BY <1>2, <2>2, <2>3, Zenon DEF IterNext
  <2>7. ~IterNext(x).done
    BY <2>2, <2>6, Zenon
  <2>8. VecBody[y].remaining = ClearLowest(y.remaining) /\ VecBody[y].v = Append(y.v, t)
    BY <2>4
  <2> QED BY <2>5, <2>6, <2>7, <2>8, Zenon DEF InStep
<1> QED BY <1>1, <1>2

\* On a masked word the iterator gives what to_vec gives; on any other it may
\* end early.
LEMMA IterateIsToVec ==
    ASSUME NEW w \in Word, \A i \in BitNo : w[i] => i \in RightNo
    PROVE  Iterate(w) = ToVec(w)
<1> DEFINE f == Rounds(IterBody, IterStart(w))
           g == Rounds(VecBody, VecStart(w))
           P == {m \in Nat : InStep(f[m], g[m])}
<1>1. IterStart(w) \in IterState /\ VecStart(w) \in VecState
  BY EmptySeq DEF IterStart, IterState, VecStart, VecState
<1>2. f[0] = IterStart(w) /\ \A m \in Nat : f[m] \in IterState /\ f[m + 1] = IterBody[f[m]]
  BY <1>1, IterBodyType, RoundsFacts
<1>3. g[0] = VecStart(w) /\ \A m \in Nat : g[m] \in VecState /\ g[m + 1] = VecBody[g[m]]
  BY <1>1, VecBodyType, RoundsFacts
<1>4. \A m \in Nat : VecRoundInv(w, m, g[m])
  BY VecRounds
<1>5. Iterate(w) = f[WordBits].seen /\ ToVec(w) = g[WordBits].v
  BY DEF Iterate, IterBody, IterStart, ToVec, VecBody, VecStart
<1> HIDE DEF f, g
<1>6. 0 \in P
  BY <1>2, <1>3 DEF InStep, IterStart, VecStart
<1>7. ASSUME NEW m \in Nat, m \in P PROVE m + 1 \in P
  <2>1. \A i \in BitNo : g[m].remaining[i] => i \in RightNo
    BY <1>4 DEF VecRoundInv
  <2> QED BY <1>2, <1>3, <1>7, <2>1, InStepKept
<1>8. WordBits \in P
  <2> HIDE DEF P
  <2> QED BY <1>6, <1>7, SetInduction, RightsAssumption
<1> QED BY <1>5, <1>8 DEF InStep

\* Whatever the number of rights and the width of the word, the tests that
\* delegation and authorization rest on (is_subset_of, contains_any) are those
\* of sets, and to_vec and the iterator list every right once, in order.
THEOREM QueriesAreSets == RightsSpec => []QueriesMatchSets
<1>1. RightsInv => QueriesMatchSets
  <2> SUFFICES ASSUME RightsInv PROVE QueriesMatchSets
    OBVIOUS
  <2>1. ASSUME NEW S \in SUBSET RightNo
        PROVE  LET other == CHOOSE w \in Word :
                               /\ \A i \in BitNo : w[i] => i \in RightNo
                               /\ \A r \in RightNo : Contains(w, r) <=> r \in S
               IN  /\ IsSubsetOf(bits, other) <=> rightSet \subseteq S
                   /\ ContainsAny(bits, other) <=> rightSet \cap S # {}
    <3> DEFINE other == CHOOSE w \in Word :
                           /\ \A i \in BitNo : w[i] => i \in RightNo
                           /\ \A r \in RightNo : Contains(w, r) <=> r \in S
    <3>1. other \in Word /\ \A i \in BitNo : other[i] <=> i \in S
      BY WordOfSet
    <3> HIDE DEF other
    <3>2. /\ IsSubsetOf(bits, other) <=> rightSet \subseteq S
          /\ ContainsAny(bits, other) <=> rightSet \cap S # {}
      BY <3>1, TestsMatchSets
    <3> QED BY <3>2 DEF other
  <2> DEFINE v == ToVec(bits)
  <2>2. Iterate(bits) = v
    BY IterateIsToVec DEF RightsInv
  <2>3. /\ v \in Seq(RightNo)
        /\ \A r \in RightNo : bits[r] <=> \E k \in 1..Len(v) : v[k] = r
        /\ \A j \in 1..Len(v), k \in 1..Len(v) : j < k => v[j] < v[k]
    BY ToVecFacts DEF RightsInv
  <2> HIDE DEF v
  <2>4. DOMAIN v = 1..Len(v) /\ \A k \in 1..Len(v) : v[k] \in RightNo
    BY <2>3, LenProperties, ElementOfSeq
  <2>5. {v[i] : i \in DOMAIN v} = rightSet
    <3>1. \A r \in rightSet : r \in RightNo /\ bits[r]
      BY RightsAreBits DEF RightsInv
    <3>2. \A k \in 1..Len(v) : v[k] \in rightSet
      BY <2>3, <2>4, RightsAreBits DEF RightsInv
    <3> QED BY <2>3, <2>4, <3>1, <3>2
  <2>6. \A i, j \in DOMAIN v : i < j => v[i] < v[j]
    BY <2>3, <2>4
  <2> QED BY <2>1, <2>2, <2>5, <2>6 DEF QueriesMatchSets, v
<1> QED BY <1>1, RightsInitInv, RightsStep, PTL DEF RightsSpec


-----------------------------------------------------------------------------
(* The paged memory: arithmetic of pages and of wrapping positions *)

\* An address is a page and an offset in it.
LEMMA PageSplit ==
    ASSUME NEW a \in Nat
    PROVE  /\ PageOf(a) \in Nat /\ OffsetInPage(a) \in Offset
           /\ a = PageSize * PageOf(a) + OffsetInPage(a)
<1>1. PageSize \in Nat /\ PageSize > 0
  BY MemoryAssumption
<1>2. a \div PageSize \in Nat /\ a % PageSize \in 0..(PageSize - 1)
      /\ a = PageSize * (a \div PageSize) + (a % PageSize)
  BY <1>1
<1> QED BY <1>2 DEF PageOf, OffsetInPage, Offset

\* Earlier pages end before later ones begin.
LEMMA PagesApart ==
    ASSUME NEW p \in Nat, NEW q \in Nat, p < q
    PROVE  PageSize * p + PageSize <= PageSize * q
<1>1. PageSize \in Nat
  BY MemoryAssumption
<1>2. PICK d \in Nat : q = p + 1 + d
  <2>1. q - (p + 1) \in Nat /\ q = p + 1 + (q - (p + 1))
    OBVIOUS
  <2> QED BY <2>1
<1>3. PageSize * q = PageSize * p + PageSize + PageSize * d /\ PageSize * d >= 0
  BY <1>1, <1>2
<1>4. PageSize * p \in Nat /\ PageSize * d \in Nat
  BY <1>1, <1>2
<1> QED BY <1>1, <1>3, <1>4

\* The page and the offset are determined by the address.
LEMMA PageUnique ==
    ASSUME NEW q \in Nat, NEW o \in Offset, NEW a \in Nat, a = PageSize * q + o
    PROVE  PageOf(a) = q /\ OffsetInPage(a) = o
<1> DEFINE p == PageOf(a)
           r == OffsetInPage(a)
<1>1. p \in Nat /\ r \in Offset /\ a = PageSize * p + r
  BY PageSplit
<1>2. PageSize \in Nat /\ PageSize * p \in Nat /\ PageSize * q \in Nat
  BY <1>1, MemoryAssumption
<1> HIDE DEF p, r
<1>3. ~(p < q)
  <2> SUFFICES ASSUME p < q PROVE FALSE
    OBVIOUS
  <2>1. PageSize * p + PageSize <= PageSize * q
    BY <1>1, PagesApart
  <2> QED BY <1>1, <1>2, <2>1 DEF Offset
<1>4. ~(q < p)
  <2> SUFFICES ASSUME q < p PROVE FALSE
    OBVIOUS
  <2>1. PageSize * q + PageSize <= PageSize * p
    BY <1>1, PagesApart
  <2> QED BY <1>1, <1>2, <2>1 DEF Offset
<1>5. p = q
  BY <1>1, <1>3, <1>4
<1>6. r = o
  BY <1>1, <1>2, <1>5 DEF Offset
<1> QED BY <1>5, <1>6 DEF p, r

\* A chunk is not empty, ends with the page or the range, and stays within the
\* address space, which is a whole number of pages.
LEMMA ChunkFacts ==
    ASSUME NEW pos \in MemAddr, NEW rest \in Nat, rest > 0
    PROVE  /\ Chunk(pos, rest) \in 1..rest
           /\ OffsetInPage(pos) + Chunk(pos, rest) <= PageSize
           /\ pos + Chunk(pos, rest) <= MaxAddr + 1
           /\ PageOf(pos) \in PageNo
<1> DEFINE c == Chunk(pos, rest)
           K == (MaxAddr + 1) \div PageSize
           q == PageOf(pos)
           off == OffsetInPage(pos)
<1>0. PageSize \in Nat /\ PageSize > 0 /\ MaxAddr \in Nat /\ pos \in Nat /\ pos <= MaxAddr
  BY MemoryAssumption DEF MemAddr
<1>1. off \in Offset /\ q \in Nat /\ pos = PageSize * q + off
  BY <1>0, PageSplit
<1>2. c \in 1..rest /\ off + c <= PageSize
  BY <1>0, <1>1 DEF Chunk, Offset
<1>3. K \in Nat /\ MaxAddr + 1 = PageSize * K
  <2>1. MaxAddr + 1 \in Nat /\ PageOf(MaxAddr + 1) = K /\ OffsetInPage(MaxAddr + 1) = 0
    BY <1>0, MemoryAssumption DEF PageOf, OffsetInPage
  <2>2. K \in Nat /\ MaxAddr + 1 = PageSize * K + 0
    BY <2>1, PageSplit
  <2> QED BY <1>0, <2>2
<1>4. PageSize * q \in Nat /\ PageSize * K \in Nat
  BY <1>0, <1>1, <1>3
<1>5. PageOf(MaxAddr) \in Nat /\ MaxAddr = PageSize * PageOf(MaxAddr) + OffsetInPage(MaxAddr)
      /\ OffsetInPage(MaxAddr) \in Offset
  BY <1>0, PageSplit
<1> HIDE DEF c, K, q, off
<1>6. q < K
  <2> SUFFICES ASSUME K <= q PROVE FALSE
    BY <1>1, <1>3
  <2>1. K = q \/ K < q
    BY <1>1, <1>3
  <2>2. PageSize * K <= PageSize * q
    <3>1. CASE K = q
      BY <1>4, <3>1
    <3>2. CASE K < q
      BY <1>0, <1>1, <1>3, <1>4, <3>2, PagesApart
    <3> QED BY <2>1, <3>1, <3>2
  <2> QED BY <1>0, <1>1, <1>3, <1>4, <2>2 DEF Offset
<1>7. PageSize * q + PageSize <= MaxAddr + 1
  BY <1>1, <1>3, <1>6, PagesApart
<1>8. pos + c <= MaxAddr + 1
  BY <1>0, <1>1, <1>2, <1>4, <1>7 DEF Offset
<1>9. q <= PageOf(MaxAddr)
  <2> SUFFICES ASSUME PageOf(MaxAddr) < q PROVE FALSE
    BY <1>1, <1>5
  <2>1. PageSize * PageOf(MaxAddr) + PageSize <= PageSize * q /\ PageSize * PageOf(MaxAddr) \in Nat
    BY <1>0, <1>1, <1>5, PagesApart
  <2> QED BY <1>0, <1>1, <1>4, <1>5, <2>1 DEF Offset
<1>10. q \in PageNo
  BY <1>1, <1>5, <1>9 DEF PageNo, PageOf
<1> QED BY <1>2, <1>8, <1>10 DEF c, q, off

\* The addresses of a chunk are those of its page at its offsets.
LEMMA ChunkAddresses ==
    ASSUME NEW pos \in MemAddr, NEW c \in Nat, OffsetInPage(pos) + c <= PageSize, NEW y \in Nat
    PROVE  /\ (/\ PageOf(y) = PageOf(pos)
               /\ OffsetInPage(y) \in OffsetInPage(pos)..(OffsetInPage(pos) + c - 1))
                 <=> (pos <= y /\ y < pos + c)
           /\ PageOf(y) = PageOf(pos) =>
                 OffsetInPage(y) - OffsetInPage(pos) = y - pos
<1> DEFINE q == PageOf(pos)
           off == OffsetInPage(pos)
           p == PageOf(y)
           o == OffsetInPage(y)
<1>0. PageSize \in Nat /\ PageSize > 0 /\ pos \in Nat
  BY MemoryAssumption DEF MemAddr
<1>1. /\ off \in Offset /\ q \in Nat /\ pos = PageSize * q + off
      /\ o \in Offset /\ p \in Nat /\ y = PageSize * p + o
  BY <1>0, PageSplit
<1>2. PageSize * q \in Nat /\ PageSize * p \in Nat
  BY <1>0, <1>1
<1> HIDE DEF q, off, p, o
<1>3. p = q => o - off = y - pos
  BY <1>1, <1>2 DEF Offset
<1>4. ASSUME p = q, o \in off..(off + c - 1) PROVE pos <= y /\ y < pos + c
  BY <1>0, <1>1, <1>2, <1>4 DEF Offset
<1>5. ASSUME pos <= y, y < pos + c PROVE p = q /\ o \in off..(off + c - 1)
  <2> DEFINE r == off + (y - pos)
  <2>1. r \in Offset /\ y = PageSize * q + r
    BY <1>0, <1>1, <1>2, <1>5 DEF Offset, off
  <2>2. p = q /\ o = r
    <3> HIDE DEF r
    <3> QED BY <1>1, <2>1, PageUnique DEF p, o
  <2> QED BY <1>0, <1>1, <1>2, <1>5, <2>2 DEF Offset
<1> QED BY <1>3, <1>4, <1>5 DEF q, off, p, o

\* A position that wraps at the top of the address space, and the way back.
LEMMA WrapFacts ==
    ASSUME NEW a \in MemAddr, NEW k \in 0..(MaxAddr + 1)
    PROVE  /\ (a + k) % (MaxAddr + 1) = IF a + k <= MaxAddr THEN a + k ELSE a + k - (MaxAddr + 1)
           /\ (a + k) % (MaxAddr + 1) \in MemAddr
<1> DEFINE M == MaxAddr + 1
<1>0. M \in Nat /\ M > 0 /\ a \in Nat /\ a < M /\ k \in Nat /\ k <= M
  BY MemoryAssumption DEF MemAddr
<1>1. MaxAddr \in Nat /\ (\A x \in Int : x <= MaxAddr <=> x < M) /\ MaxAddr + 1 = M
  BY MemoryAssumption
<1> HIDE DEF M
<1>2. (a + k) % M = IF a + k < M THEN a + k ELSE a + k - M
  <2>1. CASE a + k < M
    BY <1>0, <2>1
  <2>2. CASE ~(a + k < M)
    BY <1>0, <2>2
  <2> QED BY <2>1, <2>2
<1> DEFINE w == (a + k) % M
<1>3. w = IF a + k <= MaxAddr THEN a + k ELSE a + k - M
  BY <1>0, <1>1, <1>2
<1>4. w \in Nat /\ w < M
  <2> HIDE DEF w
  <2> QED BY <1>0, <1>1, <1>3
<1>5. w \in MemAddr
  <2> HIDE DEF w
  <2> QED BY <1>1, <1>4 DEF MemAddr
<1> QED BY <1>1, <1>3, <1>5 DEF w


-----------------------------------------------------------------------------
(* The paged memory: writes *)

\* The byte that the pages pgs hold at address y.
ByteIn(pgs, y) == IF PageOf(y) \in DOMAIN pgs THEN pgs[PageOf(y)][OffsetInPage(y)] ELSE 0

\* How far y is from a, going up and wrapping at the top.
DistanceFrom(a, y) == (y + MaxAddr + 1 - a) % (MaxAddr + 1)

\* The inductive invariant: the representation, with the types it needs.
MemInv ==
    /\ pages \in Pages /\ bounds \in MemAddr /\ bytes \in [MemAddr -> Byte]
    /\ PagesRepresentBytes

LEMMA DistanceFacts ==
    ASSUME NEW a \in MemAddr, NEW y \in MemAddr
    PROVE  /\ DistanceFrom(a, y) \in MemAddr
           /\ DistanceFrom(a, y) = IF a <= y THEN y - a ELSE y + MaxAddr + 1 - a
<1> DEFINE k == MaxAddr + 1 - a
<1>1. k \in 0..(MaxAddr + 1) /\ y + MaxAddr + 1 - a = y + k
  BY MemoryAssumption DEF MemAddr
<1>2. MaxAddr \in Nat /\ a \in Nat /\ y \in Nat /\ a <= MaxAddr /\ y <= MaxAddr
  BY MemoryAssumption DEF MemAddr
<1>3. (y + k <= MaxAddr) <=> ~(a <= y)
  BY <1>2
<1>4. (a <= y) => y + k - (MaxAddr + 1) = y - a
  BY <1>2
<1> HIDE DEF k
<1>5. /\ (y + k) % (MaxAddr + 1) = IF y + k <= MaxAddr THEN y + k ELSE y + k - (MaxAddr + 1)
      /\ (y + k) % (MaxAddr + 1) \in MemAddr
  BY <1>1, WrapFacts
<1> QED BY <1>1, <1>3, <1>4, <1>5 DEF DistanceFrom

\* The data of a call is a sequence of bytes that fits the address space.
LEMMA DataFacts ==
    ASSUME NEW data \in Data
    PROVE  /\ data \in Seq(Byte) /\ Len(data) \in 0..MaxData
           /\ \A i \in 1..Len(data) : data[i] \in Byte
<1>1. PICK n \in 0..MaxData : data \in [1..n -> Byte]
  BY DEF Data
<1>2. n \in Nat
  BY MemoryAssumption
<1>3. data \in Seq(Byte) /\ Len(data) = n
  BY <1>1, <1>2
<1> QED BY <1>1, <1>3

\* The pages pgs with page number p replaced, or added.
WithPage(pgs, p, new) == [q \in DOMAIN pgs \cup {p} |-> IF q = p THEN new ELSE pgs[q]]

\* Replacing or adding one page changes the bytes of that page only.
LEMMA PageReplaced ==
    ASSUME NEW pgs \in Pages, NEW p \in PageNo, NEW new \in [Offset -> Byte]
    PROVE  /\ WithPage(pgs, p, new) \in Pages
           /\ \A y \in MemAddr : ByteIn(WithPage(pgs, p, new), y) =
                 IF PageOf(y) = p THEN new[OffsetInPage(y)] ELSE ByteIn(pgs, y)
<1> DEFINE res == WithPage(pgs, p, new)
<1>0. res = [q \in DOMAIN pgs \cup {p} |-> IF q = p THEN new ELSE pgs[q]]
  BY DEF WithPage
<1> HIDE DEF res
<1>1. PICK D \in SUBSET PageNo : pgs \in [D -> [Offset -> Byte]]
  BY DEF Pages
<1>2. res \in [D \cup {p} -> [Offset -> Byte]] /\ D \cup {p} \in SUBSET PageNo
  BY <1>0, <1>1
<1>3. res \in Pages
  BY <1>2 DEF Pages
<1>4. DOMAIN pgs = D /\ DOMAIN res = D \cup {p}
  BY <1>0, <1>1
<1>5. ASSUME NEW y \in MemAddr
      PROVE  ByteIn(res, y) = IF PageOf(y) = p THEN new[OffsetInPage(y)] ELSE ByteIn(pgs, y)
  <2> DEFINE q == PageOf(y)
  <2> HIDE DEF q
  <2>1. q \in D \cup {p} => res[q] = IF q = p THEN new ELSE pgs[q]
    BY <1>0, <1>4
  <2> QED BY <1>4, <2>1 DEF ByteIn, q
<1> QED BY <1>3, <1>5 DEF res

\* The page a chunk is copied into, there already or not, is a page.
LEMMA PageInFacts ==
    ASSUME NEW pgs \in Pages, NEW p
    PROVE  /\ PageIn(pgs, p) \in [Offset -> Byte]
           /\ \A y \in MemAddr : PageOf(y) = p => PageIn(pgs, p)[OffsetInPage(y)] = ByteIn(pgs, y)
<1>1. PICK D \in SUBSET PageNo : pgs \in [D -> [Offset -> Byte]]
  BY DEF Pages
<1>2. ZeroPage \in [Offset -> Byte] /\ \A o \in Offset : ZeroPage[o] = 0
  BY MemoryAssumption DEF ZeroPage
<1>3. PageIn(pgs, p) \in [Offset -> Byte]
  BY <1>1, <1>2 DEF PageIn
<1>4. ASSUME NEW y \in MemAddr, PageOf(y) = p
      PROVE  PageIn(pgs, p)[OffsetInPage(y)] = ByteIn(pgs, y)
  <2>1. OffsetInPage(y) \in Offset
    BY PageSplit, MemoryAssumption DEF MemAddr
  <2> QED BY <1>2, <1>4, <2>1 DEF PageIn, ByteIn
<1> QED BY <1>3, <1>4

\* One round of the write loop copies a chunk to the addresses at pos, and
\* nothing elsewhere.
LEMMA WriteChunkFacts ==
    ASSUME NEW data \in Data, NEW x \in WriteState, x.srcOff < Len(data)
    PROVE  \E c \in 1..(Len(data) - x.srcOff) :
             /\ x.pos + c <= MaxAddr + 1
             /\ WriteChunk(x, data) \in WriteState
             /\ WriteChunk(x, data).srcOff = x.srcOff + c
             /\ WriteChunk(x, data).pos = (x.pos + c) % (MaxAddr + 1)
             /\ \A y \in MemAddr : ByteIn(WriteChunk(x, data).pages, y) =
                   IF x.pos <= y /\ y < x.pos + c
                   THEN data[x.srcOff + (y - x.pos) + 1] ELSE ByteIn(x.pages, y)
<1> DEFINE L == Len(data)
           s == x.srcOff
           pos == x.pos
           c == Chunk(pos, L - s)
           off == OffsetInPage(pos)
           old == PageIn(x.pages, PageOf(pos))
           new == [o \in Offset |-> IF o \in off..(off + c - 1)
                                    THEN data[s + (o - off) + 1] ELSE old[o]]
           res == WithPage(x.pages, PageOf(pos), new)
           z == WriteChunk(x, data)
<1>1. /\ data \in Seq(Byte) /\ L \in 0..MaxData /\ \A i \in 1..L : data[i] \in Byte
      /\ MaxData \in Nat /\ MaxAddr \in Nat /\ MaxData <= MaxAddr
  BY DataFacts, MemoryAssumption
<1>2. x.pages \in Pages /\ pos \in MemAddr /\ s \in 0..MaxData /\ s < L
  BY DEF WriteState
<1>3. z = [pages |-> res, pos |-> (pos + c) % (MaxAddr + 1), srcOff |-> s + c]
  BY DEF WriteChunk, WithPage
<1>4. z.pages = res /\ z.pos = (pos + c) % (MaxAddr + 1) /\ z.srcOff = s + c
  BY <1>3
<1>5. L - s \in Nat /\ L - s > 0
  BY <1>1, <1>2
<1>6. c \in 1..(L - s) /\ off + c <= PageSize /\ pos + c <= MaxAddr + 1 /\ PageOf(pos) \in PageNo
  <2> HIDE DEF L, s, pos
  <2> QED BY <1>2, <1>5, ChunkFacts
<1>7. old \in [Offset -> Byte] /\ \A y \in MemAddr : PageOf(y) = PageOf(pos) => old[OffsetInPage(y)] = ByteIn(x.pages, y)
  BY <1>2, PageInFacts
<1>8. off \in Offset /\ off \in Nat
  <2>1. pos \in Nat
    BY <1>2, MemoryAssumption DEF MemAddr
  <2>2. off \in Offset
    BY <2>1, PageSplit
  <2> QED BY <2>2, MemoryAssumption DEF Offset
<1> HIDE DEF old, c, off, s, pos, L
<1>9. new \in [Offset -> Byte]
  <2>1. ASSUME NEW o \in Offset PROVE new[o] \in Byte
    <3>1. CASE o \in off..(off + c - 1)
      <4>1. s + (o - off) + 1 \in 1..L
        BY <1>1, <1>2, <1>6, <1>8, <3>1
      <4> QED BY <1>1, <3>1, <4>1
    <3>2. CASE o \notin off..(off + c - 1)
      BY <1>7, <3>2
    <3> QED BY <3>1, <3>2
  <2> QED BY <2>1
<1>10. /\ res \in Pages
       /\ \A y \in MemAddr : ByteIn(res, y) =
             IF PageOf(y) = PageOf(pos) THEN new[OffsetInPage(y)] ELSE ByteIn(x.pages, y)
  <2> HIDE DEF new
  <2> QED BY <1>2, <1>6, <1>9, PageReplaced
<1>11. ASSUME NEW y \in MemAddr
       PROVE  ByteIn(res, y) = IF pos <= y /\ y < pos + c
                               THEN data[s + (y - pos) + 1] ELSE ByteIn(x.pages, y)
  <2> DEFINE o == OffsetInPage(y)
  <2>1. y \in Nat /\ o \in Offset
    BY PageSplit, MemoryAssumption DEF MemAddr
  <2>2. c \in Nat
    BY <1>5, <1>6
  <2>3. /\ (PageOf(y) = PageOf(pos) /\ o \in off..(off + c - 1)) <=> (pos <= y /\ y < pos + c)
        /\ PageOf(y) = PageOf(pos) => o - off = y - pos
    BY <1>2, <1>6, <2>1, <2>2, ChunkAddresses DEF off
  <2>4. ByteIn(res, y) = IF PageOf(y) = PageOf(pos) THEN new[o] ELSE ByteIn(x.pages, y)
    BY <1>10
  <2>5. new[o] = IF o \in off..(off + c - 1) THEN data[s + (o - off) + 1] ELSE old[o]
    BY <2>1
  <2>6. PageOf(y) = PageOf(pos) => old[o] = ByteIn(x.pages, y)
    BY <1>7
  <2> HIDE DEF o, new, res
  <2> QED BY <2>3, <2>4, <2>5, <2>6
<1>12. z \in WriteState
  <2>1. (pos + c) % (MaxAddr + 1) \in MemAddr
    <3>1. c \in 0..(MaxAddr + 1)
      BY <1>1, <1>2, <1>6
    <3> QED BY <1>2, <3>1, WrapFacts
  <2>2. s + c \in 0..MaxData
    BY <1>1, <1>2, <1>6
  <2> HIDE DEF res
  <2> QED BY <1>3, <1>10, <2>1, <2>2 DEF WriteState
<1> HIDE DEF res, z
<1>13. ASSUME NEW y \in MemAddr
       PROVE  ByteIn(z.pages, y) = IF pos <= y /\ y < pos + c
                               THEN data[s + (y - pos) + 1] ELSE ByteIn(x.pages, y)
  BY <1>4, <1>11
<1> QED BY <1>4, <1>6, <1>12, <1>13 DEF z, s, pos, L


\* The loop of WriteChunks: its body and the state it starts in.
WriteBody(data) ==
    [x \in WriteState |-> IF x.srcOff < Len(data) THEN WriteChunk(x, data) ELSE x]
WriteStart(a) == [pages |-> pages, pos |-> a, srcOff |-> 0]

LEMMA WriteBodyType ==
    ASSUME NEW data \in Data
    PROVE  WriteBody(data) \in [WriteState -> WriteState]
<1>1. ASSUME NEW x \in WriteState, x.srcOff < Len(data) PROVE WriteChunk(x, data) \in WriteState
  BY <1>1, WriteChunkFacts
<1> QED BY <1>1 DEF WriteBody

\* The invariant of the loop after n rounds: the first srcOff bytes of the data
\* are at the srcOff addresses from a on, every other byte is the old one, and
\* the loop has moved at least one byte per round.
WriteRoundInv(a, data, x, n) ==
    /\ x.srcOff <= Len(data) /\ (n <= x.srcOff \/ x.srcOff = Len(data))
    /\ x.pos = (a + x.srcOff) % (MaxAddr + 1)
    /\ \A y \in MemAddr : ByteIn(x.pages, y) =
          IF DistanceFrom(a, y) < x.srcOff THEN data[DistanceFrom(a, y) + 1] ELSE ByteIn(pages, y)

\* The chunk at pos is the part of the distances from a that comes next, and
\* the position after it is the one the new number of bytes gives.
LEMMA ChunkDistances ==
    ASSUME NEW a \in MemAddr, NEW s \in Nat, NEW c \in Nat, c > 0, s + c <= MaxAddr,
           NEW pos \in MemAddr, pos = (a + s) % (MaxAddr + 1), pos + c <= MaxAddr + 1
    PROVE  /\ (pos + c) % (MaxAddr + 1) = (a + (s + c)) % (MaxAddr + 1)
           /\ \A y \in MemAddr :
                 /\ (pos <= y /\ y < pos + c) <=> (s <= DistanceFrom(a, y) /\ DistanceFrom(a, y) < s + c)
                 /\ (pos <= y /\ y < pos + c) => y - pos = DistanceFrom(a, y) - s
<1> DEFINE M == MaxAddr + 1
<1>0. MaxAddr \in Nat /\ a \in Nat /\ a <= MaxAddr /\ pos \in Nat /\ pos <= MaxAddr
  BY MemoryAssumption DEF MemAddr
<1>1. s \in 0..M /\ c \in 0..M /\ s + c \in 0..M
  BY <1>0
<1>2. pos = IF a + s <= MaxAddr THEN a + s ELSE a + s - M
  BY <1>1, WrapFacts
<1>3. (pos + c) % (MaxAddr + 1) = IF pos + c <= MaxAddr THEN pos + c ELSE pos + c - M
  BY <1>1, WrapFacts
<1>4. (a + (s + c)) % (MaxAddr + 1) = IF a + (s + c) <= MaxAddr THEN a + (s + c) ELSE a + (s + c) - M
  <2> DEFINE k == s + c
  <2>1. k \in 0..M
    BY <1>1
  <2> HIDE DEF k
  <2>2. (a + k) % (MaxAddr + 1) = IF a + k <= MaxAddr THEN a + k ELSE a + k - M
    BY <2>1, WrapFacts
  <2> QED BY <2>2 DEF k
<1>5. (IF pos + c <= MaxAddr THEN pos + c ELSE pos + c - M)
      = (IF a + (s + c) <= MaxAddr THEN a + (s + c) ELSE a + (s + c) - M)
  <2>1. CASE a + s <= MaxAddr
    BY <1>0, <1>2, <2>1
  <2>2. CASE ~(a + s <= MaxAddr)
    BY <1>0, <1>2, <2>2
  <2> QED BY <2>1, <2>2
<1>6. ASSUME NEW y \in MemAddr
      PROVE  /\ (pos <= y /\ y < pos + c) <=> (s <= DistanceFrom(a, y) /\ DistanceFrom(a, y) < s + c)
             /\ (pos <= y /\ y < pos + c) => y - pos = DistanceFrom(a, y) - s
  <2> DEFINE d == DistanceFrom(a, y)
  <2>1. d = IF a <= y THEN y - a ELSE y + MaxAddr + 1 - a
    BY DistanceFacts
  <2>2. y \in Nat /\ y <= MaxAddr
    BY <1>0 DEF MemAddr
  <2> DEFINE Good == /\ (pos <= y /\ y < pos + c) <=> (s <= d /\ d < s + c)
                     /\ (pos <= y /\ y < pos + c) => y - pos = d - s
  <2> SUFFICES Good
    OBVIOUS
  <2> HIDE DEF d
  <2>3. CASE a + s <= MaxAddr
    BY <1>0, <1>2, <2>1, <2>2, <2>3
  <2>4. CASE ~(a + s <= MaxAddr)
    BY <1>0, <1>2, <2>1, <2>2, <2>4
  <2> QED BY <2>3, <2>4
<1> QED BY <1>3, <1>4, <1>5, <1>6

LEMMA WriteRoundKeeps ==
    ASSUME NEW a \in MemAddr, NEW data \in Data, NEW x \in WriteState, NEW n \in Nat,
           WriteRoundInv(a, data, x, n)
    PROVE  WriteRoundInv(a, data, WriteBody(data)[x], n + 1)
<1> DEFINE L == Len(data)
           s == x.srcOff
<1>1. L \in 0..MaxData /\ MaxData \in Nat /\ MaxAddr \in Nat /\ MaxData <= MaxAddr
  BY DataFacts, MemoryAssumption
<1>2. s \in 0..MaxData /\ x.pos \in MemAddr /\ s <= L
  BY DEF WriteState, WriteRoundInv
<1>3. CASE ~(s < L)
  <2>1. WriteBody(data)[x] = x /\ s = L
    BY <1>1, <1>2, <1>3 DEF WriteBody
  <2> QED BY <2>1 DEF WriteRoundInv
<1>4. CASE s < L
  <2> DEFINE z == WriteChunk(x, data)
  <2>1. WriteBody(data)[x] = z
    BY <1>4 DEF WriteBody
  <2>2. PICK c \in 1..(L - s) :
             /\ x.pos + c <= MaxAddr + 1
             /\ z.srcOff = s + c
             /\ z.pos = (x.pos + c) % (MaxAddr + 1)
             /\ \A y \in MemAddr : ByteIn(z.pages, y) =
                   IF x.pos <= y /\ y < x.pos + c
                   THEN data[s + (y - x.pos) + 1] ELSE ByteIn(x.pages, y)
    BY <1>4, WriteChunkFacts
  <2> HIDE DEF z
  <2>3. c \in Nat /\ c > 0 /\ s + c <= L /\ s + c <= MaxAddr /\ s \in Nat
    BY <1>1, <1>2, <2>2
  <2>4. x.pos = (a + s) % (MaxAddr + 1)
    BY DEF WriteRoundInv
  <2>5. /\ (x.pos + c) % (MaxAddr + 1) = (a + (s + c)) % (MaxAddr + 1)
        /\ \A y \in MemAddr :
                 /\ (x.pos <= y /\ y < x.pos + c) <=> (s <= DistanceFrom(a, y) /\ DistanceFrom(a, y) < s + c)
                 /\ (x.pos <= y /\ y < x.pos + c) => y - x.pos = DistanceFrom(a, y) - s
    <3> HIDE DEF s
    <3> QED BY <1>2, <2>2, <2>3, <2>4, ChunkDistances
  <2>6. z.pos = (a + z.srcOff) % (MaxAddr + 1)
    BY <2>2, <2>5
  <2>7. z.srcOff <= L /\ n + 1 <= z.srcOff
    <3>1. n <= s
      BY <1>4, <2>3 DEF WriteRoundInv
    <3> QED BY <1>1, <2>2, <2>3, <3>1
  <2>8. ASSUME NEW y \in MemAddr
        PROVE  ByteIn(z.pages, y) =
                 IF DistanceFrom(a, y) < z.srcOff THEN data[DistanceFrom(a, y) + 1] ELSE ByteIn(pages, y)
    <3> DEFINE d == DistanceFrom(a, y)
               hit == x.pos <= y /\ y < x.pos + c
    <3>1. d \in Nat
      <4>1. d \in MemAddr
        BY DistanceFacts
      <4> QED BY <4>1, <1>1 DEF MemAddr
    <3>2. /\ hit <=> (s <= d /\ d < s + c)
          /\ hit => y - x.pos = d - s
      BY <2>5
    <3>3. ByteIn(z.pages, y) = IF hit THEN data[s + (y - x.pos) + 1] ELSE ByteIn(x.pages, y)
      BY <2>2
    <3>4. ByteIn(x.pages, y) = IF d < s THEN data[d + 1] ELSE ByteIn(pages, y)
      BY DEF WriteRoundInv
    <3> HIDE DEF d, hit
    <3>5. hit => s + (y - x.pos) + 1 = d + 1
      BY <2>3, <3>1, <3>2
    <3>6. hit => ByteIn(z.pages, y) = data[d + 1]
      BY <3>3, <3>5
    <3>7. d < z.srcOff <=> (hit \/ d < s)
      BY <2>2, <2>3, <3>1, <3>2
    <3>8. ~hit => ByteIn(z.pages, y) = IF d < s THEN data[d + 1] ELSE ByteIn(pages, y)
      BY <3>3, <3>4
    <3>9. ByteIn(z.pages, y) = IF d < z.srcOff THEN data[d + 1] ELSE ByteIn(pages, y)
      BY <3>6, <3>7, <3>8
    <3> QED BY <3>9 DEF d
  <2> QED BY <2>1, <2>6, <2>7, <2>8 DEF WriteRoundInv
<1> QED BY <1>3, <1>4

\* write_range_mut as a whole: the data is at the addresses from a on, wrapping
\* at the top, and every other address reads as before.
LEMMA WriteChunksFacts ==
    ASSUME NEW a \in MemAddr, NEW data \in Data, pages \in Pages
    PROVE  /\ WriteChunks(a, data) \in Pages
           /\ \A y \in MemAddr : ByteIn(WriteChunks(a, data), y) =
                 IF DistanceFrom(a, y) < Len(data)
                 THEN data[DistanceFrom(a, y) + 1] ELSE ByteIn(pages, y)
<1> DEFINE r == Rounds(WriteBody(data), WriteStart(a))
           P == {n \in Nat : WriteRoundInv(a, data, r[n], n)}
<1>0. Len(data) \in Nat /\ MaxData \in Nat
  BY DataFacts, MemoryAssumption
<1>1. WriteStart(a) \in WriteState
  BY <1>0 DEF WriteStart, WriteState
<1>2. /\ r[0] = WriteStart(a)
      /\ \A n \in Nat : r[n] \in WriteState /\ r[n + 1] = WriteBody(data)[r[n]]
  <2>1. WriteBody(data) \in [WriteState -> WriteState]
    BY WriteBodyType
  <2> QED BY <1>1, <2>1, RoundsFacts
<1> HIDE DEF r
<1>3. 0 \in P
  <2>1. /\ WriteStart(a).srcOff = 0 /\ WriteStart(a).pos = a /\ WriteStart(a).pages = pages
    BY DEF WriteStart
  <2>2. a = (a + 0) % (MaxAddr + 1)
    <3>1. a \in Nat /\ a <= MaxAddr /\ MaxAddr \in Nat /\ 0 \in 0..(MaxAddr + 1) /\ a + 0 = a
      BY MemoryAssumption DEF MemAddr
    <3> QED BY <3>1, WrapFacts
  <2>3. \A y \in MemAddr : ~(DistanceFrom(a, y) < 0)
    <3>1. \A y \in MemAddr : DistanceFrom(a, y) \in Nat
      BY DistanceFacts, MemoryAssumption DEF MemAddr
    <3> QED BY <3>1
  <2>4. WriteRoundInv(a, data, WriteStart(a), 0)
    BY <1>0, <2>1, <2>2, <2>3 DEF WriteRoundInv
  <2> QED BY <1>2, <2>4
<1>4. ASSUME NEW n \in Nat, n \in P PROVE n + 1 \in P
  BY <1>2, <1>4, WriteRoundKeeps
<1>5. Len(data) \in P
  <2> HIDE DEF P
  <2> QED BY <1>0, <1>3, <1>4, SetInduction
<1> DEFINE z == r[Len(data)]
<1>6. z \in WriteState /\ WriteRoundInv(a, data, z, Len(data))
  BY <1>0, <1>2, <1>5
<1>7. z.srcOff = Len(data) /\ z.pages \in Pages
  BY <1>0, <1>6 DEF WriteRoundInv, WriteState
<1>8. WriteChunks(a, data) = z.pages
  BY DEF WriteChunks, r, WriteBody, WriteStart
<1> QED BY <1>6, <1>7, <1>8 DEF WriteRoundInv


\* What the flat map becomes, by distance from the address written.
LEMMA FlatWriteFacts ==
    ASSUME NEW a \in MemAddr, NEW data, Len(data) \in Nat, bytes \in [MemAddr -> Byte],
           \A i \in 1..Len(data) : data[i] \in Byte
    PROVE  /\ FlatWrite(a, data) \in [MemAddr -> Byte]
           /\ \A y \in MemAddr : FlatWrite(a, data)[y] =
                 IF DistanceFrom(a, y) < Len(data) THEN data[DistanceFrom(a, y) + 1] ELSE bytes[y]
<1>1. FlatWrite(a, data) = [y \in MemAddr |->
          IF DistanceFrom(a, y) < Len(data) THEN data[DistanceFrom(a, y) + 1] ELSE bytes[y]]
  BY DEF FlatWrite, DistanceFrom
<1>2. ASSUME NEW y \in MemAddr, DistanceFrom(a, y) < Len(data)
      PROVE  data[DistanceFrom(a, y) + 1] \in Byte
  <2>1. DistanceFrom(a, y) \in MemAddr
    BY DistanceFacts
  <2>2. DistanceFrom(a, y) \in Nat
    BY <2>1, MemoryAssumption DEF MemAddr
  <2>3. DistanceFrom(a, y) + 1 \in 1..Len(data)
    BY <1>2, <2>2
  <2> QED BY <2>3
<1> QED BY <1>1, <1>2

\* Pages that read as the flat map after the write keep the invariant.
LEMMA MemInvKept ==
    ASSUME MemInv, NEW a \in MemAddr, NEW data, Len(data) \in Nat,
           \A i \in 1..Len(data) : data[i] \in Byte,
           pages' \in Pages, bytes' = FlatWrite(a, data), bounds' = bounds,
           \A y \in MemAddr : ByteIn(pages', y) =
              IF DistanceFrom(a, y) < Len(data) THEN data[DistanceFrom(a, y) + 1] ELSE ByteIn(pages, y)
    PROVE  MemInv'
<1>1. bytes \in [MemAddr -> Byte] /\ bounds \in MemAddr /\ \A y \in MemAddr : ByteIn(pages, y) = bytes[y]
  BY DEF MemInv, PagesRepresentBytes, Read, ByteIn
<1>2. /\ bytes' \in [MemAddr -> Byte]
      /\ \A y \in MemAddr : bytes'[y] =
            IF DistanceFrom(a, y) < Len(data) THEN data[DistanceFrom(a, y) + 1] ELSE bytes[y]
  BY <1>1, FlatWriteFacts
<1>3. \A y \in MemAddr : ByteIn(pages', y) = bytes'[y]
  BY <1>1, <1>2
<1>4. PagesRepresentBytes'
  BY <1>3 DEF PagesRepresentBytes, Read, ByteIn
<1> QED BY <1>1, <1>2, <1>4 DEF MemInv

LEMMA WriteByteKeeps ==
    ASSUME MemInv, NEW a \in MemAddr, NEW v \in Byte, WriteByte(a, v)
    PROVE  MemInv'
<1> DEFINE new == [PageIn(pages, PageOf(a)) EXCEPT ![OffsetInPage(a)] = v]
           p == PageOf(a)
<1>0. pages \in Pages /\ MaxAddr \in Nat /\ PageSize \in Nat /\ PageSize > 0
  BY MemoryAssumption DEF MemInv
<1>1. pages' = WithPage(pages, p, new)
  BY DEF WriteByte, WithPage
<1>2. OffsetInPage(a) \in Offset /\ p \in PageNo /\ a \in Nat
  <2>1. a \in Nat
    BY <1>0 DEF MemAddr
  <2>2. 1 \in Nat /\ 1 > 0
    OBVIOUS
  <2> QED BY <2>1, <2>2, PageSplit, ChunkFacts
<1>3. /\ PageIn(pages, p) \in [Offset -> Byte]
      /\ \A y \in MemAddr : PageOf(y) = p => PageIn(pages, p)[OffsetInPage(y)] = ByteIn(pages, y)
  BY <1>0, PageInFacts
<1>4. new \in [Offset -> Byte]
  BY <1>3
<1>5. /\ pages' \in Pages
      /\ \A y \in MemAddr : ByteIn(pages', y) =
            IF PageOf(y) = p THEN new[OffsetInPage(y)] ELSE ByteIn(pages, y)
  <2> HIDE DEF new, p
  <2> QED BY <1>0, <1>1, <1>2, <1>4, PageReplaced
<1>6. ASSUME NEW y \in MemAddr
      PROVE  ByteIn(pages', y) =
               IF DistanceFrom(a, y) < Len(<<v>>) THEN <<v>>[DistanceFrom(a, y) + 1] ELSE ByteIn(pages, y)
  <2> DEFINE d == DistanceFrom(a, y)
  <2>0. y \in Nat /\ y <= MaxAddr /\ a <= MaxAddr
    BY <1>0 DEF MemAddr
  <2>1. d = IF a <= y THEN y - a ELSE y + MaxAddr + 1 - a
    BY DistanceFacts
  <2>2. OffsetInPage(y) \in Offset
    BY <2>0, PageSplit
  <2>3. d < 1 <=> y = a
    <3> HIDE DEF d
    <3> QED BY <1>0, <1>2, <2>0, <2>1
  <2>4. (PageOf(y) = p /\ OffsetInPage(y) = OffsetInPage(a)) <=> y = a
    <3>1. /\ y = PageSize * PageOf(y) + OffsetInPage(y)
          /\ a = PageSize * PageOf(a) + OffsetInPage(a)
      BY <1>2, <2>0, PageSplit
    <3> QED BY <3>1
  <2>5. CASE y = a
    <3>1. d = 0
      BY <1>2, <2>1, <2>5
    <3>2. ByteIn(pages', y) = v
      BY <1>2, <1>3, <1>5, <2>5
    <3> QED BY <3>1, <3>2
  <2>6. CASE y # a
    <3>1. ByteIn(pages', y) = ByteIn(pages, y)
      BY <1>2, <1>3, <1>5, <2>2, <2>4, <2>6
    <3>2. ~(d < 1) /\ Len(<<v>>) = 1
      BY <2>3, <2>6
    <3> QED BY <3>1, <3>2
  <2> QED BY <2>5, <2>6
<1>7. bytes' = FlatWrite(a, <<v>>) /\ bounds' = bounds
  BY DEF WriteByte
<1>8. Len(<<v>>) \in Nat /\ \A i \in 1..Len(<<v>>) : <<v>>[i] \in Byte
  OBVIOUS
<1> HIDE DEF new, p
<1> QED BY <1>5, <1>6, <1>7, <1>8, MemInvKept

LEMMA MemStep ==
    ASSUME MemInv, [MemoryNext]_memoryVars
    PROVE  MemInv'
<1>1. ASSUME NEW a \in MemAddr, NEW v \in Byte, WriteByte(a, v) PROVE MemInv'
  BY <1>1, WriteByteKeeps
<1>2. ASSUME NEW a \in MemAddr, NEW data \in Data, WriteRange(a, data) \/ WriteRangeMut(a, data)
      PROVE  MemInv'
  <2>1. pages' = WriteChunks(a, data) /\ bytes' = FlatWrite(a, data) /\ bounds' = bounds
    BY <1>2 DEF WriteRange, WriteRangeMut
  <2>2. Len(data) \in Nat /\ \A i \in 1..Len(data) : data[i] \in Byte
    BY DataFacts, MemoryAssumption
  <2>3. pages \in Pages
    BY DEF MemInv
  <2>4. /\ pages' \in Pages
        /\ \A y \in MemAddr : ByteIn(pages', y) =
              IF DistanceFrom(a, y) < Len(data) THEN data[DistanceFrom(a, y) + 1] ELSE ByteIn(pages, y)
    BY <2>1, <2>3, WriteChunksFacts
  <2> QED BY <2>1, <2>2, <2>4, MemInvKept
<1>3. CASE UNCHANGED memoryVars
  BY <1>3 DEF memoryVars, MemInv, PagesRepresentBytes, Read, Pages
<1> QED BY <1>1, <1>2, <1>3 DEF MemoryNext

LEMMA MemInitInv ==
    ASSUME MemoryInit
    PROVE  MemInv
<1>1. pages \in [{} -> [Offset -> Byte]] /\ {} \in SUBSET PageNo /\ DOMAIN pages = {}
  BY DEF MemoryInit
<1>2. pages \in Pages
  BY <1>1 DEF Pages
<1>3. \A a \in MemAddr : Read(a) = 0
  BY <1>1 DEF Read
<1> QED BY <1>2, <1>3, MemoryAssumption DEF MemoryInit, MemInv, PagesRepresentBytes

\* Whatever sequence of byte and range writes, over pages that exist or not,
\* over page borders and over the top of the address space, the sparse pages
\* read as the flat map of bytes: for every page size, address width and length.
THEOREM PagesAreBytes == MemorySpec => []PagesRepresentBytes
<1>1. MemInv => PagesRepresentBytes
  BY DEF MemInv
<1> QED BY <1>1, MemInitInv, MemStep, PTL DEF MemorySpec


-----------------------------------------------------------------------------
(* The paged memory: range reads *)

\* The n bytes of the flat map from address a on.
FlatBytes(a, n) == [i \in 1..n |-> bytes[a + i - 1]]

LEMMA FlatBytesJoin ==
    ASSUME bytes \in [MemAddr -> Byte], NEW a \in Nat, NEW m \in Nat, NEW c \in Nat,
           a + m + c <= MaxAddr + 1
    PROVE  /\ FlatBytes(a, m) \in Seq(Byte)
           /\ FlatBytes(a, m) \o FlatBytes(a + m, c) = FlatBytes(a, m + c)
<1>0. MaxAddr \in Nat
  BY MemoryAssumption
<1>1. \A i \in 1..m : a + i - 1 \in MemAddr
  BY <1>0 DEF MemAddr
<1>2. \A i \in 1..c : a + m + i - 1 \in MemAddr
  BY <1>0 DEF MemAddr
<1>3. \A i \in 1..(m + c) : a + i - 1 \in MemAddr
  BY <1>0 DEF MemAddr
<1> DEFINE s == FlatBytes(a, m)
           t == FlatBytes(a + m, c)
           u == FlatBytes(a, m + c)
<1>4. s \in [1..m -> Byte] /\ t \in [1..c -> Byte] /\ u \in [1..(m + c) -> Byte]
  BY <1>1, <1>2, <1>3 DEF FlatBytes
<1>5. s \in Seq(Byte) /\ Len(s) = m /\ t \in Seq(Byte) /\ Len(t) = c
      /\ u \in Seq(Byte) /\ Len(u) = m + c
  <2> HIDE DEF s, t, u
  <2> QED BY <1>4
<1>6. /\ \A i \in 1..m : s[i] = bytes[a + i - 1]
      /\ \A i \in 1..c : t[i] = bytes[a + m + i - 1]
      /\ \A i \in 1..(m + c) : u[i] = bytes[a + i - 1]
  BY DEF FlatBytes
<1> HIDE DEF s, t, u
<1>7. /\ s \o t \in Seq(Byte) /\ Len(s \o t) = m + c
      /\ \A i \in 1..(m + c) : (s \o t)[i] = IF i <= m THEN s[i] ELSE t[i - m]
  BY <1>5, ConcatProperties
<1>8. ASSUME NEW i \in 1..(m + c) PROVE (s \o t)[i] = u[i]
  <2>1. CASE i <= m
    <3>1. i \in 1..m
      BY <2>1
    <3> QED BY <1>6, <1>7, <2>1, <3>1
  <2>2. CASE ~(i <= m)
    <3>1. i - m \in 1..c /\ a + m + (i - m) - 1 = a + i - 1
      BY <2>2
    <3>2. t[i - m] = bytes[a + i - 1]
      BY <1>6, <3>1
    <3> QED BY <1>6, <1>7, <2>2, <3>2
  <2> QED BY <2>1, <2>2
<1>9. s \o t = u
  BY <1>5, <1>7, <1>8, SeqEqual
<1> QED BY <1>5, <1>9 DEF s, t, u

\* One round of the read loop appends the bytes of the flat map from pos on.
LEMMA ReadChunkFacts ==
    ASSUME MemInv, NEW end \in MemAddr, NEW x \in ReadState, x.pos < end
    PROVE  \E c \in 1..(end - x.pos) :
             /\ ReadChunk(x, end) \in ReadState
             /\ ReadChunk(x, end).pos = x.pos + c
             /\ ReadChunk(x, end).result = x.result \o FlatBytes(x.pos, c)
<1> DEFINE pos == x.pos
           c == Chunk(pos, end - pos)
           off == OffsetInPage(pos)
           q == PageOf(pos)
           part == IF q \in DOMAIN pages
                   THEN [i \in 1..c |-> pages[q][off + i - 1]]
                   ELSE [i \in 1..c |-> 0]
           z == ReadChunk(x, end)
<1>0. /\ MaxAddr \in Nat /\ end \in Nat /\ end <= MaxAddr /\ pos \in Nat /\ pos \in MemAddr
      /\ PageSize \in Nat /\ x.result \in Seq(Byte)
  BY MemoryAssumption DEF ReadState, MemAddr
<1>1. z = [pos |-> pos + c, result |-> x.result \o part]
  BY DEF ReadChunk
<1>2. end - pos \in Nat /\ end - pos > 0
  BY <1>0
<1>3. c \in 1..(end - pos) /\ off + c <= PageSize /\ off \in Offset
  <2> HIDE DEF pos
  <2> QED BY <1>0, <1>2, ChunkFacts, PageSplit
<1>4. c \in Nat /\ pos + c <= end /\ pos + c \in MemAddr /\ off \in Nat
  BY <1>0, <1>2, <1>3 DEF MemAddr, Offset
<1> HIDE DEF c, off, pos
<1>5. ASSUME NEW i \in 1..c PROVE part[i] = bytes[pos + i - 1]
  <2> DEFINE y == pos + i - 1
  <2>1. y \in Nat /\ y \in MemAddr /\ pos <= y /\ y < pos + c
    BY <1>0, <1>4 DEF MemAddr
  <2> HIDE DEF y
  <2>2. PageOf(y) = q /\ OffsetInPage(y) - off = y - pos
    BY <1>0, <1>3, <1>4, <2>1, ChunkAddresses DEF off
  <2>3. OffsetInPage(y) \in Nat
    BY <2>1, <1>0, PageSplit DEF Offset
  <2>4. OffsetInPage(y) = off + i - 1
    BY <1>0, <1>4, <2>2, <2>3 DEF y
  <2>5. bytes[y] = IF q \in DOMAIN pages THEN pages[q][off + i - 1] ELSE 0
    BY <2>1, <2>2, <2>4 DEF MemInv, PagesRepresentBytes, Read
  <2> QED BY <2>5 DEF y
<1>6. part = FlatBytes(pos, c)
  <2>1. part = [i \in 1..c |-> part[i]]
    OBVIOUS
  <2> HIDE DEF part
  <2> QED BY <1>5, <2>1 DEF FlatBytes
<1>7. part \in Seq(Byte)
  <2>1. pos + c + 0 <= MaxAddr + 1 /\ 0 \in Nat
    BY <1>0, <1>4
  <2> HIDE DEF part
  <2> QED BY <1>0, <1>4, <1>6, <2>1, FlatBytesJoin DEF MemInv
<1>8. x.result \o part \in Seq(Byte)
  BY <1>0, <1>7, ConcatProperties
<1> HIDE DEF part
<1>9. z \in ReadState /\ z.pos = pos + c /\ z.result = x.result \o FlatBytes(pos, c)
  <2> HIDE DEF z
  <2> QED BY <1>1, <1>4, <1>6, <1>8 DEF ReadState
<1> QED BY <1>3, <1>9 DEF pos

\* The loop of ReadChunks: its body and the state it starts in.
ReadBody(end) == [x \in ReadState |-> IF x.pos < end THEN ReadChunk(x, end) ELSE x]
ReadStart(a) == [pos |-> a, result |-> <<>>]

\* The invariant of the loop after n rounds: the result is the flat map from a
\* up to pos, which has moved at least one byte per round.
ReadRoundInv(a, end, x, n) ==
    /\ a <= x.pos /\ x.pos <= end /\ (a + n <= x.pos \/ x.pos = end)
    /\ x.result = FlatBytes(a, x.pos - a)

LEMMA ReadRoundKeeps ==
    ASSUME MemInv, NEW a \in MemAddr, NEW end \in MemAddr, NEW x \in ReadState, NEW n \in Nat,
           ReadRoundInv(a, end, x, n)
    PROVE  ReadRoundInv(a, end, ReadBody(end)[x], n + 1)
<1>0. /\ MaxAddr \in Nat /\ end \in Nat /\ end <= MaxAddr /\ a \in Nat
      /\ x.pos \in Nat /\ x.pos <= MaxAddr /\ a <= x.pos /\ x.pos <= end
  BY MemoryAssumption DEF ReadState, MemAddr, ReadRoundInv
<1>1. CASE ~(x.pos < end)
  <2>1. ReadBody(end)[x] = x /\ x.pos = end
    BY <1>0, <1>1 DEF ReadBody
  <2> QED BY <2>1 DEF ReadRoundInv
<1>2. CASE x.pos < end
  <2> DEFINE z == ReadChunk(x, end)
  <2>1. ReadBody(end)[x] = z
    BY <1>2 DEF ReadBody
  <2>2. PICK c \in 1..(end - x.pos) :
           z.pos = x.pos + c /\ z.result = x.result \o FlatBytes(x.pos, c)
    BY <1>2, ReadChunkFacts
  <2> HIDE DEF z
  <2> DEFINE m == x.pos - a
  <2>3. c \in Nat /\ c > 0 /\ x.pos + c <= end /\ m \in Nat /\ a + m = x.pos
        /\ a + m + c <= MaxAddr + 1 /\ z.pos - a = m + c
    BY <1>0, <2>2
  <2>4. x.result = FlatBytes(a, m)
    BY DEF ReadRoundInv
  <2> HIDE DEF m
  <2>5. FlatBytes(a, m) \o FlatBytes(a + m, c) = FlatBytes(a, m + c)
    BY <1>0, <2>3, FlatBytesJoin DEF MemInv
  <2>6. z.result = FlatBytes(a, z.pos - a)
    BY <2>2, <2>3, <2>4, <2>5
  <2>7. a <= z.pos /\ z.pos <= end /\ a + (n + 1) <= z.pos
    <3>1. a + n <= x.pos
      BY <1>0, <1>2 DEF ReadRoundInv
    <3> QED BY <1>0, <2>2, <2>3, <3>1
  <2> QED BY <2>1, <2>6, <2>7 DEF ReadRoundInv
<1> QED BY <1>1, <1>2

\* read_range as a whole: the bytes of the flat map, in order.
LEMMA ReadChunksFacts ==
    ASSUME MemInv, NEW a \in MemAddr, NEW len \in MemAddr, a + len <= MaxAddr
    PROVE  ReadChunks(a, len) = FlatBytes(a, len)
<1> DEFINE end == a + len
           r == Rounds(ReadBody(end), ReadStart(a))
           P == {n \in Nat : ReadRoundInv(a, end, r[n], n)}
<1>0. /\ MaxAddr \in Nat /\ a \in Nat /\ len \in Nat /\ end \in Nat /\ end \in MemAddr
      /\ a <= end /\ end - a = len
  BY MemoryAssumption DEF MemAddr
<1>1. ReadStart(a) \in ReadState
  BY DEF ReadStart, ReadState
<1>2. ReadChunks(a, len) = r[len].result
  BY DEF ReadChunks, ReadBody, ReadStart
<1>3. ReadBody(end) \in [ReadState -> ReadState]
  <2> HIDE DEF end
  <2>1. ASSUME NEW x \in ReadState, x.pos < end PROVE ReadChunk(x, end) \in ReadState
    BY <1>0, <2>1, ReadChunkFacts
  <2> QED BY <2>1 DEF ReadBody
<1> HIDE DEF end
<1>4. /\ r[0] = ReadStart(a)
      /\ \A n \in Nat : r[n] \in ReadState /\ r[n + 1] = ReadBody(end)[r[n]]
  BY <1>1, <1>3, RoundsFacts
<1> HIDE DEF r
<1>5. 0 \in P
  <2>1. FlatBytes(a, 0) = <<>>
    BY DEF FlatBytes
  <2>2. ReadStart(a).pos = a /\ ReadStart(a).result = <<>> /\ a - a = 0 /\ a + 0 = a
    BY <1>0 DEF ReadStart
  <2>3. ReadRoundInv(a, end, ReadStart(a), 0)
    BY <1>0, <2>1, <2>2 DEF ReadRoundInv
  <2> QED BY <1>4, <2>3
<1>6. ASSUME NEW n \in Nat, n \in P PROVE n + 1 \in P
  BY <1>0, <1>4, <1>6, ReadRoundKeeps
<1>7. len \in P
  <2> HIDE DEF P
  <2> QED BY <1>0, <1>5, <1>6, SetInduction
<1>8. ReadRoundInv(a, end, r[len], len) /\ r[len].pos \in Nat
  <2>1. r[len] \in ReadState
    BY <1>0, <1>4
  <2> QED BY <1>0, <1>7, <2>1 DEF ReadState, MemAddr
<1>9. r[len].pos = end
  BY <1>0, <1>8 DEF ReadRoundInv, end
<1> QED BY <1>0, <1>2, <1>8, <1>9 DEF ReadRoundInv

\* A range that read_range accepts lies in bounds, even at the top of the
\* address space, and what it returns is the flat map byte for byte: for every
\* page size, address width and history of writes.
THEOREM RangeReadsAreBytes == MemorySpec => []RangeReadsMatchBytes
<1>1. ASSUME MemInv PROVE RangeReadsMatchBytes
  <2> SUFFICES ASSUME NEW a \in MemAddr, NEW len \in MemAddr, AddrInBounds(a, len)
               PROVE  /\ \A i \in 1..len : a + i - 1 < bounds
                      /\ ReadChunks(a, len) = [i \in 1..len |-> bytes[a + i - 1]]
    BY DEF RangeReadsMatchBytes
  <2>1. a + len <= MaxAddr /\ a + len <= bounds
    BY DEF AddrInBounds
  <2>2. bounds \in Nat /\ a \in Nat /\ len \in Nat
    BY <1>1, MemoryAssumption DEF MemInv, MemAddr
  <2>3. \A i \in 1..len : a + i - 1 < bounds
    BY <2>1, <2>2
  <2>4. ReadChunks(a, len) = FlatBytes(a, len)
    BY <1>1, <2>1, ReadChunksFacts
  <2> QED BY <2>3, <2>4 DEF FlatBytes
<1> QED BY <1>1, MemInitInv, MemStep, PTL DEF MemorySpec
=============================================================================
