---------------------------- MODULE UTF16Lemmas ----------------------------
(***************************************************************************)
(* Facts about the input that the proofs of the kernels share.             *)
(***************************************************************************)
EXTENDS UTF16Input, FiniteSetTheorems, WellFoundedInduction, TLAPS

\* The high byte decides the class of a code unit: the byte kernels' test of
\* (high byte & 0xFC) is the scalar kernel's pair of 16-bit range tests.
LEMMA ClassOfHighByte ==
    ASSUME NEW b \in 0..255, NEW l \in 0..255
    PROVE  /\ IsHighSurrogate(256 * b + l) <=> IsHi8(b)
           /\ IsLowSurrogate(256 * b + l) <=> IsLo8(b)
<1>1. IsHi8(b) <=> b \in 216..219
  BY DEF IsHi8, MaskFC
<1>2. IsLo8(b) <=> b \in 220..223
  BY DEF IsLo8, MaskFC
<1>3. QED  BY <1>1, <1>2 DEF IsHighSurrogate, IsLowSurrogate

\* The input is its complete units and, when its size is odd, one byte more.
LEMMA UnitsType ==
    ASSUME InputTypeOK
    PROVE  /\ size \in Nat /\ Units \in Nat
           /\ size = 2 * Units + OddTrailingByte
           /\ OddTrailingByte \in {0, 1}
  BY MaxBytesAssumption DEF InputTypeOK, Units, OddTrailingByte

\* The bytes of a whole code unit are bytes of the input.
LEMMA BytesOfUnit ==
    ASSUME InputTypeOK, NEW k \in 0..Units-1
    PROVE  /\ 2*k + HB \in 0..size-1 /\ 2*k + (1 - HB) \in 0..size-1
           /\ HighByte(k) \in 0..255 /\ LowByte(k) \in 0..255
<1>1. HB \in {0, 1} /\ size \in Nat /\ 2*k + 1 <= size - 1 /\ k \in Nat
  BY UnitsType DEF InputTypeOK
<1>2. 2*k + HB \in 0..size-1 /\ 2*k + (1 - HB) \in 0..size-1
  BY <1>1
<1>3. \A i \in 0..size-1 : data[i] \in 0..255
  BY BytesAssumption DEF InputTypeOK
<1>4. QED  BY <1>2, <1>3 DEF HighByte, LowByte

\* Reading a unit's high byte is enough to know whether it is in Highs or Lows.
LEMMA ClassOfUnit ==
    ASSUME InputTypeOK, NEW k \in 0..Units-1
    PROVE  /\ k \in Highs <=> IsHi8(HighByte(k))
           /\ k \in Lows <=> IsLo8(HighByte(k))
  BY BytesOfUnit, ClassOfHighByte DEF Highs, Lows, UnitAt

\* No unit is both a high and a low surrogate, and units lie inside the input.
LEMMA HighsLowsDisjoint ==
    ASSUME InputTypeOK, NEW k \in Highs
    PROVE  k \notin Lows /\ k \in 0..Units-1
<1>1. k \in 0..Units-1
  BY DEF Highs
<1>2. IsHi8(HighByte(k)) /\ ~IsLo8(HighByte(k))
  BY <1>1, ClassOfUnit DEF IsHi8, IsLo8
<1>3. QED  BY <1>1, <1>2, ClassOfUnit

\* The ill-formed units and the mismatches are equally many: an unpaired low
\* is a mismatch at its own place and an unpaired high one at the next.
LEMMA MismatchesCountIllFormed ==
    ASSUME InputTypeOK
    PROVE  /\ IsFiniteSet(IllFormed)
           /\ Cardinality(MismatchBefore(Units + 1)) = Cardinality(IllFormed)
<1> DEFINE place == [k \in IllFormed |-> IF k \in Lows THEN k ELSE k + 1]
<1> DEFINE M == MismatchBefore(Units + 1)
<1>1. Units \in Nat
  BY UnitsType
<1>2. IllFormed \subseteq 0..Units-1
  BY DEF IllFormed, Highs, Lows
<1>3. IsFiniteSet(IllFormed)
  <2>1. IsFiniteSet(0..Units-1)
    BY <1>1, FS_Interval
  <2>2. QED  BY <1>2, <2>1, FS_Subset
<1>4. place \in [IllFormed -> M]
  <2>1. SUFFICES ASSUME NEW k \in IllFormed PROVE place[k] \in M
    OBVIOUS
  <2>2. CASE k \in Lows
    <3>1. k - 1 \notin Highs
      BY <2>2, <2>1, HighsLowsDisjoint DEF IllFormed
    <3>2. QED  BY <2>2, <3>1, <1>1, <1>2 DEF MismatchBefore, MismatchAt
  <2>3. CASE k \notin Lows
    <3>1. k \in Highs /\ k + 1 \notin Lows
      BY <2>3 DEF IllFormed
    <3>2. QED  BY <2>3, <3>1, <1>1, <1>2 DEF MismatchBefore, MismatchAt
  <2>4. QED  BY <2>2, <2>3
<1>5. \A j, k \in IllFormed : place[j] = place[k] => j = k
  <2>1. SUFFICES ASSUME NEW j \in IllFormed, NEW k \in IllFormed,
                        place[j] = place[k], j # k, j \in Lows, k \notin Lows
                 PROVE  FALSE
    BY <1>1, <1>2
  <2>2. k + 1 \notin Lows /\ j = k + 1
    BY <2>1 DEF IllFormed
  <2>3. QED  BY <2>1, <2>2
<1>6. \A m \in M : \E k \in IllFormed : place[k] = m
  <2>1. SUFFICES ASSUME NEW m \in M PROVE \E k \in IllFormed : place[k] = m
    OBVIOUS
  <2>2. m \in 0..Units /\ ((m \in Lows) # (m-1 \in Highs))
    BY <1>1 DEF MismatchBefore, MismatchAt
  <2>3. CASE m \in Lows /\ m-1 \notin Highs
    <3>1. m \in IllFormed
      BY <2>3 DEF IllFormed
    <3>2. QED  BY <2>3, <3>1
  <2>4. CASE m \notin Lows /\ m-1 \in Highs
    <3>1. (m-1) + 1 = m /\ m-1 \notin Lows
      BY <2>2, <2>4, <1>1, HighsLowsDisjoint
    <3>2. m-1 \in IllFormed
      BY <2>4, <3>1 DEF IllFormed
    <3>3. QED  BY <3>1, <3>2
  <2>5. QED  BY <2>2, <2>3, <2>4
<1>7. place \in Bijection(IllFormed, M)
  BY <1>4, <1>5, <1>6 DEF Bijection, Injection, Surjection, IsInjective
<1>8. QED  BY <1>3, <1>7, FS_Bijection DEF ExistsBijection

\* The mismatched edges before a place can be counted.
LEMMA MismatchesFinite ==
    ASSUME NEW n \in Nat
    PROVE  /\ IsFiniteSet(MismatchBefore(n))
           /\ Cardinality(MismatchBefore(n)) \in Nat
<1>1. IsFiniteSet(0..n-1)
  BY FS_Interval
<1>2. MismatchBefore(n) \subseteq 0..n-1
  BY DEF MismatchBefore
<1>3. IsFiniteSet(MismatchBefore(n))
  BY <1>1, <1>2, FS_Subset
<1>4. QED  BY <1>3, FS_CardinalityType

\* Before the first unit nothing is mismatched: the kernels' count starts at 0.
LEMMA NoMismatchBeforeStart == Cardinality(MismatchBefore(0)) = 0
<1>1. MismatchBefore(0) = {}
  BY DEF MismatchBefore
<1>2. QED  BY <1>1, FS_EmptySet

\* Looking at one more place adds one to the count when it is a mismatch.
LEMMA MismatchesStep ==
    ASSUME NEW n \in Nat
    PROVE  Cardinality(MismatchBefore(n + 1)) =
             Cardinality(MismatchBefore(n)) + (IF MismatchAt(n) THEN 1 ELSE 0)
<1>1. CASE MismatchAt(n)
  <2>1. MismatchBefore(n + 1) = MismatchBefore(n) \cup {n} /\ n \notin MismatchBefore(n)
    BY <1>1 DEF MismatchBefore
  <2>2. QED  BY <1>1, <2>1, MismatchesFinite, FS_AddElement
<1>2. CASE ~MismatchAt(n)
  <2>1. MismatchBefore(n + 1) = MismatchBefore(n)
    BY <1>2 DEF MismatchBefore
  <2>2. QED  BY <1>2, <2>1, MismatchesFinite
<1>3. QED  BY <1>1, <1>2

\* Looking at u more places adds the mismatches among them.
LEMMA MismatchesSplit ==
    ASSUME NEW m \in Nat, NEW u \in Nat, NEW S,
           S = {k \in m..m+u-1 : MismatchAt(k)}
    PROVE  Cardinality(MismatchBefore(m + u)) = Cardinality(MismatchBefore(m)) + Cardinality(S)
<1>1. MismatchBefore(m + u) = MismatchBefore(m) \cup S /\ MismatchBefore(m) \cap S = {}
  BY DEF MismatchBefore
<1>2. IsFiniteSet(S) /\ Cardinality(S) \in Nat
  <2>1. IsFiniteSet(MismatchBefore(m + u))
    BY MismatchesFinite
  <2>2. S \subseteq MismatchBefore(m + u)
    BY <1>1
  <2>3. IsFiniteSet(S)
    BY <2>1, <2>2, FS_Subset
  <2>4. QED  BY <2>3, FS_CardinalityType
<1>3. IsFiniteSet(MismatchBefore(m)) /\ Cardinality(MismatchBefore(m)) \in Nat
  BY MismatchesFinite
<1>4. Cardinality(MismatchBefore(m) \cup S) =
        Cardinality(MismatchBefore(m)) + Cardinality(S) - Cardinality(MismatchBefore(m) \cap S)
  BY <1>2, <1>3, FS_Union
<1>5. Cardinality(MismatchBefore(m) \cap S) = 0
  BY <1>1, FS_EmptySet
<1>6. Cardinality(MismatchBefore(m + u)) = Cardinality(MismatchBefore(m) \cup S)
  BY <1>1
<1>7. QED  BY <1>2, <1>3, <1>4, <1>5, <1>6

\* The end of the input adds one when the last code unit is a high surrogate.
LEMMA MismatchesAtEnd ==
    ASSUME InputTypeOK
    PROVE  Cardinality(IllFormed) =
             Cardinality(MismatchBefore(Units)) + (IF Units - 1 \in Highs THEN 1 ELSE 0)
<1>1. Units \in Nat /\ Units \notin Lows
  BY UnitsType DEF Lows
<1>2. MismatchAt(Units) <=> Units - 1 \in Highs
  BY <1>1 DEF MismatchAt
<1>3. QED  BY <1>1, <1>2, MismatchesStep, MismatchesCountIllFormed

\* Counts only grow with the prefix that has been looked at.
LEMMA MismatchesMonotone ==
    ASSUME NEW m \in Nat, NEW n \in Nat, m <= n
    PROVE  Cardinality(MismatchBefore(m)) <= Cardinality(MismatchBefore(n))
<1>1. MismatchBefore(m) \subseteq MismatchBefore(n)
  BY DEF MismatchBefore
<1>2. QED  BY <1>1, MismatchesFinite, FS_Subset

\* What has been counted is never more than there is.
LEMMA CountedAtMostAll ==
    ASSUME InputTypeOK, NEW n \in Nat, n <= Units
    PROVE  /\ Cardinality(MismatchBefore(n)) <= ErrorCount
           /\ Cardinality(MismatchBefore(n)) \in Nat /\ ErrorCount \in Nat
<1>1. Units \in Nat /\ OddTrailingByte \in {0, 1} /\ n <= Units + 1 /\ Units + 1 \in Nat
  BY UnitsType
<1>2. /\ Cardinality(MismatchBefore(n)) <= Cardinality(MismatchBefore(Units + 1))
      /\ Cardinality(MismatchBefore(n)) \in Nat /\ Cardinality(MismatchBefore(Units + 1)) \in Nat
  BY <1>1, MismatchesMonotone, MismatchesFinite
<1>3. Cardinality(MismatchBefore(Units + 1)) = Cardinality(IllFormed)
  BY MismatchesCountIllFormed
<1>4. QED  BY <1>1, <1>2, <1>3 DEF ErrorCount

-----------------------------------------------------------------------------
(* Division and multiplication by the number of units in a pack.           *)

\* Integer division leaves less than one divisor over.
LEMMA QuotientBounds ==
    ASSUME NEW a \in Nat, NEW b \in Nat \ {0}
    PROVE  a \div b \in Nat /\ (a \div b) * b <= a /\ a < (a \div b) * b + b
  OBVIOUS

\* Without a remainder, division loses nothing.
LEMMA ExactQuotient ==
    ASSUME NEW a \in Nat, NEW b \in Nat \ {0}, a % b = 0
    PROVE  a = (a \div b) * b
  OBVIOUS

\* More packs cover at least as many units.
LEMMA ProductMonotone ==
    ASSUME NEW m \in Nat, NEW n \in Nat, NEW b \in Nat, m <= n
    PROVE  m * b <= n * b
  OBVIOUS

\* One pack more adds the units of one pack.
LEMMA ProductStep ==
    ASSUME NEW m \in Nat, NEW b \in Nat
    PROVE  m * b \in Nat /\ (m + 1) * b = m * b + b /\ m * (2 * b) = 2 * (m * b)
  OBVIOUS

\* A multiple of an even number is even: packs never split a code unit.
LEMMA MultipleOfEven ==
    ASSUME NEW a \in Nat, NEW h \in Nat \ {0}, a % (2 * h) = 0
    PROVE  a % 2 = 0
<1>1. 2 * h \in Nat \ {0}
  OBVIOUS
<1>2. PICK q \in Nat : a = q * (2 * h)
  <2>1. a \div (2 * h) \in Nat
    BY <1>1, QuotientBounds
  <2>2. a = (a \div (2 * h)) * (2 * h)
    BY <1>1, ExactQuotient
  <2>3. QED  BY <2>1, <2>2
<1>3. a = 2 * (q * h) /\ q * h \in Nat
  BY <1>2, ProductStep
<1>4. QED  BY <1>3

\* The remainder is what the quotient leaves.
LEMMA QuotientRemainder ==
    ASSUME NEW a \in Nat, NEW b \in Nat \ {0}
    PROVE  a % b \in 0..b-1 /\ a \div b \in Nat /\ a = (a \div b) * b + (a % b)
  OBVIOUS

\* A number is divided in one way only.
LEMMA QuotientUnique ==
    ASSUME NEW q \in Nat, NEW b \in Nat \ {0}, NEW r \in 0..b-1
    PROVE  (q * b + r) \div b = q /\ (q * b + r) % b = r
  OBVIOUS

\* Multiples keep the order of what they are multiples of.
LEMMA ProductOrder ==
    ASSUME NEW m \in Nat, NEW n \in Nat, NEW b \in Nat \ {0}
    PROVE  /\ m < n <=> m * b < n * b
           /\ m < n => m * b + b <= n * b
           /\ m * b \in Nat
  OBVIOUS

\* Rounding a quotient up: as many parts as it takes, the last one begun.
LEMMA RoundedUp ==
    ASSUME NEW a \in Nat, NEW b \in Nat \ {0}, NEW c, c = (a + b - 1) \div b
    PROVE  c \in Nat /\ a <= c * b /\ (c > 0 => (c - 1) * b < a) /\ (a = 0 => c = 0)
  OBVIOUS

-----------------------------------------------------------------------------
(* Induction.  The rules of the library quantify over a predicate; these   *)
(* two say the same of a set of numbers.                                   *)

\* Of some natural numbers one is the least: that the intervals below them are
\* ordered by inclusion is well-founded.
LEMMA LeastNatural ==
    ASSUME NEW T, T \subseteq Nat, T # {}
    PROVE  \E n \in T : \A m \in T : n <= m
<1> DEFINE R == StrictSubsetOrdering(Nat)
           U == {0..m-1 : m \in T}
<1>1. U \subseteq FiniteSubsetsOf(Nat) /\ U # {}
  <2>1. \A m \in T : 0..m-1 \subseteq Nat /\ IsFiniteSet(0..m-1)
    BY FS_Interval
  <2>2. QED  BY <2>1 DEF FiniteSubsetsOf
<1>2. IsWellFoundedOn(R, FiniteSubsetsOf(Nat))
  BY FS_StrictSubsetOrderingWellFounded
<1>3. \E X \in U : \A Y \in U : <<Y, X>> \notin R
  <2> HIDE DEF R, U
  <2>1. QED  BY <1>1, <1>2, WFMin
<1>4. PICK n \in T : \A m \in T : <<0..m-1, 0..n-1>> \notin R
  BY <1>3
<1>5. ASSUME NEW m \in T, m < n PROVE FALSE
  <2>1. m \in 0..n-1 /\ m \notin 0..m-1
    BY <1>5
  <2>2. 0..m-1 \subseteq 0..n-1 /\ 0..m-1 # 0..n-1 /\ 0..n-1 \subseteq Nat
    BY <1>5, <2>1
  <2>3. <<0..m-1, 0..n-1>> \in R
    BY <2>2 DEF StrictSubsetOrdering
  <2>4. QED  BY <1>4, <2>3
<1>6. QED  BY <1>5

\* Induction over a set of naturals, which needs no operator parameter.
LEMMA InductionOnNat ==
    ASSUME NEW S, 0 \in S, \A n \in Nat : n \in S => n + 1 \in S
    PROVE  Nat \subseteq S
<1> SUFFICES ASSUME Nat \ S # {} PROVE FALSE
  OBVIOUS
<1>1. PICK n \in Nat \ S : \A m \in Nat \ S : n <= m
  BY LeastNatural
<1>2. n # 0 /\ n - 1 \in Nat
  OBVIOUS
<1>3. QED  BY <1>1, <1>2
=============================================================================
