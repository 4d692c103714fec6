-------------------------- MODULE BenchmarkProofs --------------------------
(***************************************************************************)
(* Proofs about the code of benchmarks/, in two parts.                     *)
(*                                                                         *)
(* Part 1, the bit-stream prototypes, for an input, a vector, an LLmask    *)
(* and a maskHL word of any size: every generator writes the LLmasks of    *)
(* the reference, every way of summarising them gives their summary, no    *)
(* loop reads past the padding (MasksAreExact), and every scan hands over  *)
(* each ill-formed position once and in order (ScansReport).               *)
(*                                                                         *)
(* Part 2, a campaign of any size, whatever the tools answer: nothing is   *)
(* timed that has not answered right, results are written only when they   *)
(* are complete, earlier ones are not lost, and the exit status tells the  *)
(* truth.                                                                  *)
(***************************************************************************)
EXTENDS Campaign, MaskScan, UTF16Lemmas

-----------------------------------------------------------------------------
(* Part 1: the bit-stream prototypes.                                      *)

\* An LLmask as it should be, and as far as the units before n decide it.
Exact(w) == {i \in Bits : w * UnitsPerMask + i \in IllFormed}
ExactBefore(w, n) == {i \in Bits : w * UnitsPerMask + i < n /\ w * UnitsPerMask + i \in IllFormed}

\* A maskHL word as far as the first n LLmasks decide it.
DirtyBefore(r, n) ==
    {s \in Slots : r * MasksPerMaskHL + s < n /\ Exact(r * MasksPerMaskHL + s) # {}}

\* The first n LLmasks are right, the words of the regions they fill, and
\* those of the first n regions.
MasksRight(ms, n) == \A w \in 0..NMasks-1 : w < n => ms[w] = Exact(w)
FilledRight(ws, n) ==
    \A r \in 0..NRegions-1 : (r + 1) * MasksPerMaskHL <= n => ws[r] = DirtyBefore(r, NMasks)
WordsRight(ws, n) == \A r \in 0..NRegions-1 : r < n => ws[r] = DirtyBefore(r, NMasks)

\* llmask_scalar has stored the masks it has passed and holds the bits of the
\* one it is in, as far as its verdicts go.
ScalarInv ==
    routine = "scalar" =>
        /\ k <= Units /\ (pend <=> k - 1 \in Highs)
        /\ MasksRight(masks, k \div UnitsPerMask)
        /\ m = ExactBefore(k \div UnitsPerMask, k)

\* A vector generator has stored a mask for each group, and carries whether the
\* last unit of the last group was a high surrogate.
GroupInv ==
    routine \in {"signmask", "pack_reduce", "fused"} =>
        /\ g <= FullGroups /\ MasksRight(masks, g) /\ m = {}
        /\ 2 * UnitsPerPack - 1 \in prevHigh <=> g * UnitsPerMask - 1 \in Highs

\* Its scalar tail adds the partial mask to those of the whole groups.
TailInv ==
    routine \in {"tail", "fused_tail"} =>
        /\ g = FullGroups /\ MasksRight(masks, g)
        /\ g * UnitsPerMask <= k /\ k <= Units /\ (pend <=> k - 1 \in Highs)
        /\ m = ExactBefore(g, k)

\* The fused generator has besides stored the words that are full, and holds the
\* bits of the one that is not.
FusedInv ==
    routine \in {"fused", "fused_tail"} =>
        FilledRight(hl, g) /\ h = DirtyBefore(g \div MasksPerMaskHL, g)

\* An aggregator has stored the words of the regions it has passed.
AggregateInv ==
    routine \in Aggregators => j <= NRegions /\ WordsRight(hl, j)

\* What the scanners start from, and the regions the words they hold are of.
GeneratedInv == ~Generating => MasksRight(masks, NMasks)
SummedInv ==
    /\ routine \in Scanners \cup {"finished"} => WordsRight(hl, NRegions)
    /\ routine = "two_level" =>
          /\ j <= NRegions
          /\ \A s \in h : j >= 1 /\ s \in DirtyBefore(j - 1, NMasks)

\* The inductive invariant of the generators, the aggregators and the scans.
MaskScanInv ==
    /\ InputTypeOK /\ HB = 1 /\ MaskScanTypeOK
    /\ ScalarInv /\ GroupInv /\ TailInv /\ FusedInv
    /\ AggregateInv /\ GeneratedInv /\ SummedInv

-----------------------------------------------------------------------------
\* The sizes of packs, masks and regions.
LEMMA ScanSizes ==
    /\ UnitsPerPack \in Nat \ {0} /\ UnitsPerMask \in Nat \ {0} /\ MasksPerMaskHL \in Nat \ {0}
    /\ PacksPerMask \in Nat \ {0} /\ UnitsPerMask = PacksPerMask * UnitsPerPack
    /\ PacksPerMask \div 2 \in Nat /\ PacksPerMask = 2 * (PacksPerMask \div 2)
    /\ BytesPerPack = 2 * UnitsPerPack
<1> DEFINE half == UnitsPerMask \div (2 * UnitsPerPack)
<1>1. /\ UnitsPerPack \in Nat \ {0} /\ UnitsPerMask \in Nat \ {0} /\ MasksPerMaskHL \in Nat \ {0}
      /\ 2 * UnitsPerPack \in Nat \ {0} /\ UnitsPerMask % (2 * UnitsPerPack) = 0
  BY UnitsPerPackAssumption, UnitsPerMaskAssumption, MasksPerMaskHLAssumption
<1>2. half \in Nat /\ UnitsPerMask = half * (2 * UnitsPerPack)
  BY <1>1, ExactQuotient, QuotientBounds
<1> HIDE DEF half
<1>3. UnitsPerMask = 2 * (half * UnitsPerPack) /\ half * UnitsPerPack \in Nat
  BY <1>1, <1>2, ProductStep
<1>4. UnitsPerMask = (2 * half) * UnitsPerPack + 0
  BY <1>1, <1>2, <1>3
<1>5. PacksPerMask = 2 * half
  BY <1>1, <1>2, <1>4, QuotientUnique DEF PacksPerMask
<1>6. half # 0
  BY <1>1, <1>2, <1>3
<1>7. QED  BY <1>1, <1>2, <1>4, <1>5, <1>6 DEF BytesPerPack

\* A number below a product has a place in one of its parts.
LEMMA Splits ==
    ASSUME NEW a \in Nat, NEW b \in Nat \ {0}, NEW i \in Nat, i < a * b
    PROVE  \E p \in 0..a-1, u \in 0..b-1 : i = p * b + u
<1>1. i % b \in 0..b-1 /\ i \div b \in Nat /\ i = (i \div b) * b + (i % b)
  BY QuotientRemainder
<1>2. (i \div b) * b < a * b
  <2>1. (i \div b) * b \in Nat /\ a * b \in Nat
    BY <1>1, ProductOrder
  <2>2. QED  BY <1>1, <2>1
<1>3. i \div b \in 0..a-1
  BY <1>1, <1>2, ProductOrder
<1>4. QED  BY <1>1, <1>3

\* The groups, masks and regions of an input.
LEMMA ScanCounts ==
    ASSUME InputTypeOK
    PROVE  /\ Units \in Nat /\ FullGroups \in Nat /\ NMasks \in Nat /\ NRegions \in Nat
           /\ FullGroups * UnitsPerMask \in Nat /\ FullGroups * UnitsPerMask <= Units
           /\ Units < FullGroups * UnitsPerMask + UnitsPerMask
           /\ Units <= NMasks * UnitsPerMask /\ NMasks * UnitsPerMask \in Nat
           /\ NMasks = IF FullGroups * UnitsPerMask < Units THEN FullGroups + 1 ELSE FullGroups
           /\ Units % UnitsPerMask # 0 <=> FullGroups * UnitsPerMask < Units
           /\ NMasks <= NRegions * MasksPerMaskHL
           /\ NRegions > 0 => (NRegions - 1) * MasksPerMaskHL < NMasks
           /\ NMasks = 0 => NRegions = 0
           /\ NRegions <= NMasks
<1> DEFINE U == Units
           M == UnitsPerMask
           F == FullGroups
           N == NMasks
           H == MasksPerMaskHL
           R == NRegions
<1>1. U \in Nat /\ M \in Nat \ {0} /\ H \in Nat \ {0}
  BY UnitsType, ScanSizes
<1>2. /\ F \in Nat /\ F * M \in Nat /\ U = F * M + (U % M) /\ U % M \in 0..M-1
  BY <1>1, QuotientRemainder, ProductOrder DEF FullGroups
<1>3. N \in Nat /\ U <= N * M /\ (N > 0 => (N - 1) * M < U) /\ (U = 0 => N = 0)
  BY <1>1, RoundedUp DEF NMasks
<1>4. R \in Nat /\ N <= R * H /\ (R > 0 => (R - 1) * H < N) /\ (N = 0 => R = 0)
  BY <1>1, <1>3, RoundedUp DEF NRegions
<1> HIDE DEF U, M, F, N, H, R
<1>5. N * M \in Nat
  BY <1>1, <1>3, ProductOrder
<1>6. N = IF F * M < U THEN F + 1 ELSE F
  <2>1. CASE F * M < U
    <3>1. F < N
      BY <1>1, <1>2, <1>3, <1>5, <2>1, ProductOrder
    <3>2. ASSUME F + 1 < N PROVE FALSE
      <4>1. F + 1 <= N - 1 /\ N - 1 \in Nat /\ F + 1 \in Nat
        BY <1>2, <1>3, <3>2
      <4>2. (F + 1) * M <= (N - 1) * M
        BY <1>1, <4>1, ProductMonotone
      <4>3. (F + 1) * M = F * M + M /\ (N - 1) * M \in Nat
        BY <1>1, <1>2, <4>1, ProductStep
      <4>4. QED  BY <1>1, <1>2, <1>3, <4>1, <4>2, <4>3
    <3>3. QED  BY <1>2, <1>3, <2>1, <3>1, <3>2
  <2>2. CASE ~(F * M < U)
    <3>1. U = F * M
      BY <1>1, <1>2, <2>2
    <3>2. ~(N < F)
      BY <1>1, <1>2, <1>3, <1>5, <3>1, ProductOrder
    <3>3. ASSUME F < N PROVE FALSE
      <4>1. N - 1 \in Nat /\ F <= N - 1 /\ N > 0
        BY <1>2, <1>3, <3>3
      <4>2. F * M <= (N - 1) * M /\ (N - 1) * M \in Nat
        BY <1>1, <1>2, <4>1, ProductMonotone, ProductOrder
      <4>3. QED  BY <1>2, <1>3, <3>1, <4>1, <4>2
    <3>4. QED  BY <1>2, <1>3, <2>2, <3>2, <3>3
  <2>3. QED  BY <2>1, <2>2
<1>7. R <= N
  <2>1. CASE R > 0
    <3>1. R - 1 \in Nat /\ R - 1 <= (R - 1) * H
      <4>1. R - 1 \in Nat
        BY <1>4, <2>1
      <4>2. ASSUME NEW e \in Nat PROVE e <= e * H
        BY <1>1
      <4>3. QED  BY <4>1, <4>2
    <3>2. (R - 1) * H \in Nat
      BY <1>1, <3>1, ProductOrder
    <3>3. QED  BY <1>3, <1>4, <2>1, <3>1, <3>2
  <2>2. QED  BY <1>3, <1>4, <2>1
<1>8. U % M # 0 <=> F * M < U
  BY <1>1, <1>2
<1>9. QED  BY <1>1, <1>2, <1>3, <1>4, <1>5, <1>6, <1>7, <1>8 DEF U, M, F, N, H, R

-----------------------------------------------------------------------------
(* What the vector code sees of a unit.                                    *)

\* The high byte of a unit decides; the padding is of neither class.
LEMMA PaddedClasses ==
    ASSUME InputTypeOK, HB = 1, NEW u \in Nat
    PROVE  (HighAt(u) <=> u \in Highs) /\ (LowAt(u) <=> u \in Lows)
<1>1. Units \in Nat /\ size \in Nat /\ 2 * Units <= size /\ size <= 2 * Units + 1
  BY UnitsType
<1>2. CASE u < Units
  <2>1. u \in 0..Units-1
    BY <1>1, <1>2
  <2>2. PaddedByte(2 * u + 1) = HighByte(u)
    BY <1>1, <1>2 DEF PaddedByte, HighByte
  <2>3. QED  BY <2>1, <2>2, ClassOfUnit DEF HighAt, LowAt
<1>3. CASE ~(u < Units)
  <2>1. u \notin Highs /\ u \notin Lows
    BY <1>1, <1>3 DEF Highs, Lows
  <2>2. PaddedByte(2 * u + 1) = 0
    BY <1>1, <1>3 DEF PaddedByte
  <2>3. ~IsHi8(0) /\ ~IsLo8(0)
    BY DEF IsHi8, IsLo8, MaskFC
  <2>4. QED  BY <2>1, <2>2, <2>3 DEF HighAt, LowAt
<1>4. QED  BY <1>2, <1>3

\* A scalar loop that knows of the unit before judges a unit right.
LEMMA ScalarVerdict ==
    ASSUME InputTypeOK, HB = 1, NEW u \in Nat, pend <=> u - 1 \in Highs
    PROVE  Bad(u) <=> u \in IllFormed
<1>1. /\ HighAt(u) <=> u \in Highs
      /\ LowAt(u) <=> u \in Lows
      /\ LowAt(u + 1) <=> u + 1 \in Lows
  BY PaddedClasses
<1>2. QED  BY <1>1 DEF Bad, IllFormed

\* The odd lanes of a pack hold the classes of its units.
LEMMA LaneClasses ==
    ASSUME InputTypeOK, HB = 1, NEW q \in Nat, NEW i \in 0..UnitsPerPack-1
    PROVE  /\ 2 * i + 1 \in Lanes /\ 2 * i + 1 \in OddLanes
           /\ 2 * i + 1 \in HiLanes(q) <=> q * UnitsPerPack + i \in Highs
           /\ 2 * i + 1 \in LoLanes(q) <=> q * UnitsPerPack + i \in Lows
<1>1. UnitsPerPack \in Nat \ {0} /\ BytesPerPack = 2 * UnitsPerPack
  BY ScanSizes
<1>2. 2 * i + 1 \in Lanes /\ 2 * i + 1 \in OddLanes
  BY <1>1 DEF Lanes, OddLanes
<1>3. q * UnitsPerPack \in Nat /\ q * BytesPerPack = 2 * (q * UnitsPerPack)
  BY <1>1, ProductStep
<1>4. PICK u \in Nat : u = q * UnitsPerPack + i
  BY <1>1, <1>3
<1>5. q * BytesPerPack + (2 * i + 1) = 2 * u + 1
  BY <1>3, <1>4
<1>6. /\ 2 * i + 1 \in HiLanes(q) <=> HighAt(u)
      /\ 2 * i + 1 \in LoLanes(q) <=> LowAt(u)
  BY <1>2, <1>5 DEF HiLanes, LoLanes, HighAt, LowAt
<1>7. QED  BY <1>2, <1>4, <1>6, PaddedClasses

\* classify_pack marks exactly the ill-formed units of its pack, when it is
\* handed the class of the unit before.
LEMMA PackVerdicts ==
    ASSUME InputTypeOK, HB = 1, NEW q \in Nat, NEW before,
           2 * UnitsPerPack - 1 \in before <=> q * UnitsPerPack - 1 \in Highs,
           NEW i \in 0..UnitsPerPack-1
    PROVE  2 * i + 1 \in BadLanes(q, before) <=> q * UnitsPerPack + i \in IllFormed
<1> DEFINE P == UnitsPerPack
           B == q * P
<1>1. P \in Nat \ {0} /\ BytesPerPack = 2 * P /\ B \in Nat /\ (q + 1) * P = B + P /\ q + 1 \in Nat
  BY ScanSizes, ProductStep
<1>2. /\ 2 * i + 1 \in Lanes /\ 2 * i + 1 \in OddLanes
      /\ 2 * i + 1 \in HiLanes(q) <=> B + i \in Highs
      /\ 2 * i + 1 \in LoLanes(q) <=> B + i \in Lows
  BY LaneClasses
<1>3. 2 * i + 1 \in PrevHighLanes(q, before) <=> (B + i) - 1 \in Highs
  <2>1. CASE i = 0
    <3>1. ~(2 * i + 1 >= 2) /\ BytesPerPack - 2 + (2 * i + 1) = 2 * P - 1 /\ (B + i) - 1 = B - 1
      BY <1>1, <2>1
    <3>2. 2 * i + 1 \in PrevHighLanes(q, before) <=> 2 * P - 1 \in before
      BY <1>2, <3>1 DEF PrevHighLanes
    <3>3. QED  BY <3>1, <3>2
  <2>2. CASE i # 0
    <3>1. /\ i - 1 \in 0..P-1 /\ 2 * i + 1 >= 2 /\ 2 * (i - 1) + 1 = (2 * i + 1) - 2
          /\ B + (i - 1) = (B + i) - 1
      BY <1>1, <2>2
    <3>2. 2 * i + 1 \in PrevHighLanes(q, before) <=> (2 * i + 1) - 2 \in HiLanes(q)
      BY <1>2, <3>1 DEF PrevHighLanes
    <3>3. 2 * (i - 1) + 1 \in HiLanes(q) <=> B + (i - 1) \in Highs
      BY <3>1, LaneClasses
    <3>4. QED  BY <3>1, <3>2, <3>3
  <2>3. QED  BY <2>1, <2>2
<1>4. 2 * i + 1 \in NextLowLanes(q) <=> (B + i) + 1 \in Lows
  <2>1. CASE i = P - 1
    <3>1. /\ ~(2 * i + 1 < BytesPerPack - 2) /\ (2 * i + 1) + 2 - BytesPerPack = 2 * 0 + 1
          /\ (B + i) + 1 = (q + 1) * P + 0 /\ 0 \in 0..P-1
      BY <1>1, <2>1
    <3>2. 2 * i + 1 \in NextLowLanes(q) <=> 2 * 0 + 1 \in LoLanes(q + 1)
      BY <1>2, <3>1 DEF NextLowLanes
    <3>3. 2 * 0 + 1 \in LoLanes(q + 1) <=> (q + 1) * P + 0 \in Lows
      BY <1>1, <3>1, LaneClasses
    <3>4. QED  BY <3>1, <3>2, <3>3
  <2>2. CASE i # P - 1
    <3>1. /\ 2 * i + 1 < BytesPerPack - 2 /\ (2 * i + 1) + 2 = 2 * (i + 1) + 1
          /\ (B + i) + 1 = B + (i + 1) /\ i + 1 \in 0..P-1
      BY <1>1, <2>2
    <3>2. 2 * i + 1 \in NextLowLanes(q) <=> 2 * (i + 1) + 1 \in LoLanes(q)
      BY <1>2, <3>1 DEF NextLowLanes
    <3>3. 2 * (i + 1) + 1 \in LoLanes(q) <=> B + (i + 1) \in Lows
      BY <3>1, LaneClasses
    <3>4. QED  BY <3>1, <3>2, <3>3
  <2>3. QED  BY <2>1, <2>2
<1>5. QED  BY <1>2, <1>3, <1>4 DEF BadLanes, IllFormed

\* From pack to pack of a group the class of the last unit is handed on.
LEMMA HandedOn ==
    ASSUME InputTypeOK, HB = 1, NEW w \in Nat, NEW p \in 0..PacksPerMask-1,
           2 * UnitsPerPack - 1 \in prevHigh <=> w * UnitsPerMask - 1 \in Highs
    PROVE  LET q == w * PacksPerMask + p
           IN  /\ q \in Nat /\ q * UnitsPerPack = w * UnitsPerMask + p * UnitsPerPack
               /\ p * UnitsPerPack \in Nat /\ w * UnitsPerMask \in Nat
               /\ 2 * UnitsPerPack - 1 \in HighBefore(q) <=> q * UnitsPerPack - 1 \in Highs
<1> DEFINE P == UnitsPerPack
           Q == PacksPerMask
           M == UnitsPerMask
           q == w * Q + p
<1>1. P \in Nat \ {0} /\ Q \in Nat \ {0} /\ M = Q * P /\ p \in Nat
  BY ScanSizes
<1>2. w * Q \in Nat /\ w * M \in Nat /\ p * P \in Nat /\ w * M = (w * Q) * P
  <2>1. w * (Q * P) = (w * Q) * P
    BY <1>1
  <2>2. w * Q \in Nat /\ p * P \in Nat /\ (w * Q) * P \in Nat
    BY <1>1, ProductStep
  <2>3. QED  BY <1>1, <2>1, <2>2
<1>3. q \in Nat /\ q * P = w * M + p * P
  <2>1. ASSUME NEW a \in Nat, NEW b \in Nat PROVE (a + b) * P = a * P + b * P
    BY <1>1
  <2>2. QED  BY <1>1, <1>2, <2>1
<1>4. q % Q = p
  BY <1>1, QuotientUnique
<1>5. CASE p = 0
  <2>1. HighBefore(q) = prevHigh
    BY <1>4, <1>5 DEF HighBefore
  <2>2. q * P = w * M
    BY <1>1, <1>2, <1>3, <1>5
  <2>3. QED  BY <1>2, <1>3, <2>1, <2>2
<1>6. CASE p # 0
  <2>1. HighBefore(q) = HiLanes(q - 1)
    BY <1>4, <1>6 DEF HighBefore
  <2>2. q - 1 \in Nat /\ P - 1 \in 0..P-1 /\ 2 * (P - 1) + 1 = 2 * P - 1
    BY <1>1, <1>2, <1>6
  <2>3. 2 * (P - 1) + 1 \in HiLanes(q - 1) <=> (q - 1) * P + (P - 1) \in Highs
    BY <2>2, LaneClasses
  <2>4. (q - 1) * P + (P - 1) = q * P - 1
    <3>1. ((q - 1) + 1) * P = (q - 1) * P + P /\ (q - 1) * P \in Nat
      BY <1>1, <2>2, ProductStep
    <3>2. (q - 1) + 1 = q
      BY <1>3
    <3>3. QED  BY <1>1, <3>1, <3>2
  <2>5. QED  BY <1>2, <1>3, <2>1, <2>2, <2>3, <2>4
<1>7. QED  BY <1>5, <1>6

\* A lane of a pack, the bit of its unit in the LLmask and the verdict on it.
LEMMA MarkOfUnit ==
    ASSUME InputTypeOK, HB = 1, NEW w \in Nat, NEW p \in 0..PacksPerMask-1,
           NEW u \in 0..UnitsPerPack-1,
           2 * UnitsPerPack - 1 \in prevHigh <=> w * UnitsPerMask - 1 \in Highs
    PROVE  /\ p * UnitsPerPack + u \in Bits
           /\ 2 * u + 1 \in OddLanes
           /\ 2 * u + 1 \in BadLanes(w * PacksPerMask + p, HighBefore(w * PacksPerMask + p))
                <=> w * UnitsPerMask + (p * UnitsPerPack + u) \in IllFormed
<1> DEFINE P == UnitsPerPack
           Q == PacksPerMask
           M == UnitsPerMask
           q == w * Q + p
<1>1. P \in Nat \ {0} /\ Q \in Nat \ {0} /\ M = Q * P
  BY ScanSizes
<1>2. /\ q \in Nat /\ q * P = w * M + p * P /\ p * P \in Nat /\ w * M \in Nat
      /\ 2 * P - 1 \in HighBefore(q) <=> q * P - 1 \in Highs
  BY HandedOn
<1>3. 2 * u + 1 \in BadLanes(q, HighBefore(q)) <=> q * P + u \in IllFormed
  BY <1>2, PackVerdicts
<1>4. q * P + u = w * M + (p * P + u)
  BY <1>2
<1>5. p * P + u \in Bits
  <2>1. (p + 1) * P <= Q * P /\ (p + 1) * P = p * P + P
    BY <1>1, ProductMonotone, ProductStep
  <2>2. QED  BY <1>1, <1>2, <2>1 DEF Bits
<1>6. QED  BY <1>3, <1>4, <1>5, LaneClasses

\* llmask_signmask writes the mask of the reference.
LEMMA SignmaskIsExact ==
    ASSUME InputTypeOK, HB = 1, NEW w \in Nat,
           2 * UnitsPerPack - 1 \in prevHigh <=> w * UnitsPerMask - 1 \in Highs
    PROVE  SignmaskBits(w) = Exact(w)
<1> DEFINE P == UnitsPerPack
           Q == PacksPerMask
           Pack(p) == w * Q + p
           Marks(p) == {p * P + u : u \in CompressOddBits(BadLanes(Pack(p), HighBefore(Pack(p))))}
<1>1. P \in Nat \ {0} /\ Q \in Nat \ {0} /\ UnitsPerMask = Q * P
  BY ScanSizes
<1>2. ASSUME NEW p \in 0..Q-1, NEW i \in Marks(p)
      PROVE  i \in Exact(w)
  <2>1. PICK pos \in BadLanes(Pack(p), HighBefore(Pack(p))) \cap OddLanes : i = p * P + ((pos - 1) \div 2)
    BY <1>2 DEF CompressOddBits
  <2>2. PICK u \in 0..P-1 : pos = 2 * u + 1
    BY <2>1 DEF OddLanes
  <2>3. (pos - 1) \div 2 = u
    BY <2>2
  <2>4. QED  BY <1>2, <2>1, <2>2, <2>3, MarkOfUnit DEF Exact
<1>3. ASSUME NEW i \in Exact(w)
      PROVE  \E p \in 0..Q-1 : i \in Marks(p)
  <2>1. i \in Nat /\ i < Q * P /\ w * UnitsPerMask + i \in IllFormed
    BY <1>1, <1>3 DEF Exact, Bits
  <2>2. PICK p \in 0..Q-1, u \in 0..P-1 : i = p * P + u
    BY <1>1, <2>1, Splits
  <2>3. 2 * u + 1 \in BadLanes(Pack(p), HighBefore(Pack(p))) \cap OddLanes
    BY <2>1, <2>2, MarkOfUnit
  <2>4. u = ((2 * u + 1) - 1) \div 2
    BY <1>1, <2>2
  <2>5. u \in CompressOddBits(BadLanes(Pack(p), HighBefore(Pack(p))))
    BY <2>3, <2>4 DEF CompressOddBits
  <2>6. QED  BY <2>2, <2>5
<1>4. SignmaskBits(w) = UNION {Marks(p) : p \in 0..Q-1}
  BY DEF SignmaskBits
<1>5. QED  BY <1>2, <1>3, <1>4

\* llmask_vector_pack_reduce, which takes two packs at a time, writes the same.
LEMMA PackReduceIsExact ==
    ASSUME InputTypeOK, HB = 1, NEW w \in Nat,
           2 * UnitsPerPack - 1 \in prevHigh <=> w * UnitsPerMask - 1 \in Highs
    PROVE  PackReduceBits(w) = Exact(w)
<1> DEFINE P == UnitsPerPack
           Q == PacksPerMask
           q(c) == w * Q + 2 * c
           Marker(c) == Dense(BadLanes(q(c), HighBefore(q(c))),
                              BadLanes(q(c) + 1, HighBefore(q(c) + 1)))
           Marks(c) == {c * 2 * P + i : i \in Marker(c)}
<1>1. P \in Nat \ {0} /\ Q \in Nat \ {0} /\ UnitsPerMask = Q * P /\ Q = 2 * (Q \div 2) /\ Q \div 2 \in Nat
  BY ScanSizes
<1>2. ASSUME NEW c \in 0..(Q \div 2)-1, NEW u \in 0..2*P-1
      PROVE  c * 2 * P + u \in Bits /\
             (u \in Marker(c) <=> w * UnitsPerMask + (c * 2 * P + u) \in IllFormed)
  <2>1. /\ 2 * c \in 0..Q-1 /\ 2 * c + 1 \in 0..Q-1 /\ w * Q \in Nat /\ c * 2 = 2 * c
        /\ w * Q + (2 * c + 1) = q(c) + 1
    BY <1>1
  <2>2. (2 * c) * P \in Nat /\ (2 * c + 1) * P = (2 * c) * P + P
    BY <1>1, <2>1, ProductStep
  <2>3. CASE u < P
    <3>1. /\ (2 * c) * P + u \in Bits
          /\ 2 * u + 1 \in BadLanes(q(c), HighBefore(q(c)))
               <=> w * UnitsPerMask + ((2 * c) * P + u) \in IllFormed
      <4>1. u \in 0..P-1
        BY <1>1, <2>3
      <4>2. QED  BY <2>1, <4>1, MarkOfUnit
    <3>2. u \in Marker(c) <=> 2 * u + 1 \in BadLanes(q(c), HighBefore(q(c)))
      BY <2>3 DEF Dense
    <3>3. QED  BY <2>1, <3>1, <3>2
  <2>4. CASE ~(u < P)
    <3>1. /\ (2 * c + 1) * P + (u - P) \in Bits
          /\ 2 * (u - P) + 1 \in BadLanes(q(c) + 1, HighBefore(q(c) + 1))
               <=> w * UnitsPerMask + ((2 * c + 1) * P + (u - P)) \in IllFormed
      <4>1. u - P \in 0..P-1
        BY <1>1, <2>4
      <4>2. QED  BY <2>1, <4>1, MarkOfUnit
    <3>2. u \in Marker(c) <=> 2 * (u - P) + 1 \in BadLanes(q(c) + 1, HighBefore(q(c) + 1))
      BY <2>4 DEF Dense
    <3>3. (2 * c + 1) * P + (u - P) = c * 2 * P + u
      BY <1>1, <2>1, <2>2
    <3>4. QED  BY <3>1, <3>2, <3>3
  <2>5. QED  BY <2>3, <2>4
<1>3. ASSUME NEW c \in 0..(Q \div 2)-1, NEW i \in Marks(c)
      PROVE  i \in Exact(w)
  <2>1. PICK u \in Marker(c) : i = c * 2 * P + u
    BY <1>3
  <2>2. u \in 0..2*P-1
    BY <2>1 DEF Dense
  <2>3. QED  BY <1>2, <2>1, <2>2 DEF Exact
<1>4. ASSUME NEW i \in Exact(w)
      PROVE  \E c \in 0..(Q \div 2)-1 : i \in Marks(c)
  <2>1. i \in Nat /\ i < Q * P /\ w * UnitsPerMask + i \in IllFormed
    BY <1>1, <1>4 DEF Exact, Bits
  <2>2. Q * P = (Q \div 2) * (2 * P) /\ 2 * P \in Nat \ {0}
    BY <1>1
  <2>3. PICK c \in 0..(Q \div 2)-1, u \in 0..2*P-1 : i = c * (2 * P) + u
    BY <1>1, <2>1, <2>2, Splits
  <2>4. c * (2 * P) = c * 2 * P
    BY <1>1, <2>3
  <2>5. u \in Marker(c)
    BY <1>2, <2>1, <2>3, <2>4
  <2>6. QED  BY <2>3, <2>4, <2>5
<1>5. PackReduceBits(w) = UNION {Marks(c) : c \in 0..(Q \div 2)-1}
  BY DEF PackReduceBits
<1>6. QED  BY <1>3, <1>4, <1>5

\* A group of units becomes its mask, whichever vector strategy runs, and its
\* last pack tells the class of its last unit.
LEMMA GroupIsExact ==
    ASSUME InputTypeOK, HB = 1, NEW w \in Nat,
           2 * UnitsPerPack - 1 \in prevHigh <=> w * UnitsPerMask - 1 \in Highs
    PROVE  /\ GroupBits(w) = Exact(w)
           /\ 2 * UnitsPerPack - 1 \in HiLanes((w + 1) * PacksPerMask - 1)
                <=> (w + 1) * UnitsPerMask - 1 \in Highs
<1> DEFINE P == UnitsPerPack
           Q == PacksPerMask
           q == (w + 1) * Q - 1
<1>1. P \in Nat \ {0} /\ Q \in Nat \ {0} /\ UnitsPerMask = Q * P
  BY ScanSizes
<1>2. (w + 1) * Q \in Nat /\ (w + 1) * Q = w * Q + Q /\ w * Q \in Nat
  BY <1>1, ProductStep
<1>3. q \in Nat /\ q + 1 = (w + 1) * Q /\ P - 1 \in 0..P-1 /\ 2 * (P - 1) + 1 = 2 * P - 1
  BY <1>1, <1>2
<1>4. q * P + (P - 1) = (w + 1) * UnitsPerMask - 1
  <2>1. q * P \in Nat /\ (q + 1) * P = q * P + P
    BY <1>1, <1>3, ProductStep
  <2>2. ((w + 1) * Q) * P = (w + 1) * (Q * P)
    BY <1>1
  <2>3. QED  BY <1>1, <1>3, <2>1, <2>2
<1>5. 2 * (P - 1) + 1 \in HiLanes(q) <=> q * P + (P - 1) \in Highs
  BY <1>3, LaneClasses
<1>6. QED  BY <1>3, <1>4, <1>5, SignmaskIsExact, PackReduceIsExact DEF GroupBits

-----------------------------------------------------------------------------
(* The words a generator fills, from unit to unit and mask to mask.        *)

\* Whatever is read off the input stays as it is while the input does.
LEMMA ScanInputStable ==
    ASSUME UNCHANGED input
    PROVE  /\ Units' = Units /\ FullGroups' = FullGroups /\ NMasks' = NMasks /\ NRegions' = NRegions
           /\ Highs' = Highs /\ IllFormed' = IllFormed /\ InputTypeOK' = InputTypeOK /\ HB' = HB
<1>1. size' = size /\ data' = data /\ HB' = HB
  BY DEF input
<1>2. Units' = Units
  BY <1>1 DEF Units
<1>3. FullGroups' = FullGroups /\ NMasks' = NMasks
  BY <1>2 DEF FullGroups, NMasks
<1>4. NRegions' = NRegions
  BY <1>3 DEF NRegions
<1>5. Highs' = Highs /\ Lows' = Lows
  BY <1>1, <1>2 DEF Highs, Lows, UnitAt, HighByte, LowByte
<1>6. IllFormed' = IllFormed
  BY <1>5 DEF IllFormed
<1>7. QED  BY <1>1, <1>2, <1>3, <1>4, <1>5, <1>6 DEF InputTypeOK

\* Ill-formed units are units.
LEMMA IllFormedInside ==
    ASSUME InputTypeOK
    PROVE  Units \in Nat /\ \A u \in IllFormed : u \in Nat /\ u < Units
<1>1. Units \in Nat
  BY UnitsType
<1>2. QED  BY <1>1 DEF IllFormed, Highs, Lows

\* Where unit u of LLmask w has its bit.
LEMMA PlaceOfUnit ==
    ASSUME NEW w \in Nat, NEW u \in Nat, w * UnitsPerMask <= u, u < w * UnitsPerMask + UnitsPerMask
    PROVE  /\ u \div UnitsPerMask = w /\ BitOf(u) \in Bits
           /\ u = w * UnitsPerMask + BitOf(u)
<1>1. UnitsPerMask \in Nat \ {0} /\ w * UnitsPerMask \in Nat
  BY ScanSizes, ProductOrder
<1>2. PICK i \in 0..UnitsPerMask-1 : u = w * UnitsPerMask + i
  <2>1. u - w * UnitsPerMask \in 0..UnitsPerMask-1 /\ u = w * UnitsPerMask + (u - w * UnitsPerMask)
    BY <1>1
  <2>2. QED  BY <2>1
<1>3. u \div UnitsPerMask = w /\ u % UnitsPerMask = i
  BY <1>1, <1>2, QuotientUnique
<1>4. QED  BY <1>2, <1>3 DEF BitOf, Bits

\* A unit lies in the LLmask its number divided by the mask's width gives.
LEMMA MaskOfUnit ==
    ASSUME NEW u \in Nat
    PROVE  /\ u \div UnitsPerMask \in Nat
           /\ (u \div UnitsPerMask) * UnitsPerMask <= u
           /\ u < (u \div UnitsPerMask) * UnitsPerMask + UnitsPerMask
  BY ScanSizes, QuotientBounds

\* Before its first unit an LLmask is empty, after its last one it is complete.
LEMMA MaskEnds ==
    ASSUME InputTypeOK, NEW w \in Nat
    PROVE  /\ ExactBefore(w, w * UnitsPerMask) = {}
           /\ ExactBefore(w, w * UnitsPerMask + UnitsPerMask) = Exact(w)
           /\ ExactBefore(w, Units) = Exact(w)
<1>1. UnitsPerMask \in Nat \ {0} /\ w * UnitsPerMask \in Nat
  BY ScanSizes, ProductOrder
<1>2. \A i \in Bits : i \in 0..UnitsPerMask-1
  BY DEF Bits
<1>3. \A i \in Bits : w * UnitsPerMask + i \in IllFormed => w * UnitsPerMask + i < Units
  BY IllFormedInside
<1>4. QED  BY <1>1, <1>2, <1>3 DEF ExactBefore, Exact

\* One more unit adds its bit when the scalar verdict on it is bad.
LEMMA WithBitIsNext ==
    ASSUME InputTypeOK, HB = 1, NEW w \in Nat, NEW u \in Nat, w * UnitsPerMask <= u,
           u < w * UnitsPerMask + UnitsPerMask, pend <=> u - 1 \in Highs, m = ExactBefore(w, u)
    PROVE  WithBit(u) = ExactBefore(w, u + 1)
<1>1. BitOf(u) \in Bits /\ u = w * UnitsPerMask + BitOf(u)
  BY PlaceOfUnit
<1>2. \A i \in Bits : (w * UnitsPerMask + i < u + 1) <=> (w * UnitsPerMask + i < u \/ i = BitOf(u))
  <2>1. w * UnitsPerMask \in Nat /\ UnitsPerMask \in Nat \ {0}
    BY ScanSizes, ProductOrder
  <2>2. PICK b \in 0..UnitsPerMask-1 : b = BitOf(u)
    BY <1>1 DEF Bits
  <2>3. QED  BY <1>1, <2>1, <2>2 DEF Bits
<1>3. Bad(u) <=> u \in IllFormed
  BY ScalarVerdict
<1>4. ~(w * UnitsPerMask + BitOf(u) < u)
  BY <1>1
<1>5. QED  BY <1>1, <1>2, <1>3, <1>4 DEF WithBit, ExactBefore

\* Regions of LLmasks are what masks are of units.
LEMMA RegionOfMask ==
    ASSUME NEW w \in Nat
    PROVE  /\ RegionOf(w) \in Nat /\ SlotOf(w) \in Slots
           /\ w = RegionOf(w) * MasksPerMaskHL + SlotOf(w)
           /\ RegionOf(w) * MasksPerMaskHL \in Nat
<1>1. MasksPerMaskHL \in Nat \ {0}
  BY ScanSizes
<1>2. w % MasksPerMaskHL \in 0..MasksPerMaskHL-1 /\ w \div MasksPerMaskHL \in Nat
      /\ w = (w \div MasksPerMaskHL) * MasksPerMaskHL + (w % MasksPerMaskHL)
  BY <1>1, QuotientRemainder
<1>3. (w \div MasksPerMaskHL) * MasksPerMaskHL \in Nat
  BY <1>1, <1>2, ProductOrder
<1>4. QED  BY <1>2, <1>3 DEF RegionOf, SlotOf, Slots

\* One more LLmask adds its bit to the word of its region when it is dirty.
LEMMA DirtyNext ==
    ASSUME NEW w \in Nat
    PROVE  DirtyBefore(RegionOf(w), w + 1) =
             IF Exact(w) # {} THEN DirtyBefore(RegionOf(w), w) \cup {SlotOf(w)}
                              ELSE DirtyBefore(RegionOf(w), w)
<1>1. /\ RegionOf(w) \in Nat /\ SlotOf(w) \in Slots
      /\ w = RegionOf(w) * MasksPerMaskHL + SlotOf(w) /\ RegionOf(w) * MasksPerMaskHL \in Nat
  BY RegionOfMask
<1> DEFINE B == RegionOf(w) * MasksPerMaskHL
<1>2. \A s \in Slots : (B + s < w + 1) <=> (B + s < w \/ s = SlotOf(w))
  <2>1. MasksPerMaskHL \in Nat \ {0}
    BY ScanSizes
  <2>2. PICK b \in 0..MasksPerMaskHL-1 : b = SlotOf(w)
    BY <1>1 DEF Slots
  <2>3. QED  BY <1>1, <2>1, <2>2 DEF Slots
<1>3. ~(B + SlotOf(w) < w)
  BY <1>1
<1> HIDE DEF B
<1>4. QED  BY <1>1, <1>2, <1>3 DEF DirtyBefore, B

\* A word is empty before the first LLmask of its region and decided by the
\* last one, be it the region's or the input's.
LEMMA WordEnds ==
    ASSUME NEW r \in Nat, NEW n \in Nat
    PROVE  /\ n <= r * MasksPerMaskHL => DirtyBefore(r, n) = {}
           /\ \A c \in Nat : (r + 1) * MasksPerMaskHL <= n /\ n <= c => DirtyBefore(r, n) = DirtyBefore(r, c)
<1>1. MasksPerMaskHL \in Nat \ {0} /\ r * MasksPerMaskHL \in Nat
      /\ (r + 1) * MasksPerMaskHL = r * MasksPerMaskHL + MasksPerMaskHL
  BY ScanSizes, ProductOrder, ProductStep
<1>2. \A s \in Slots : s \in 0..MasksPerMaskHL-1
  BY DEF Slots
<1>3. n <= r * MasksPerMaskHL => DirtyBefore(r, n) = {}
  BY <1>1, <1>2 DEF DirtyBefore
<1>4. ASSUME NEW c \in Nat, (r + 1) * MasksPerMaskHL <= n, n <= c
      PROVE  DirtyBefore(r, n) = DirtyBefore(r, c)
  <2>1. \A s \in Slots : r * MasksPerMaskHL + s < n /\ r * MasksPerMaskHL + s < c
    BY <1>1, <1>2, <1>4
  <2>2. QED  BY <2>1 DEF DirtyBefore
<1>5. QED  BY <1>3, <1>4

-----------------------------------------------------------------------------
(* Every step of the generators and aggregators keeps the invariant.       *)

\* The invariant of the next state, once the input is known not to change.
LEMMA MaskScanInvNext ==
    ASSUME InputTypeOK, HB = 1, UNCHANGED input, MaskScanTypeOK',
           routine' = "scalar" =>
               /\ k' <= Units /\ (pend' <=> k' - 1 \in Highs)
               /\ MasksRight(masks', k' \div UnitsPerMask)
               /\ m' = ExactBefore(k' \div UnitsPerMask, k'),
           routine' \in {"signmask", "pack_reduce", "fused"} =>
               /\ g' <= FullGroups /\ MasksRight(masks', g') /\ m' = {}
               /\ 2 * UnitsPerPack - 1 \in prevHigh' <=> g' * UnitsPerMask - 1 \in Highs,
           routine' \in {"tail", "fused_tail"} =>
               /\ g' = FullGroups /\ MasksRight(masks', g')
               /\ g' * UnitsPerMask <= k' /\ k' <= Units /\ (pend' <=> k' - 1 \in Highs)
               /\ m' = ExactBefore(g', k'),
           routine' \in {"fused", "fused_tail"} =>
               FilledRight(hl', g') /\ h' = DirtyBefore(g' \div MasksPerMaskHL, g'),
           routine' \in Aggregators => j' <= NRegions /\ WordsRight(hl', j'),
           ~Generating' => MasksRight(masks', NMasks),
           routine' \in Scanners \cup {"finished"} => WordsRight(hl', NRegions),
           routine' = "two_level" =>
               /\ j' <= NRegions
               /\ \A s \in h' : j' >= 1 /\ s \in DirtyBefore(j' - 1, NMasks)
    PROVE  MaskScanInv'
<1>1. /\ Units' = Units /\ FullGroups' = FullGroups /\ NMasks' = NMasks /\ NRegions' = NRegions
      /\ Highs' = Highs /\ IllFormed' = IllFormed /\ InputTypeOK' = InputTypeOK /\ HB' = HB
  BY ScanInputStable
<1> USE <1>1
<1>2. ScalarInv'
  BY DEF ScalarInv, MasksRight, Exact, ExactBefore, Bits
<1>3. GroupInv'
  BY DEF GroupInv, MasksRight, Exact, Bits
<1>4. TailInv'
  BY DEF TailInv, MasksRight, Exact, ExactBefore, Bits
<1>5. FusedInv'
  BY DEF FusedInv, FilledRight, DirtyBefore, Exact, Bits, Slots
<1>6. AggregateInv'
  BY DEF AggregateInv, WordsRight, DirtyBefore, Exact, Bits, Slots, Aggregators
<1>7. GeneratedInv'
  BY DEF GeneratedInv, MasksRight, Exact, Bits
<1>8. SummedInv'
  BY DEF SummedInv, WordsRight, DirtyBefore, Exact, Bits, Slots, Scanners
<1>9. QED  BY <1>2, <1>3, <1>4, <1>5, <1>6, <1>7, <1>8 DEF MaskScanInv

\* The types of the next state, likewise.
LEMMA MaskScanTypesNext ==
    ASSUME UNCHANGED input,
           routine' \in Generators \cup {"tail", "fused_tail"} \cup Aggregators
                        \cup Scanners \cup {"finished"},
           k' \in 0..NMasks*UnitsPerMask, g' \in 0..NMasks, j' \in 0..NMasks,
           prevHigh' \subseteq Lanes, pend' \in BOOLEAN, m' \subseteq Bits, h' \subseteq Slots,
           masks' \in [0..NMasks-1 -> SUBSET Bits], hl' \in [0..NRegions-1 -> SUBSET Slots]
    PROVE  MaskScanTypeOK'
<1>1. NMasks' = NMasks /\ NRegions' = NRegions
  BY ScanInputStable
<1>2. Lanes' = Lanes /\ Bits' = Bits /\ Slots' = Slots
  BY DEF Lanes, Bits, Slots, BytesPerPack
<1>3. QED  BY <1>1, <1>2 DEF MaskScanTypeOK, Generators, Aggregators, Scanners

\* The state's numbers, gathered for arithmetic.
LEMMA ScanNumbers ==
    ASSUME MaskScanInv
    PROVE  /\ InputTypeOK /\ HB = 1 /\ k \in Nat /\ g \in Nat /\ j \in Nat
           /\ Units \in Nat /\ FullGroups \in Nat /\ NMasks \in Nat /\ NRegions \in Nat
           /\ UnitsPerMask \in Nat \ {0} /\ MasksPerMaskHL \in Nat \ {0}
           /\ Units <= NMasks * UnitsPerMask /\ NMasks * UnitsPerMask \in Nat
           /\ FullGroups <= NMasks /\ NRegions <= NMasks
           /\ FullGroups * UnitsPerMask \in Nat /\ FullGroups * UnitsPerMask <= Units
<1>1. InputTypeOK /\ HB = 1 /\ k \in 0..NMasks*UnitsPerMask /\ g \in 0..NMasks /\ j \in 0..NMasks
  BY DEF MaskScanInv, MaskScanTypeOK
<1>2. QED  BY <1>1, ScanCounts, ScanSizes

\* A function returns with its locals cleared; the types follow.
LEMMA ReturnTypes ==
    ASSUME MaskScanInv, NEW next \in SUBSET (Aggregators \cup Scanners \cup {"finished"}),
           ReturnTo(next),
           masks' \in [0..NMasks-1 -> SUBSET Bits], hl' \in [0..NRegions-1 -> SUBSET Slots]
    PROVE  /\ MaskScanTypeOK' /\ UNCHANGED input /\ UNCHANGED out
           /\ routine' \in next /\ k' = 0 /\ j' = 0 /\ m' = {} /\ h' = {}
<1>1. /\ routine' \in next /\ k' = 0 /\ g' = 0 /\ j' = 0
      /\ prevHigh' = {} /\ pend' = FALSE /\ m' = {} /\ h' = {} /\ UNCHANGED <<input, out>>
  BY DEF ReturnTo
<1>2. 0 \in 0..NMasks*UnitsPerMask /\ 0 \in 0..NMasks
  BY ScanNumbers
<1>3. QED  BY <1>1, <1>2, MaskScanTypesNext

\* The initial states satisfy the invariant.
LEMMA MaskScanStarts == MaskScanInit => MaskScanInv
<1> SUFFICES ASSUME MaskScanInit PROVE MaskScanInv
  OBVIOUS
<1> USE DEF MaskScanInit, MaskInit
<1>1. InputTypeOK /\ HB = 1
  BY DEF InputInit, InputTypeOK
<1>2. /\ Units \in Nat /\ NMasks \in Nat /\ FullGroups \in Nat /\ NMasks * UnitsPerMask \in Nat
      /\ UnitsPerMask \in Nat \ {0} /\ MasksPerMaskHL \in Nat \ {0} /\ UnitsPerPack \in Nat \ {0}
  BY <1>1, ScanCounts, ScanSizes
<1>3. MaskScanTypeOK
  <2>1. k \in 0..NMasks*UnitsPerMask /\ g \in 0..NMasks /\ j \in 0..NMasks
    BY <1>2
  <2>2. masks \in [0..NMasks-1 -> SUBSET Bits] /\ hl \in [0..NRegions-1 -> SUBSET Slots]
    OBVIOUS
  <2>3. prevHigh \subseteq Lanes /\ pend \in BOOLEAN /\ m \subseteq Bits /\ h \subseteq Slots
    OBVIOUS
  <2>4. QED  BY <2>1, <2>2, <2>3 DEF MaskScanTypeOK
<1>4. -1 \notin Highs /\ k - 1 = -1 /\ g * UnitsPerMask = 0 /\ g * UnitsPerMask - 1 = -1
  BY <1>2 DEF Highs
<1>5. k \div UnitsPerMask = 0 /\ g \div MasksPerMaskHL = 0
  BY <1>2
<1>6. ExactBefore(0, 0) = {} /\ DirtyBefore(0, 0) = {}
  <2>1. 0 * UnitsPerMask = 0 /\ 0 * MasksPerMaskHL = 0
    BY <1>2
  <2>2. QED  BY <1>1, <2>1, MaskEnds, WordEnds
<1>7. MasksRight(masks, 0) /\ FilledRight(hl, 0)
  <2>1. \A r \in 0..NRegions-1 : ~((r + 1) * MasksPerMaskHL <= 0)
    <3>1. ASSUME NEW r \in Nat PROVE ~((r + 1) * MasksPerMaskHL <= 0)
      BY <1>2, ProductStep
    <3>2. \A r \in 0..NRegions-1 : r \in Nat
      OBVIOUS
    <3>3. QED  BY <3>1, <3>2
  <2>2. QED  BY <2>1 DEF MasksRight, FilledRight
<1>8. ScalarInv
  BY <1>2, <1>4, <1>5, <1>6, <1>7 DEF ScalarInv
<1>9. GroupInv
  BY <1>2, <1>4, <1>7 DEF GroupInv
<1>10. FusedInv
  BY <1>5, <1>6, <1>7 DEF FusedInv
<1>11. TailInv /\ AggregateInv /\ GeneratedInv /\ SummedInv
  BY DEF TailInv, AggregateInv, GeneratedInv, SummedInv, Generators, Aggregators, Scanners, Generating
<1>12. QED  BY <1>1, <1>3, <1>8, <1>9, <1>10, <1>11 DEF MaskScanInv

\* An LLmask that is stored where it is due extends the ones that are right.
LEMMA StoreMask ==
    ASSUME MaskScanInv, NEW w \in 0..NMasks-1, MasksRight(masks, w), NEW bits, bits = Exact(w)
    PROVE  /\ MasksRight([masks EXCEPT ![w] = bits], w + 1)
           /\ [masks EXCEPT ![w] = bits] \in [0..NMasks-1 -> SUBSET Bits]
<1>1. masks \in [0..NMasks-1 -> SUBSET Bits] /\ Exact(w) \subseteq Bits
  BY DEF MaskScanInv, MaskScanTypeOK, Exact
<1>2. \A v \in 0..NMasks-1 : v < w + 1 => v < w \/ v = w
  BY ScanNumbers
<1>3. QED  BY <1>1, <1>2 DEF MasksRight

\* llmask_scalar: one unit, and the LLmask when it has its last bit.
LEMMA ScalarUnitKeeps == MaskScanInv /\ ScalarUnit => MaskScanInv'
<1> SUFFICES ASSUME MaskScanInv, ScalarUnit PROVE MaskScanInv'
  OBVIOUS
<1> USE DEF ScalarUnit
<1> DEFINE w == k \div UnitsPerMask
           M == UnitsPerMask
<1>1. /\ InputTypeOK /\ HB = 1 /\ k \in Nat /\ Units \in Nat /\ NMasks \in Nat /\ M \in Nat \ {0}
      /\ Units <= NMasks * M /\ NMasks * M \in Nat /\ MaskScanTypeOK
  BY ScanNumbers DEF MaskScanInv
<1>2. (pend <=> k - 1 \in Highs) /\ MasksRight(masks, w) /\ m = ExactBefore(w, k)
  BY DEF MaskScanInv, ScalarInv
<1>3. w \in Nat /\ w * M <= k /\ k < w * M + M /\ w * M \in Nat /\ (w + 1) * M = w * M + M
  BY <1>1, MaskOfUnit, ProductStep
<1>4. BitOf(k) \in Bits /\ k = w * M + BitOf(k)
  BY <1>1, <1>3, PlaceOfUnit
<1>5. WithBit(k) = ExactBefore(w, k + 1)
  BY <1>1, <1>2, <1>3, WithBitIsNext
<1>6. w \in 0..NMasks-1
  <2>1. w * M < NMasks * M
    BY <1>1, <1>3
  <2>2. QED  BY <1>1, <1>3, <2>1, ProductOrder
<1>7. k' \in Nat /\ k' <= Units /\ k' <= NMasks * M /\ (pend' <=> k' - 1 \in Highs)
  <2>1. HighAt(k) <=> k \in Highs
    BY <1>1, PaddedClasses
  <2>2. QED  BY <1>1, <2>1
<1>8. /\ MasksRight(masks', k' \div M) /\ m' = ExactBefore(k' \div M, k')
      /\ m' \subseteq Bits /\ masks' \in [0..NMasks-1 -> SUBSET Bits]
  <2>1. CASE BitOf(k) = M - 1
    <3>1. k + 1 = (w + 1) * M /\ k + 1 = w * M + M
      BY <1>1, <1>3, <1>4, <2>1
    <3>2. (k + 1) \div M = w + 1
      <4>1. k + 1 \in Nat /\ w + 1 \in Nat /\ (w + 1) * M <= k + 1 /\ k + 1 < (w + 1) * M + M
        BY <1>1, <1>3, <3>1
      <4>2. QED  BY <4>1, PlaceOfUnit
    <3>3. WithBit(k) = Exact(w) /\ ExactBefore(w + 1, k + 1) = {}
      BY <1>1, <1>3, <1>5, <3>1, MaskEnds
    <3>4. MasksRight([masks EXCEPT ![w] = WithBit(k)], w + 1)
          /\ [masks EXCEPT ![w] = WithBit(k)] \in [0..NMasks-1 -> SUBSET Bits]
      BY <1>2, <1>6, <3>3, StoreMask
    <3>5. QED  BY <2>1, <3>2, <3>3, <3>4
  <2>2. CASE BitOf(k) # M - 1
    <3>1. w * M <= k + 1 /\ k + 1 < w * M + M
      <4>1. PICK b \in 0..M-1 : b = BitOf(k)
        BY <1>4 DEF Bits
      <4>2. QED  BY <1>1, <1>3, <1>4, <2>2, <4>1
    <3>2. (k + 1) \div M = w
      BY <1>1, <1>3, <3>1, PlaceOfUnit
    <3>3. QED  BY <1>1, <1>2, <1>5, <2>2, <3>2 DEF MaskScanTypeOK, ExactBefore
  <2>3. QED  BY <2>1, <2>2
<1>9. UNCHANGED input /\ routine' = "scalar"
  OBVIOUS
<1>10. MaskScanTypeOK'
  <2>1. pend' \in BOOLEAN
    BY DEF HighAt, IsHi8
  <2>2. k' \in 0..NMasks*M
    BY <1>1, <1>7
  <2>3. QED  BY <1>1, <1>8, <1>9, <2>1, <2>2, MaskScanTypesNext DEF MaskScanTypeOK, Generators
<1>11. QED
  BY <1>1, <1>7, <1>8, <1>9, <1>10, MaskScanInvNext DEF Generating, Generators, Aggregators, Scanners

\* The last LLmask is stored when it is a partial one, whatever loop filled it.
LEMMA StorePartial ==
    ASSUME MaskScanInv, MasksRight(masks, FullGroups), m = ExactBefore(FullGroups, Units),
           FullGroups * UnitsPerMask < Units
    PROVE  /\ MasksRight([masks EXCEPT ![NMasks - 1] = m], NMasks)
           /\ [masks EXCEPT ![NMasks - 1] = m] \in [0..NMasks-1 -> SUBSET Bits]
<1>1. NMasks - 1 = FullGroups /\ FullGroups \in 0..NMasks-1 /\ FullGroups + 1 = NMasks
  BY ScanNumbers, ScanCounts
<1>2. m = Exact(FullGroups)
  BY <1>1, ScanNumbers, MaskEnds
<1>3. QED  BY <1>1, <1>2, StoreMask

\* Where there is no partial LLmask, the whole groups are all there is.
LEMMA NoPartial ==
    ASSUME InputTypeOK, ~(FullGroups * UnitsPerMask < Units)
    PROVE  NMasks = FullGroups /\ Units = FullGroups * UnitsPerMask
  BY ScanCounts

\* llmask_scalar returns.
LEMMA ScalarReturnKeeps == MaskScanInv /\ ScalarReturn => MaskScanInv'
<1> SUFFICES ASSUME MaskScanInv, ScalarReturn PROVE MaskScanInv'
  OBVIOUS
<1>1. /\ routine = "scalar" /\ k = Units /\ hl' = hl /\ ReturnTo(Aggregators)
      /\ masks' = IF Units % UnitsPerMask # 0 THEN [masks EXCEPT ![NMasks - 1] = m] ELSE masks
  BY DEF ScalarReturn
<1>2. InputTypeOK /\ HB = 1 /\ MaskScanTypeOK
  BY DEF MaskScanInv
<1>3. MasksRight(masks, Units \div UnitsPerMask) /\ m = ExactBefore(Units \div UnitsPerMask, Units)
  BY <1>1 DEF MaskScanInv, ScalarInv
<1>4. MasksRight(masks, FullGroups) /\ m = ExactBefore(FullGroups, Units)
  BY <1>3 DEF FullGroups
<1>5. MasksRight(masks', NMasks) /\ masks' \in [0..NMasks-1 -> SUBSET Bits]
  <2>1. CASE FullGroups * UnitsPerMask < Units
    BY <1>1, <1>2, <1>4, <2>1, ScanCounts, StorePartial
  <2>2. CASE ~(FullGroups * UnitsPerMask < Units)
    <3>1. masks' = masks /\ NMasks = FullGroups
      BY <1>1, <1>2, <2>2, ScanCounts, NoPartial
    <3>2. QED  BY <1>2, <1>4, <3>1 DEF MaskScanTypeOK
  <2>3. QED  BY <2>1, <2>2
<1>6. /\ MaskScanTypeOK' /\ UNCHANGED input /\ routine' \in Aggregators /\ j' = 0
  BY <1>1, <1>2, <1>5, ReturnTypes DEF MaskScanTypeOK
<1>7. 0 <= NRegions /\ WordsRight(hl', 0)
  BY ScanNumbers DEF WordsRight
<1>8. QED
  BY <1>2, <1>5, <1>6, <1>7, MaskScanInvNext DEF Generating, Generators, Aggregators, Scanners

\* One group of a vector loop: its LLmask, and the carry into the next group.
LEMMA GroupMoves ==
    ASSUME MaskScanInv, routine \in {"signmask", "pack_reduce", "fused"}, g < FullGroups,
           NEW bits, bits = GroupBits(g)
    PROVE  /\ g \in 0..NMasks-1 /\ g + 1 <= FullGroups /\ g + 1 \in 0..NMasks
           /\ bits = Exact(g) /\ bits \subseteq Bits
           /\ MasksRight([masks EXCEPT ![g] = bits], g + 1)
           /\ [masks EXCEPT ![g] = bits] \in [0..NMasks-1 -> SUBSET Bits]
           /\ 2 * UnitsPerPack - 1 \in HiLanes((g + 1) * PacksPerMask - 1)
                <=> (g + 1) * UnitsPerMask - 1 \in Highs
           /\ HiLanes((g + 1) * PacksPerMask - 1) \subseteq Lanes
<1>1. g \in 0..NMasks-1 /\ g + 1 <= FullGroups /\ g + 1 \in 0..NMasks /\ g \in Nat
  BY ScanNumbers
<1>2. /\ InputTypeOK /\ HB = 1 /\ MasksRight(masks, g)
      /\ 2 * UnitsPerPack - 1 \in prevHigh <=> g * UnitsPerMask - 1 \in Highs
  BY DEF MaskScanInv, GroupInv
<1>3. /\ GroupBits(g) = Exact(g)
      /\ 2 * UnitsPerPack - 1 \in HiLanes((g + 1) * PacksPerMask - 1)
           <=> (g + 1) * UnitsPerMask - 1 \in Highs
  BY <1>1, <1>2, GroupIsExact
<1>4. /\ MasksRight([masks EXCEPT ![g] = bits], g + 1)
      /\ [masks EXCEPT ![g] = bits] \in [0..NMasks-1 -> SUBSET Bits]
  BY <1>1, <1>2, <1>3, StoreMask
<1>5. bits \subseteq Bits /\ HiLanes((g + 1) * PacksPerMask - 1) \subseteq Lanes
  BY <1>3 DEF Exact, HiLanes
<1>6. QED  BY <1>1, <1>3, <1>4, <1>5

\* llmask_signmask and llmask_vector_pack_reduce, one group.
LEMMA VectorGroupKeeps == MaskScanInv /\ VectorGroup => MaskScanInv'
<1> SUFFICES ASSUME MaskScanInv, VectorGroup PROVE MaskScanInv'
  OBVIOUS
<1>1. /\ routine \in {"signmask", "pack_reduce"} /\ g < FullGroups
      /\ masks' = [masks EXCEPT ![g] = GroupBits(g)]
      /\ prevHigh' = HiLanes((g + 1) * PacksPerMask - 1)
      /\ g' = g + 1 /\ UNCHANGED <<input, routine, k, j, pend, m, h, hl, out>>
  BY DEF VectorGroup, words
<1>2. InputTypeOK /\ HB = 1 /\ MaskScanTypeOK /\ m = {}
  BY <1>1 DEF MaskScanInv, GroupInv
<1>3. /\ g + 1 <= FullGroups /\ g + 1 \in 0..NMasks
      /\ MasksRight(masks', g + 1) /\ masks' \in [0..NMasks-1 -> SUBSET Bits]
      /\ 2 * UnitsPerPack - 1 \in prevHigh' <=> (g + 1) * UnitsPerMask - 1 \in Highs
      /\ prevHigh' \subseteq Lanes
  BY <1>1, GroupMoves
<1>4. MaskScanTypeOK'
  BY <1>1, <1>2, <1>3, MaskScanTypesNext DEF MaskScanTypeOK
<1>5. UNCHANGED input /\ routine' \in {"signmask", "pack_reduce"} /\ g' = g + 1 /\ m' = {}
  BY <1>1, <1>2
<1>6. QED
  BY <1>2, <1>3, <1>4, <1>5, MaskScanInvNext DEF Generating, Generators, Aggregators, Scanners

\* A slot of a region is its last one just when the region ends after it.
LEMMA RegionSteps ==
    ASSUME NEW w \in Nat
    PROVE  /\ SlotOf(w) = MasksPerMaskHL - 1 =>
                /\ w + 1 = (RegionOf(w) + 1) * MasksPerMaskHL
                /\ RegionOf(w + 1) = RegionOf(w) + 1
           /\ SlotOf(w) # MasksPerMaskHL - 1 =>
                /\ RegionOf(w + 1) = RegionOf(w)
                /\ \A r \in Nat : (r + 1) * MasksPerMaskHL # w + 1
<1> DEFINE H == MasksPerMaskHL
           r0 == RegionOf(w)
           s0 == SlotOf(w)
<1>1. H \in Nat \ {0} /\ r0 \in Nat /\ s0 \in 0..H-1 /\ w = r0 * H + s0 /\ r0 * H \in Nat
      /\ (r0 + 1) * H = r0 * H + H
  BY ScanSizes, RegionOfMask, ProductStep DEF Slots
<1>2. ASSUME NEW q \in Nat, NEW e \in 0..H-1, w + 1 = q * H + e
      PROVE  RegionOf(w + 1) = q /\ (w + 1) % H = e
  <2>1. (q * H + e) \div H = q /\ (q * H + e) % H = e
    BY <1>1, <1>2, QuotientUnique
  <2>2. QED  BY <1>2, <2>1 DEF RegionOf
<1> HIDE DEF H, r0, s0
<1>3. CASE s0 = H - 1
  <2>1. w + 1 = (r0 + 1) * H + 0 /\ r0 + 1 \in Nat /\ 0 \in 0..H-1
    BY <1>1, <1>3
  <2>2. w + 1 = (r0 + 1) * H
    BY <1>1, <1>3
  <2>3. RegionOf(w + 1) = r0 + 1
    BY <1>2, <2>1
  <2>4. QED  BY <1>3, <2>2, <2>3 DEF H, r0, s0
<1>4. CASE s0 # H - 1
  <2>1. w + 1 = r0 * H + (s0 + 1) /\ s0 + 1 \in 0..H-1
    BY <1>1, <1>4
  <2>2. RegionOf(w + 1) = r0 /\ (w + 1) % H = s0 + 1
    BY <1>1, <1>2, <2>1
  <2>3. ASSUME NEW r \in Nat, (r + 1) * H = w + 1 PROVE FALSE
    <3>1. w + 1 = (r + 1) * H + 0 /\ r + 1 \in Nat /\ 0 \in 0..H-1
      BY <1>1, <2>3
    <3>2. (w + 1) % H = 0
      BY <1>2, <3>1
    <3>3. QED  BY <1>1, <2>2, <3>2
  <2>4. QED  BY <1>4, <2>2, <2>3 DEF H, r0, s0
<1>5. QED  BY <1>3, <1>4

\* A region that some LLmask of the input belongs to has a word.
LEMMA RegionExists ==
    ASSUME InputTypeOK, NEW w \in 0..NMasks-1
    PROVE  RegionOf(w) \in 0..NRegions-1
<1>1. /\ NMasks \in Nat /\ NRegions \in Nat /\ MasksPerMaskHL \in Nat \ {0}
      /\ NMasks <= NRegions * MasksPerMaskHL
  BY ScanCounts, ScanSizes
<1>2. w \in Nat /\ w < NMasks
  BY <1>1
<1>3. /\ RegionOf(w) \in Nat /\ RegionOf(w) * MasksPerMaskHL \in Nat
      /\ RegionOf(w) * MasksPerMaskHL <= w
  <2>1. /\ RegionOf(w) \in Nat /\ SlotOf(w) \in Slots
        /\ w = RegionOf(w) * MasksPerMaskHL + SlotOf(w) /\ RegionOf(w) * MasksPerMaskHL \in Nat
    BY <1>2, RegionOfMask
  <2>2. SlotOf(w) \in Nat
    BY <1>1, <2>1 DEF Slots
  <2>3. QED  BY <2>1, <2>2
<1>4. NRegions * MasksPerMaskHL \in Nat
  BY <1>1, ProductOrder
<1>5. RegionOf(w) * MasksPerMaskHL < NRegions * MasksPerMaskHL
  BY <1>1, <1>2, <1>3, <1>4
<1>6. RegionOf(w) < NRegions
  BY <1>1, <1>3, <1>5, ProductOrder
<1>7. QED  BY <1>1, <1>3, <1>6

\* What the fused generator makes of its word when it is at LLmask w.
NextWord(w) == IF Exact(w) # {} THEN h \cup {SlotOf(w)} ELSE h

\* The fused generator's word: a bit more, and stored with its last bit.
LEMMA FusedWord ==
    ASSUME MaskScanInv, NEW w \in 0..NMasks-1, FilledRight(hl, w), h = DirtyBefore(RegionOf(w), w)
    PROVE  /\ NextWord(w) \subseteq Slots
           /\ SlotOf(w) = MasksPerMaskHL - 1 =>
                /\ FilledRight([hl EXCEPT ![RegionOf(w)] = NextWord(w)], w + 1)
                /\ [hl EXCEPT ![RegionOf(w)] = NextWord(w)] \in [0..NRegions-1 -> SUBSET Slots]
                /\ {} = DirtyBefore(RegionOf(w + 1), w + 1)
           /\ SlotOf(w) # MasksPerMaskHL - 1 =>
                /\ FilledRight(hl, w + 1)
                /\ NextWord(w) = DirtyBefore(RegionOf(w + 1), w + 1)
<1>1. /\ w \in Nat /\ NMasks \in Nat /\ w + 1 <= NMasks /\ InputTypeOK /\ NRegions \in Nat
      /\ hl \in [0..NRegions-1 -> SUBSET Slots] /\ MasksPerMaskHL \in Nat \ {0}
  BY ScanNumbers DEF MaskScanInv, MaskScanTypeOK
<1>2. NextWord(w) = DirtyBefore(RegionOf(w), w + 1)
  BY <1>1, DirtyNext DEF NextWord
<1>3. NextWord(w) \subseteq Slots
  BY <1>2 DEF DirtyBefore
<1>4. RegionOf(w) \in 0..NRegions-1 /\ RegionOf(w) \in Nat
  BY <1>1, RegionExists, RegionOfMask
<1>5. CASE SlotOf(w) = MasksPerMaskHL - 1
  <2>1. w + 1 = (RegionOf(w) + 1) * MasksPerMaskHL /\ RegionOf(w + 1) = RegionOf(w) + 1
    BY <1>1, <1>5, RegionSteps
  <2>2. {} = DirtyBefore(RegionOf(w + 1), w + 1)
    <3>1. w + 1 <= RegionOf(w + 1) * MasksPerMaskHL /\ RegionOf(w + 1) \in Nat
      BY <1>1, <1>4, <2>1
    <3>2. QED  BY <1>1, <3>1, WordEnds
  <2>3. NextWord(w) = DirtyBefore(RegionOf(w), NMasks)
    <3>1. (RegionOf(w) + 1) * MasksPerMaskHL <= w + 1
      BY <1>1, <2>1
    <3>2. QED  BY <1>1, <1>2, <1>4, <3>1, WordEnds
  <2>4. ASSUME NEW r \in 0..NRegions-1, (r + 1) * MasksPerMaskHL <= w + 1, r # RegionOf(w)
        PROVE  hl[r] = DirtyBefore(r, NMasks)
    <3>1. (r + 1) * MasksPerMaskHL # (RegionOf(w) + 1) * MasksPerMaskHL
      <4>1. r + 1 \in Nat /\ RegionOf(w) + 1 \in Nat
            /\ (r + 1 < RegionOf(w) + 1 \/ RegionOf(w) + 1 < r + 1)
        BY <1>1, <1>4, <2>4
      <4>2. (r + 1) * MasksPerMaskHL \in Nat /\ (RegionOf(w) + 1) * MasksPerMaskHL \in Nat
        BY <1>1, <4>1, ProductOrder
      <4>3. /\ r + 1 < RegionOf(w) + 1 => (r + 1) * MasksPerMaskHL < (RegionOf(w) + 1) * MasksPerMaskHL
            /\ RegionOf(w) + 1 < r + 1 => (RegionOf(w) + 1) * MasksPerMaskHL < (r + 1) * MasksPerMaskHL
        BY <1>1, <4>1, ProductOrder
      <4>4. QED  BY <4>1, <4>2, <4>3
    <3>2. (r + 1) * MasksPerMaskHL \in Nat
      BY <1>1, ProductOrder
    <3>3. (r + 1) * MasksPerMaskHL <= w
      BY <1>1, <2>1, <2>4, <3>1, <3>2
    <3>4. QED  BY <3>3 DEF FilledRight
  <2>5. FilledRight([hl EXCEPT ![RegionOf(w)] = NextWord(w)], w + 1)
    BY <1>1, <1>4, <2>3, <2>4 DEF FilledRight
  <2>6. [hl EXCEPT ![RegionOf(w)] = NextWord(w)] \in [0..NRegions-1 -> SUBSET Slots]
    BY <1>1, <1>3
  <2>7. QED  BY <1>3, <1>5, <2>2, <2>5, <2>6
<1>6. CASE SlotOf(w) # MasksPerMaskHL - 1
  <2>1. RegionOf(w + 1) = RegionOf(w) /\ \A r \in Nat : (r + 1) * MasksPerMaskHL # w + 1
    BY <1>1, <1>6, RegionSteps
  <2>2. ASSUME NEW r \in 0..NRegions-1, (r + 1) * MasksPerMaskHL <= w + 1
        PROVE  hl[r] = DirtyBefore(r, NMasks)
    <3>1. r \in Nat /\ r + 1 \in Nat /\ (r + 1) * MasksPerMaskHL # w + 1
      BY <2>1
    <3>2. (r + 1) * MasksPerMaskHL \in Nat
      BY <1>1, <3>1, ProductOrder
    <3>3. (r + 1) * MasksPerMaskHL <= w
      BY <1>1, <2>2, <3>1, <3>2
    <3>4. QED  BY <3>3 DEF FilledRight
  <2>3. FilledRight(hl, w + 1)
    BY <2>2 DEF FilledRight
  <2>4. QED  BY <1>2, <1>3, <1>6, <2>1, <2>3
<1>7. QED  BY <1>5, <1>6

\* llmask_and_maskhl_fused, one group.
LEMMA FusedGroupKeeps == MaskScanInv /\ FusedGroup => MaskScanInv'
<1> SUFFICES ASSUME MaskScanInv, FusedGroup PROVE MaskScanInv'
  OBVIOUS
<1> DEFINE bits == GroupBits(g)
           word == IF bits # {} THEN h \cup {SlotOf(g)} ELSE h
<1>1. /\ routine = "fused" /\ g < FullGroups /\ masks' = [masks EXCEPT ![g] = bits]
      /\ IF SlotOf(g) = MasksPerMaskHL - 1
         THEN hl' = [hl EXCEPT ![RegionOf(g)] = word] /\ h' = {}
         ELSE h' = word /\ UNCHANGED hl
      /\ prevHigh' = HiLanes((g + 1) * PacksPerMask - 1) /\ g' = g + 1
      /\ UNCHANGED <<input, routine, k, j, pend, m, out>>
  BY DEF FusedGroup
<1>2. InputTypeOK /\ HB = 1 /\ MaskScanTypeOK /\ m = {}
  BY <1>1 DEF MaskScanInv, GroupInv
<1>3. /\ g \in 0..NMasks-1 /\ g + 1 <= FullGroups /\ g + 1 \in 0..NMasks /\ bits = Exact(g)
      /\ MasksRight(masks', g + 1) /\ masks' \in [0..NMasks-1 -> SUBSET Bits]
      /\ 2 * UnitsPerPack - 1 \in prevHigh' <=> (g + 1) * UnitsPerMask - 1 \in Highs
      /\ prevHigh' \subseteq Lanes
  BY <1>1, GroupMoves
<1>4. FilledRight(hl, g) /\ h = DirtyBefore(RegionOf(g), g)
  BY <1>1 DEF MaskScanInv, FusedInv, RegionOf
<1>4a. word = NextWord(g)
  BY <1>3 DEF NextWord
<1> HIDE DEF bits, word
<1>5. /\ word \subseteq Slots
      /\ SlotOf(g) = MasksPerMaskHL - 1 =>
           /\ FilledRight([hl EXCEPT ![RegionOf(g)] = word], g + 1)
           /\ [hl EXCEPT ![RegionOf(g)] = word] \in [0..NRegions-1 -> SUBSET Slots]
           /\ {} = DirtyBefore(RegionOf(g + 1), g + 1)
      /\ SlotOf(g) # MasksPerMaskHL - 1 =>
           /\ FilledRight(hl, g + 1)
           /\ word = DirtyBefore(RegionOf(g + 1), g + 1)
  BY <1>3, <1>4, <1>4a, FusedWord
<1>6. /\ FilledRight(hl', g + 1) /\ hl' \in [0..NRegions-1 -> SUBSET Slots]
      /\ h' = DirtyBefore(RegionOf(g + 1), g + 1) /\ h' \subseteq Slots
  BY <1>1, <1>2, <1>5 DEF MaskScanTypeOK
<1>7. MaskScanTypeOK'
  BY <1>1, <1>2, <1>3, <1>6, MaskScanTypesNext DEF MaskScanTypeOK
<1>8. UNCHANGED input /\ routine' = "fused" /\ g' = g + 1 /\ m' = {}
  BY <1>1, <1>2
<1>9. h' = DirtyBefore(g' \div MasksPerMaskHL, g')
  BY <1>6, <1>8 DEF RegionOf
<1>10. QED
  BY <1>2, <1>3, <1>6, <1>7, <1>8, <1>9, MaskScanInvNext DEF Generating, Generators, Aggregators, Scanners

\* llmask_tail begins where the whole groups end, with the carry of the last.
LEMMA StartTailKeeps == MaskScanInv /\ StartTail => MaskScanInv'
<1> SUFFICES ASSUME MaskScanInv, StartTail PROVE MaskScanInv'
  OBVIOUS
<1>1. /\ routine \in {"signmask", "pack_reduce", "fused"} /\ g = FullGroups
      /\ k' = FullGroups * UnitsPerMask /\ pend' = (BytesPerPack - 1 \in prevHigh)
      /\ routine' = IF routine = "fused" THEN "fused_tail" ELSE "tail"
      /\ UNCHANGED <<input, g, j, prevHigh, m, h, masks, hl, out>>
  BY DEF StartTail, words, arrays
<1>2. /\ InputTypeOK /\ HB = 1 /\ MaskScanTypeOK /\ m = {} /\ MasksRight(masks, g)
      /\ 2 * UnitsPerPack - 1 \in prevHigh <=> g * UnitsPerMask - 1 \in Highs
  BY <1>1 DEF MaskScanInv, GroupInv
<1>3. routine = "fused" => FilledRight(hl, g) /\ h = DirtyBefore(g \div MasksPerMaskHL, g)
  BY DEF MaskScanInv, FusedInv
<1>4. /\ k' \in 0..NMasks*UnitsPerMask /\ g * UnitsPerMask <= k' /\ k' <= Units
      /\ pend' \in BOOLEAN
  <2>1. FullGroups * UnitsPerMask <= NMasks * UnitsPerMask
    BY ScanNumbers
  <2>2. QED  BY <1>1, <2>1, ScanNumbers
<1>5. (pend' <=> k' - 1 \in Highs) /\ m' = ExactBefore(g, k')
  <2>1. BytesPerPack - 1 = 2 * UnitsPerPack - 1 /\ k' = g * UnitsPerMask
    BY <1>1, ScanSizes
  <2>2. ExactBefore(g, g * UnitsPerMask) = {}
    BY ScanNumbers, MaskEnds
  <2>3. QED  BY <1>1, <1>2, <2>1, <2>2
<1>6. MaskScanTypeOK'
  BY <1>1, <1>2, <1>4, MaskScanTypesNext DEF MaskScanTypeOK
<1>7. /\ UNCHANGED input /\ routine' \in {"tail", "fused_tail"} /\ g' = g /\ g' = FullGroups
      /\ masks' = masks /\ hl' = hl /\ h' = h /\ (routine' = "fused_tail" => routine = "fused")
  BY <1>1
<1>8. QED
  BY <1>2, <1>3, <1>4, <1>5, <1>6, <1>7, MaskScanInvNext DEF Generating, Generators, Aggregators, Scanners

\* llmask_tail, one unit.
LEMMA TailUnitKeeps == MaskScanInv /\ TailUnit => MaskScanInv'
<1> SUFFICES ASSUME MaskScanInv, TailUnit PROVE MaskScanInv'
  OBVIOUS
<1>1. /\ routine \in {"tail", "fused_tail"} /\ k < Units /\ m' = WithBit(k) /\ pend' = HighAt(k)
      /\ k' = k + 1 /\ UNCHANGED <<input, routine, g, j, prevHigh, h, masks, hl, out>>
  BY DEF TailUnit, arrays
<1>2. /\ InputTypeOK /\ HB = 1 /\ MaskScanTypeOK /\ MasksRight(masks, g) /\ g = FullGroups
      /\ g * UnitsPerMask <= k /\ (pend <=> k - 1 \in Highs) /\ m = ExactBefore(g, k)
  BY <1>1 DEF MaskScanInv, TailInv
<1>3. routine = "fused_tail" => FilledRight(hl, g) /\ h = DirtyBefore(g \div MasksPerMaskHL, g)
  BY DEF MaskScanInv, FusedInv
<1>4. /\ k \in Nat /\ k + 1 <= Units /\ k + 1 \in 0..NMasks*UnitsPerMask
      /\ g * UnitsPerMask <= k + 1 /\ k < g * UnitsPerMask + UnitsPerMask /\ g \in Nat
  <2>1. Units < FullGroups * UnitsPerMask + UnitsPerMask
    BY <1>2, ScanCounts
  <2>2. QED  BY <1>1, <1>2, <2>1, ScanNumbers
<1>5. m' = ExactBefore(g, k + 1)
  BY <1>1, <1>2, <1>4, WithBitIsNext
<1>6. pend' \in BOOLEAN /\ (pend' <=> (k + 1) - 1 \in Highs)
  <2>1. HighAt(k) <=> k \in Highs
    BY <1>2, <1>4, PaddedClasses
  <2>2. (k + 1) - 1 = k
    BY <1>4
  <2>3. QED  BY <1>1, <2>1, <2>2 DEF HighAt, IsHi8
<1>7. m' \subseteq Bits
  BY <1>5 DEF ExactBefore
<1>8. MaskScanTypeOK'
  BY <1>1, <1>2, <1>4, <1>6, <1>7, MaskScanTypesNext DEF MaskScanTypeOK
<1>9. UNCHANGED <<input, routine, g, masks, hl, h>>
  BY <1>1
<1>10. QED
  BY <1>1, <1>2, <1>3, <1>4, <1>5, <1>6, <1>8, <1>9, MaskScanInvNext
     DEF Generating, Generators, Aggregators, Scanners

\* When the tail is done all LLmasks are right.
LEMMA TailEnds ==
    ASSUME MaskScanInv, routine \in {"tail", "fused_tail"}, k = Units
    PROVE  MasksRight(WithTail, NMasks) /\ WithTail \in [0..NMasks-1 -> SUBSET Bits]
<1>1. /\ InputTypeOK /\ MaskScanTypeOK /\ MasksRight(masks, FullGroups) /\ m = ExactBefore(FullGroups, Units)
  BY DEF MaskScanInv, TailInv
<1>2. CASE FullGroups * UnitsPerMask < Units
  BY <1>1, <1>2, StorePartial DEF WithTail
<1>3. CASE ~(FullGroups * UnitsPerMask < Units)
  BY <1>1, <1>3, NoPartial DEF WithTail, MaskScanTypeOK
<1>4. QED  BY <1>2, <1>3

\* llmask_tail returns to a generator that leaves the summary to a second pass.
LEMMA TailReturnKeeps == MaskScanInv /\ TailReturn => MaskScanInv'
<1> SUFFICES ASSUME MaskScanInv, TailReturn PROVE MaskScanInv'
  OBVIOUS
<1>1. routine = "tail" /\ k = Units /\ masks' = WithTail /\ hl' = hl /\ ReturnTo(Aggregators)
  BY DEF TailReturn
<1>2. InputTypeOK /\ HB = 1 /\ MaskScanTypeOK
  BY DEF MaskScanInv
<1>3. MasksRight(masks', NMasks) /\ masks' \in [0..NMasks-1 -> SUBSET Bits]
  BY <1>1, TailEnds
<1>4. MaskScanTypeOK' /\ UNCHANGED input /\ routine' \in Aggregators /\ j' = 0
  BY <1>1, <1>2, <1>3, ReturnTypes DEF MaskScanTypeOK
<1>5. 0 <= NRegions /\ WordsRight(hl', 0)
  BY ScanNumbers DEF WordsRight
<1>6. QED
  BY <1>2, <1>3, <1>4, <1>5, MaskScanInvNext DEF Generating, Generators, Aggregators, Scanners

\* The last word of the fused generator, which neither a whole group nor, in
\* an input of whole groups, the tail may have stored.
LastWord ==
    IF NMasks > FullGroups /\ WithTail[FullGroups] # {} THEN h \cup {SlotOf(FullGroups)} ELSE h

\* It covers every LLmask of its region.
LEMMA LastWordIsRight ==
    ASSUME MaskScanInv, routine = "fused_tail", k = Units
    PROVE  LastWord = DirtyBefore(RegionOf(FullGroups), NMasks)
<1>1. /\ InputTypeOK /\ FullGroups \in Nat /\ NMasks \in Nat
      /\ NMasks = FullGroups + 1 \/ NMasks = FullGroups
  BY ScanNumbers, ScanCounts
<1>2. h = DirtyBefore(RegionOf(FullGroups), FullGroups)
  BY DEF MaskScanInv, TailInv, FusedInv, RegionOf
<1>3. CASE NMasks = FullGroups
  BY <1>1, <1>2, <1>3 DEF LastWord
<1>4. CASE NMasks = FullGroups + 1
  <2>1. WithTail[FullGroups] = Exact(FullGroups)
    BY <1>1, <1>4, TailEnds DEF MasksRight
  <2>2. QED  BY <1>1, <1>2, <1>4, <2>1, DirtyNext DEF LastWord
<1>5. QED  BY <1>1, <1>3, <1>4

\* llmask_and_maskhl_fused returns: with the tail's LLmask and, unless whole
\* groups have filled it, the last word.
LEMMA FusedReturnKeeps == MaskScanInv /\ FusedReturn => MaskScanInv'
<1> SUFFICES ASSUME MaskScanInv, FusedReturn PROVE MaskScanInv'
  OBVIOUS
<1> DEFINE H == MasksPerMaskHL
<1>1. /\ routine = "fused_tail" /\ k = Units /\ masks' = WithTail /\ ReturnTo(Scanners)
      /\ hl' = IF NMasks # 0 /\ Unflushed(NRegions - 1)
               THEN [hl EXCEPT ![NRegions - 1] = LastWord] ELSE hl
  BY DEF FusedReturn, LastWord
<1>2. InputTypeOK /\ HB = 1 /\ hl \in [0..NRegions-1 -> SUBSET Slots]
  BY DEF MaskScanInv, MaskScanTypeOK
<1>3. MasksRight(masks', NMasks) /\ masks' \in [0..NMasks-1 -> SUBSET Bits]
  BY <1>1, TailEnds
<1>4. FilledRight(hl, FullGroups) /\ LastWord = DirtyBefore(RegionOf(FullGroups), NMasks)
  BY <1>1, LastWordIsRight DEF MaskScanInv, TailInv, FusedInv
<1>5. /\ NMasks \in Nat /\ NRegions \in Nat /\ FullGroups \in Nat /\ H \in Nat \ {0}
      /\ NMasks <= FullGroups + 1 /\ FullGroups <= NMasks /\ NMasks <= NRegions * H
      /\ NRegions > 0 => (NRegions - 1) * H < NMasks
      /\ NMasks = 0 => NRegions = 0
  BY <1>2, ScanSizes, ScanCounts
<1>6. hl' \in [0..NRegions-1 -> SUBSET Slots]
  BY <1>1, <1>2, <1>4 DEF DirtyBefore
<1>7. WordsRight(hl', NRegions)
  <2>1. SUFFICES ASSUME NEW r \in 0..NRegions-1
                 PROVE  hl'[r] = DirtyBefore(r, NMasks)
    BY DEF WordsRight
  <2>2. /\ r \in Nat /\ NRegions - 1 \in Nat /\ NRegions > 0 /\ NMasks # 0 /\ r + 1 \in Nat
        /\ (NRegions - 1) * H \in Nat /\ (r + 1) * H \in Nat /\ NRegions * H \in Nat
        /\ NRegions * H = (NRegions - 1) * H + H /\ H * NRegions = NRegions * H
    <3>1. r \in Nat /\ NRegions - 1 \in Nat /\ NRegions > 0 /\ NMasks # 0 /\ r + 1 \in Nat
      BY <1>5, <2>1
    <3>2. (NRegions - 1) * H \in Nat /\ (r + 1) * H \in Nat /\ NRegions * H \in Nat
      BY <1>5, <3>1, ProductOrder
    <3>3. ((NRegions - 1) + 1) * H = (NRegions - 1) * H + H /\ (NRegions - 1) + 1 = NRegions
      BY <1>5, <3>1, ProductStep
    <3>4. QED  BY <1>5, <3>1, <3>2, <3>3
  <2>3. Unflushed(NRegions - 1) <=> FullGroups < NRegions * H
    <3>1. H * ((NRegions - 1) + 1) = NRegions * H
      BY <1>5, <2>2
    <3>2. QED  BY <3>1 DEF Unflushed
  <2>4. CASE r < NRegions - 1
    <3>1. (r + 1) * H <= (NRegions - 1) * H
      BY <1>5, <2>2, <2>4, ProductMonotone
    <3>2. (r + 1) * H <= FullGroups
      BY <1>5, <2>2, <3>1
    <3>3. hl[r] = DirtyBefore(r, NMasks)
      BY <1>4, <3>2 DEF FilledRight
    <3>4. QED  BY <1>1, <1>2, <2>4, <3>3
  <2>5. CASE r = NRegions - 1 /\ FullGroups < NRegions * H
    <3>1. (NRegions - 1) * H <= FullGroups /\ FullGroups < (NRegions - 1) * H + H
      BY <1>5, <2>2, <2>5
    <3>2. RegionOf(FullGroups) = NRegions - 1
      <4>1. FullGroups - (NRegions - 1) * H \in 0..H-1
            /\ FullGroups = (NRegions - 1) * H + (FullGroups - (NRegions - 1) * H)
        BY <1>5, <2>2, <3>1
      <4>2. ((NRegions - 1) * H + (FullGroups - (NRegions - 1) * H)) \div H = NRegions - 1
        BY <1>5, <2>2, <4>1, QuotientUnique
      <4>3. QED  BY <4>1, <4>2 DEF RegionOf
    <3>3. QED  BY <1>1, <1>2, <1>4, <2>2, <2>3, <2>5, <3>2
  <2>6. CASE r = NRegions - 1 /\ ~(FullGroups < NRegions * H)
    <3>1. (r + 1) * H <= FullGroups
      BY <1>5, <2>2, <2>6
    <3>2. hl[r] = DirtyBefore(r, NMasks)
      BY <1>4, <3>1 DEF FilledRight
    <3>3. QED  BY <1>1, <2>3, <2>6, <3>2
  <2>7. QED  BY <1>5, <2>1, <2>2, <2>4, <2>5, <2>6
<1>8. /\ MaskScanTypeOK' /\ UNCHANGED input /\ routine' \in Scanners /\ j' = 0 /\ h' = {}
  BY <1>1, <1>3, <1>6, ReturnTypes
<1>9. QED
  BY <1>2, <1>3, <1>5, <1>7, <1>8, MaskScanInvNext DEF Generating, Generators, Aggregators, Scanners

\* Both aggregators make the same word of a region, the last, shorter one too.
LEMMA RegionWords ==
    ASSUME MaskScanInv, routine \in Aggregators, j < NRegions
    PROVE  SeparatePass = DirtyBefore(j, NMasks) /\ VectorAny64 = DirtyBefore(j, NMasks)
<1> DEFINE H == MasksPerMaskHL
           B == j * H
           L == RegionLen
<1>1. /\ InputTypeOK /\ j \in Nat /\ NMasks \in Nat /\ NRegions \in Nat /\ H \in Nat \ {0}
      /\ B \in Nat /\ (NRegions - 1) * H < NMasks
  BY ScanNumbers, ScanCounts, ProductOrder
<1>2. B < NMasks
  <2>1. j <= NRegions - 1 /\ NRegions - 1 \in Nat
    BY <1>1
  <2>2. B <= (NRegions - 1) * H /\ (NRegions - 1) * H \in Nat
    BY <1>1, <2>1, ProductMonotone, ProductOrder
  <2>3. QED  BY <1>1, <2>2
<1>3. L = (IF NMasks - B < H THEN NMasks - B ELSE H) /\ L \in Nat \ {0} /\ L <= H
  BY <1>1, <1>2 DEF RegionLen
<1>4. \A s \in Slots : s \in Nat /\ (B + s < NMasks <=> s < L)
  BY <1>1, <1>2, <1>3 DEF Slots
<1>5. 0..L-1 \subseteq Slots
  BY <1>1, <1>3 DEF Slots
<1>6. \A s \in 0..L-1 : Dirty(s) <=> Exact(B + s) # {}
  <2>1. SUFFICES ASSUME NEW s \in 0..L-1 PROVE Dirty(s) <=> Exact(B + s) # {}
    OBVIOUS
  <2>2. B + s \in 0..NMasks-1
    BY <1>1, <1>2, <1>3, <1>4, <1>5, <2>1
  <2>3. masks[B + s] = Exact(B + s)
    <3>1. ~Generating
      BY DEF Generating, Generators, Aggregators
    <3>2. MasksRight(masks, NMasks)
      BY <3>1 DEF MaskScanInv, GeneratedInv
    <3>3. B + s < NMasks
      BY <1>1, <2>2
    <3>4. QED  BY <2>2, <3>2, <3>3 DEF MasksRight
  <2>4. QED  BY <2>3 DEF Dirty
<1> HIDE DEF L
<1>7. SeparatePass = {s \in 0..L-1 : Dirty(s)}
  BY DEF SeparatePass, L
<1>8. {s \in 0..L-1 : Dirty(s)} = DirtyBefore(j, NMasks)
  <2>1. \A s : s \in 0..L-1 <=> s \in Slots /\ B + s < NMasks
    <3>1. \A s \in Slots : s < L => s \in 0..L-1
      BY <1>3, <1>4
    <3>2. \A s \in 0..L-1 : s < L
      BY <1>3
    <3>3. QED  BY <1>4, <1>5, <3>1, <3>2
  <2> HIDE DEF B
  <2>2. QED  BY <1>6, <2>1 DEF DirtyBefore, B
<1>9. VectorAny64 = {s \in 0..L-1 : Dirty(s)}
  <2>1. VectorAny64 = {s \in 0..2*(L \div 2)-1 : Dirty(s)}
                        \cup {s \in {L - 1} : L % 2 = 1 /\ Dirty(s)}
    BY DEF VectorAny64, L
  <2>2. \A s : s \in 0..L-1 <=> s \in 0..2*(L \div 2)-1 \/ (L % 2 = 1 /\ s = L - 1)
    <3>1. CASE L % 2 = 1
      <4>1. 2 * (L \div 2) = L - 1
        BY <1>3, <3>1
      <4>2. QED  BY <1>3, <3>1, <4>1
    <3>2. CASE L % 2 # 1
      <4>1. 2 * (L \div 2) = L
        BY <1>3, <3>2
      <4>2. QED  BY <3>2, <4>1
    <3>3. QED  BY <3>1, <3>2
  <2>3. QED  BY <2>1, <2>2
<1>10. QED  BY <1>7, <1>8, <1>9

\* maskhl_separate_pass and maskhl_vector_any64, one region.
LEMMA AggregateRegionKeeps == MaskScanInv /\ AggregateRegion => MaskScanInv'
<1> SUFFICES ASSUME MaskScanInv, AggregateRegion PROVE MaskScanInv'
  OBVIOUS
<1>1. /\ routine \in Aggregators /\ j < NRegions
      /\ hl' = [hl EXCEPT ![j] = IF routine = "any64" THEN VectorAny64 ELSE SeparatePass]
      /\ j' = j + 1
      /\ UNCHANGED <<input, routine, k, g, prevHigh, pend, m, h, masks, out>>
  BY DEF AggregateRegion, carries, words
<1>2. /\ InputTypeOK /\ HB = 1 /\ MaskScanTypeOK /\ WordsRight(hl, j)
  BY <1>1 DEF MaskScanInv, AggregateInv
<1>3. hl' = [hl EXCEPT ![j] = DirtyBefore(j, NMasks)]
  BY <1>1, RegionWords
<1>4. j \in 0..NRegions-1 /\ j + 1 <= NRegions /\ j + 1 \in 0..NMasks /\ j \in Nat /\ NRegions \in Nat
  BY <1>1, ScanNumbers
<1>5. WordsRight(hl', j + 1) /\ hl' \in [0..NRegions-1 -> SUBSET Slots]
  <2>1. hl \in [0..NRegions-1 -> SUBSET Slots] /\ DirtyBefore(j, NMasks) \subseteq Slots
    BY <1>2 DEF MaskScanTypeOK, DirtyBefore
  <2>2. \A r \in 0..NRegions-1 : r < j + 1 => r < j \/ r = j
    BY <1>4
  <2>3. QED  BY <1>2, <1>3, <1>4, <2>1, <2>2 DEF WordsRight
<1>6. MaskScanTypeOK'
  BY <1>1, <1>2, <1>4, <1>5, MaskScanTypesNext DEF MaskScanTypeOK
<1>7. MasksRight(masks', NMasks)
  BY <1>1 DEF MaskScanInv, GeneratedInv, Generating, Generators, Aggregators
<1>8. UNCHANGED input /\ routine' \in Aggregators /\ j' = j + 1
  BY <1>1
<1>9. QED
  BY <1>2, <1>4, <1>5, <1>6, <1>7, <1>8, MaskScanInvNext DEF Generating, Generators, Aggregators, Scanners

\* An aggregator returns.
LEMMA AggregateReturnKeeps == MaskScanInv /\ AggregateReturn => MaskScanInv'
<1> SUFFICES ASSUME MaskScanInv, AggregateReturn PROVE MaskScanInv'
  OBVIOUS
<1>1. routine \in Aggregators /\ j = NRegions /\ masks' = masks /\ hl' = hl /\ ReturnTo(Scanners)
  BY DEF AggregateReturn, arrays
<1>2. /\ InputTypeOK /\ HB = 1 /\ MaskScanTypeOK /\ WordsRight(hl', NRegions)
  BY <1>1 DEF MaskScanInv, AggregateInv
<1>3. MaskScanTypeOK' /\ UNCHANGED input /\ routine' \in Scanners /\ j' = 0 /\ h' = {}
  BY <1>1, <1>2, ReturnTypes DEF MaskScanTypeOK
<1>4. MasksRight(masks', NMasks)
  BY <1>1 DEF MaskScanInv, GeneratedInv, Generating, Generators, Aggregators
<1>5. 0 <= NRegions
  BY ScanNumbers
<1>6. QED
  BY <1>2, <1>3, <1>4, <1>5, MaskScanInvNext DEF Generating, Generators, Aggregators, Scanners

-----------------------------------------------------------------------------
(* Every step of the scanners keeps it too.                                *)

\* The least of some numbers is one of them, and no other is less.
LEMMA LeastOf ==
    ASSUME NEW S, S \subseteq Nat, S # {}
    PROVE  Min(S) \in S /\ \A x \in S : Min(S) <= x
<1>1. \E x \in S : \A y \in S : x <= y
  BY LeastNatural
<1>2. QED  BY <1>1 DEF Min

\* A dirty LLmask that the summary names is one of the input's.
LEMMA DirtyMaskInside ==
    ASSUME MaskScanInv, routine = "two_level", h # {}
    PROVE  /\ j - 1 \in Nat /\ Min(h) \in h /\ \A s \in h : Min(h) <= s /\ s \in Nat
           /\ (j - 1) * MasksPerMaskHL \in Nat
           /\ DirtyMask = (j - 1) * MasksPerMaskHL + Min(h)
           /\ DirtyMask \in 0..NMasks-1 /\ Exact(DirtyMask) # {}
           /\ masks[DirtyMask] = Exact(DirtyMask)
<1>1. /\ \A s \in h : j >= 1 /\ s \in DirtyBefore(j - 1, NMasks)
      /\ MasksRight(masks, NMasks)
  BY DEF MaskScanInv, SummedInv, GeneratedInv, Generating, Generators
<1>2. h \subseteq Nat
  BY <1>1 DEF DirtyBefore, Slots
<1>3. Min(h) \in h /\ \A s \in h : Min(h) <= s
  BY <1>2, LeastOf
<1>4. j - 1 \in Nat /\ (j - 1) * MasksPerMaskHL \in Nat /\ NMasks \in Nat
  BY <1>1, ScanNumbers, ProductOrder
<1>5. DirtyMask = (j - 1) * MasksPerMaskHL + Min(h)
  BY DEF DirtyMask
<1>6. Min(h) \in Nat /\ DirtyMask < NMasks /\ Exact(DirtyMask) # {}
  BY <1>1, <1>2, <1>3, <1>5 DEF DirtyBefore
<1>7. DirtyMask \in 0..NMasks-1
  BY <1>4, <1>5, <1>6
<1>8. masks[DirtyMask] = Exact(DirtyMask)
  BY <1>1, <1>6, <1>7 DEF MasksRight
<1>9. QED  BY <1>2, <1>3, <1>4, <1>5, <1>6, <1>7, <1>8

\* What a scanner changes, when it does not return.
LEMMA ScanStepKeeps ==
    ASSUME MaskScanInv, routine \in Scanners, UNCHANGED <<input, routine, prevHigh, pend, masks, hl>>,
           k' \in 0..NMasks*UnitsPerMask, g' \in 0..NMasks, j' \in 0..NMasks,
           m' \subseteq Bits, h' \subseteq Slots,
           routine = "two_level" =>
               /\ j' <= NRegions
               /\ \A s \in h' : j' >= 1 /\ s \in DirtyBefore(j' - 1, NMasks)
    PROVE  MaskScanInv'
<1>1. InputTypeOK /\ HB = 1 /\ MaskScanTypeOK
  BY DEF MaskScanInv
<1>2. MaskScanTypeOK'
  BY <1>1, MaskScanTypesNext DEF MaskScanTypeOK
<1>3. MasksRight(masks', NMasks) /\ WordsRight(hl', NRegions)
  BY DEF MaskScanInv, GeneratedInv, SummedInv, Generating, Generators, Scanners
<1>4. UNCHANGED input /\ routine' \in Scanners /\ routine' = routine
  OBVIOUS
<1>5. QED
  BY <1>1, <1>2, <1>3, <1>4, MaskScanInvNext DEF Generating, Generators, Aggregators, Scanners

\* The scanners' steps, and their return.
LEMMA ScanKeeps == MaskScanInv /\ Scan => MaskScanInv'
<1> SUFFICES ASSUME MaskScanInv, Scan PROVE MaskScanInv'
  OBVIOUS
<1>1. /\ InputTypeOK /\ HB = 1 /\ MaskScanTypeOK
      /\ routine = "two_level" =>
          /\ j <= NRegions
          /\ \A s \in h : j >= 1 /\ s \in DirtyBefore(j - 1, NMasks)
  BY DEF MaskScanInv, SummedInv
<1>2. CASE ScanRegion
  <2>1. /\ routine = "two_level" /\ j < NRegions /\ h' = hl[j] /\ j' = j + 1
        /\ UNCHANGED <<input, routine, k, g, prevHigh, pend, m, masks, hl, out>>
    BY <1>2 DEF ScanRegion, carries, arrays
  <2>2. j \in 0..NRegions-1 /\ j + 1 \in 0..NMasks /\ j + 1 <= NRegions /\ j + 1 >= 1 /\ (j + 1) - 1 = j
        /\ j < NRegions
    <3>1. j \in Nat /\ NRegions \in Nat /\ NMasks \in Nat /\ NRegions <= NMasks
      BY <1>1, ScanNumbers DEF MaskScanTypeOK
    <3>2. j < NRegions
      BY <2>1
    <3>3. QED  BY <3>1, <3>2
  <2>3. h' = DirtyBefore(j, NMasks)
    BY <2>1, <2>2 DEF MaskScanInv, SummedInv, WordsRight, Scanners
  <2>4. h' \subseteq Slots
    BY <2>3 DEF DirtyBefore
  <2>5. \A s \in h' : j' >= 1 /\ s \in DirtyBefore(j' - 1, NMasks)
    BY <2>1, <2>2, <2>3
  <2>6. QED  BY <1>1, <2>1, <2>2, <2>4, <2>5, ScanStepKeeps DEF MaskScanTypeOK, Scanners
<1>3. CASE ScanDirtyMask
  <2>1. /\ routine = "two_level" /\ h # {} /\ g' = DirtyMask /\ m' = masks[DirtyMask] /\ h' \subseteq h
        /\ UNCHANGED <<input, routine, k, j, prevHigh, pend, masks, hl, out>>
    BY <1>3 DEF ScanDirtyMask, carries, arrays, ResetLowestBit
  <2>2. g' \in 0..NMasks /\ m' \subseteq Bits
    <3>1. DirtyMask \in 0..NMasks-1 /\ m' = Exact(DirtyMask)
      BY <2>1, DirtyMaskInside
    <3>2. QED  BY <2>1, <3>1, ScanNumbers DEF Exact
  <2>3. QED  BY <1>1, <2>1, <2>2, ScanStepKeeps DEF MaskScanTypeOK, Scanners
<1>4. CASE ScanMask
  <2>1. /\ routine = "one_level" /\ j < NMasks /\ g' = j /\ m' = masks[j] /\ j' = j + 1
        /\ UNCHANGED <<input, routine, k, prevHigh, pend, h, masks, hl, out>>
    BY <1>4 DEF ScanMask, carries, arrays
  <2>2. j \in 0..NMasks-1 /\ j + 1 \in 0..NMasks /\ j \in 0..NMasks
    BY <2>1, ScanNumbers
  <2>3. m' \subseteq Bits
    BY <1>1, <2>1, <2>2 DEF MaskScanTypeOK
  <2>4. QED  BY <1>1, <2>1, <2>2, <2>3, ScanStepKeeps DEF MaskScanTypeOK, Scanners
<1>5. CASE EmitPosition
  <2>1. /\ routine \in {"two_level", "one_level"} /\ m' \subseteq m
        /\ UNCHANGED <<input, routine, k, g, j, prevHigh, pend, h, masks, hl>>
    BY <1>5 DEF EmitPosition, indices, carries, arrays, ResetLowestBit
  <2>2. QED  BY <1>1, <2>1, ScanStepKeeps DEF MaskScanTypeOK, Scanners
<1>6. CASE TestBit
  <2>1. /\ routine = "linear" /\ k < NMasks * UnitsPerMask /\ k' = k + 1
        /\ UNCHANGED <<input, routine, g, j, prevHigh, pend, m, h, masks, hl>>
    BY <1>6 DEF TestBit, carries, words, arrays
  <2>2. k' \in 0..NMasks*UnitsPerMask
    BY <2>1, ScanNumbers
  <2>3. QED  BY <1>1, <2>1, <2>2, ScanStepKeeps DEF MaskScanTypeOK, Scanners
<1>7. CASE ScanReturn
  <2>1. routine \in Scanners /\ masks' = masks /\ hl' = hl /\ ReturnTo({"finished"})
    BY <1>7 DEF ScanReturn, arrays, Scanners
  <2>2. MaskScanTypeOK' /\ UNCHANGED input /\ routine' = "finished" /\ j' = 0 /\ h' = {}
    BY <1>1, <2>1, ReturnTypes DEF MaskScanTypeOK
  <2>3. MasksRight(masks', NMasks) /\ WordsRight(hl', NRegions)
    BY <2>1 DEF MaskScanInv, GeneratedInv, SummedInv, Generating, Generators, Scanners
  <2>4. QED
    BY <1>1, <2>2, <2>3, MaskScanInvNext DEF Generating, Generators, Aggregators, Scanners
<1>8. QED  BY <1>2, <1>3, <1>4, <1>5, <1>6, <1>7 DEF Scan

\* Nothing happens.
LEMMA MaskScanRests == MaskScanInv /\ UNCHANGED maskScanVars => MaskScanInv'
<1> SUFFICES ASSUME MaskScanInv, UNCHANGED maskScanVars PROVE MaskScanInv'
  OBVIOUS
<1>1. UNCHANGED <<input, routine, k, g, j, prevHigh, pend, m, h, masks, hl, out>>
  BY DEF maskScanVars, indices, carries, words, arrays
<1>2. MaskScanTypeOK'
  BY <1>1, MaskScanTypesNext DEF MaskScanInv, MaskScanTypeOK
<1>3. ScalarInv /\ GroupInv /\ TailInv /\ FusedInv /\ AggregateInv /\ GeneratedInv /\ SummedInv
  BY DEF MaskScanInv
<1>4. InputTypeOK /\ HB = 1 /\ UNCHANGED input /\ (Generating' <=> Generating)
  BY <1>1 DEF MaskScanInv, Generating, Generators
<1>5. QED
  BY <1>1, <1>2, <1>3, <1>4, MaskScanInvNext
     DEF ScalarInv, GroupInv, TailInv, FusedInv, AggregateInv, GeneratedInv, SummedInv

\* Every step keeps the invariant of the prototypes.
LEMMA MaskScanKeeps == MaskScanInv /\ [MaskScanNext]_maskScanVars => MaskScanInv'
<1> SUFFICES ASSUME MaskScanInv, [MaskScanNext]_maskScanVars PROVE MaskScanInv'
  OBVIOUS
<1>1. CASE ScalarUnit       BY <1>1, ScalarUnitKeeps
<1>2. CASE ScalarReturn     BY <1>2, ScalarReturnKeeps
<1>3. CASE VectorGroup      BY <1>3, VectorGroupKeeps
<1>4. CASE FusedGroup       BY <1>4, FusedGroupKeeps
<1>5. CASE StartTail        BY <1>5, StartTailKeeps
<1>6. CASE TailUnit         BY <1>6, TailUnitKeeps
<1>7. CASE TailReturn       BY <1>7, TailReturnKeeps
<1>8. CASE FusedReturn      BY <1>8, FusedReturnKeeps
<1>9. CASE AggregateRegion  BY <1>9, AggregateRegionKeeps
<1>10. CASE AggregateReturn  BY <1>10, AggregateReturnKeeps
<1>11. CASE Scan            BY <1>11, ScanKeeps
<1>12. CASE UNCHANGED maskScanVars  BY <1>12, MaskScanRests
<1>13. QED
  BY <1>1, <1>2, <1>3, <1>4, <1>5, <1>6, <1>7, <1>8, <1>9, <1>10, <1>11, <1>12
     DEF MaskScanNext, Generate, Aggregate, Terminated

\* Whatever the strategies and the input, the inductive invariant holds.
THEOREM MaskScanInvariant == MaskScanSpec => []MaskScanInv
  BY MaskScanStarts, MaskScanKeeps, PTL DEF MaskScanSpec

\* MasksInv for every input, pack, mask and region size: each generator writes
\* the masks of the reference and each way of summarising them their summary,
\* and no loop reads past the padding.
THEOREM MasksAreExact == MaskScanSpec => []MasksInv
<1>1. ASSUME MaskScanInv PROVE MasksInv
  <2> DEFINE M == UnitsPerMask
  <2>1. /\ MaskScanTypeOK /\ k \in Nat /\ g \in Nat /\ Units \in Nat /\ FullGroups \in Nat
        /\ NMasks \in Nat /\ M \in Nat \ {0} /\ FullGroups * M \in Nat /\ FullGroups * M <= Units
        /\ size \in Nat /\ 2 * Units <= size /\ UnitsPerPack \in Nat \ {0} /\ InputTypeOK
    BY <1>1, ScanNumbers, ScanSizes, UnitsType DEF MaskScanInv
  <2>2. MasksExact
    <3>1. SUFFICES ASSUME NEW w \in 0..NMasks-1,
                          ~Generating \/ (w + 1) * M <= GeneratedUnits
                   PROVE  masks[w] = Exact(w)
      BY <2>1 DEF MasksExact, MaskScanTypeOK, Exact
    <3>2. w \in Nat /\ w < NMasks /\ w + 1 \in Nat /\ (w + 1) * M \in Nat /\ (w + 1) * M = w * M + M
      BY <2>1, ProductStep, ProductOrder
    <3>3. CASE ~Generating
      BY <1>1, <3>2, <3>3 DEF MaskScanInv, GeneratedInv, MasksRight
    <3>4. CASE routine = "scalar"
      <4>1. (w + 1) * M <= k
        BY <3>1, <3>4 DEF GeneratedUnits, Generating, Generators
      <4>2. k \div M \in Nat /\ k < (k \div M) * M + M /\ (k \div M) * M \in Nat
        BY <2>1, MaskOfUnit, ProductOrder
      <4>3. w * M < (k \div M) * M
        BY <2>1, <3>2, <4>1, <4>2, ProductOrder
      <4>4. w < k \div M
        BY <2>1, <3>2, <4>2, <4>3, ProductOrder
      <4>5. QED  BY <1>1, <3>4, <4>4 DEF MaskScanInv, ScalarInv, MasksRight
    <3>5. CASE Generating /\ routine # "scalar"
      <4>1. (w + 1) * M <= g * M
        BY <3>1, <3>5 DEF GeneratedUnits
      <4>2. w * M < g * M
        <5>1. w * M \in Nat /\ g * M \in Nat
          BY <2>1, <3>2, ProductOrder
        <5>2. QED  BY <2>1, <3>2, <4>1, <5>1
      <4>3. w < g
        BY <2>1, <3>2, <4>2, ProductOrder
      <4>4. MasksRight(masks, g)
        BY <1>1, <3>5 DEF MaskScanInv, GroupInv, TailInv, Generating, Generators
      <4>5. QED  BY <4>3, <4>4 DEF MasksRight
    <3>6. QED  BY <3>3, <3>4, <3>5
  <2>3. SummaryExact
    <3>1. SUFFICES ASSUME routine \in Scanners \cup {"finished"}, NEW r \in 0..NRegions-1
                   PROVE  hl[r] = {s \in Slots : LET i == r * MasksPerMaskHL + s
                                                 IN  i < NMasks /\ masks[i] # {}}
      BY <2>1 DEF SummaryExact, MaskScanTypeOK
    <3>2. r < NRegions /\ r \in Nat /\ MasksPerMaskHL \in Nat \ {0} /\ r * MasksPerMaskHL \in Nat
      BY <1>1, ScanNumbers, ProductOrder
    <3>3. MasksRight(masks, NMasks) /\ hl[r] = DirtyBefore(r, NMasks)
      BY <1>1, <3>1, <3>2 DEF MaskScanInv, GeneratedInv, SummedInv, WordsRight, Generating, Generators, Scanners
    <3>4. ASSUME NEW s \in Slots, r * MasksPerMaskHL + s < NMasks
          PROVE  masks[r * MasksPerMaskHL + s] = Exact(r * MasksPerMaskHL + s)
      <4>1. r * MasksPerMaskHL + s \in 0..NMasks-1
        BY <2>1, <3>2, <3>4 DEF Slots
      <4>2. QED  BY <3>3, <3>4, <4>1 DEF MasksRight
    <3>5. QED  BY <3>3, <3>4 DEF DirtyBefore
  <2>4. ReadsInPadding
    <3>1. ASSUME g < FullGroups
          PROVE  2 * (g + 1) * M + BytesPerPack <= size + PadBytes
      <4>1. g + 1 \in Nat /\ g + 1 <= FullGroups
        BY <2>1, <3>1
      <4>2. (g + 1) * M <= FullGroups * M /\ (g + 1) * M \in Nat
        BY <2>1, <4>1, ProductMonotone, ProductOrder
      <4>3. 2 * (g + 1) * M = 2 * ((g + 1) * M)
        BY <2>1, <4>1
      <4>4. PadBytes = 4 * UnitsPerPack /\ BytesPerPack = 2 * UnitsPerPack
        BY <2>1 DEF PadBytes, BytesPerPack
      <4>5. QED  BY <2>1, <4>2, <4>3, <4>4
    <3>2. ASSUME k < Units PROVE 2 * k + 3 < size + PadBytes
      <4>1. PadBytes = 4 * UnitsPerPack
        BY <2>1 DEF PadBytes, BytesPerPack
      <4>2. QED  BY <2>1, <3>2, <4>1
    <3>3. QED  BY <3>1, <3>2 DEF ReadsInPadding
  <2>5. QED  BY <2>1, <2>2, <2>3, <2>4 DEF MasksInv
<1>2. QED  BY <1>1, MaskScanInvariant, PTL

-----------------------------------------------------------------------------
(* The scans implement PositionReport.                                     *)

\* The ill-formed units of LLmask w, and those of w and the LLmasks after it.
OfMask(w) == {u \in IllFormed : u \div UnitsPerMask = w}
FromMask(w) == {u \in IllFormed : w <= u \div UnitsPerMask}

\* What a scanner has still to report, from where it stands: the bits of the
\* LLmask it holds, the LLmasks of the word it holds and all that lies beyond.
Held == {g * UnitsPerMask + i : i \in m}
OfWord == {u \in IllFormed : \E s \in h : u \div UnitsPerMask = (j - 1) * MasksPerMaskHL + s}

\* In the two nested scans what is held comes on top of what lies beyond.
Pending ==
    IF routine = "two_level" THEN Held \cup OfWord \cup FromMask(j * MasksPerMaskHL)
    ELSE IF routine = "one_level" THEN Held \cup FromMask(j)
    ELSE IF routine = "linear" THEN {u \in IllFormed : k <= u}
    ELSE IF routine = "finished" THEN {} ELSE IllFormed

\* The LLmask that is held is one of the input's, and comes before the others.
HeldFirst ==
    m # {} =>
        /\ routine \in {"two_level", "one_level"} => g < NMasks /\ m \subseteq Exact(g)
        /\ routine = "two_level" => /\ g < j * MasksPerMaskHL
                                    /\ \A s \in h : g < (j - 1) * MasksPerMaskHL + s
        /\ routine = "one_level" => g < j

\* The positions handed over so far.
Reported == {out[i] : i \in DOMAIN out}

\* Nothing that is reported is pending, nothing that is not is forgotten.
PendingInv == out \in Seq(Nat) /\ HeldFirst /\ IllFormed \ Reported = Pending

\* Where an ill-formed unit has its bit.
LEMMA PlaceOfIllFormed ==
    ASSUME InputTypeOK, NEW u \in IllFormed
    PROVE  /\ u \in Nat /\ u < Units /\ u \div UnitsPerMask \in 0..NMasks-1
           /\ BitOf(u) \in Exact(u \div UnitsPerMask)
           /\ u = (u \div UnitsPerMask) * UnitsPerMask + BitOf(u)
<1> DEFINE M == UnitsPerMask
           w == u \div M
<1>1. u \in Nat /\ u < Units /\ Units \in Nat /\ NMasks \in Nat /\ Units <= NMasks * M
      /\ NMasks * M \in Nat /\ M \in Nat \ {0}
  BY IllFormedInside, ScanCounts, ScanSizes
<1>2. w \in Nat /\ w * M <= u /\ u < w * M + M /\ w * M \in Nat
  BY <1>1, MaskOfUnit, ProductOrder
<1>3. BitOf(u) \in Bits /\ u = w * M + BitOf(u)
  BY <1>1, <1>2, PlaceOfUnit
<1>4. w * M < NMasks * M
  BY <1>1, <1>2
<1>5. w < NMasks
  BY <1>1, <1>2, <1>4, ProductOrder
<1>6. QED  BY <1>1, <1>2, <1>3, <1>5 DEF Exact

\* The bits of an exact LLmask stand for its ill-formed units.
LEMMA BitsAreUnits ==
    ASSUME InputTypeOK, NEW w \in Nat
    PROVE  {w * UnitsPerMask + i : i \in Exact(w)} = OfMask(w)
<1>1. ASSUME NEW i \in Exact(w) PROVE w * UnitsPerMask + i \in OfMask(w)
  <2>1. i \in 0..UnitsPerMask-1 /\ w * UnitsPerMask + i \in IllFormed /\ UnitsPerMask \in Nat \ {0}
    BY <1>1, ScanSizes DEF Exact, Bits
  <2>2. (w * UnitsPerMask + i) \div UnitsPerMask = w
    BY <2>1, QuotientUnique
  <2>3. QED  BY <2>1, <2>2 DEF OfMask
<1>2. ASSUME NEW u \in OfMask(w) PROVE \E i \in Exact(w) : u = w * UnitsPerMask + i
  BY <1>2, PlaceOfIllFormed DEF OfMask
<1>3. QED  BY <1>1, <1>2

\* An LLmask more.
LEMMA FromMaskNext ==
    ASSUME InputTypeOK, NEW w \in Nat
    PROVE  FromMask(w) = OfMask(w) \cup FromMask(w + 1)
<1>1. \A u \in IllFormed : u \div UnitsPerMask \in Nat
  <2>1. NMasks \in Nat
    BY ScanCounts
  <2>2. QED  BY <2>1, PlaceOfIllFormed
<1>2. QED  BY <1>1 DEF FromMask, OfMask

\* A region more: its dirty LLmasks are where its ill-formed units lie.
LEMMA FromRegionNext ==
    ASSUME InputTypeOK, NEW r \in Nat
    PROVE  FromMask(r * MasksPerMaskHL)
             = {u \in IllFormed : \E s \in DirtyBefore(r, NMasks) :
                                      u \div UnitsPerMask = r * MasksPerMaskHL + s}
                 \cup FromMask((r + 1) * MasksPerMaskHL)
<1> DEFINE H == MasksPerMaskHL
           B == r * H
<1>1. H \in Nat \ {0} /\ B \in Nat /\ (r + 1) * H = B + H /\ NMasks \in Nat
  BY ScanSizes, ScanCounts, ProductStep
<1>2. ASSUME NEW u \in IllFormed
      PROVE  B <= u \div UnitsPerMask
                <=> \/ \E s \in DirtyBefore(r, NMasks) : u \div UnitsPerMask = B + s
                    \/ B + H <= u \div UnitsPerMask
  <2> DEFINE w == u \div UnitsPerMask
  <2>1. w \in Nat /\ w < NMasks /\ Exact(w) # {}
    <3>1. w \in 0..NMasks-1 /\ BitOf(u) \in Exact(w)
      BY PlaceOfIllFormed
    <3>2. QED  BY <1>1, <3>1
  <2> HIDE DEF w
  <2>2. ASSUME B <= w, ~(B + H <= w) PROVE \E s \in DirtyBefore(r, NMasks) : w = B + s
    <3>1. w - B \in 0..H-1 /\ B + (w - B) = w
      BY <1>1, <2>1, <2>2
    <3>2. w - B \in DirtyBefore(r, NMasks)
      BY <2>1, <3>1 DEF DirtyBefore, Slots
    <3>3. QED  BY <3>1, <3>2
  <2>3. ASSUME NEW s \in DirtyBefore(r, NMasks), w = B + s PROVE B <= w
    <3>1. s \in 0..H-1
      BY DEF DirtyBefore, Slots
    <3>2. QED  BY <1>1, <2>3, <3>1
  <2>4. B + H <= w => B <= w
    BY <1>1, <2>1
  <2>5. QED  BY <2>2, <2>3, <2>4 DEF w
<1>3. QED  BY <1>1, <1>2 DEF FromMask

\* The specification of the scans speaks of the same ill-formed units.
LEMMA SameIllFormed == Report!IllFormed = IllFormed
<1>1. Report!Highs = Highs /\ Report!Lows = Lows
  BY DEF Report!Highs, Report!Lows, Highs, Lows, Report!Units, Units, Report!UnitAt, UnitAt,
         Report!HighByte, Report!LowByte, HighByte, LowByte, Report!IsHighSurrogate,
         Report!IsLowSurrogate, IsHighSurrogate, IsLowSurrogate
<1>2. QED  BY <1>1 DEF Report!IllFormed, IllFormed

\* A step that hands nothing over, neither returns nor loses anything.
LEMMA SilentStep ==
    ASSUME PendingInv, UNCHANGED <<input, out>>, HeldFirst', Pending' = Pending
    PROVE  PendingInv'
<1>1. IllFormed' = IllFormed /\ Reported' = Reported
  BY ScanInputStable DEF Reported
<1>2. QED  BY <1>1 DEF PendingInv

\* A position is appended: it is reported now, and all the others still are.
LEMMA OneMoreReported ==
    ASSUME PendingInv, NEW p \in Nat, out' = Append(out, p)
    PROVE  out' \in Seq(Nat) /\ Reported' = Reported \cup {p}
<1>1. out \in Seq(Nat)
  BY DEF PendingInv
<1>2. out' \in Seq(Nat) /\ DOMAIN out' = 1..Len(out)+1 /\ DOMAIN out = 1..Len(out) /\ Len(out) \in Nat
  BY <1>1
<1>3. \A i \in 1..Len(out) : out'[i] = out[i]
  BY <1>1
<1>4. out'[Len(out)+1] = p
  BY <1>1
<1>5. DOMAIN out' = DOMAIN out \cup {Len(out)+1}
  BY <1>2
<1>6. QED  BY <1>2, <1>3, <1>4, <1>5 DEF Reported

\* Handing over the least pending position is what the specification asks for.
LEMMA ReportStep ==
    ASSUME PendingInv, InputTypeOK, UNCHANGED input, HeldFirst',
           NEW p \in Pending, \A q \in Pending : p <= q,
           out' = Append(out, p), Pending' = Pending \ {p},
           routine # "finished", routine' # "finished"
    PROVE  PendingInv' /\ Report!ReportOne
<1>1. Pending = IllFormed \ Reported /\ Pending \subseteq Nat /\ p \in Nat
  BY IllFormedInside DEF PendingInv
<1>2. out' \in Seq(Nat) /\ Reported' = Reported \cup {p}
  BY <1>1, OneMoreReported
<1>3. PendingInv'
  BY <1>1, <1>2, ScanInputStable DEF PendingInv
<1>4. Report!Unreported = Pending
  BY <1>1, SameIllFormed DEF Report!Unreported, Reported
<1>5. Report!Min(Pending) = p
  <2>1. \A x \in Pending : x <= p /\ p <= x => x = p
    BY <1>1
  <2>2. QED  BY <1>1, <2>1 DEF Report!Min
<1>6. QED  BY <1>3, <1>4, <1>5 DEF Report!ReportOne, Report!input, input

-----------------------------------------------------------------------------
\* The generators and the aggregators hand nothing over, and when the last of
\* them returns everything is pending, whichever the scan.
LEMMA GeneratingReports ==
    ASSUME PendingInv, UNCHANGED <<input, out>>,
           routine \notin Scanners \cup {"finished"},
           \/ routine' \notin Scanners \cup {"finished"}
           \/ routine' \in Scanners /\ InputTypeOK /\ k' = 0 /\ j' = 0 /\ m' = {} /\ h' = {}
    PROVE  PendingInv' /\ routine' # "finished"
<1> USE DEF Scanners
<1>1. IllFormed' = IllFormed
  BY ScanInputStable
<1>2. Pending = IllFormed
  BY DEF Pending
<1>3. HeldFirst'
  BY DEF HeldFirst
<1>4. Pending' = IllFormed
  <2>1. CASE routine' \notin Scanners \cup {"finished"}
    BY <1>1, <2>1 DEF Pending
  <2>2. CASE routine' \in Scanners /\ InputTypeOK /\ k' = 0 /\ j' = 0 /\ m' = {} /\ h' = {}
    <3>1. Held' = {} /\ OfWord' = {}
      BY <2>2 DEF Held, OfWord
    <3>2. /\ \A u \in IllFormed : u \in Nat /\ u \div UnitsPerMask \in Nat
          /\ MasksPerMaskHL \in Nat
      <4>1. NMasks \in Nat
        BY <2>2, ScanCounts
      <4>2. QED  BY <2>2, <4>1, PlaceOfIllFormed, ScanSizes
    <3>3. 0 * MasksPerMaskHL = 0
      BY <3>2
    <3>4. FromMask(0)' = IllFormed /\ FromMask(j * MasksPerMaskHL)' = FromMask(0)'
          /\ FromMask(j)' = FromMask(0)'
      BY <1>1, <2>2, <3>2, <3>3 DEF FromMask
    <3>5. {u \in IllFormed' : k' <= u} = IllFormed
      BY <1>1, <2>2, <3>2
    <3>6. QED  BY <2>2, <3>1, <3>4, <3>5 DEF Pending
  <2>3. QED  BY <2>1, <2>2
<1>5. routine' # "finished"
  OBVIOUS
<1>6. QED  BY <1>2, <1>3, <1>4, <1>5, SilentStep

\* What the scans' steps are shown to keep and to implement.
ScanKept == PendingInv' /\ [Report!ReportNext]_(Report!reportVars)

\* A step that hands nothing over is a stuttering step of the specification.
LEMMA SilentKept ==
    ASSUME PendingInv, UNCHANGED <<input, out>>, HeldFirst', Pending' = Pending,
           (routine' = "finished") = (routine = "finished")
    PROVE  ScanKept
<1>1. PendingInv'
  BY SilentStep
<1>2. UNCHANGED Report!reportVars
  BY DEF Report!reportVars, Report!input, input
<1>3. QED  BY <1>1, <1>2 DEF ScanKept

\* A reporting step is one the specification allows.
LEMMA ReportKept == PendingInv' /\ Report!ReportOne => ScanKept
  BY DEF ScanKept, Report!ReportNext

\* The two-level scan turns to the next word: a clean region is passed over.
LEMMA ScanRegionReports == MaskScanInv /\ PendingInv /\ ScanRegion => ScanKept
<1> SUFFICES ASSUME MaskScanInv, PendingInv, ScanRegion PROVE ScanKept
  OBVIOUS
<1>1. /\ routine = "two_level" /\ j < NRegions /\ m = {} /\ h = {} /\ h' = hl[j] /\ j' = j + 1
      /\ UNCHANGED <<input, routine, k, g, m, out>>
  BY DEF ScanRegion
<1>2. InputTypeOK /\ j \in Nat /\ NRegions \in Nat /\ IllFormed' = IllFormed
  BY <1>1, ScanNumbers, ScanInputStable
<1>3. h' = DirtyBefore(j, NMasks)
  <2>1. j \in 0..NRegions-1
    BY <1>1, <1>2
  <2>2. QED  BY <1>1, <2>1 DEF MaskScanInv, SummedInv, WordsRight, Scanners
<1>4. Held = {} /\ Held' = {} /\ OfWord = {}
  BY <1>1 DEF Held, OfWord
<1>5. (j + 1) - 1 = j
  BY <1>2
<1>6. OfWord' = {u \in IllFormed : \E s \in DirtyBefore(j, NMasks) :
                                       u \div UnitsPerMask = j * MasksPerMaskHL + s}
  BY <1>1, <1>2, <1>3, <1>5 DEF OfWord
<1>7. FromMask(j * MasksPerMaskHL)' = FromMask((j + 1) * MasksPerMaskHL)
  BY <1>1, <1>2 DEF FromMask
<1>8. Pending' = Pending
  BY <1>1, <1>2, <1>4, <1>6, <1>7, FromRegionNext DEF Pending
<1>9. HeldFirst'
  BY <1>1 DEF HeldFirst
<1>10. QED  BY <1>1, <1>8, <1>9, SilentKept

\* It takes up the first dirty LLmask of the word.
LEMMA ScanDirtyMaskReports == MaskScanInv /\ PendingInv /\ ScanDirtyMask => ScanKept
<1> SUFFICES ASSUME MaskScanInv, PendingInv, ScanDirtyMask PROVE ScanKept
  OBVIOUS
<1> DEFINE w == DirtyMask
           B == (j - 1) * MasksPerMaskHL
<1>1. /\ routine = "two_level" /\ m = {} /\ h # {} /\ g' = w /\ m' = masks[w]
      /\ h' = h \ {Min(h)} /\ UNCHANGED <<input, routine, k, j, out>>
  BY DEF ScanDirtyMask, ResetLowestBit
<1>2. /\ j - 1 \in Nat /\ Min(h) \in h /\ \A s \in h : Min(h) <= s /\ s \in Nat
      /\ B \in Nat /\ w = B + Min(h) /\ w \in 0..NMasks-1 /\ m' = Exact(w)
  BY <1>1, DirtyMaskInside
<1>3. /\ InputTypeOK /\ NMasks \in Nat /\ j \in Nat /\ MasksPerMaskHL \in Nat \ {0}
      /\ IllFormed' = IllFormed /\ NMasks' = NMasks
  BY <1>1, ScanNumbers, ScanInputStable
<1>4. j * MasksPerMaskHL = B + MasksPerMaskHL
  <2>1. ((j - 1) + 1) * MasksPerMaskHL = B + MasksPerMaskHL /\ (j - 1) + 1 = j
    BY <1>2, <1>3, ProductStep
  <2>2. QED  BY <2>1
<1>5. w \in Nat /\ w < NMasks /\ w < j * MasksPerMaskHL /\ \A s \in h' : w < B + s
  <2>1. Min(h) < MasksPerMaskHL
    <3>1. h \subseteq 0..MasksPerMaskHL-1
      BY DEF MaskScanInv, MaskScanTypeOK, Slots
    <3>2. Min(h) \in 0..MasksPerMaskHL-1
      BY <1>2, <3>1
    <3>3. QED  BY <1>3, <3>2
  <2>2. \A s \in h' : Min(h) < s
    BY <1>1, <1>2
  <2>3. \A s \in h' : s \in Nat
    BY <1>1, <1>2
  <2> HIDE DEF w, B
  <2>4. QED  BY <1>2, <1>3, <1>4, <2>1, <2>2, <2>3
<1>6. HeldFirst'
  BY <1>1, <1>2, <1>3, <1>5 DEF HeldFirst, Exact, Bits
<1>7. Held = {} /\ Held' = OfMask(w)
  <2>1. Held' = {w * UnitsPerMask + i : i \in Exact(w)}
    BY <1>1, <1>2 DEF Held
  <2>2. QED  BY <1>1, <1>3, <1>5, <2>1, BitsAreUnits DEF Held
<1>8. OfWord = OfMask(w) \cup OfWord'
  <2>1. OfWord' = {u \in IllFormed : \E s \in h' : u \div UnitsPerMask = B + s}
    BY <1>1, <1>3 DEF OfWord
  <2>2. \A s : s \in h <=> s = Min(h) \/ s \in h'
    BY <1>1, <1>2
  <2> HIDE DEF B, w
  <2>3. OfWord = {u \in IllFormed : \E s \in h : u \div UnitsPerMask = B + s}
    BY DEF OfWord, B
  <2>4. QED  BY <1>2, <2>1, <2>2, <2>3 DEF OfMask
<1>9. FromMask(j * MasksPerMaskHL)' = FromMask(j * MasksPerMaskHL)
  BY <1>1, <1>3 DEF FromMask
<1>10. Pending' = Pending
  BY <1>1, <1>7, <1>8, <1>9 DEF Pending
<1>11. QED  BY <1>1, <1>6, <1>10, SilentKept

\* The one-level scan turns to the next LLmask.
LEMMA ScanMaskReports == MaskScanInv /\ PendingInv /\ ScanMask => ScanKept
<1> SUFFICES ASSUME MaskScanInv, PendingInv, ScanMask PROVE ScanKept
  OBVIOUS
<1>1. /\ routine = "one_level" /\ m = {} /\ j < NMasks /\ g' = j /\ m' = masks[j] /\ j' = j + 1
      /\ UNCHANGED <<input, routine, k, h, out>>
  BY DEF ScanMask
<1>2. /\ InputTypeOK /\ NMasks \in Nat /\ j \in Nat /\ IllFormed' = IllFormed /\ NMasks' = NMasks
  BY <1>1, ScanNumbers, ScanInputStable
<1>3. m' = Exact(j)
  <2>1. j \in 0..NMasks-1
    BY <1>1, <1>2
  <2>2. QED
    BY <1>1, <2>1 DEF MaskScanInv, GeneratedInv, Generating, Generators, MasksRight
<1>4. HeldFirst'
  <2>1. g' < NMasks' /\ g' < j'
    BY <1>1, <1>2
  <2>2. m' \subseteq Exact(g)'
    BY <1>1, <1>2, <1>3 DEF Exact, Bits
  <2>3. QED  BY <1>1, <2>1, <2>2 DEF HeldFirst
<1>5. Held = {} /\ Held' = OfMask(j)
  <2>1. Held' = {j * UnitsPerMask + i : i \in Exact(j)}
    BY <1>1, <1>3 DEF Held
  <2>2. QED  BY <1>1, <1>2, <2>1, BitsAreUnits DEF Held
<1>6. FromMask(j)' = FromMask(j + 1)
  BY <1>1, <1>2 DEF FromMask
<1>7. Pending' = Pending
  BY <1>1, <1>2, <1>5, <1>6, FromMaskNext DEF Pending
<1>8. QED  BY <1>1, <1>4, <1>7, SilentKept

\* It hands over the lowest bit that is left of the LLmask it holds.
LEMMA EmitPositionReports == MaskScanInv /\ PendingInv /\ EmitPosition => ScanKept
<1> SUFFICES ASSUME MaskScanInv, PendingInv, EmitPosition PROVE ScanKept
  OBVIOUS
<1> DEFINE M == UnitsPerMask
           i0 == Min(m)
           p == g * M + i0
           Beyond == IF routine = "two_level" THEN OfWord \cup FromMask(j * MasksPerMaskHL)
                                              ELSE FromMask(j)
<1>1. /\ routine \in {"two_level", "one_level"} /\ m # {} /\ out' = Append(out, p)
      /\ m' = m \ {i0} /\ UNCHANGED <<input, routine, k, g, j, h>>
  BY DEF EmitPosition, ResetLowestBit, indices
<1>2. /\ InputTypeOK /\ g \in Nat /\ j \in Nat /\ NMasks \in Nat /\ M \in Nat \ {0}
      /\ MasksPerMaskHL \in Nat \ {0} /\ g * M \in Nat /\ IllFormed' = IllFormed /\ NMasks' = NMasks
  BY <1>1, ScanNumbers, ScanInputStable, ProductOrder
<1>3. /\ g < NMasks /\ m \subseteq Exact(g)
      /\ routine = "two_level" => /\ g < j * MasksPerMaskHL
                                  /\ \A s \in h : g < (j - 1) * MasksPerMaskHL + s
      /\ routine = "one_level" => g < j
  BY <1>1 DEF PendingInv, HeldFirst
<1>4. i0 \in m /\ (\A i \in m : i0 <= i) /\ m \subseteq Nat /\ m \subseteq Bits
  <2>1. m \subseteq Bits /\ Bits \subseteq Nat
    BY <1>2, <1>3 DEF Exact, Bits
  <2>2. QED  BY <1>1, <2>1, LeastOf
<1>5. Pending = Held \cup Beyond /\ Pending' = Held' \cup Beyond
  <2>1. OfWord' = OfWord
    BY <1>1, <1>2 DEF OfWord
  <2>2. FromMask(j * MasksPerMaskHL)' = FromMask(j * MasksPerMaskHL) /\ FromMask(j)' = FromMask(j)
    BY <1>1, <1>2 DEF FromMask
  <2>3. QED  BY <1>1, <2>1, <2>2 DEF Pending
<1>6. \A u \in Beyond : u \in IllFormed /\ g < u \div M
  <2>1. ASSUME NEW u \in Beyond PROVE u \in IllFormed /\ g < u \div M
    <3>1. u \in IllFormed
      BY <1>1 DEF OfWord, FromMask
    <3>2. u \div M \in 0..NMasks-1 /\ j * MasksPerMaskHL \in Nat
      BY <1>2, <3>1, PlaceOfIllFormed, ProductOrder
    <3>3. CASE routine = "two_level" /\ u \in OfWord
      BY <1>3, <3>3 DEF OfWord
    <3>4. CASE routine = "two_level" /\ u \in FromMask(j * MasksPerMaskHL)
      BY <1>2, <1>3, <3>2, <3>4 DEF FromMask
    <3>5. CASE routine = "one_level" /\ u \in FromMask(j)
      BY <1>2, <1>3, <3>2, <3>5 DEF FromMask
    <3>6. QED  BY <1>1, <3>1, <3>3, <3>4, <3>5
  <2>2. QED  BY <2>1
<1> HIDE DEF Beyond
<1>7. \A u \in Beyond : p < u /\ u \in Nat
  <2>1. SUFFICES ASSUME NEW u \in Beyond PROVE p < u /\ u \in Nat
    OBVIOUS
  <2>2. u \in Nat /\ u \div M \in Nat /\ (u \div M) * M \in Nat /\ (u \div M) * M <= u
    BY <1>2, <1>6, PlaceOfIllFormed, MaskOfUnit, ProductOrder
  <2>3. g * M + M <= (u \div M) * M
    BY <1>2, <1>6, <2>2, ProductOrder
  <2>4. i0 \in 0..M-1
    BY <1>4 DEF Bits
  <2>5. QED  BY <1>2, <2>2, <2>3, <2>4
<1>8. p \in Held /\ (\A u \in Held : p <= u) /\ Held' = Held \ {p} /\ p \in Nat
  <2>1. p \in Held /\ p \in Nat
    <3>1. i0 \in Nat /\ i0 \in m
      BY <1>4
    <3>2. p \in Nat
      BY <1>2, <3>1
    <3>3. QED  BY <3>1, <3>2 DEF Held
  <2>2. \A i \in m : p <= g * M + i
    <3>1. ASSUME NEW i \in m PROVE p <= g * M + i
      <4>1. i \in Nat /\ i0 \in Nat /\ i0 <= i
        BY <1>4
      <4>2. QED  BY <1>2, <4>1
    <3>2. QED  BY <3>1
  <2>3. \A i \in m : g * M + i = p <=> i = i0
    <3>1. ASSUME NEW i \in m PROVE g * M + i = p <=> i = i0
      <4>1. i \in Nat /\ i0 \in Nat
        BY <1>4
      <4>2. QED  BY <1>2, <4>1
    <3>2. QED  BY <3>1
  <2>4. Held' = {g * M + i : i \in m \ {i0}}
    BY <1>1 DEF Held
  <2> HIDE DEF p
  <2>5. QED  BY <2>1, <2>2, <2>3, <2>4 DEF Held
<1>9. p \in Pending /\ (\A q \in Pending : p <= q) /\ Pending' = Pending \ {p}
  <2> HIDE DEF p
  <2>1. p \notin Beyond /\ \A q \in Beyond : p <= q
    BY <1>7, <1>8
  <2>2. QED  BY <1>5, <1>8, <2>1
<1>10. HeldFirst'
  BY <1>1, <1>2, <1>3 DEF HeldFirst, Exact, Bits
<1> HIDE DEF p
<1>11. PendingInv' /\ Report!ReportOne
  BY <1>1, <1>2, <1>9, <1>10, ReportStep
<1>12. QED  BY <1>11, ReportKept

\* scan_linear tests the bit of a unit, set just when the unit is ill-formed.
LEMMA TestBitReports == MaskScanInv /\ PendingInv /\ TestBit => ScanKept
<1> SUFFICES ASSUME MaskScanInv, PendingInv, TestBit PROVE ScanKept
  OBVIOUS
<1> DEFINE w == k \div UnitsPerMask
<1>1. /\ routine = "linear" /\ k < NMasks * UnitsPerMask /\ k' = k + 1
      /\ out' = IF BitOf(k) \in masks[w] THEN Append(out, k) ELSE out
      /\ UNCHANGED <<input, routine>>
  BY DEF TestBit
<1>2. /\ InputTypeOK /\ k \in Nat /\ NMasks \in Nat /\ UnitsPerMask \in Nat \ {0}
      /\ NMasks * UnitsPerMask \in Nat /\ IllFormed' = IllFormed
      /\ \A u \in IllFormed : u \in Nat
  BY <1>1, ScanNumbers, ScanInputStable, IllFormedInside
<1>3. BitOf(k) \in masks[w] <=> k \in IllFormed
  <2>1. w \in Nat /\ w * UnitsPerMask \in Nat /\ w * UnitsPerMask <= k
        /\ k < w * UnitsPerMask + UnitsPerMask
    BY <1>2, MaskOfUnit, ProductOrder
  <2>2. BitOf(k) \in Bits /\ k = w * UnitsPerMask + BitOf(k)
    BY <1>2, <2>1, PlaceOfUnit
  <2>3. w * UnitsPerMask < NMasks * UnitsPerMask
    BY <1>1, <1>2, <2>1
  <2>4. w < NMasks /\ w \in 0..NMasks-1
    BY <1>2, <2>1, <2>3, ProductOrder
  <2>5. masks[w] = Exact(w)
    BY <1>1, <2>4 DEF MaskScanInv, GeneratedInv, Generating, Generators, MasksRight
  <2>6. QED  BY <2>2, <2>5 DEF Exact
<1>4. Pending = {u \in IllFormed : k <= u} /\ Pending' = {u \in IllFormed : k + 1 <= u}
  BY <1>1, <1>2 DEF Pending
<1>5. \A u \in IllFormed : k + 1 <= u <=> k <= u /\ u # k
  BY <1>2
<1>6. HeldFirst'
  BY <1>1 DEF HeldFirst
<1>7. CASE k \in IllFormed
  <2>1. k \in Pending /\ (\A q \in Pending : k <= q) /\ Pending' = Pending \ {k}
    <3>1. k <= k
      BY <1>2
    <3>2. k \in Pending /\ \A q \in Pending : k <= q
      BY <1>4, <1>7, <3>1
    <3>3. Pending' = Pending \ {k}
      BY <1>4, <1>5
    <3>4. QED  BY <3>2, <3>3
  <2>2. PendingInv' /\ Report!ReportOne
    BY <1>1, <1>2, <1>3, <1>6, <1>7, <2>1, ReportStep
  <2>3. QED  BY <2>2, ReportKept
<1>8. CASE k \notin IllFormed
  <2>1. Pending' = Pending
    BY <1>4, <1>5, <1>8
  <2>2. QED  BY <1>1, <1>3, <1>6, <1>8, <2>1, SilentKept
<1>9. QED  BY <1>7, <1>8

\* A scan returns when nothing is pending: there is nothing beyond the masks.
LEMMA ScanReturnReports == MaskScanInv /\ PendingInv /\ ScanReturn => ScanKept
<1> SUFFICES ASSUME MaskScanInv, PendingInv, ScanReturn PROVE ScanKept
  OBVIOUS
<1>1. /\ \/ routine = "two_level" /\ m = {} /\ h = {} /\ j = NRegions
         \/ routine = "one_level" /\ m = {} /\ j = NMasks
         \/ routine = "linear" /\ k = NMasks * UnitsPerMask
      /\ routine' = "finished" /\ UNCHANGED <<input, out>>
  BY DEF ScanReturn, ReturnTo
<1>2. /\ InputTypeOK /\ Units \in Nat /\ NMasks \in Nat /\ NRegions \in Nat
      /\ NMasks <= NRegions * MasksPerMaskHL /\ NRegions * MasksPerMaskHL \in Nat
      /\ Units <= NMasks * UnitsPerMask /\ NMasks * UnitsPerMask \in Nat
  BY ScanNumbers, ScanCounts, ProductOrder
<1>3. \A u \in IllFormed : u \in Nat /\ u < Units /\ u \div UnitsPerMask \in 0..NMasks-1
  BY <1>2, PlaceOfIllFormed
<1>4. FromMask(NRegions * MasksPerMaskHL) = {} /\ FromMask(NMasks) = {}
  BY <1>2, <1>3 DEF FromMask
<1>5. {u \in IllFormed : NMasks * UnitsPerMask <= u} = {}
  BY <1>2, <1>3
<1>6. m = {} => Held = {}
  BY DEF Held
<1>7. h = {} => OfWord = {}
  BY DEF OfWord
<1>8. Pending = {} /\ Pending' = {}
  BY <1>1, <1>4, <1>5, <1>6, <1>7 DEF Pending
<1>9. HeldFirst'
  BY <1>1 DEF HeldFirst
<1>10. PendingInv'
  BY <1>1, <1>8, <1>9, SilentStep
<1>11. Report!Unreported = {}
  BY <1>8, SameIllFormed DEF Report!Unreported, PendingInv, Reported
<1>12. Report!Return
  BY <1>1, <1>11 DEF Report!Return, Report!input, input
<1>13. QED  BY <1>10, <1>12 DEF ScanKept, Report!ReportNext

\* Every step of a prototype is a step of the specification, or a stutter.
LEMMA StepReports == MaskScanInv /\ PendingInv /\ [MaskScanNext]_maskScanVars => ScanKept
<1> SUFFICES ASSUME MaskScanInv, PendingInv, [MaskScanNext]_maskScanVars PROVE ScanKept
  OBVIOUS
<1>1. InputTypeOK
  BY DEF MaskScanInv
<1>2. CASE Generate \/ Aggregate
  <2>1. UNCHANGED <<input, out>> /\ routine \notin Scanners \cup {"finished"}
    BY <1>2 DEF Generate, Aggregate, ScalarUnit, ScalarReturn, VectorGroup, FusedGroup, StartTail,
       TailUnit, TailReturn, FusedReturn, AggregateRegion, AggregateReturn, ReturnTo,
       Aggregators, Scanners
  <2>2. \/ routine' \notin Scanners \cup {"finished"}
        \/ routine' \in Scanners /\ k' = 0 /\ j' = 0 /\ m' = {} /\ h' = {}
    BY <1>2 DEF Generate, Aggregate, ScalarUnit, ScalarReturn, VectorGroup, FusedGroup, StartTail,
       TailUnit, TailReturn, FusedReturn, AggregateRegion, AggregateReturn, ReturnTo,
       Aggregators, Scanners
  <2>3. PendingInv' /\ routine' # "finished"
    BY <1>1, <2>1, <2>2, GeneratingReports
  <2>4. UNCHANGED Report!reportVars
    BY <2>1, <2>3 DEF Report!reportVars, Report!input, input
  <2>5. QED  BY <2>3, <2>4 DEF ScanKept
<1>3. CASE ScanRegion     BY <1>3, ScanRegionReports
<1>4. CASE ScanDirtyMask  BY <1>4, ScanDirtyMaskReports
<1>5. CASE ScanMask       BY <1>5, ScanMaskReports
<1>6. CASE EmitPosition   BY <1>6, EmitPositionReports
<1>7. CASE TestBit        BY <1>7, TestBitReports
<1>8. CASE ScanReturn     BY <1>8, ScanReturnReports
<1>9. CASE UNCHANGED maskScanVars
  <2>1. UNCHANGED <<input, routine, k, g, j, m, h, out>>
    BY <1>9 DEF maskScanVars, indices, words
  <2>2. IllFormed' = IllFormed /\ NMasks' = NMasks
    BY <2>1, ScanInputStable
  <2>3. HeldFirst'
    BY <2>1, <2>2 DEF PendingInv, HeldFirst, Exact, Bits
  <2>4. Pending' = Pending
    BY <2>1, <2>2 DEF Pending, Held, OfWord, FromMask
  <2>5. QED  BY <2>1, <2>3, <2>4, SilentKept
<1>10. QED
  BY <1>2, <1>3, <1>4, <1>5, <1>6, <1>7, <1>8, <1>9 DEF MaskScanNext, Scan, Terminated

\* A generator starts with nothing reported.
LEMMA ScanStarts == MaskScanInit => PendingInv /\ Report!ReportInit
<1> SUFFICES ASSUME MaskScanInit PROVE PendingInv /\ Report!ReportInit
  OBVIOUS
<1>1. InputInit /\ routine \in Generators /\ m = {} /\ out = <<>>
  BY DEF MaskScanInit, MaskInit
<1>2. Reported = {} /\ out \in Seq(Nat)
  BY <1>1 DEF Reported
<1>3. HeldFirst /\ Pending = IllFormed /\ routine # "finished"
  BY <1>1 DEF HeldFirst, Pending, Generators
<1>4. Report!ReportInit
  BY <1>1, <1>3 DEF InputInit, Report!ReportInit, Report!InputInit
<1>5. QED  BY <1>2, <1>3, <1>4 DEF PendingInv

\* The safety part of Refines: whichever way the masks were made and summed up,
\* each of the three scans hands over every ill-formed position once, in
\* ascending order, and returns only when it has handed over all of them.
THEOREM ScansReport == MaskScanSpec => Report!ReportSafety
<1>1. MaskScanInv /\ PendingInv /\ [MaskScanNext]_maskScanVars
        => MaskScanInv' /\ PendingInv' /\ [Report!ReportNext]_(Report!reportVars)
  BY MaskScanKeeps, StepReports DEF ScanKept
<1>2. MaskScanInit => MaskScanInv /\ PendingInv /\ Report!ReportInit
  BY MaskScanStarts, ScanStarts
<1>3. QED  BY <1>1, <1>2, PTL DEF MaskScanSpec, Report!ReportSafety

-----------------------------------------------------------------------------
(* Part 2: the campaign.                                                   *)

FileNames == {"csv", "aggregate", "json", "summary"}
Checks == {"oracle", "validate_scalar", "validate_simd", "emit_error_marks",
           "locate_linear", "locate_scan", "repair", "revalidate"}
Before == {"start", "setup", "gate", "overhead", "timing"}

RowType == [skipped : 0..1, failed : 0..1, ok : 0..args.iterations]

Typed ==
    /\ TypeOK
    /\ args \in [overwrite : BOOLEAN, estimate_only : BOOLEAN, iterations : IterationCounts]
    /\ rows \in [1..Datasets -> [Operations -> RowType]]

\* The gate lets a dataset pass: every path has answered right, or the scan
\* has been excluded.
GatePassed(d) ==
    /\ Checks \ {"locate_scan"} \subseteq right[d]
    /\ "locate_scan" \in right[d] \cup gates[d]

CheckPassed(n) ==
    \/ GateChecks[n] \in right[cur]
    \/ GateChecks[n] = "locate_scan" /\ "locate_scan" \in gates[cur]

GateInv ==
    /\ pc \in {"start", "setup"} => check = 1
    /\ pc \in {"start", "setup", "overhead"} => cur = 1
    /\ pc = "gate" => /\ \A d \in 1..cur-1 : GatePassed(d)
                      /\ \A n \in 1..check-1 : CheckPassed(n)
    /\ pc \in {"overhead", "timing", "write"} => \A d \in 1..Datasets : GatePassed(d)

\* An operation has left on a dataset what it is going to leave.
Settled(d, o) == IF o \in Active THEN Complete(d, o) ELSE rows[d][o] = NoRows

RowsInv ==
    /\ pc \in Before \ {"timing"} =>
          op = "none" /\ \A d \in 1..Datasets, o \in Operations : rows[d][o] = NoRows
    /\ pc = "timing" =>
          /\ todo \subseteq Active /\ op \in (Active \ gates[cur]) \cup {"none"} /\ op \notin todo
          /\ \A d \in 1..Datasets, o \in Operations :
                IF d < cur \/ (d = cur /\ o \notin todo \cup {op}) THEN Settled(d, o)
                                                                  ELSE rows[d][o] = NoRows
    /\ pc = "write" => \A d \in 1..Datasets, o \in Operations : Settled(d, o)
    /\ \A d \in 1..Datasets, o \in Operations :
          Timed(d, o) => GatePassed(d) /\ o \notin gates[d]

\* The files are written in their order, once everything is settled; without
\* --overwrite none of those that were looked for is an old one.
FilesInv ==
    /\ pc \in Before => fileNo = 1 /\ \A f \in FileNames : file[f] \in {"absent", "old"}
    /\ pc = "write" =>
          \A i \in 1..4 : /\ i < fileNo => file[Files[i]] = "new"
                          /\ i = fileNo => file[Files[i]] # "new"
                          /\ i > fileNo => file[Files[i]] \in {"absent", "old"}
    /\ pc \notin {"start", "finished", "killed"} /\ ~args.overwrite =>
          \A f \in FileNames \ {"aggregate"} : file[f] # "old"

CInv ==
    /\ Typed /\ GateInv /\ RowsInv /\ FilesInv
    /\ WrittenOnlyWhenComplete /\ ExitTellsFailures
    /\ pc \in {"start", "write", "finished"} => ~workdir

-----------------------------------------------------------------------------
\* The gate's checks and the output files: each listed, and each file once.
LEMMA Sequences ==
    /\ Len(GateChecks) = 8 /\ ToSet(GateChecks) = Checks
    /\ \A n \in 1..8 : GateChecks[n] \in Checks
    /\ \A c \in Checks : \E n \in 1..8 : c = GateChecks[n]
    /\ Len(Files) = 4 /\ ToSet(Files) = FileNames
    /\ \A i \in 1..4 : Files[i] \in FileNames
    /\ \A f \in FileNames : \E i \in 1..4 : f = Files[i]
    /\ \A a, b \in 1..4 : Files[a] = Files[b] => a = b
<1>1. Len(GateChecks) = 8 /\ DOMAIN GateChecks = 1..8
  BY DEF GateChecks
<1>2. \A n \in 1..8 : GateChecks[n] \in Checks
  BY DEF GateChecks, Checks
<1>3. \A c \in Checks : \E n \in 1..8 : c = GateChecks[n]
  BY DEF GateChecks, Checks
<1>4. ToSet(GateChecks) = Checks
  BY <1>1, <1>2, <1>3 DEF ToSet
<1>5. Len(Files) = 4 /\ DOMAIN Files = 1..4
  BY DEF Files
<1>6. \A i \in 1..4 : Files[i] \in FileNames
  BY DEF Files, FileNames
<1>7. \A f \in FileNames : \E i \in 1..4 : f = Files[i]
  BY DEF Files, FileNames
<1>8. \A a, b \in 1..4 : Files[a] = Files[b] => a = b
  BY DEF Files
<1>9. ToSet(Files) = FileNames
  BY <1>5, <1>6, <1>7 DEF ToSet
<1>10. QED  BY <1>1, <1>2, <1>3, <1>4, <1>5, <1>6, <1>7, <1>8, <1>9

\* The bounds of the campaign, as numbers.
LEMMA Constants ==
    /\ Datasets \in Nat /\ Datasets >= 1 /\ Warmups \in Nat
    /\ \A n \in IterationCounts : n \in Nat
BY CountsAssumption

\* The type of a row does not depend on where the campaign is.
LEMMA Rows ==
    ASSUME Typed
    PROVE  /\ args.iterations \in Nat /\ NoRows \in RowType
           /\ Datasets \in Nat /\ Datasets >= 1 /\ Warmups \in Nat
           /\ "none" \notin Operations /\ Active \subseteq Operations
           /\ \A d \in 1..Datasets, o \in Operations : rows[d][o] \in RowType
<1>1. args.iterations \in Nat
  BY CountsAssumption DEF Typed
<1>2. Datasets \in Nat /\ Datasets >= 1 /\ Warmups \in Nat
  BY CountsAssumption
<1>3. "none" \notin Operations
  BY OperationsAssumption DEF Known
<1>4. Active \subseteq Operations
  BY DEF Active
<1>5. QED  BY <1>1, <1>2, <1>3, <1>4 DEF Typed, NoRows, RowType

\* Where nothing has been recorded nothing has been timed.
LEMMA NotTimed ==
    ASSUME NEW d, NEW o, rows[d][o] = NoRows
    PROVE  ~Timed(d, o)
BY DEF Timed, NoRows

\* As long as no result file has been touched there is nothing to be said.
LEMMA Untouched ==
    ASSUME \A f \in FileNames : file[f] \in {"absent", "old"}
    PROVE  WrittenOnlyWhenComplete
BY Sequences DEF WrittenOnlyWhenComplete

\* What the steps that measure nothing leave as it is.
LEMMA Frame ==
    ASSUME UNCHANGED <<args, simdutf, right, gates, rows>>
    PROVE  /\ \A d : GatePassed(d)' = GatePassed(d)
           /\ \A d, o : Settled(d, o)' = Settled(d, o) /\ Timed(d, o)' = Timed(d, o)
           /\ Failures' = Failures /\ Active' = Active
           /\ UNCHANGED file => WrittenOnlyWhenComplete' = WrittenOnlyWhenComplete
<1>1. Active' = Active /\ \A d, o : Complete(d, o)' = Complete(d, o)
  BY DEF Active, Complete
<1>2. QED  BY <1>1 DEF GatePassed, Settled, Timed, Failures, WrittenOnlyWhenComplete

\* The campaign begins in its invariant.
LEMMA InitCInv == Init => CInv
<1> SUFFICES ASSUME Init PROVE CInv
  OBVIOUS
<1> USE DEF Init
<1>1. args.iterations \in Nat /\ Datasets \in Nat /\ Datasets >= 1 /\ Warmups \in Nat
  <2>1. args.iterations \in IterationCounts
    OBVIOUS
  <2>2. QED  BY <2>1, Constants
<1>2. rows \in [1..Datasets -> [Operations -> RowType]]
  BY <1>1 DEF NoRows, RowType
<1>3. TypeOK
  <2>1. /\ right \in [1..Datasets -> SUBSET ToSet(GateChecks)]
        /\ gates \in [1..Datasets -> SUBSET Known]
    OBVIOUS
  <2>2. runs \in 0..Warmups + args.iterations
    BY <1>1
  <2>3. file \in [ToSet(Files) -> {"absent", "old", "partial", "new"}]
    OBVIOUS
  <2>4. fileNo \in 1..Len(Files)+1 /\ check \in 1..Len(GateChecks)+1 /\ cur \in 1..Datasets
    BY <1>1, Sequences
  <2>5. \A d \in 1..Datasets, o \in Operations :
           rows[d][o] \in [skipped : 0..1, failed : 0..1, ok : 0..args.iterations]
    BY <1>2 DEF RowType
  <2>6. QED  BY <2>1, <2>2, <2>3, <2>4, <2>5 DEF TypeOK
<1>4. Typed
  BY <1>2, <1>3 DEF Typed
<1>5. \A d \in 1..Datasets, o \in Operations : rows[d][o] = NoRows
  OBVIOUS
<1>6. RowsInv
  BY <1>5, NotTimed DEF RowsInv
<1>7. \A f \in FileNames : file[f] \in {"absent", "old"}
  BY Sequences
<1>8. GateInv /\ FilesInv /\ ExitTellsFailures
  BY <1>7 DEF GateInv, FilesInv, ExitTellsFailures
<1>9. QED  BY <1>4, <1>6, <1>7, <1>8, Untouched DEF CInv

\* The campaign ends, and touches nothing but the temporary directory.
LEMMA EndKeeps ==
    ASSUME CInv, pc' \in {"finished", "killed"}, status' \in {"running", "ok", "failed"},
           UNCHANGED <<args, simdutf, fileVars, gateVars, timingVars>>,
           pc' = "finished" => ~workdir',
           ExitTellsFailures'
    PROVE  CInv'
<1> USE DEF fileVars, gateVars, timingVars
<1>1. Typed'
  BY DEF CInv, Typed, TypeOK, RowType
<1>2. GateInv' /\ FilesInv'
  BY DEF GateInv, FilesInv, Before
<1>3. RowsInv'
  BY Frame DEF CInv, RowsInv, Before
<1>4. WrittenOnlyWhenComplete'
  BY Frame DEF CInv
<1>5. QED  BY <1>1, <1>2, <1>3, <1>4 DEF CInv

\* A campaign that fails before it writes has not looked at the result files.
LEMMA FailsEarly ==
    ASSUME CInv, pc \in Before, pc' = "finished", status' = "failed", ~workdir',
           UNCHANGED <<args, simdutf, fileVars, gateVars, timingVars>>
    PROVE  CInv'
<1> USE DEF fileVars, gateVars, timingVars
<1>1. fileNo' = 1
  BY DEF CInv, FilesInv
<1>2. ExitTellsFailures'
  BY <1>1, Sequences DEF ExitTellsFailures
<1>3. QED  BY <1>2, EndKeeps

\* Kill preserves the campaign's invariant.
LEMMA KillKeeps ==
    ASSUME CInv, Kill
    PROVE  CInv'
<1>1. ExitTellsFailures'
  BY DEF Kill, ExitTellsFailures
<1>2. status' \in {"running", "ok", "failed"}
  BY DEF Kill, CInv, Typed, TypeOK
<1>3. QED  BY <1>1, <1>2, EndKeeps DEF Kill

\* Raise preserves the campaign's invariant.
LEMMA RaiseKeeps ==
    ASSUME CInv, Raise
    PROVE  CInv'
BY FailsEarly DEF Raise, LeaveTry, Leave, Before

\* Start preserves the campaign's invariant.
LEMMA StartKeeps ==
    ASSUME CInv, Start
    PROVE  CInv'
<1> USE DEF Start
<1>1. CASE Leave("failed") /\ UNCHANGED workdir
  BY <1>1, FailsEarly DEF Leave, Before, CInv
<1>2. CASE ~Refuses /\ pc' = "setup" /\ workdir' = TRUE /\ UNCHANGED status
  <2> USE DEF fileVars, gateVars, timingVars
  <2>1. Typed'
    BY <1>2 DEF CInv, Typed, TypeOK, RowType
  <2>2. GateInv'
    BY <1>2 DEF CInv, GateInv
  <2>3. RowsInv'
    BY <1>2, Frame DEF CInv, RowsInv, Before
  <2>4. \A f \in FileNames : file[f] \in {"absent", "old"}
    BY DEF CInv, FilesInv, Before
  <2>5. FilesInv'
    BY <1>2, <2>4 DEF CInv, FilesInv, Before, Refuses, Checked, FileNames
  <2>6. WrittenOnlyWhenComplete' /\ ExitTellsFailures'
    BY <1>2, Frame DEF CInv, ExitTellsFailures
  <2>7. QED  BY <1>2, <2>1, <2>2, <2>3, <2>5, <2>6 DEF CInv
<1>3. QED  BY <1>1, <1>2

\* BuildSimdutf preserves the campaign's invariant.
LEMMA BuildSimdutfKeeps ==
    ASSUME CInv, BuildSimdutf
    PROVE  CInv'
<1> USE DEF BuildSimdutf, fileVars, gateVars, timingVars
<1>1. Typed'
  BY DEF CInv, Typed, TypeOK, RowType
<1>2. check = 1 /\ cur = 1
  BY DEF CInv, GateInv
<1>3. GateInv'
  BY <1>2 DEF GateInv
<1>4. op = "none" /\ \A d \in 1..Datasets, o \in Operations : rows[d][o] = NoRows
  BY DEF CInv, RowsInv, Before
<1>5. RowsInv'
  BY <1>4, NotTimed DEF RowsInv, Timed, NoRows
<1>6. FilesInv' /\ \A f \in FileNames : file'[f] \in {"absent", "old"}
  BY DEF CInv, FilesInv, Before
<1>7. WrittenOnlyWhenComplete'
  BY <1>6, Sequences DEF WrittenOnlyWhenComplete
<1>8. QED  BY <1>1, <1>3, <1>5, <1>6, <1>7 DEF CInv, ExitTellsFailures

\* What holds while the gate is open: nothing has been timed or written.
LEMMA AtTheGate ==
    ASSUME CInv, pc \in {"gate", "overhead"}
    PROVE  /\ op = "none" /\ fileNo = 1
           /\ \A d \in 1..Datasets, o \in Operations : rows[d][o] = NoRows
           /\ \A f \in FileNames : file[f] \in {"absent", "old"}
           /\ ~args.overwrite => \A f \in FileNames \ {"aggregate"} : file[f] # "old"
BY DEF CInv, RowsInv, FilesInv, Before

\* A step of the gate that does not abort the campaign.
LEMMA GateGoesOn ==
    ASSUME CInv, pc = "gate", pc' \in {"gate", "overhead"},
           UNCHANGED <<args, simdutf, fileVars, timingVars, status>>,
           Typed', GateInv'
    PROVE  CInv'
<1> USE AtTheGate DEF fileVars, timingVars
<1>1. \A d \in 1..Datasets, o \in Operations : rows'[d][o] = NoRows
  OBVIOUS
<1>2. \A d \in 1..Datasets, o \in Operations : ~Timed(d, o)'
  BY <1>1 DEF Timed, NoRows
<1>3. RowsInv'
  BY <1>1, <1>2 DEF RowsInv
<1>4. \A f \in FileNames : file'[f] \in {"absent", "old"}
  OBVIOUS
<1>5. FilesInv'
  BY <1>4 DEF FilesInv
<1>6. WrittenOnlyWhenComplete'
  BY <1>4, Sequences DEF WrittenOnlyWhenComplete
<1>7. QED  BY <1>3, <1>5, <1>6 DEF CInv, ExitTellsFailures

\* GateCheck preserves the campaign's invariant.
LEMMA GateCheckKeeps ==
    ASSUME CInv, GateCheck
    PROVE  CInv'
<1> USE DEF GateCheck
<1>1. CASE LeaveTry("failed") /\ UNCHANGED <<check, right>>
  BY <1>1, FailsEarly DEF LeaveTry, Leave, Before, gateVars
<1>2. CASE Passes(cur, GateChecks[check]) /\ check' = check + 1 /\ UNCHANGED <<pc, workdir, status>>
  <2>1. /\ cur \in 1..Datasets /\ check \in 1..8 /\ GateChecks[check] \in Checks
        /\ Datasets \in Nat
        /\ right \in [1..Datasets -> SUBSET Checks]
    BY Constants, Sequences DEF CInv, Typed, TypeOK
  <2>2. /\ right' \in [1..Datasets -> SUBSET Checks] /\ check' \in 1..9
        /\ right'[cur] = right[cur] \cup {GateChecks[check]}
        /\ \A d \in 1..Datasets : d # cur => right'[d] = right[d]
    BY <1>2, <2>1 DEF Passes
  <2>3. Typed'
    BY <1>2, <2>2, Sequences DEF CInv, Typed, TypeOK, fileVars, timingVars, RowType
  <2>4. \A d \in 1..cur-1 : GatePassed(d)'
    BY <2>1, <2>2 DEF CInv, GateInv, GatePassed
  <2>5. \A n \in 1..check'-1 : CheckPassed(n)'
    <3>1. ASSUME NEW n \in 1..check'-1 PROVE CheckPassed(n)'
      <4>1. n = check \/ n \in 1..check-1
        BY <1>2, <2>1
      <4>2. CASE n = check
        BY <2>2, <4>2 DEF CheckPassed
      <4>3. CASE n \in 1..check-1
        BY <2>1, <2>2, <4>3 DEF CInv, GateInv, CheckPassed
      <4>4. QED  BY <4>1, <4>2, <4>3
    <3>2. QED  BY <3>1
  <2>6. GateInv'
    BY <1>2, <2>4, <2>5 DEF GateInv
  <2>7. QED  BY <1>2, <2>3, <2>6, GateGoesOn
<1>3. QED  BY <1>1, <1>2

\* The scan's check: the right answer, the exclusion, or the end.
LEMMA GateScanKeeps ==
    ASSUME CInv, GateScan
    PROVE  CInv'
<1>1. PICK oracle, scan, countOK :
         \/ /\ Passes(cur, "locate_scan")
            /\ check' = check + 1
            /\ UNCHANGED <<pc, workdir, status, gates>>
         \/ /\ gates' = [gates EXCEPT ![cur] = @ \cup {"locate_scan"}]
            /\ check' = check + 1
            /\ UNCHANGED <<pc, workdir, status, right>>
         \/ /\ LeaveTry("failed")
            /\ UNCHANGED <<check, right, gates>>
  BY DEF GateScan
<1>2. /\ pc = "gate" /\ check <= 8 /\ GateChecks[check] = "locate_scan"
      /\ UNCHANGED <<args, odd, simdutf, fileVars, cur, timingVars>>
  BY Sequences DEF GateScan
<1>3. /\ cur \in 1..Datasets /\ check \in 1..8 /\ Datasets \in Nat
      /\ right \in [1..Datasets -> SUBSET Checks] /\ gates \in [1..Datasets -> SUBSET Known]
  BY <1>2, Constants, Sequences DEF CInv, Typed, TypeOK
<1>4. CASE LeaveTry("failed") /\ UNCHANGED <<check, right, gates>>
  <2>1. pc' = "finished" /\ status' = "failed" /\ ~workdir'
    BY <1>4 DEF LeaveTry, Leave
  <2>2. Typed'
    BY <1>2, <1>4, <2>1 DEF CInv, Typed, TypeOK, RowType, fileVars, timingVars
  <2>3. fileNo' = 1 /\ GateInv' /\ FilesInv'
    BY <1>2, <1>4, <2>1, AtTheGate DEF GateInv, FilesInv, Before, fileVars
  <2>4. RowsInv' /\ WrittenOnlyWhenComplete'
    BY <1>2, <1>4, <2>1, Frame DEF CInv, RowsInv, Before, fileVars, timingVars
  <2>5. ExitTellsFailures'
    BY <2>1, <2>3, Sequences DEF ExitTellsFailures
  <2>6. QED  BY <2>1, <2>2, <2>3, <2>4, <2>5 DEF CInv
<1>5. CASE /\ check' = check + 1 /\ UNCHANGED <<pc, workdir, status>>
           /\ \/ Passes(cur, "locate_scan") /\ UNCHANGED gates
              \/ gates' = [gates EXCEPT ![cur] = @ \cup {"locate_scan"}] /\ UNCHANGED right
  <2>1. /\ right' \in [1..Datasets -> SUBSET Checks] /\ gates' \in [1..Datasets -> SUBSET Known]
        /\ right[cur] \subseteq right'[cur] /\ gates[cur] \subseteq gates'[cur]
        /\ "locate_scan" \in right'[cur] \cup gates'[cur]
        /\ \A d \in 1..Datasets : d # cur => right'[d] = right[d] /\ gates'[d] = gates[d]
    BY <1>3, <1>5 DEF Passes, Checks, Known
  <2>2. Typed'
    BY <1>2, <1>3, <1>5, <2>1, Sequences DEF CInv, Typed, TypeOK, fileVars, timingVars, RowType
  <2>3. \A d \in 1..cur-1 : GatePassed(d)'
    BY <1>2, <1>3, <2>1 DEF CInv, GateInv, GatePassed
  <2>4. ASSUME NEW n \in 1..check'-1 PROVE CheckPassed(n)'
    <3>1. n = check \/ n \in 1..check-1
      BY <1>3, <1>5
    <3>2. CASE n = check
      BY <1>2, <2>1, <3>2 DEF CheckPassed
    <3>3. CASE n \in 1..check-1
      <4>1. CheckPassed(n)
        BY <1>2, <3>3 DEF CInv, GateInv
      <4>2. QED  BY <1>2, <2>1, <4>1 DEF CheckPassed
    <3>4. QED  BY <3>1, <3>2, <3>3
  <2>5. GateInv'
    BY <1>2, <1>5, <2>3, <2>4 DEF GateInv
  <2>6. QED  BY <1>2, <1>5, <2>2, <2>5, GateGoesOn
<1>6. QED  BY <1>1, <1>4, <1>5

\* GateReturn preserves the campaign's invariant.
LEMMA GateReturnKeeps ==
    ASSUME CInv, GateReturn
    PROVE  CInv'
<1> USE DEF GateReturn
<1>1. /\ Datasets \in Nat /\ cur \in 1..Datasets /\ check \in 1..9 /\ check > 8
      /\ right \in [1..Datasets -> SUBSET Checks] /\ gates \in [1..Datasets -> SUBSET Known]
  BY Constants, Sequences DEF CInv, Typed, TypeOK
<1>2. \A n \in 1..8 : CheckPassed(n)
  BY <1>1 DEF CInv, GateInv
<1>3. GatePassed(cur)
  <2>1. \A c \in Checks : c \in right[cur] \/ (c = "locate_scan" /\ "locate_scan" \in gates[cur])
    BY <1>2, Sequences DEF CheckPassed
  <2>2. "locate_scan" \in Checks
    BY DEF Checks
  <2>3. QED  BY <2>1, <2>2 DEF GatePassed
<1>4. /\ gates' \in [1..Datasets -> SUBSET Known] /\ gates[cur] \subseteq gates'[cur]
      /\ \A d \in 1..Datasets : d # cur => gates'[d] = gates[d]
  BY <1>1 DEF GateSkips, Known
<1>5. \A d \in 1..cur : GatePassed(d)'
  <2>1. \A d \in 1..cur : GatePassed(d)
    BY <1>1, <1>3 DEF CInv, GateInv
  <2>2. QED  BY <1>1, <1>4, <2>1 DEF GatePassed
<1>6. cur' \in 1..Datasets /\ check' = 1 /\ pc' \in {"gate", "overhead"}
  BY <1>1
<1>7. Typed'
  BY <1>4, <1>6, Sequences DEF CInv, Typed, TypeOK, fileVars, timingVars, RowType
<1>8. GateInv'
  <2>1. CASE cur < Datasets
    <3>1. cur' = cur + 1 /\ pc' = "gate"
      BY <2>1
    <3>2. \A d \in 1..cur'-1 : GatePassed(d)'
      BY <1>1, <1>5, <3>1
    <3>3. QED  BY <1>6, <3>1, <3>2 DEF GateInv
  <2>2. CASE ~(cur < Datasets)
    <3>1. cur = Datasets /\ cur' = 1 /\ pc' = "overhead"
      BY <1>1, <2>2
    <3>2. QED  BY <1>5, <1>6, <3>1 DEF GateInv
  <2>3. QED  BY <2>1, <2>2
<1>9. QED  BY <1>6, <1>7, <1>8, GateGoesOn

\* MeasureOverhead preserves the campaign's invariant.
LEMMA MeasureOverheadKeeps ==
    ASSUME CInv, MeasureOverhead
    PROVE  CInv'
<1> USE DEF MeasureOverhead
<1>1. /\ op = "none" /\ fileNo = 1 /\ cur = 1 /\ pc = "overhead"
      /\ \A d \in 1..Datasets, o \in Operations : rows[d][o] = NoRows
      /\ \A f \in FileNames : file[f] \in {"absent", "old"}
      /\ ~args.overwrite => \A f \in FileNames \ {"aggregate"} : file[f] # "old"
  BY AtTheGate DEF CInv, GateInv
<1>2. CASE args.estimate_only /\ LeaveTry("ok") /\ UNCHANGED todo
  <2>1. pc' = "finished" /\ status' = "ok" /\ ~workdir'
    BY <1>2 DEF LeaveTry, Leave
  <2>2. ExitTellsFailures'
    BY <1>1, <1>2, <2>1, Sequences DEF ExitTellsFailures, fileVars
  <2>3. QED  BY <1>2, <2>1, <2>2, EndKeeps DEF timingVars
<1>3. CASE pc' = "timing" /\ todo' = Active /\ UNCHANGED <<workdir, status>>
  <2> USE DEF fileVars, gateVars
  <2>1. Typed'
    BY <1>3, Rows DEF CInv, Typed, TypeOK, RowType
  <2>2. GateInv' /\ FilesInv'
    BY <1>1, <1>3, Frame DEF CInv, GateInv, FilesInv, Before
  <2>3. RowsInv'
    <3>1. \A d \in 1..Datasets : ~(d < cur')
      BY <1>1, Constants
    <3>2. Active' = Active /\ "none" \notin Active
      BY Rows DEF Active, CInv
    <3>3. \A d \in 1..Datasets, o \in Operations : rows'[d][o] = NoRows
      BY <1>1
    <3>4. \A o \in Operations : o \notin Active => Settled(cur, o)'
      BY <1>1, <1>3, Constants, Frame DEF Settled
    <3>5. \A d \in 1..Datasets, o \in Operations : ~Timed(d, o)'
      BY <3>3 DEF Timed, NoRows
    <3>6. QED  BY <1>1, <1>3, <3>1, <3>2, <3>3, <3>4, <3>5 DEF RowsInv, Before
  <2>4. WrittenOnlyWhenComplete'
    BY Frame DEF CInv
  <2>5. QED  BY <1>3, <2>1, <2>2, <2>3, <2>4 DEF CInv, ExitTellsFailures
<1>4. QED  BY <1>2, <1>3

\* Where the campaign is while it measures.
LEMMA AtTiming ==
    ASSUME CInv, pc = "timing"
    PROVE  /\ cur \in 1..Datasets /\ Datasets \in Nat /\ fileNo = 1 /\ "none" \notin Operations
           /\ todo \subseteq Active /\ Active \subseteq Operations /\ op \notin todo
           /\ op \in (Active \ gates[cur]) \cup {"none"} /\ args.iterations \in Nat /\ Warmups \in Nat
           /\ runs \in 0..Warmups + args.iterations
           /\ \A d \in 1..Datasets : GatePassed(d)
           /\ \A f \in FileNames : file[f] \in {"absent", "old"}
           /\ NoRows \in RowType
<1>1. cur \in 1..Datasets /\ runs \in 0..Warmups + args.iterations
  BY DEF CInv, Typed, TypeOK
<1>2. todo \subseteq Active /\ op \notin todo /\ op \in (Active \ gates[cur]) \cup {"none"}
  BY DEF CInv, RowsInv
<1>3. (\A d \in 1..Datasets : GatePassed(d)) /\ fileNo = 1
      /\ \A f \in FileNames : file[f] \in {"absent", "old"}
  BY DEF CInv, GateInv, FilesInv, Before
<1>4. QED  BY <1>1, <1>2, <1>3, Rows DEF CInv

\* A step of the measurements that leaves the rows of one operation settled, or
\* of none.
LEMMA TimingGoesOn ==
    ASSUME CInv, pc = "timing",
           UNCHANGED <<pc, args, simdutf, fileVars, workdir, gateVars, status>>,
           todo' \subseteq todo, op' \notin todo', op' \in (Active \ gates[cur]) \cup {"none"},
           runs' \in 0..Warmups + args.iterations,
           \/ UNCHANGED rows /\ {p \in Operations : p \in todo' \cup {op'}}
                                     = {p \in Operations : p \in todo \cup {op}}
           \/ \E o \in (todo \cup {op}) \cap Operations :
                 /\ \E r \in RowType : rows' = [rows EXCEPT ![cur][o] = r]
                 /\ Settled(cur, o)' /\ (Timed(cur, o)' => o \notin gates[cur])
                 /\ {p \in Operations : p \in todo' \cup {op'}}
                       = {p \in Operations : p \in (todo \cup {op}) \ {o}}
    PROVE  CInv'
<1> USE DEF fileVars, gateVars
<1>1. /\ cur \in 1..Datasets /\ Datasets \in Nat /\ fileNo = 1 /\ "none" \notin Operations
      /\ todo \subseteq Active /\ Active \subseteq Operations
      /\ \A d \in 1..Datasets : GatePassed(d)
      /\ \A f \in FileNames : file[f] \in {"absent", "old"}
  BY AtTiming
<1>2. /\ Active' = Active /\ \A d : GatePassed(d)' = GatePassed(d)
      /\ RowType' = RowType
  BY DEF Active, GatePassed, RowType
<1>3. GateInv' /\ FilesInv'
  BY <1>2 DEF CInv, GateInv, FilesInv, Before
<1>4. WrittenOnlyWhenComplete'
  BY <1>1, Sequences DEF WrittenOnlyWhenComplete
<1>5. CASE UNCHANGED rows /\ {p \in Operations : p \in todo' \cup {op'}}
                                  = {p \in Operations : p \in todo \cup {op}}
  <2>1. Typed'
    BY <1>1, <1>5 DEF CInv, Typed, TypeOK, RowType
  <2>2. RowsInv'
    <3>1. \A p \in Operations : p \in todo' \cup {op'} <=> p \in todo \cup {op}
      BY <1>5
    <3>2. QED  BY <1>1, <1>2, <1>5, <3>1, Frame DEF CInv, RowsInv, Before
  <2>3. QED  BY <1>3, <1>4, <2>1, <2>2 DEF CInv, ExitTellsFailures
<1>6. ASSUME NEW o \in (todo \cup {op}) \cap Operations, NEW r \in RowType,
             rows' = [rows EXCEPT ![cur][o] = r],
             Settled(cur, o)', Timed(cur, o)' => o \notin gates[cur],
             {p \in Operations : p \in todo' \cup {op'}}
                = {p \in Operations : p \in (todo \cup {op}) \ {o}}
      PROVE  CInv'
  <2>1. /\ rows' \in [1..Datasets -> [Operations -> RowType]] /\ rows'[cur][o] = r
        /\ \A d \in 1..Datasets, p \in Operations : d # cur \/ p # o => rows'[d][p] = rows[d][p]
    BY <1>1, <1>6 DEF CInv, Typed
  <2>2. Typed'
    <3>1. \A d \in 1..Datasets, p \in Operations : rows'[d][p] \in RowType
      BY <2>1
    <3>2. QED  BY <1>1, <1>2, <2>1, <3>1 DEF CInv, Typed, TypeOK, RowType
  <2>3. \A d \in 1..Datasets, p \in Operations : d # cur \/ p # o =>
           Settled(d, p)' = Settled(d, p) /\ Timed(d, p)' = Timed(d, p)
    BY <1>2, <2>1 DEF Settled, Complete, Timed
  <2>4. ASSUME NEW d \in 1..Datasets, NEW p \in Operations
        PROVE  IF d < cur \/ (d = cur /\ p \notin todo' \cup {op'}) THEN Settled(d, p)'
                                                                 ELSE rows'[d][p] = NoRows
    <3>1. p \in todo' \cup {op'} <=> p \in todo \cup {op} /\ p # o
      BY <1>6
    <3>2. IF d < cur \/ (d = cur /\ p \notin todo \cup {op}) THEN Settled(d, p)
                                                              ELSE rows[d][p] = NoRows
      BY DEF CInv, RowsInv
    <3>3. CASE d = cur /\ p = o
      BY <1>6, <3>1, <3>3
    <3>4. CASE ~(d = cur /\ p = o)
      <4>1. rows'[d][p] = rows[d][p] /\ Settled(d, p)' = Settled(d, p)
        BY <2>1, <2>3, <3>4
      <4>2. QED  BY <3>1, <3>2, <3>4, <4>1
    <3>5. QED  BY <3>3, <3>4
  <2>5. \A d \in 1..Datasets, p \in Operations :
           Timed(d, p)' => GatePassed(d)' /\ p \notin gates'[d]
    BY <1>1, <1>2, <1>6, <2>3 DEF CInv, RowsInv
  <2>6. RowsInv'
    BY <1>1, <1>2, <2>4, <2>5 DEF RowsInv, Before
  <2>7. QED  BY <1>3, <1>4, <2>2, <2>6 DEF CInv, ExitTellsFailures
<1>7. QED  BY <1>5, <1>6

\* SkipOperation preserves the campaign's invariant.
LEMMA SkipOperationKeeps ==
    ASSUME CInv, SkipOperation
    PROVE  CInv'
<1> USE DEF SkipOperation
<1>1. /\ cur \in 1..Datasets /\ todo \subseteq Active /\ Active \subseteq Operations
      /\ "none" \notin Operations /\ args.iterations \in Nat /\ NoRows \in RowType
      /\ runs \in 0..Warmups + args.iterations
  BY AtTiming
<1>2. PICK o \in todo \cap gates[cur] :
         todo' = todo \ {o} /\ rows' = [rows EXCEPT ![cur][o].skipped = @ + 1]
  OBVIOUS
<1>3. rows[cur][o] = NoRows /\ o \in Operations
  BY <1>1 DEF CInv, RowsInv
<1>4. DEFINE r == [NoRows EXCEPT !.skipped = 1]
<1>5. rows' = [rows EXCEPT ![cur][o] = r] /\ r \in RowType
  <2>1. r \in RowType
    BY <1>1 DEF NoRows, RowType
  <2>2. [NoRows EXCEPT !.skipped = @ + 1] = r
    BY DEF NoRows
  <2>3. rows' = [rows EXCEPT ![cur][o] = [NoRows EXCEPT !.skipped = @ + 1]]
    BY <1>1, <1>2, <1>3 DEF CInv, Typed
  <2>4. QED  BY <2>1, <2>2, <2>3
<1>6. rows'[cur][o] = r
  BY <1>1, <1>3, <1>5 DEF CInv, Typed
<1>7. Settled(cur, o)'
  BY <1>1, <1>2, <1>6 DEF Settled, Complete, Active, gateVars
<1>8. ~Timed(cur, o)'
  BY <1>6 DEF Timed, NoRows, gateVars
<1> HIDE DEF r
<1>9. op' = "none" /\ todo' \subseteq todo
  BY <1>2
<1>10. {p \in Operations : p \in todo' \cup {op'}} = {p \in Operations : p \in (todo \cup {op}) \ {o}}
  BY <1>1, <1>2, <1>3
<1>11. o \in (todo \cup {op}) \cap Operations
  BY <1>3
<1>12. \E q \in RowType : rows' = [rows EXCEPT ![cur][o] = q]
  BY <1>5
<1>13. QED
  BY <1>1, <1>7, <1>8, <1>9, <1>10, <1>11, <1>12, TimingGoesOn

\* StartOperation preserves the campaign's invariant.
LEMMA StartOperationKeeps ==
    ASSUME CInv, StartOperation
    PROVE  CInv'
<1> USE DEF StartOperation
<1>1. /\ todo \subseteq Active /\ Active \subseteq Operations /\ "none" \notin Operations
      /\ args.iterations \in Nat /\ Warmups \in Nat
  BY AtTiming
<1>2. PICK o \in todo \ gates[cur] : op' = o /\ todo' = todo \ {o} /\ op = "none"
  BY DEF ToTime
<1>3. {p \in Operations : p \in todo' \cup {op'}} = {p \in Operations : p \in todo \cup {op}}
  BY <1>1, <1>2
<1>4. runs' \in 0..Warmups + args.iterations
  BY <1>1
<1>5. /\ todo' \subseteq todo /\ op' \notin todo' /\ op' \in (Active \ gates[cur]) \cup {"none"}
      /\ UNCHANGED rows
  BY <1>1, <1>2
<1>6. QED  BY <1>3, <1>4, <1>5, TimingGoesOn

\* The operation being timed leaves its rows.
LEMMA OperationEnds ==
    ASSUME CInv, pc = "timing", NEW o \in Operations, op = o, op' = "none", runs' = 0,
           UNCHANGED <<pc, args, simdutf, fileVars, workdir, gateVars, todo, status>>,
           NEW r \in {[NoRows EXCEPT !.failed = 1]}
                     \cup {[NoRows EXCEPT !.ok = n] : n \in {args.iterations} \ {0}},
           rows' = [rows EXCEPT ![cur][o] = r]
    PROVE  CInv'
<1>1. /\ cur \in 1..Datasets /\ todo \subseteq Active /\ Active \subseteq Operations
      /\ "none" \notin Operations /\ args.iterations \in Nat /\ NoRows \in RowType
      /\ o \in Active \ gates[cur] /\ o \notin todo /\ Warmups \in Nat
  BY AtTiming
<1>2. r \in RowType
  BY <1>1 DEF NoRows, RowType
<1>3. rows'[cur][o] = r
  BY <1>1, <1>2 DEF CInv, Typed
<1>4. Settled(cur, o)'
  <2>1. cur' = cur /\ o \notin gates'[cur'] /\ args' = args /\ Active' = Active
    BY <1>1 DEF gateVars, Active
  <2>2. Complete(cur, o)'
    BY <1>3, <2>1 DEF Complete
  <2>3. QED  BY <1>1, <2>1, <2>2 DEF Settled
<1>5. {p \in Operations : p \in todo' \cup {op'}} = {p \in Operations : p \in (todo \cup {op}) \ {o}}
  BY <1>1
<1>6. \E q \in RowType : rows' = [rows EXCEPT ![cur][o] = q]
  BY <1>2
<1>7. /\ todo' \subseteq todo /\ op' \notin todo' /\ op' \in (Active \ gates[cur]) \cup {"none"}
      /\ runs' \in 0..Warmups + args.iterations
  BY <1>1
<1>8. o \notin gates[cur] /\ o \in (todo \cup {op}) \cap Operations
  BY <1>1
<1>9. QED  BY <1>4, <1>5, <1>6, <1>7, <1>8, TimingGoesOn

\* TimedRun preserves the campaign's invariant.
LEMMA TimedRunKeeps ==
    ASSUME CInv, TimedRun
    PROVE  CInv'
<1> USE DEF TimedRun
<1>1. /\ op # "none" /\ op \in Operations /\ args.iterations \in Nat /\ Warmups \in Nat
      /\ runs \in 0..Warmups + args.iterations /\ cur \in 1..Datasets
      /\ op \in (Active \ gates[cur]) \cup {"none"} /\ op \notin todo
  BY AtTiming
<1>2. CASE runs' = runs + 1 /\ UNCHANGED <<op, rows>>
  <2>1. runs' \in 0..Warmups + args.iterations
    BY <1>1, <1>2
  <2>2. QED  BY <1>1, <1>2, <2>1, TimingGoesOn
<1>3. CASE rows' = [rows EXCEPT ![cur][op] = FailedRows(@)] /\ op' = "none" /\ runs' = 0
  <2>1. rows[cur][op] = NoRows
    BY <1>1 DEF CInv, RowsInv
  <2>2. FailedRows(NoRows) = [NoRows EXCEPT !.failed = 1]
    BY DEF FailedRows, NoRows
  <2>3. rows' = [rows EXCEPT ![cur][op] = [NoRows EXCEPT !.failed = 1]]
    BY <1>1, <1>3, <2>1, <2>2 DEF CInv, Typed
  <2>4. PICK o \in Operations : op = o
    BY <1>1
  <2>5. QED  BY <1>3, <2>3, <2>4, OperationEnds
<1>4. QED  BY <1>2, <1>3

\* Measured preserves the campaign's invariant.
LEMMA MeasuredKeeps ==
    ASSUME CInv, Measured
    PROVE  CInv'
<1> USE DEF Measured
<1>1. op # "none" /\ op \in Operations /\ args.iterations \in Nat /\ cur \in 1..Datasets
  BY AtTiming
<1>2. rows[cur][op] = NoRows
  BY <1>1 DEF CInv, RowsInv
<1>3. MeasuredRows(NoRows) \in
         {[NoRows EXCEPT !.failed = 1]}
            \cup {[NoRows EXCEPT !.ok = n] : n \in {args.iterations} \ {0}}
  <2>1. CASE args.iterations = 0
    <3>1. MeasuredRows(NoRows) = [NoRows EXCEPT !.failed = 1]
      BY <2>1 DEF MeasuredRows, NoRows
    <3>2. QED  BY <3>1
  <2>2. CASE args.iterations # 0
    <3>1. MeasuredRows(NoRows) = [NoRows EXCEPT !.ok = args.iterations]
      BY <1>1, <2>2 DEF MeasuredRows, NoRows
    <3>2. QED  BY <2>2, <3>1
  <2>3. QED  BY <2>1, <2>2
<1>4. rows' = [rows EXCEPT ![cur][op] = MeasuredRows(NoRows)]
  BY <1>1, <1>2 DEF CInv, Typed
<1>5. PICK o \in Operations : op = o
  BY <1>1
<1>6. PICK r : r = MeasuredRows(NoRows)
  OBVIOUS
<1>7. QED  BY <1>3, <1>4, <1>5, <1>6, OperationEnds

\* When the last operation has left its rows on the last dataset, all have.
LEMMA NextDatasetKeeps ==
    ASSUME CInv, NextDataset
    PROVE  CInv'
<1> USE DEF NextDataset
<1>1. /\ cur \in 1..Datasets /\ Datasets \in Nat /\ op = "none" /\ todo = {} /\ op \notin Operations
      /\ Active \subseteq Operations /\ fileNo = 1
      /\ \A d \in 1..Datasets : GatePassed(d)
      /\ \A f \in FileNames : file[f] \in {"absent", "old"}
  BY AtTiming
<1>2. \A d \in 1..Datasets, o \in Operations :
         IF d <= cur THEN Settled(d, o) ELSE rows[d][o] = NoRows
  BY <1>1 DEF CInv, RowsInv
<1>3. /\ \A d : GatePassed(d)' = GatePassed(d)
      /\ \A d, o : Settled(d, o)' = Settled(d, o) /\ Timed(d, o)' = Timed(d, o)
      /\ Active' = Active /\ WrittenOnlyWhenComplete' = WrittenOnlyWhenComplete
  BY Frame DEF fileVars
<1> USE DEF fileVars
<1>4. CASE cur < Datasets /\ cur' = cur + 1 /\ todo' = Active /\ UNCHANGED <<pc, workdir>>
  <2>1. Typed'
    BY <1>1, <1>4 DEF CInv, Typed, TypeOK, RowType
  <2>2. GateInv' /\ FilesInv'
    BY <1>1, <1>3, <1>4 DEF CInv, GateInv, FilesInv, Before
  <2>3. ASSUME NEW d \in 1..Datasets, NEW o \in Operations
        PROVE  IF d < cur' \/ (d = cur' /\ o \notin todo' \cup {op'}) THEN Settled(d, o)
                                                                   ELSE rows[d][o] = NoRows
    <3>1. CASE d <= cur
      <4>1. d < cur'
        BY <1>1, <1>4, <3>1
      <4>2. QED  BY <1>2, <3>1, <4>1
    <3>2. CASE ~(d <= cur)
      <4>1. rows[d][o] = NoRows /\ ~(d < cur')
        BY <1>1, <1>2, <1>4, <3>2
      <4>2. o \notin Active => Settled(d, o)
        BY <4>1 DEF Settled
      <4>3. QED  BY <1>4, <4>1, <4>2
    <3>3. QED  BY <3>1, <3>2
  <2>4. RowsInv'
    BY <1>1, <1>3, <1>4, <2>3 DEF CInv, RowsInv, Before
  <2>5. QED  BY <1>3, <1>4, <2>1, <2>2, <2>4 DEF CInv, ExitTellsFailures
<1>5. CASE ~(cur < Datasets) /\ pc' = "write" /\ workdir' = FALSE /\ UNCHANGED <<cur, todo>>
  <2>1. Typed'
    BY <1>1, <1>5 DEF CInv, Typed, TypeOK, RowType
  <2>2. \A i \in 1..4 : file[Files[i]] \in {"absent", "old"}
    BY <1>1, Sequences
  <2>3. GateInv' /\ FilesInv'
    BY <1>1, <1>3, <1>5, <2>2 DEF CInv, GateInv, FilesInv, Before
  <2>4. \A d \in 1..Datasets, o \in Operations : Settled(d, o)
    BY <1>1, <1>2, <1>5
  <2>5. RowsInv'
    BY <1>3, <1>5, <2>4 DEF CInv, RowsInv, Before
  <2>6. QED  BY <1>3, <1>5, <2>1, <2>3, <2>5 DEF CInv, ExitTellsFailures
<1>6. QED  BY <1>4, <1>5

\* Where the campaign is while it writes the results.
LEMMA AtWriting ==
    ASSUME CInv, pc = "write"
    PROVE  /\ WrittenOnlyWhenComplete /\ ~workdir /\ fileNo \in 1..5
           /\ file \in [FileNames -> {"absent", "old", "partial", "new"}]
           /\ \A d \in 1..Datasets : GatePassed(d)
           /\ \A d \in 1..Datasets, o \in Operations : Settled(d, o)
<1>1. /\ \A d \in 1..Datasets : GatePassed(d)
      /\ \A d \in 1..Datasets, o \in Operations : Settled(d, o)
  BY DEF CInv, GateInv, RowsInv
<1>2. fileNo \in 1..5 /\ file \in [FileNames -> {"absent", "old", "partial", "new"}]
  BY Sequences DEF CInv, Typed, TypeOK
<1>3. QED  BY <1>1, <1>2 DEF CInv

\* Write preserves the campaign's invariant.
LEMMA WriteKeeps ==
    ASSUME CInv, OpenFile \/ CloseFile
    PROVE  CInv'
<1> USE DEF gateVars, timingVars
<1>1. /\ pc = "write" /\ fileNo \in 1..4 /\ UNCHANGED <<pc, args, simdutf, workdir, status>>
      /\ UNCHANGED <<gateVars, timingVars>>
      /\ \/ /\ file[Files[fileNo]] # "partial" /\ fileNo' = fileNo
            /\ file' = [file EXCEPT ![Files[fileNo]] = "partial"]
         \/ /\ file[Files[fileNo]] = "partial" /\ fileNo' = fileNo + 1
            /\ file' = [file EXCEPT ![Files[fileNo]] = "new"]
  BY Sequences DEF CInv, Typed, TypeOK, OpenFile, CloseFile
<1>2. /\ file \in [FileNames -> {"absent", "old", "partial", "new"}] /\ Files[fileNo] \in FileNames
      /\ \A d \in 1..Datasets : GatePassed(d)
      /\ \A d \in 1..Datasets, o \in Operations : Settled(d, o)
  BY <1>1, AtWriting, Sequences
<1>3. /\ file' \in [FileNames -> {"absent", "old", "partial", "new"}]
      /\ file'[Files[fileNo]] \in {"partial", "new"}
      /\ file'[Files[fileNo]] = "new" => fileNo' = fileNo + 1
      /\ fileNo' = fileNo + 1 => file'[Files[fileNo]] = "new"
      /\ \A f \in FileNames : f # Files[fileNo] => file'[f] = file[f]
  BY <1>1, <1>2
<1>4. fileNo' \in 1..5 /\ fileNo' \in {fileNo, fileNo + 1}
  BY <1>1
<1>5. Typed'
  BY <1>1, <1>3, <1>4, Sequences DEF CInv, Typed, TypeOK, RowType
<1>6. GateInv' /\ RowsInv'
  BY <1>1, Frame DEF CInv, GateInv, RowsInv, Before
<1>7. FilesInv'
  <2>1. ASSUME NEW i \in 1..4
        PROVE  /\ i < fileNo' => file'[Files[i]] = "new"
               /\ i = fileNo' => file'[Files[i]] # "new"
               /\ i > fileNo' => file'[Files[i]] \in {"absent", "old"}
    <3>1. /\ i < fileNo => file[Files[i]] = "new"
          /\ i > fileNo => file[Files[i]] \in {"absent", "old"}
      BY <1>1 DEF CInv, FilesInv
    <3>2. i # fileNo => file'[Files[i]] = file[Files[i]]
      BY <1>1, <1>3, Sequences
    <3>3. CASE i = fileNo
      BY <1>1, <1>3, <3>3
    <3>4. CASE i # fileNo
      BY <1>1, <1>4, <3>1, <3>2, <3>4
    <3>5. QED  BY <3>3, <3>4
  <2>2. ~args'.overwrite => \A f \in FileNames \ {"aggregate"} : file'[f] # "old"
    BY <1>1, <1>3 DEF CInv, FilesInv
  <2>3. QED  BY <1>1, <2>1, <2>2 DEF FilesInv, Before
<1>8. WrittenOnlyWhenComplete'
  <2>1. /\ \A d \in 1..Datasets : GatePassed(d)'
        /\ \A d \in 1..Datasets, o \in Operations : Settled(d, o)'
    BY <1>1, <1>2, Frame
  <2>2. Active' = Active /\ \A d, o : Complete(d, o)' = Complete(d, o)
    BY <1>1 DEF Active, Complete
  <2>3. \A d \in 1..Datasets :
           /\ Checks \ {"locate_scan"} \subseteq right[d]
           /\ \A o \in Operations : IF o \in Active THEN Complete(d, o) ELSE rows[d][o] = NoRows
    BY <1>2 DEF GatePassed, Settled
  <2>4. QED  BY <1>1, <2>2, <2>3, Sequences DEF WrittenOnlyWhenComplete
<1>9. QED
  BY <1>1, <1>5, <1>6, <1>7, <1>8 DEF CInv, ExitTellsFailures

\* WriteFails preserves the campaign's invariant.
LEMMA WriteFailsKeeps ==
    ASSUME CInv, WriteFails
    PROVE  CInv'
<1> USE DEF WriteFails, Leave, fileVars
<1>1. ~workdir /\ fileNo' = fileNo /\ fileNo <= 4 /\ fileNo \in 1..5
  BY AtWriting, Sequences
<1>2. ExitTellsFailures'
  BY <1>1, Sequences DEF ExitTellsFailures
<1>3. QED  BY <1>1, <1>2, EndKeeps

\* Finish preserves the campaign's invariant.
LEMMA FinishKeeps ==
    ASSUME CInv, Finish
    PROVE  CInv'
<1> USE DEF Finish, Leave
<1>1. ~workdir /\ fileNo \in 1..5 /\ fileNo > 4
  BY AtWriting, Sequences
<1>2. \A f \in FileNames : file[f] = "new"
  BY <1>1, Sequences DEF CInv, FilesInv
<1>3. Failures' = Failures /\ file' = file
  BY Frame DEF gateVars, timingVars, fileVars
<1>4. ExitTellsFailures'
  BY <1>2, <1>3, Sequences DEF ExitTellsFailures, ExitStatus
<1>5. status' \in {"ok", "failed"}
  BY DEF ExitStatus
<1>6. QED  BY <1>1, <1>4, <1>5, EndKeeps

\* Stuttering preserves the campaign's invariant.
LEMMA StutterKeeps ==
    ASSUME CInv, UNCHANGED vars
    PROVE  CInv'
<1> USE DEF vars, fileVars, gateVars, timingVars
<1>1. Typed'
  BY DEF CInv, Typed, TypeOK, RowType
<1>2. GateInv' /\ FilesInv' /\ RowsInv'
  BY Frame DEF CInv, GateInv, FilesInv, RowsInv, CheckPassed, Before
<1>3. WrittenOnlyWhenComplete' /\ ExitTellsFailures'
  BY Frame DEF CInv, ExitTellsFailures
<1>4. QED  BY <1>1, <1>2, <1>3 DEF CInv

\* Every step of the campaign preserves its invariant.
LEMMA NextCInv == CInv /\ [Next]_vars => CInv'
<1> SUFFICES ASSUME CInv, [Next]_vars PROVE CInv'
  OBVIOUS
<1>1. CASE Start              BY <1>1, StartKeeps
<1>2. CASE BuildSimdutf       BY <1>2, BuildSimdutfKeeps
<1>3. CASE GateCheck          BY <1>3, GateCheckKeeps
<1>4. CASE GateScan           BY <1>4, GateScanKeeps
<1>5. CASE GateReturn         BY <1>5, GateReturnKeeps
<1>6. CASE MeasureOverhead    BY <1>6, MeasureOverheadKeeps
<1>7. CASE SkipOperation      BY <1>7, SkipOperationKeeps
<1>8. CASE StartOperation     BY <1>8, StartOperationKeeps
<1>9. CASE TimedRun           BY <1>9, TimedRunKeeps
<1>10. CASE Measured          BY <1>10, MeasuredKeeps
<1>11. CASE NextDataset       BY <1>11, NextDatasetKeeps
<1>12. CASE Raise             BY <1>12, RaiseKeeps
<1>13. CASE OpenFile \/ CloseFile  BY <1>13, WriteKeeps
<1>14. CASE WriteFails        BY <1>14, WriteFailsKeeps
<1>15. CASE Finish            BY <1>15, FinishKeeps
<1>16. CASE Kill              BY <1>16, KillKeeps
<1>17. CASE UNCHANGED vars    BY <1>17, StutterKeeps
<1>18. QED
  BY <1>1, <1>2, <1>3, <1>4, <1>5, <1>6, <1>7, <1>8, <1>9, <1>10, <1>11, <1>12, <1>13, <1>14,
     <1>15, <1>16, <1>17 DEF Next, Step, Ended

\* Every state of the campaign satisfies its invariant.
LEMMA CampaignInvariant == Spec => []CInv
BY InitCInv, NextCInv, PTL DEF Spec

-----------------------------------------------------------------------------
\* What a campaign leaves: result files only when every dataset has passed its
\* gate and every operation has left its rows, an exit status that tells of
\* failures, and no temporary directory.
THEOREM ResultsAreSound == Spec => []ResultsInv
<1>1. CInv => ResultsInv
  BY DEF CInv, Typed, ResultsInv, WorkdirRemoved
<1>2. QED  BY <1>1, CampaignInvariant, PTL

\* Whatever was asked for, and in whatever order it is measured, no Parabix
\* path is timed on a dataset on which it has not given the right answer.
THEOREM TimedPathsAreRight == Spec => []TimedOnlyIfRight
<1>1. ASSUME CInv PROVE TimedOnlyIfRight
  <2>1. SUFFICES ASSUME NEW d \in 1..Datasets, NEW o \in Operations \ SIMDUTF_OPERATIONS,
                        Timed(d, o) \/ (pc = "timing" /\ cur = d /\ op = o)
                 PROVE  AnsweredRight(d, o)
    BY DEF TimedOnlyIfRight
  <2>2. GatePassed(d) /\ o \notin gates[d]
    <3>1. CASE Timed(d, o)
      BY <1>1, <3>1 DEF CInv, RowsInv
    <3>2. CASE pc = "timing" /\ cur = d /\ op = o
      <4>1. o # "none"
        BY OperationsAssumption DEF Known
      <4>2. QED  BY <1>1, <3>2, <4>1, AtTiming
    <3>3. QED  BY <2>1, <3>1, <3>2
  <2>3. o \in Known \ SIMDUTF_OPERATIONS
    BY OperationsAssumption
  <2>4. o \in Checks /\ "repair" \in Checks /\ "revalidate" \in Checks
    BY <2>3 DEF Checks, Known, SIMDUTF_OPERATIONS
  <2>5. QED  BY <2>2, <2>4 DEF AnsweredRight, GatePassed
<1>2. CInv => TimedOnlyIfRight
  BY <1>1
<1>3. QED  BY <1>2, CampaignInvariant, PTL

\* Without --overwrite a campaign replaces no result file that it looked for,
\* wherever it is when it ends.
THEOREM OldResultsAreKept == Spec => OldResultsKept
<1> DEFINE Kept == ~args.overwrite =>
                      \A f \in ToSet(Files) \ {"aggregate"} : file[f] = "old" => file'[f] = "old"
<1>1. CInv /\ [Next]_vars => Kept
  <2> SUFFICES ASSUME CInv, [Next]_vars, ~args.overwrite,
                      NEW f \in FileNames \ {"aggregate"}, file[f] = "old"
               PROVE  file'[f] = "old"
    BY Sequences
  <2>1. CASE OpenFile \/ CloseFile
    BY <2>1 DEF OpenFile, CloseFile, CInv, FilesInv
  <2>2. CASE ~(OpenFile \/ CloseFile)
    BY <2>2 DEF Next, Step, Ended, vars, fileVars, Start, BuildSimdutf, GateCheck, GateScan, GateReturn,
       MeasureOverhead, SkipOperation, StartOperation, TimedRun, Measured, NextDataset, Raise,
       WriteFails, Finish, Kill
  <2>3. QED  BY <2>1, <2>2
<1>2. CInv /\ [Next]_vars => [Kept]_vars
  BY <1>1
<1>3. QED  BY <1>2, CampaignInvariant, PTL DEF Spec, OldResultsKept

-----------------------------------------------------------------------------
(* The exclusion of the scan.                                              *)

\* An oracle's list has as many elements as its range.
LEMMA OracleListSize ==
    ASSUME NEW s \in OracleLists
    PROVE  Cardinality(ToSet(s)) = Len(s) /\ \A p \in ToSet(s) : p < CodeUnits
<1>1. /\ s \in Seq(0..CodeUnits+1) /\ Len(s) \in Nat
      /\ \A a, b \in 1..Len(s) : s[a] < CodeUnits /\ (a < b => s[a] < s[b])
  <2>1. s \in BoundedSeq(0..CodeUnits+1, MaxPositions)
    BY DEF OracleLists, SortedLists
  <2> DEFINE T == 0..CodeUnits+1
  <2>2. PICK n \in 0..MaxPositions : s \in [1..n -> T]
    BY <2>1 DEF BoundedSeq, SeqOf
  <2>3. n \in Nat
    BY CountsAssumption
  <2> HIDE DEF T
  <2>4. s \in Seq(T) /\ Len(s) \in Nat
    BY <2>2, <2>3
  <2>5. \A a, b \in 1..Len(s) : s[a] < CodeUnits /\ (a < b => s[a] < s[b])
    BY DEF OracleLists
  <2>6. QED  BY <2>4, <2>5 DEF T
<1>2. s \in [1..Len(s) -> ToSet(s)] /\ DOMAIN s = 1..Len(s)
  BY <1>1 DEF ToSet
<1>3. \A a, b \in 1..Len(s) : s[a] = s[b] => a = b
  <2>1. \A i \in 1..Len(s) : s[i] \in Int
    BY <1>1, CountsAssumption
  <2>2. QED  BY <1>1, <2>1
<1>4. s \in Bijection(1..Len(s), ToSet(s))
  <2>1. s \in Injection(1..Len(s), ToSet(s))
    BY <1>2, <1>3 DEF Injection, IsInjective
  <2>2. s \in Surjection(1..Len(s), ToSet(s))
    BY <1>2 DEF Surjection, ToSet
  <2>3. QED  BY <2>1, <2>2 DEF Bijection
<1>5. ExistsBijection(1..Len(s), ToSet(s))
  BY <1>4 DEF ExistsBijection
<1>6. IsFiniteSet(1..Len(s)) /\ Cardinality(1..Len(s)) = Len(s)
  <2>1. \A n \in Nat : (IF 1 > n THEN 0 ELSE n - 1 + 1) = n
    OBVIOUS
  <2>2. Len(s) \in Nat /\ Len(s) \in Int /\ 1 \in Int
    BY <1>1
  <2>3. /\ IsFiniteSet(1..Len(s))
        /\ Cardinality(1..Len(s)) = IF 1 > Len(s) THEN 0 ELSE Len(s) - 1 + 1
    BY <2>2, FS_Interval
  <2>4. QED  BY <2>1, <2>2, <2>3
<1>7. Cardinality(ToSet(s)) = Len(s)
  BY <1>5, <1>6, FS_Bijection
<1>8. \A p \in ToSet(s) : p < CodeUnits
  BY <1>1, <1>2 DEF ToSet
<1>9. QED  BY <1>7, <1>8

\* The scan is the sixth of the checks.
LEMMA ScanIsSixth == \A n \in 1..8 : GateChecks[n] = "locate_scan" <=> n = 6
BY DEF GateChecks

\* Before its scan is checked a dataset has neither passed it nor been excused
\* from it, and afterwards only for the known symptom.
ScanInv ==
    /\ pc \in {"start", "setup", "gate"} =>
          /\ seen.done <=> check > 6
          /\ ~seen.done => "locate_scan" \notin gates[cur] \cup right[cur]
          /\ \A d \in 1..Datasets : d > cur => "locate_scan" \notin gates[d] \cup right[d]
    /\ ExclusionExact

\* Any other check leaves what the scan has left.
LEMMA GateCheckScan ==
    ASSUME CInv, ScanInv, GateCheck
    PROVE  ScanInv'
<1>1. CASE LeaveTry("failed") /\ UNCHANGED <<check, right>>
  BY <1>1 DEF LeaveTry, Leave, ScanInv, ExclusionExact
<1>2. CASE Passes(cur, GateChecks[check]) /\ check' = check + 1 /\ UNCHANGED <<pc, workdir, status>>
  <2>1. /\ pc = "gate" /\ cur \in 1..Datasets /\ check \in 1..8 /\ check # 6
        /\ GateChecks[check] # "locate_scan"
        /\ right \in [1..Datasets -> SUBSET Checks]
        /\ seen' = seen /\ gates' = gates /\ cur' = cur
    BY Constants, Sequences, ScanIsSixth DEF GateCheck, CInv, Typed, TypeOK
  <2>2. \A d \in 1..Datasets : "locate_scan" \in right'[d] <=> "locate_scan" \in right[d]
    BY <1>2, <2>1 DEF Passes
  <2>3. check' > 6 <=> check > 6
    BY <1>2, <2>1
  <2>4. ExclusionExact'
    BY <1>2, <2>1, <2>2 DEF ScanInv, ExclusionExact
  <2>5. QED  BY <1>2, <2>1, <2>2, <2>3, <2>4 DEF ScanInv
<1>3. QED  BY <1>1, <1>2 DEF GateCheck

\* The scan passes, is excluded for the known symptom, or ends the campaign.
LEMMA GateScanScan ==
    ASSUME CInv, ScanInv, GateScan
    PROVE  ScanInv'
<1>1. /\ pc = "gate" /\ cur \in 1..Datasets /\ check \in 1..8 /\ check = 6
      /\ right \in [1..Datasets -> SUBSET Checks] /\ gates \in [1..Datasets -> SUBSET Known]
      /\ cur' = cur /\ Datasets \in Nat
  BY Constants, Sequences, ScanIsSixth DEF GateScan, CInv, Typed, TypeOK
<1>2. /\ "locate_scan" \notin gates[cur] \cup right[cur]
      /\ \A d \in 1..Datasets : d > cur => "locate_scan" \notin gates[d] \cup right[d]
  BY <1>1 DEF ScanInv
<1>3. PICK oracle \in OracleLists, scan \in SortedLists, countOK \in BOOLEAN :
         /\ seen' = [oracle |-> oracle, scan |-> scan, countOK |-> countOK, done |-> TRUE]
         /\ \/ /\ scan = oracle
               /\ Passes(cur, "locate_scan")
               /\ check' = check + 1
               /\ UNCHANGED <<pc, workdir, status, gates>>
            \/ /\ Classify(oracle, scan, countOK)
               /\ gates' = [gates EXCEPT ![cur] = @ \cup {"locate_scan"}]
               /\ check' = check + 1
               /\ UNCHANGED <<pc, workdir, status, right>>
            \/ LeaveTry("failed")
  BY DEF GateScan
<1>4. seen'.done /\ seen'.oracle = oracle /\ seen'.scan = scan /\ seen'.countOK = countOK
  BY <1>3
<1>5. CASE LeaveTry("failed")
  BY <1>5 DEF LeaveTry, Leave, ScanInv, ExclusionExact
<1>6. CASE scan = oracle /\ Passes(cur, "locate_scan") /\ check' = check + 1 /\ UNCHANGED <<pc, gates>>
  <2>1. /\ "locate_scan" \in right'[cur] /\ "locate_scan" \notin gates'[cur]
        /\ \A d \in 1..Datasets : d # cur => right'[d] = right[d] /\ gates'[d] = gates[d]
    BY <1>1, <1>2, <1>6 DEF Passes
  <2>2. ExclusionExact'
    BY <1>1, <1>4, <1>6, <2>1, OracleListSize DEF ExclusionExact
  <2>3. QED  BY <1>1, <1>2, <1>4, <1>6, <2>1, <2>2 DEF ScanInv
<1>7. CASE /\ Classify(oracle, scan, countOK) /\ check' = check + 1 /\ UNCHANGED <<pc, right>>
           /\ gates' = [gates EXCEPT ![cur] = @ \cup {"locate_scan"}]
  <2>1. /\ "locate_scan" \notin right'[cur] /\ "locate_scan" \in gates'[cur]
        /\ \A d \in 1..Datasets : d # cur => right'[d] = right[d] /\ gates'[d] = gates[d]
    BY <1>1, <1>2, <1>7
  <2>2. /\ countOK /\ ToSet(oracle) \subseteq ToSet(scan)
        /\ ToSet(scan) \ ToSet(oracle) # {}
        /\ \A p \in ToSet(scan) \ ToSet(oracle) : ~(p < CodeUnits)
    BY <1>7 DEF Classify
  <2>3. \A p \in ToSet(scan) : p \in Int
    <3>1. PICK n \in 0..MaxPositions : scan \in [1..n -> 0..CodeUnits+1]
      BY DEF SortedLists, BoundedSeq, SeqOf
    <3>2. QED  BY <3>1, CountsAssumption DEF ToSet
  <2>4. \A p \in ToSet(scan) \ ToSet(oracle) : p >= CodeUnits
    BY <2>2, <2>3, CountsAssumption
  <2>5. ExclusionExact'
    BY <1>1, <1>4, <1>7, <2>1, <2>2, <2>4 DEF ExclusionExact
  <2>6. QED  BY <1>1, <1>2, <1>4, <1>7, <2>1, <2>5 DEF ScanInv
<1>8. QED  BY <1>3, <1>5, <1>6, <1>7

\* The next dataset begins with nothing.
LEMMA GateReturnScan ==
    ASSUME CInv, ScanInv, GateReturn
    PROVE  ScanInv'
<1>1. /\ pc = "gate" /\ cur \in 1..Datasets /\ Datasets \in Nat
      /\ gates \in [1..Datasets -> SUBSET Known]
  BY Constants DEF GateReturn, CInv, Typed, TypeOK
<1>2. ~seen'.done /\ check' = 1 /\ right' = right
  BY DEF GateReturn, NotSeen
<1>3. \A d \in 1..Datasets : d # cur => gates'[d] = gates[d]
  BY <1>1 DEF GateReturn
<1>4. \A d \in 1..Datasets : d > cur => "locate_scan" \notin gates'[d] \cup right'[d]
  BY <1>1, <1>2, <1>3 DEF ScanInv
<1>5. \/ cur' = cur + 1 /\ cur < Datasets /\ pc' = "gate"
      \/ pc' = "overhead"
  BY <1>1 DEF GateReturn
<1>6. QED  BY <1>1, <1>2, <1>4, <1>5 DEF ScanInv, ExclusionExact

\* Every step of the campaign preserves what is said of the scan's exclusion.
LEMMA ScanStep == CInv /\ ScanInv /\ [Next]_vars => ScanInv'
<1> SUFFICES ASSUME CInv, ScanInv, [Next]_vars PROVE ScanInv'
  OBVIOUS
<1>1. CASE GateCheck   BY <1>1, GateCheckScan
<1>2. CASE GateScan    BY <1>2, GateScanScan
<1>3. CASE GateReturn  BY <1>3, GateReturnScan
<1>4. CASE UNCHANGED gateVars /\ (pc' \in {"start", "setup", "gate"} => pc \in {"start", "setup", "gate"})
  <2>1. pc' = "gate" => pc \in {"setup", "gate"} \/ pc = "start"
    BY <1>4
  <2>2. pc \in {"start", "setup"} => ~seen.done
    BY DEF CInv, GateInv, ScanInv
  <2>3. QED  BY <1>4, <2>1, <2>2 DEF ScanInv, ExclusionExact, gateVars
<1>5. CASE Start \/ BuildSimdutf
  BY <1>4, <1>5 DEF Start, BuildSimdutf, Leave
<1>6. CASE \/ MeasureOverhead \/ SkipOperation \/ StartOperation \/ TimedRun \/ Measured
  BY <1>4, <1>6 DEF MeasureOverhead, SkipOperation, StartOperation, TimedRun, Measured,
                    LeaveTry, Leave
<1>7. CASE NextDataset
  BY <1>7 DEF NextDataset, ScanInv, ExclusionExact
<1>8. CASE Raise \/ OpenFile \/ CloseFile \/ WriteFails \/ Finish \/ Kill
  BY <1>4, <1>8 DEF Raise, OpenFile, CloseFile, WriteFails, Finish, Kill, LeaveTry, Leave
<1>9. CASE UNCHANGED vars
  BY <1>4, <1>9 DEF vars
<1>10. QED
  BY <1>1, <1>2, <1>3, <1>5, <1>6, <1>7, <1>8, <1>9 DEF Next, Step, Ended

\* The scan is excluded from the measurements of a dataset, and the campaign goes
\* on, only for the known symptom: no real position missing, at least one extra,
\* all extras past the end, the count right.
THEOREM ScanIsExcludedExactly == Spec => []ExclusionExact
<1>1. Init => ScanInv
  <2> SUFFICES ASSUME Init PROVE ScanInv
    OBVIOUS
  <2>1. 1 \in 1..Datasets
    BY CountsAssumption
  <2>2. QED  BY <2>1 DEF Init, ScanInv, ExclusionExact, NotSeen
<1>2. ScanInv => ExclusionExact
  BY DEF ScanInv
<1>3. QED  BY <1>1, <1>2, ScanStep, CampaignInvariant, PTL DEF Spec
=============================================================================
