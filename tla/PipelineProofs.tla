--------------------------- MODULE PipelineProofs ---------------------------
(***************************************************************************)
(* The marks kernel and the pipeline around it, proved for every input,    *)
(* pack width, block, segmentation and stride and for every interleaving   *)
(* of producer and consumer.                                               *)
(*   Part 1: the kernel marks exactly the ill-formed units, the marks it   *)
(*           shows are final, and it implements the safety of ValidatorSpec.*)
(*   Part 2: what the printers print and what the repair writes.           *)
(*   Part 3: what the reference decoder finds, and that the fuzz suite     *)
(*           finds the two at one.                                         *)
(***************************************************************************)
EXTENDS OracleFuzz, UTF16Lemmas

-----------------------------------------------------------------------------
(* Part 1: the marks kernel.                                               *)


Running == {"entry", "markBlockLoop", "afterMarkBlocks", "markTailLoop", "markTailDone"}

\* What the kernel believes of the unit before the cursor, wherever it is kept.
CarriedHigh ==
    CASE pc \in {"idle", "entry", "finished"} -> pendingHigh
      [] pc \in {"markBlockLoop", "afterMarkBlocks"} -> HighBytePos \in carryVec
      [] pc \in {"markTailLoop", "markTailDone"} -> pend

\* The ill-formed units before a place.
IllBefore(n) == {k \in IllFormed : k < n}

\* What the pipeline grants with a segment: the last ends with the input, any
\* other holds whole units and has two more bytes of the input after it.
SegmentGranted ==
    /\ processed \in Nat /\ avail \in Nat /\ processed % 2 = 0
    /\ isFinal \in BOOLEAN
    /\ isFinal => processed + avail = size
    /\ ~isFinal => processed + avail + 2 <= size /\ avail % 2 = 0

Geometry ==
    /\ pc # "finished" => processed % 2 = 0
    /\ pc = "finished" => processed = size
    /\ pc \in Running => SegmentGranted
    /\ pc = "markBlockLoop" => blk < FullBlocks
    /\ pc = "afterMarkBlocks" => blk = FullBlocks
    /\ pc = "markTailLoop" => TailBase <= idx /\ idx < ValidUnits
    /\ pc = "markTailDone" => idx = ValidUnits

CarryExact == pc # "finished" => (CarriedHigh <=> Cursor - 1 \in Highs)

Published == pc # "finished" => errorCount <= errAccum /\ produced <= processed \div 2

IInv ==
    /\ TypeOK /\ MarksExact /\ CountIsPopcount /\ ShownMarksWritten
    /\ Geometry /\ CarryExact /\ Published

-----------------------------------------------------------------------------
(* Packs and blocks of a segment.                                          *)

\* The sizes of a pack and of a block, and the lane that carries the last high
\* byte.
LEMMA PackFacts ==
    /\ UnitsPerPack \in Nat \ {0} /\ PacksPerBlock \in Nat \ {0}
    /\ BytesPerPack = 2 * UnitsPerPack /\ BytesPerPack \in Nat \ {0}
    /\ BlockUnits = PacksPerBlock * UnitsPerPack /\ BlockUnits \in Nat \ {0}
    /\ PacksPerBlock * BytesPerPack = 2 * BlockUnits
    /\ (HB \in {0, 1} => HighBytePos \in Lanes)
<1>1. PacksPerBlock * UnitsPerPack \in Nat \ {0}
  BY PackAssumption, PacksPerBlockAssumption
<1>2. PacksPerBlock * BytesPerPack = 2 * BlockUnits
  BY PackAssumption, PacksPerBlockAssumption, ProductStep DEF BytesPerPack, BlockUnits
<1>3. QED
  BY <1>1, <1>2, PackAssumption, PacksPerBlockAssumption
     DEF BytesPerPack, HighBytePos, Lanes, BlockUnits

\* The whole blocks of a segment hold at most its code units, and what they
\* leave is less than a block.
LEMMA SegmentGeometry ==
    ASSUME avail \in Nat
    PROVE  /\ FullBlocks \in Nat /\ TailBase \in Nat /\ ValidUnits \in Nat
           /\ TailBase <= ValidUnits /\ ValidUnits < TailBase + BlockUnits
           /\ 2 * ValidUnits <= avail /\ avail <= 2 * ValidUnits + 1
           /\ FullBlocks = 0 => TailBase = 0
           /\ \A b \in Nat : b < FullBlocks => (b + 1) * BlockUnits <= ValidUnits
<1>1. ValidUnits \in Nat /\ 2 * ValidUnits <= avail /\ avail <= 2 * ValidUnits + 1
  BY DEF ValidUnits
<1>2. FullBlocks \in Nat /\ TailBase <= ValidUnits /\ ValidUnits < TailBase + BlockUnits
  BY <1>1, PackFacts, QuotientBounds DEF FullBlocks, TailBase
<1>3. TailBase \in Nat /\ (FullBlocks = 0 => TailBase = 0)
  BY <1>2, PackFacts, ProductStep DEF TailBase
<1>4. ASSUME NEW b \in Nat, b < FullBlocks
      PROVE  (b + 1) * BlockUnits <= ValidUnits
  <2>1. (b + 1) * BlockUnits <= FullBlocks * BlockUnits
    BY <1>2, <1>4, PackFacts, ProductMonotone
  <2>2. (b + 1) * BlockUnits \in Nat
    BY <1>4, PackFacts, ProductStep
  <2>3. QED  BY <1>1, <1>2, <1>3, <2>1, <2>2 DEF TailBase
<1>5. QED  BY <1>1, <1>2, <1>3, <1>4

\* The byte looked ahead at tells whether a low surrogate comes next, also at
\* the end of the segment, and an odd last byte is not taken for one.
LEMMA LookaheadIsNextLow ==
    ASSUME InputTypeOK, SegmentGranted, NEW u \in 0..Units-1, NEW off \in Nat,
           processed + off = 2 * (u + 1) + HB, 2 * (u + 1) <= processed + avail
    PROVE  IsLo8(LookaheadHighByte(off)) <=> u + 1 \in Lows
<1>1. /\ size \in Nat /\ Units \in Nat /\ size = 2 * Units + OddTrailingByte
      /\ OddTrailingByte \in {0, 1} /\ HB \in {0, 1} /\ OddTrailingByte = size % 2
  BY UnitsType DEF InputTypeOK, OddTrailingByte
<1>2. ~IsLo8(0)
  BY DEF IsLo8, MaskFC
<1>3. CASE u + 1 <= Units - 1
  <2>1. processed + off < size
    BY <1>1, <1>3
  <2>2. ~(HasOddTailByte /\ off >= avail - 1)
    <3>1. SUFFICES ASSUME isFinal, avail % 2 # 0, off >= avail - 1 PROVE FALSE
      BY DEF HasOddTailByte
    <3>2. processed + avail = size
      BY <3>1 DEF SegmentGranted
    <3>3. size % 2 = 1
      BY <3>1, <3>2 DEF SegmentGranted
    <3>4. QED  BY <1>1, <1>3, <3>1, <3>2, <3>3 DEF SegmentGranted
  <2>3. LookaheadHighByte(off) = HighByte(u + 1)
    BY <2>1, <2>2 DEF LookaheadHighByte, LookAheadByte, RawByte, HighByte
  <2>4. u + 1 \in 0..Units-1
    BY <1>1, <1>3
  <2>5. QED  BY <2>3, <2>4, ClassOfUnit
<1>4. CASE u + 1 = Units
  <2>1. u + 1 \notin Lows
    BY <1>1, <1>4 DEF Lows
  <2>2. isFinal
    BY <1>1, <1>4 DEF SegmentGranted
  <2>3. processed + avail = size
    BY <2>2 DEF SegmentGranted
  <2>4. LookaheadHighByte(off) = 0
    <3>1. CASE processed + off < size
      <4>1. OddTrailingByte = 1 /\ off >= avail - 1
        BY <1>1, <1>4, <2>3, <3>1 DEF SegmentGranted
      <4>2. avail % 2 # 0
        BY <1>1, <2>3, <4>1 DEF SegmentGranted
      <4>3. QED  BY <2>2, <4>1, <4>2 DEF HasOddTailByte, LookaheadHighByte
    <3>2. CASE ~(processed + off < size)
      BY <3>2 DEF LookaheadHighByte, LookAheadByte
    <3>3. QED  BY <3>1, <3>2
  <2>5. QED  BY <1>2, <2>1, <2>4
<1>5. QED  BY <1>1, <1>3, <1>4

\* The code unit, in the whole input, that pack q of the segment begins with.
PackBase(q) == (processed \div 2) + q * UnitsPerPack

\* The high-byte lanes of a pack's masks are its high and low surrogates.
LEMMA PackClasses ==
    ASSUME InputTypeOK, SegmentGranted, NEW q \in Nat,
           PackBase(q) + UnitsPerPack <= Units
    PROVE  /\ PackBase(q) \in Nat /\ PackBase(q + 1) = PackBase(q) + UnitsPerPack
           /\ processed + q * BytesPerPack = 2 * PackBase(q)
           /\ q * BytesPerPack \in Nat
           /\ \A j \in 0..UnitsPerPack-1 :
                 /\ 2*j + HB \in Lanes /\ PackBase(q) + j \in 0..Units-1
                 /\ 2*j + HB \in HiLanes(q) <=> PackBase(q) + j \in Highs
                 /\ 2*j + HB \in LoLanes(q) <=> PackBase(q) + j \in Lows
           /\ HighBytePos \in HiLanes(q) <=> PackBase(q) + UnitsPerPack - 1 \in Highs
<1> DEFINE U == UnitsPerPack
<1>1. U \in Nat \ {0} /\ HB \in {0, 1} /\ Lanes = 0..2*U-1 /\ Units \in Nat
  BY PackFacts, UnitsType DEF Lanes, InputTypeOK
<1>2. q * BytesPerPack = 2 * (q * U) /\ q * U \in Nat /\ (q + 1) * U = q * U + U
      /\ q * BytesPerPack \in Nat
  BY PackFacts, ProductStep
<1>3. PackBase(q) \in Nat /\ processed + q * BytesPerPack = 2 * PackBase(q)
      /\ PackBase(q + 1) = PackBase(q) + U
  BY <1>1, <1>2 DEF PackBase, SegmentGranted
<1>4. ASSUME NEW j \in 0..U-1
      PROVE  /\ 2*j + HB \in Lanes /\ PackBase(q) + j \in 0..Units-1
             /\ 2*j + HB \in HiLanes(q) <=> PackBase(q) + j \in Highs
             /\ 2*j + HB \in LoLanes(q) <=> PackBase(q) + j \in Lows
  <2>1. 2*j + HB \in Lanes /\ PackBase(q) + j \in 0..Units-1
    BY <1>1, <1>3, <1>4
  <2>2. processed + (q * BytesPerPack + (2*j + HB)) = 2 * (PackBase(q) + j) + HB
    <3>1. j \in Int /\ HB \in Int /\ processed \in Int
      BY <1>1, <1>4 DEF SegmentGranted
    <3>2. QED  BY <1>2, <1>3, <3>1
  <2>3. RawByte(q * BytesPerPack + (2*j + HB)) = HighByte(PackBase(q) + j)
    BY <2>2 DEF RawByte, HighByte
  <2>4. QED  BY <2>1, <2>3, ClassOfUnit DEF HiLanes, LoLanes
<1>5. HighBytePos = 2*(U-1) + HB /\ U-1 \in 0..U-1 /\ PackBase(q) + (U - 1) = PackBase(q) + U - 1
  BY <1>1, <1>3, PackFacts DEF HighBytePos
<1>6. HighBytePos \in HiLanes(q) <=> PackBase(q) + U - 1 \in Highs
  BY <1>4, <1>5
<1>7. QED  BY <1>2, <1>3, <1>4, <1>6

\* The bad lanes of a pack are, at the high bytes, its ill-formed units.
LEMMA BadLanesAreIllFormed ==
    ASSUME InputTypeOK, SegmentGranted, NEW q \in Nat, NEW carry,
           PackBase(q) + UnitsPerPack <= Units,
           2 * (PackBase(q) + UnitsPerPack) <= processed + avail,
           HighBytePos \in carry <=> PackBase(q) - 1 \in Highs,
           NEW j \in 0..UnitsPerPack-1
    PROVE  2*j + HB \in BadLanes(q, carry) <=> PackBase(q) + j \in IllFormed
<1> DEFINE U == UnitsPerPack
           lane == 2*j + HB
           u == PackBase(q) + j
<1>1. U \in Nat \ {0} /\ HB \in {0, 1} /\ Units \in Nat /\ BytesPerPack = 2*U /\ j \in 0..U-1
      /\ HighBytePos = 2*(U-1) + HB
  BY PackFacts, UnitsType DEF InputTypeOK, HighBytePos
<1>2. PackBase(q) \in Nat /\ lane \in Lanes /\ u \in 0..Units-1
      /\ processed + q * BytesPerPack = 2 * PackBase(q) /\ q * BytesPerPack \in Nat
  BY PackClasses
<1>3. lane \in HiLanes(q) <=> u \in Highs
  BY PackClasses
<1>4. lane \in LoLanes(q) <=> u \in Lows
  BY PackClasses
<1>5. lane \in ShiftInPrevious(HiLanes(q), carry) <=> u - 1 \in Highs
  <2>1. CASE j = 0
    <3>1. lane \in ShiftInPrevious(HiLanes(q), carry) <=> BytesPerPack - 2 + lane \in carry
      BY <2>1, <1>1, <1>2 DEF ShiftInPrevious
    <3>2. BytesPerPack - 2 + lane = HighBytePos /\ u - 1 = PackBase(q) - 1
      BY <2>1, <1>1, <1>2
    <3>3. QED  BY <3>1, <3>2
  <2>2. CASE j # 0
    <3>1. j - 1 \in 0..U-1 /\ lane >= 2 /\ 2*(j-1) + HB = lane - 2 /\ PackBase(q) + (j-1) = u - 1
      BY <2>2, <1>1, <1>2
    <3>2. lane \in ShiftInPrevious(HiLanes(q), carry) <=> lane - 2 \in HiLanes(q)
      BY <1>2, <3>1 DEF ShiftInPrevious
    <3>3. 2*(j-1) + HB \in HiLanes(q) <=> PackBase(q) + (j-1) \in Highs
      BY <3>1, PackClasses
    <3>4. QED  BY <3>1, <3>2, <3>3
  <2>3. QED  BY <2>1, <2>2
<1>6. lane \in NextLowLanes(q) <=> u + 1 \in Lows
  <2>1. CASE j < U - 1
    <3>1. j + 1 \in 0..U-1 /\ lane < BytesPerPack - 2 /\ 2*(j+1) + HB = lane + 2
          /\ PackBase(q) + (j+1) = u + 1
      BY <2>1, <1>1, <1>2
    <3>2. lane \in NextLowLanes(q) <=> lane + 2 \in LoLanes(q)
      BY <1>2, <3>1 DEF NextLowLanes
    <3>3. 2*(j+1) + HB \in LoLanes(q) <=> PackBase(q) + (j+1) \in Lows
      BY <3>1, PackClasses
    <3>4. QED  BY <3>1, <3>2, <3>3
  <2>2. CASE ~(j < U - 1)
    <3>1. ~(lane < BytesPerPack - 2) /\ lane = HighBytePos /\ j = U - 1
      BY <2>2, <1>1
    <3> DEFINE off == (q + 1) * BytesPerPack + HB
    <3>2. off = q * BytesPerPack + BytesPerPack + HB /\ off \in Nat
      BY <1>1, <1>2, PackFacts, ProductStep
    <3>3. lane \in NextLowLanes(q) <=> IsLo8(LookaheadHighByte(off))
      BY <1>2, <3>1 DEF NextLowLanes
    <3>4. processed + off = 2 * (u + 1) + HB /\ 2 * (u + 1) <= processed + avail
      <4>1. processed \in Nat
        BY DEF SegmentGranted
      <4> HIDE DEF off
      <4>2. QED  BY <1>1, <1>2, <3>1, <3>2, <4>1
    <3> HIDE DEF off
    <3>5. QED  BY <1>2, <3>2, <3>3, <3>4, LookaheadIsNextLow
  <2>3. QED  BY <2>1, <2>2
<1>7. QED  BY <1>3, <1>4, <1>5, <1>6 DEF BadLanes, IllFormed

\* The code unit, in the whole input, that block b of the segment begins with.
BlockBase(b) == (processed \div 2) + b * BlockUnits

\* A block that lies in the segment: its marks are its ill-formed units, and
\* its last pack leaves the carry of the unit it ends with.
BlockInSegment(b) == 2 * (BlockBase(b) + BlockUnits) <= processed + avail

\* A unit whose bytes the segment grants is a unit of the input.
LEMMA UnitsOfSegment ==
    ASSUME InputTypeOK, SegmentGranted, NEW n \in Int, 2 * n <= processed + avail
    PROVE  n <= Units
  BY UnitsType DEF SegmentGranted

\* Where the packs of a block of the segment begin and end.
LEMMA PacksOfBlock ==
    ASSUME InputTypeOK, SegmentGranted, NEW b \in Nat, BlockInSegment(b),
           NEW sub \in 0..PacksPerBlock-1
    PROVE  /\ b * PacksPerBlock + sub \in Nat
           /\ BlockBase(b) \in Nat /\ sub * UnitsPerPack \in Nat
           /\ PackBase(b * PacksPerBlock + sub) = BlockBase(b) + sub * UnitsPerPack
           /\ sub * UnitsPerPack + UnitsPerPack <= BlockUnits
           /\ 2 * (PackBase(b * PacksPerBlock + sub) + UnitsPerPack) <= processed + avail
           /\ PackBase(b * PacksPerBlock + sub) + UnitsPerPack <= Units
<1> DEFINE U == UnitsPerPack
           P == PacksPerBlock
<1>1. U \in Nat /\ P \in Nat /\ BlockUnits = P * U /\ BlockUnits \in Nat
  BY PackFacts
<1>2. b * P \in Nat /\ b * P + sub \in Nat /\ sub \in Nat
  BY <1>1, ProductStep
<1>3. (b * P + sub) * U = b * BlockUnits + sub * U
  <2>1. (b * P + sub) * U = (b * P) * U + sub * U
    BY <1>1, <1>2
  <2>2. (b * P) * U = b * (P * U)
    BY <1>1
  <2>3. QED  BY <1>1, <2>1, <2>2
<1>4. b * BlockUnits \in Nat /\ sub * U \in Nat /\ (sub + 1) * U = sub * U + U
  BY <1>1, <1>2, ProductStep
<1>5. sub * U + U <= BlockUnits
  <2>1. (sub + 1) * U <= P * U
    BY <1>1, <1>2, ProductMonotone
  <2>2. QED  BY <1>1, <1>4, <2>1
<1>6. processed \in Nat /\ avail \in Nat /\ processed \div 2 \in Nat
  BY DEF SegmentGranted
<1>7. BlockBase(b) \in Nat /\ PackBase(b * P + sub) = BlockBase(b) + sub * U
  BY <1>3, <1>4, <1>6 DEF BlockBase, PackBase
<1>8. 2 * (PackBase(b * P + sub) + U) <= processed + avail
  BY <1>1, <1>4, <1>5, <1>6, <1>7 DEF BlockInSegment
<1>9. PackBase(b * P + sub) + U <= Units
  BY <1>1, <1>4, <1>7, <1>8, UnitsOfSegment
<1>10. QED  BY <1>2, <1>4, <1>5, <1>7, <1>8, <1>9

\* The bits of a block, given the right carry, are exactly its ill-formed units.
LEMMA BlockBitsAreIllFormed ==
    ASSUME InputTypeOK, SegmentGranted, NEW b \in Nat, BlockInSegment(b),
           HighBytePos \in carryVec <=> BlockBase(b) - 1 \in Highs
    PROVE  /\ BlockBase(b) \in Nat /\ BlockBase(b) + BlockUnits <= Units
           /\ \A i \in 0..BlockUnits-1 : i \in BlockBits(b) <=> BlockBase(b) + i \in IllFormed
           /\ HighBytePos \in HiLanes(b * PacksPerBlock + PacksPerBlock - 1)
                <=> BlockBase(b) + BlockUnits - 1 \in Highs
<1> DEFINE U == UnitsPerPack
           P == PacksPerBlock
           Q(sub) == b * P + sub
<1>1. U \in Nat \ {0} /\ P \in Nat \ {0} /\ BlockUnits = P * U /\ BlockUnits \in Nat \ {0}
  BY PackFacts
<1>2. ASSUME NEW sub \in 0..P-1
      PROVE  HighBytePos \in Carry(b, sub) <=> PackBase(Q(sub)) - 1 \in Highs
  <2>1. CASE sub = 0
    <3>1. PackBase(Q(sub)) = BlockBase(b)
      BY <1>1, <2>1, PacksOfBlock
    <3>2. QED  BY <2>1, <3>1 DEF Carry
  <2>2. CASE sub # 0
    <3>1. sub - 1 \in 0..P-1 /\ Q(sub - 1) = b * P + sub - 1 /\ Q(sub - 1) + 1 = Q(sub)
          /\ b * P \in Nat
      BY <1>1, <2>2, ProductStep
    <3>2. Q(sub - 1) \in Nat /\ PackBase(Q(sub - 1)) + U <= Units
      BY <3>1, PacksOfBlock
    <3>3. /\ HighBytePos \in HiLanes(Q(sub - 1)) <=> PackBase(Q(sub - 1)) + U - 1 \in Highs
          /\ PackBase(Q(sub - 1) + 1) = PackBase(Q(sub - 1)) + U
          /\ PackBase(Q(sub - 1)) \in Nat
      BY <3>2, PackClasses
    <3>4. Carry(b, sub) = HiLanes(Q(sub - 1))
      BY <2>2, <3>1 DEF Carry
    <3>5. PackBase(Q(sub)) = PackBase(Q(sub - 1)) + U
      BY <3>1, <3>3
    <3> HIDE DEF Q
    <3>6. PackBase(Q(sub - 1)) + U - 1 = PackBase(Q(sub)) - 1
      BY <1>1, <3>3, <3>5
    <3>7. HighBytePos \in HiLanes(Q(sub - 1)) <=> PackBase(Q(sub)) - 1 \in Highs
      BY <3>3, <3>6, Zenon
    <3>8. QED  BY <3>4, <3>7, Zenon
  <2>3. QED  BY <2>1, <2>2
<1>3. ASSUME NEW i \in 0..BlockUnits-1
      PROVE  i \in BlockBits(b) <=> BlockBase(b) + i \in IllFormed
  <2> DEFINE sub == i \div U
             j == i % U
  <2>1. sub \in Nat /\ j \in 0..U-1 /\ i = sub * U + j /\ sub * U \in Nat
    <3>1. i \div U \in Nat /\ i % U \in 0..U-1 /\ i = U * (i \div U) + (i % U)
      BY <1>1, <1>3
    <3>2. QED  BY <1>1, <3>1, ProductStep
  <2>2. sub \in 0..P-1
    <3>1. SUFFICES ASSUME P <= sub PROVE FALSE
      BY <1>1, <2>1
    <3>2. P * U <= sub * U
      BY <1>1, <2>1, <3>1, ProductMonotone
    <3> HIDE DEF sub, j
    <3>3. QED  BY <1>1, <2>1, <3>2
  <2>3. /\ Q(sub) \in Nat /\ PackBase(Q(sub)) = BlockBase(b) + sub * U /\ BlockBase(b) \in Nat
        /\ 2 * (PackBase(Q(sub)) + U) <= processed + avail /\ PackBase(Q(sub)) + U <= Units
    BY <2>2, PacksOfBlock
  <2>4. HighBytePos \in Carry(b, sub) <=> PackBase(Q(sub)) - 1 \in Highs
    BY <1>2, <2>2
  <2>5. 2*j + HB \in BadLanes(Q(sub), Carry(b, sub)) <=> PackBase(Q(sub)) + j \in IllFormed
    BY <2>1, <2>3, <2>4, BadLanesAreIllFormed
  <2>6. PackBase(Q(sub)) + j = BlockBase(b) + i
    <3> HIDE DEF sub, j
    <3>1. QED  BY <1>1, <2>1, <2>3
  <2>7. i \in BlockBits(b) <=> 2*j + HB \in BadLanes(Q(sub), Carry(b, sub))
    BY <1>3 DEF BlockBits
  <2>8. QED  BY <2>5, <2>6, <2>7
<1>4. P - 1 \in 0..P-1 /\ (P - 1) * U + U = BlockUnits /\ (P - 1) * U \in Nat
      /\ Q(P - 1) = b * P + P - 1
  <2>1. P - 1 \in Nat /\ ((P - 1) + 1) * U = (P - 1) * U + U /\ (P - 1) * U \in Nat /\ (P - 1) + 1 = P
    BY <1>1, ProductStep
  <2>2. b * P \in Nat
    BY <1>1, ProductStep
  <2>3. QED  BY <1>1, <2>1, <2>2
<1>5. /\ Q(P - 1) \in Nat /\ BlockBase(b) \in Nat
      /\ PackBase(Q(P - 1)) = BlockBase(b) + (P - 1) * U /\ PackBase(Q(P - 1)) + U <= Units
  BY <1>4, PacksOfBlock
<1>6. /\ HighBytePos \in HiLanes(Q(P - 1)) <=> PackBase(Q(P - 1)) + U - 1 \in Highs
      /\ PackBase(Q(P - 1)) \in Nat
  BY <1>5, PackClasses
<1>7. PackBase(Q(P - 1)) + U = BlockBase(b) + BlockUnits
  BY <1>1, <1>4, <1>5
<1>8. BlockBase(b) + BlockUnits <= Units
  BY <1>5, <1>7
<1>9. HighBytePos \in HiLanes(b * P + P - 1) <=> BlockBase(b) + BlockUnits - 1 \in Highs
  <2> HIDE DEF Q
  <2>1. PackBase(Q(P - 1)) + U - 1 = BlockBase(b) + BlockUnits - 1
    BY <1>1, <1>5, <1>6, <1>7
  <2>2. HiLanes(Q(P - 1)) = HiLanes(b * P + P - 1)
    BY <1>4
  <2>3. HighBytePos \in HiLanes(Q(P - 1)) <=> BlockBase(b) + BlockUnits - 1 \in Highs
    BY <1>6, <2>1, Zenon
  <2>4. QED  BY <2>2, <2>3, Zenon
<1>10. QED  BY <1>3, <1>5, <1>8, <1>9

-----------------------------------------------------------------------------
(* The ill-formed units before a place, counted.                           *)

\* The ill-formed units are units of the input and can be counted.
LEMMA IllFormedFacts ==
    ASSUME InputTypeOK
    PROVE  /\ IllFormed \subseteq 0..Units-1 /\ IsFiniteSet(IllFormed)
           /\ Cardinality(IllFormed) \in Nat
<1>1. IllFormed \subseteq 0..Units-1
  BY DEF IllFormed, Highs, Lows
<1>2. QED  BY <1>1, MismatchesCountIllFormed, FS_CardinalityType

\* How many ill-formed units lie before a place: none before the start, all
\* from the end on.
LEMMA IllBeforeFacts ==
    ASSUME InputTypeOK, NEW n \in Int
    PROVE  /\ IsFiniteSet(IllBefore(n)) /\ Cardinality(IllBefore(n)) \in Nat
           /\ Cardinality(IllBefore(n)) <= Cardinality(IllFormed)
           /\ n <= 0 => Cardinality(IllBefore(n)) = 0
           /\ Units <= n => IllBefore(n) = IllFormed
<1>1. IllBefore(n) \subseteq IllFormed
  BY DEF IllBefore
<1>2. IsFiniteSet(IllBefore(n)) /\ Cardinality(IllBefore(n)) <= Cardinality(IllFormed)
  BY <1>1, IllFormedFacts, FS_Subset
<1>3. Cardinality(IllBefore(n)) \in Nat
  BY <1>2, FS_CardinalityType
<1>4. n <= 0 => IllBefore(n) = {}
  BY IllFormedFacts DEF IllBefore
<1>5. Units <= n => IllBefore(n) = IllFormed
  BY IllFormedFacts, UnitsType DEF IllBefore
<1>6. QED  BY <1>2, <1>3, <1>4, <1>5, FS_EmptySet

\* Going one unit further counts that unit when it is ill-formed.
LEMMA IllBeforeNext ==
    ASSUME InputTypeOK, NEW n \in Int
    PROVE  Cardinality(IllBefore(n + 1)) =
             Cardinality(IllBefore(n)) + (IF n \in IllFormed THEN 1 ELSE 0)
<1>0. \A k \in IllFormed : k < n + 1 <=> k < n \/ k = n
  BY IllFormedFacts, UnitsType
<1>1. CASE n \in IllFormed
  <2>1. IllBefore(n + 1) = IllBefore(n) \cup {n}
    BY <1>0, <1>1 DEF IllBefore
  <2>2. ~(n < n)
    OBVIOUS
  <2>3. n \notin IllBefore(n)
    BY <2>2 DEF IllBefore
  <2>4. QED  BY <1>1, <2>1, <2>3, IllBeforeFacts, FS_AddElement
<1>2. CASE n \notin IllFormed
  <2>1. IllBefore(n + 1) = IllBefore(n)
    BY <1>0, <1>2 DEF IllBefore
  <2>2. QED  BY <1>2, <2>1, IllBeforeFacts
<1>3. QED  BY <1>1, <1>2

\* A block of n marks that are right adds their number to the count.
LEMMA IllBeforeBlock ==
    ASSUME InputTypeOK, NEW base \in Nat, NEW n \in Nat, NEW bits \in SUBSET (0..n-1),
           \A i \in 0..n-1 : i \in bits <=> base + i \in IllFormed
    PROVE  /\ Cardinality(bits) \in Nat
           /\ Cardinality(IllBefore(base + n)) = Cardinality(IllBefore(base)) + Cardinality(bits)
<1> DEFINE Local == {k \in IllFormed : base <= k /\ k < base + n}
           place == [i \in bits |-> base + i]
<1>1. IsFiniteSet(bits) /\ Cardinality(bits) \in Nat
  <2>1. IsFiniteSet(0..n-1)
    BY FS_Interval
  <2>2. IsFiniteSet(bits)
    BY <2>1, FS_Subset
  <2>3. QED  BY <2>2, FS_CardinalityType
<1>2. IllFormed \subseteq Int
  BY IllFormedFacts, UnitsType
<1>3. place \in Bijection(bits, Local)
  <2>1. place \in [bits -> Local]
    OBVIOUS
  <2>2. \A i, j \in bits : place[i] = place[j] => i = j
    OBVIOUS
  <2>3. \A k \in Local : \E i \in bits : place[i] = k
    <3>1. SUFFICES ASSUME NEW k \in Local PROVE \E i \in bits : place[i] = k
      OBVIOUS
    <3>2. k - base \in 0..n-1 /\ base + (k - base) = k
      BY <1>2
    <3>3. k - base \in bits
      BY <3>2
    <3>4. QED  BY <3>2, <3>3
  <2>4. QED  BY <2>1, <2>2, <2>3 DEF Bijection, Injection, Surjection, IsInjective
<1>4. IsFiniteSet(Local) /\ Cardinality(Local) = Cardinality(bits)
  BY <1>1, <1>3, FS_Bijection DEF ExistsBijection
<1>5. IllBefore(base + n) = IllBefore(base) \cup Local /\ IllBefore(base) \cap Local = {}
  <2>1. \A k \in Int : /\ k < base + n <=> k < base \/ (base <= k /\ k < base + n)
                       /\ ~(k < base /\ base <= k)
    OBVIOUS
  <2>2. \A k \in IllFormed : /\ k < base + n <=> k < base \/ (base <= k /\ k < base + n)
                             /\ ~(k < base /\ base <= k)
    BY <1>2, <2>1
  <2>3. QED  BY <2>2 DEF IllBefore
<1>6. IsFiniteSet(IllBefore(base)) /\ Cardinality(IllBefore(base)) \in Nat
  BY IllBeforeFacts
<1>7. Cardinality(IllBefore(base) \cup Local) =
        Cardinality(IllBefore(base)) + Cardinality(Local) - Cardinality(IllBefore(base) \cap Local)
  BY <1>4, <1>6, FS_Union
<1>8. Cardinality(IllBefore(base) \cap Local) = 0
  BY <1>5, FS_EmptySet
<1>9. QED  BY <1>1, <1>4, <1>5, <1>6, <1>7, <1>8

\* The marks buffer has a slot for every item the pipeline may show, and for
\* every unit of the input.
LEMMA SlotsSuffice ==
    ASSUME InputTypeOK
    PROVE  /\ MarkSlots \in Nat /\ (size + 1) \div 2 <= MarkSlots
           /\ Units <= (size + 1) \div 2 /\ (size + 1) \div 2 = Units + OddTrailingByte
<1> DEFINE q == MaxBytes \div (2 * BlockUnits)
<1>1. BlockUnits \in Nat \ {0} /\ 2 * BlockUnits \in Nat \ {0}
  BY PackFacts
<1>2. q \in Nat /\ MaxBytes < q * (2 * BlockUnits) + 2 * BlockUnits
  BY <1>1, MaxBytesAssumption, QuotientBounds
<1>3. MarkSlots \in Nat /\ MarkSlots >= (q + 1) * BlockUnits
  BY MarkSlotsAssumption
<1> HIDE DEF q
<1>4. /\ q * BlockUnits \in Nat /\ (q + 1) * BlockUnits = q * BlockUnits + BlockUnits
      /\ q * (2 * BlockUnits) = 2 * (q * BlockUnits)
  BY <1>1, <1>2, ProductStep
<1>5. MaxBytes + 1 <= 2 * MarkSlots
  BY <1>1, <1>2, <1>3, <1>4, MaxBytesAssumption
<1>6. size \in Nat /\ size <= MaxBytes
  BY MaxBytesAssumption DEF InputTypeOK
<1>7. (size + 1) \div 2 <= MarkSlots
  BY <1>3, <1>5, <1>6, MaxBytesAssumption
<1>8. QED  BY <1>3, <1>6, <1>7 DEF Units, OddTrailingByte

\* A block of marks written at its place: the slots of the block hold its
\* bits and every other slot keeps its value.
LEMMA StoredFacts ==
    ASSUME marks \in [0..MarkSlots-1 -> BOOLEAN], NEW b, NEW bits
    PROVE  /\ Stored(b, bits) \in [0..MarkSlots-1 -> BOOLEAN]
           /\ \A k \in 0..MarkSlots-1 :
                 Stored(b, bits)[k] = IF BlockBase(b) <= k /\ k < BlockBase(b) + BlockUnits
                                      THEN k - BlockBase(b) \in bits ELSE marks[k]
<1> DEFINE first == (processed \div 2) + b * BlockUnits
           slot(k) == IF first <= k /\ k < first + BlockUnits THEN k - first \in bits
                                                              ELSE marks[k]
<1>1. Stored(b, bits) = [k \in 0..MarkSlots-1 |-> slot(k)]
  BY DEF Stored
<1>2. ASSUME NEW k \in 0..MarkSlots-1 PROVE slot(k) \in BOOLEAN
  <2>1. marks[k] \in BOOLEAN /\ (k - first \in bits) \in BOOLEAN
    OBVIOUS
  <2>2. QED  BY <2>1, Zenon
<1>3. first = BlockBase(b)
  BY DEF BlockBase
<1> HIDE DEF slot
<1>4. Stored(b, bits) \in [0..MarkSlots-1 -> BOOLEAN]
  BY <1>1, <1>2
<1>5. \A k \in 0..MarkSlots-1 : Stored(b, bits)[k] = slot(k)
  BY <1>1
<1>6. QED  BY <1>3, <1>4, <1>5 DEF slot

\* The bits of the partial block, one by one.
LEMMA TailBitsAre ==
    ASSUME InputTypeOK, NEW base \in Nat, NEW top \in Int, NEW i \in Int
    PROVE  i \in {k - base : k \in {j \in IllFormed : base <= j /\ j < top}}
             <=> 0 <= i /\ base + i \in IllFormed /\ base + i < top
<1>1. IllFormed \subseteq Int
  BY IllFormedFacts, UnitsType
<1>2. ASSUME i \in {k - base : k \in {j \in IllFormed : base <= j /\ j < top}}
      PROVE  0 <= i /\ base + i \in IllFormed /\ base + i < top
  <2>1. PICK k \in IllFormed : base <= k /\ k < top /\ i = k - base
    BY <1>2
  <2>2. k = base + i /\ 0 <= i
    BY <1>1, <2>1
  <2>3. QED  BY <2>1, <2>2
<1>3. ASSUME 0 <= i, base + i \in IllFormed, base + i < top
      PROVE  i \in {k - base : k \in {j \in IllFormed : base <= j /\ j < top}}
  <2>1. base + i \in {j \in IllFormed : base <= j /\ j < top} /\ i = (base + i) - base
    BY <1>3
  <2>2. QED  BY <2>1
<1>4. QED  BY <1>2, <1>3

-----------------------------------------------------------------------------
(* The inductive invariant holds initially and every action keeps it.      *)

LEMMA InitIInv == Init => IInv
<1> SUFFICES ASSUME Init PROVE IInv
  OBVIOUS
<1> USE DEF Init, KernelInit
<1>1. InputTypeOK
  BY DEF InputInit, InputTypeOK
<1>2. size \in Nat /\ MarkSlots \in Nat
  BY <1>1, UnitsType, SlotsSuffice
<1>3. TypeOK
  <2>1. FlagsTypeOK
    BY DEF FlagsTypeOK
  <2>2. CountersTypeOK
    BY <1>2 DEF CountersTypeOK
  <2>3. MarksTypeOK
    BY <1>2 DEF MarksTypeOK
  <2>4. QED  BY <1>1, <2>1, <2>2, <2>3 DEF TypeOK
<1>4. Cursor = 0 /\ InFlight = 0 /\ StoredTo = 0 /\ CarriedHigh = FALSE
  BY DEF Cursor, InFlight, StoredTo, CarriedHigh
<1>5. MarksExact
  BY <1>4 DEF MarksExact
<1>6. CountIsPopcount
  <2>1. Cardinality(IllBefore(0)) = 0
    BY <1>1, IllBeforeFacts
  <2>2. QED  BY <1>4, <2>1 DEF CountIsPopcount, IllBefore
<1>7. CarryExact
  <2>1. 0 - 1 \notin Highs
    BY DEF Highs
  <2>2. QED  BY <1>4, <2>1 DEF CarryExact
<1>8. ShownMarksWritten /\ Geometry /\ Published
  BY DEF ShownMarksWritten, Geometry, Running, Published
<1>9. QED  BY <1>3, <1>5, <1>6, <1>7, <1>8 DEF IInv

\* Nothing the invariant says of the input changes with the kernel's state.
LEMMA InputStable ==
    ASSUME UNCHANGED input
    PROVE  /\ size' = size /\ data' = data /\ HB' = HB
           /\ Units' = Units /\ Highs' = Highs /\ Lows' = Lows /\ IllFormed' = IllFormed
           /\ OddTrailingByte' = OddTrailingByte
           /\ HighBytePos' = HighBytePos /\ InputTypeOK' = InputTypeOK
  BY DEF input, Units, Highs, Lows, UnitAt, HighByte, LowByte, HighBytePos,
         IllFormed, OddTrailingByte, InputTypeOK

\* What the parts of the invariant ask of a step that does not end the
\* kernel, said of the unprimed input.
LEMMA ProgressNext ==
    ASSUME UNCHANGED input, pc' # "finished", produced \in Nat, produced' \in Nat,
           \A k \in 0..StoredTo'-1 : marks'[k] <=> k \in IllFormed,
           pc' \in {"markTailLoop", "markTailDone"} =>
             tailBits' = {k - StoredTo' : k \in {j \in IllFormed : StoredTo' <= j /\ j < Cursor'}},
           errAccum' + InFlight' = Cardinality(IllBefore(Cursor')),
           CarriedHigh' <=> Cursor' - 1 \in Highs,
           errorCount' <= errAccum', processed' \in Nat, produced' <= processed' \div 2
    PROVE  (MarksExact /\ CountIsPopcount /\ CarryExact /\ ShownMarksWritten /\ Published)'
<1>1. IllFormed' = IllFormed /\ Highs' = Highs
  BY InputStable
<1>2. MarksExact'
  BY <1>1 DEF MarksExact
<1>3. CountIsPopcount'
  BY <1>1 DEF CountIsPopcount, IllBefore
<1>4. CarryExact'
  BY <1>1 DEF CarryExact
<1>5. \A k \in 0..produced'-1 : k < processed' \div 2
  <2>1. \A m, n \in Nat : m <= n => \A k \in 0..m-1 : k < n
    OBVIOUS
  <2>2. \A n \in Nat : n \div 2 \in Nat
    OBVIOUS
  <2>3. QED  BY <2>1, <2>2, Zenon
<1>6. ShownMarksWritten'
  BY <1>5 DEF ShownMarksWritten
<1>7. Published'
  BY DEF Published
<1>8. QED  BY <1>2, <1>3, <1>4, <1>6, <1>7

\* What the invariant says while the kernel runs, in the numbers the actions
\* use.
LEMMA IInvFacts ==
    ASSUME IInv
    PROVE  /\ InputTypeOK /\ size \in Nat /\ Units \in Nat /\ HB \in {0, 1}
           /\ processed \in Nat /\ avail \in Nat /\ processed <= size
           /\ (processed \div 2) \in Nat /\ produced \in Nat /\ MarkSlots \in Nat
           /\ pc # "finished" => processed = 2 * (processed \div 2)
           /\ errAccum + InFlight = Cardinality(IllBefore(Cursor))
           /\ \A k \in 0..StoredTo-1 : marks[k] <=> k \in IllFormed
           /\ pc # "finished" => (CarriedHigh <=> Cursor - 1 \in Highs)
           /\ pc # "finished" => errorCount <= errAccum /\ produced <= processed \div 2
<1>1. InputTypeOK /\ size \in Nat /\ Units \in Nat /\ HB \in {0, 1} /\ MarkSlots \in Nat
  BY UnitsType, SlotsSuffice DEF IInv, TypeOK, InputTypeOK
<1>2. processed \in Nat /\ avail \in Nat /\ processed <= size /\ produced \in Nat
  BY <1>1 DEF IInv, TypeOK, CountersTypeOK, MarksTypeOK
<1>3. (processed \div 2) \in Nat /\ (pc # "finished" => processed = 2 * (processed \div 2))
  BY <1>2 DEF IInv, Geometry
<1>4. errAccum + InFlight = Cardinality(IllBefore(Cursor))
  BY DEF IInv, CountIsPopcount, IllBefore
<1>5. QED  BY <1>1, <1>2, <1>3, <1>4 DEF IInv, MarksExact, CarryExact, Published

\* Invoke preserves the marks kernel's inductive invariant.
LEMMA InvokeIInv ==
    ASSUME IInv, Invoke
    PROVE  IInv'
<1> USE DEF Invoke, scalars, blockLoopVars, tail, markStream
<1>1. UNCHANGED input
  OBVIOUS
<1>2. /\ size \in Nat /\ processed \in Nat /\ processed <= size
      /\ processed % 2 = 0 /\ produced \in Nat
  BY IInvFacts DEF IInv, Geometry
<1>3. avail' \in 0..size
  BY <1>2
<1>4. TypeOK'
  <2>1. FlagsTypeOK'
    BY DEF IInv, TypeOK, FlagsTypeOK
  <2>2. CountersTypeOK'
    BY <1>1, <1>3, InputStable DEF IInv, TypeOK, CountersTypeOK, Lanes, BytesPerPack
  <2>3. MarksTypeOK'
    BY DEF IInv, TypeOK, MarksTypeOK
  <2>4. QED  BY <1>1, <2>1, <2>2, <2>3, InputStable DEF IInv, TypeOK
<1>5. Geometry'
  <2>1. CASE isFinal'
    <3>1. processed + avail' = size
      BY <1>2, <2>1
    <3>2. SegmentGranted'
      BY <1>1, <1>2, <1>3, <2>1, <3>1, InputStable DEF SegmentGranted
    <3>3. QED  BY <1>2, <3>2 DEF Geometry
  <2>2. CASE ~isFinal'
    <3>1. avail' \in {n \in 1..(size - processed - 2) : n % (2 * BlockUnits) = 0}
      BY <2>2
    <3>2. avail' \in 1..(size - processed - 2)
      BY <3>1, Zenon
    <3>3. avail' \in Nat /\ processed + avail' + 2 <= size
      <4>1. \A n \in 1..(size - processed - 2) : n \in Nat /\ processed + n + 2 <= size
        BY <1>2
      <4>2. QED  BY <3>2, <4>1, Zenon
    <3>4. avail' % 2 = 0
      <4>1. avail' % (2 * BlockUnits) = 0
        BY <3>1
      <4>2. QED  BY <3>3, <4>1, PackFacts, MultipleOfEven
    <3>5. SegmentGranted'
      BY <1>1, <1>2, <2>2, <3>3, <3>4, InputStable DEF SegmentGranted
    <3>6. QED  BY <1>2, <3>5 DEF Geometry
  <2>3. QED  BY <2>1, <2>2
<1>6. Cursor' = Cursor /\ InFlight' = InFlight /\ StoredTo' = StoredTo /\ CarriedHigh' = CarriedHigh
  BY DEF Cursor, InFlight, StoredTo, CarriedHigh
<1>7. QED  BY <1>1, <1>2, <1>4, <1>5, <1>6, IInvFacts, ProgressNext DEF IInv

\* Entry preserves the marks kernel's inductive invariant.
LEMMA EntryIInv ==
    ASSUME IInv, Entry
    PROVE  IInv'
<1> USE DEF Entry, scalars, segment, tail, markStream
<1>1. UNCHANGED input
  OBVIOUS
<1>2. FullBlocks' = FullBlocks /\ ValidUnits' = ValidUnits
  BY DEF FullBlocks, ValidUnits
<1>3. TypeOK'
  <2>1. FlagsTypeOK'
    BY DEF IInv, TypeOK, FlagsTypeOK
  <2>2. CarryInit \in SUBSET Lanes
    BY PackFacts, IInvFacts DEF CarryInit
  <2>3. CountersTypeOK'
    BY <1>1, <2>2, InputStable DEF IInv, TypeOK, CountersTypeOK, Lanes, BytesPerPack
  <2>4. MarksTypeOK'
    BY DEF IInv, TypeOK, MarksTypeOK
  <2>5. QED  BY <1>1, <2>1, <2>3, <2>4, InputStable DEF IInv, TypeOK
<1>4. SegmentGranted' /\ SegmentGranted /\ processed % 2 = 0
  BY <1>1, InputStable DEF IInv, Geometry, Running, SegmentGranted
<1>5. Geometry'
  <2>1. FullBlocks \in Nat
    BY IInvFacts, SegmentGeometry
  <2>2. QED  BY <1>2, <1>4, <2>1 DEF Geometry
<1>6. Cursor' = Cursor /\ StoredTo' = StoredTo /\ InFlight' = InFlight
  <2>1. (processed \div 2) \in Nat /\ 0 * BlockUnits = 0
    BY IInvFacts, PackFacts
  <2>2. QED  BY <2>1 DEF Cursor, StoredTo, InFlight
<1>7. CarriedHigh' <=> CarriedHigh
  BY <1>1, InputStable DEF CarriedHigh, CarryInit
<1>8. QED  BY <1>1, <1>3, <1>5, <1>6, <1>7, IInvFacts, ProgressNext DEF IInv

\* MarkBlockLoop preserves the marks kernel's inductive invariant.
LEMMA MarkBlockLoopIInv ==
    ASSUME IInv, MarkBlockLoop
    PROVE  IInv'
<1> USE DEF MarkBlockLoop, scalars, segment, tail
<1> DEFINE base == BlockBase(blk)
           bits == BlockBits(blk)
<1>1. UNCHANGED input
  OBVIOUS
<1>2. FullBlocks' = FullBlocks /\ ValidUnits' = ValidUnits
  BY DEF FullBlocks, ValidUnits
<1>3. /\ SegmentGranted /\ SegmentGranted' /\ processed % 2 = 0
      /\ blk \in Nat /\ blk < FullBlocks /\ FullBlocks \in Nat
  BY <1>1, IInvFacts, SegmentGeometry, InputStable
     DEF IInv, Geometry, Running, SegmentGranted, TypeOK, CountersTypeOK
<1>4. /\ BlockUnits \in Nat \ {0} /\ blk * BlockUnits \in Nat
      /\ (blk + 1) * BlockUnits = blk * BlockUnits + BlockUnits
  BY <1>3, PackFacts, ProductStep
<1>5. BlockInSegment(blk) /\ base = (processed \div 2) + blk * BlockUnits
  <2>1. /\ (blk + 1) * BlockUnits <= ValidUnits /\ 2 * ValidUnits <= avail
        /\ ValidUnits \in Nat /\ avail \in Nat /\ (processed \div 2) \in Nat
        /\ processed = 2 * (processed \div 2)
    BY <1>3, IInvFacts, SegmentGeometry
  <2>2. 2 * ((processed \div 2) + blk * BlockUnits + BlockUnits) <= processed + avail
    BY <1>4, <2>1
  <2>3. QED  BY <2>2 DEF BlockInSegment, BlockBase
<1>6. /\ (HighBytePos \in carryVec <=> base - 1 \in Highs)
      /\ errAccum + err = Cardinality(IllBefore(base))
      /\ \A k \in 0..base-1 : marks[k] <=> k \in IllFormed
  BY IInvFacts DEF Cursor, StoredTo, InFlight, CarriedHigh, BlockBase
<1>7. /\ base \in Nat /\ base + BlockUnits <= Units
      /\ \A i \in 0..BlockUnits-1 : i \in bits <=> base + i \in IllFormed
      /\ HighBytePos \in HiLanes(blk * PacksPerBlock + PacksPerBlock - 1)
           <=> base + BlockUnits - 1 \in Highs
  BY <1>3, <1>5, <1>6, IInvFacts, BlockBitsAreIllFormed
<1>8. bits \in SUBSET (0..BlockUnits-1)
  BY DEF BlockBits
<1> HIDE DEF base, bits
<1>9. /\ Cardinality(bits) \in Nat
      /\ Cardinality(IllBefore(base + BlockUnits)) = Cardinality(IllBefore(base)) + Cardinality(bits)
  BY <1>4, <1>7, <1>8, IInvFacts, IllBeforeBlock
<1>10. TypeOK'
  <2>1. HiLanes(blk * PacksPerBlock + PacksPerBlock - 1) \in SUBSET Lanes
    BY DEF HiLanes
  <2>2. FlagsTypeOK'
    BY DEF IInv, TypeOK, FlagsTypeOK
  <2>3. err' \in Nat /\ blk' \in Nat
    BY <1>3, <1>9 DEF IInv, TypeOK, CountersTypeOK, bits
  <2>4. CountersTypeOK'
    BY <1>1, <2>1, <2>3, InputStable DEF IInv, TypeOK, CountersTypeOK, Lanes, BytesPerPack
  <2>5. MarksTypeOK'
    BY StoredFacts DEF IInv, TypeOK, MarksTypeOK
  <2>6. QED  BY <1>1, <2>2, <2>4, <2>5, InputStable DEF IInv, TypeOK
<1>11. Geometry'
  BY <1>2, <1>3 DEF Geometry, Running
<1>12. Cursor' = base + BlockUnits /\ StoredTo' = base + BlockUnits
  <2>1. (processed \div 2) \in Nat
    BY IInvFacts
  <2>2. (processed \div 2) + (blk + 1) * BlockUnits = ((processed \div 2) + blk * BlockUnits) + BlockUnits
    BY <1>4, <2>1
  <2>3. QED  BY <1>5, <2>2 DEF Cursor, StoredTo
<1>13. InFlight' = err + Cardinality(bits)
  BY DEF InFlight, bits
<1>14. errAccum' + InFlight' = Cardinality(IllBefore(Cursor'))
  <2>1. errAccum \in Nat /\ err \in Nat /\ errAccum' = errAccum
    BY DEF IInv, TypeOK, CountersTypeOK
  <2>2. QED  BY <1>6, <1>9, <1>12, <1>13, <2>1
<1>15. CarriedHigh' <=> Cursor' - 1 \in Highs
  <2>1. CarriedHigh' <=> HighBytePos \in HiLanes(blk * PacksPerBlock + PacksPerBlock - 1)
    BY <1>1, InputStable DEF CarriedHigh
  <2>2. Cursor' - 1 = base + BlockUnits - 1
    BY <1>4, <1>7, <1>12
  <2>3. QED  BY <1>7, <2>1, <2>2
<1>16. \A k \in 0..StoredTo'-1 : marks'[k] <=> k \in IllFormed
  <2>1. SUFFICES ASSUME NEW k \in 0..(base+BlockUnits)-1 PROVE marks'[k] <=> k \in IllFormed
    BY <1>12, Zenon
  <2>2. k \in 0..MarkSlots-1
    BY <1>4, <1>7, IInvFacts, SlotsSuffice
  <2>3. marks'[k] = IF base <= k /\ k < base + BlockUnits THEN k - base \in bits ELSE marks[k]
    BY <2>2, StoredFacts DEF base, bits, IInv, TypeOK, MarksTypeOK
  <2>4. CASE k < base
    <3>1. k \in 0..base-1 /\ ~(base <= k)
      BY <1>7, <2>4
    <3>2. QED  BY <1>6, <2>3, <3>1
  <2>5. CASE ~(k < base)
    <3>1. base <= k /\ k < base + BlockUnits /\ k - base \in 0..BlockUnits-1 /\ base + (k - base) = k
      BY <1>4, <1>7, <2>5
    <3>2. k - base \in bits <=> k \in IllFormed
      BY <1>7, <3>1
    <3>3. QED  BY <2>3, <3>1, <3>2
  <2>6. QED  BY <2>4, <2>5
<1>17. /\ errorCount' <= errAccum' /\ produced' <= processed' \div 2
       /\ produced \in Nat /\ produced' \in Nat /\ processed' \in Nat
  BY IInvFacts
<1>18. QED  BY <1>1, <1>10, <1>11, <1>14, <1>15, <1>16, <1>17, ProgressNext DEF IInv

\* AfterMarkBlocks preserves the marks kernel's inductive invariant.
LEMMA AfterMarkBlocksIInv ==
    ASSUME IInv, AfterMarkBlocks
    PROVE  IInv'
<1> USE DEF AfterMarkBlocks, scalars, segment, blockLoopVars, markStream
<1>1. UNCHANGED input
  OBVIOUS
<1>2. TailBase' = TailBase /\ ValidUnits' = ValidUnits /\ FullBlocks' = FullBlocks
  BY DEF TailBase, FullBlocks, ValidUnits
<1>3. /\ SegmentGranted /\ SegmentGranted' /\ processed % 2 = 0
      /\ TailBase \in Nat /\ ValidUnits \in Nat /\ TailBase <= ValidUnits
      /\ TailBase = blk * BlockUnits /\ blk \in Nat
  BY <1>1, IInvFacts, SegmentGeometry, InputStable
     DEF IInv, Geometry, Running, SegmentGranted, TypeOK, CountersTypeOK, TailBase
<1>4. TypeOK'
  <2>1. FlagsTypeOK'
    BY DEF IInv, TypeOK, FlagsTypeOK
  <2>2. CountersTypeOK'
    BY <1>1, <1>3, InputStable DEF IInv, TypeOK, CountersTypeOK, Lanes, BytesPerPack
  <2>3. MarksTypeOK'
    BY DEF IInv, TypeOK, MarksTypeOK
  <2>4. QED  BY <1>1, <2>1, <2>2, <2>3, InputStable DEF IInv, TypeOK
<1>5. Geometry'
  BY <1>2, <1>3 DEF Geometry, HasTail
<1>6. /\ Cursor' = Cursor /\ StoredTo' = StoredTo /\ Cursor' = StoredTo'
      /\ CarriedHigh' = CarriedHigh
  BY <1>2, <1>3 DEF Cursor, StoredTo, CarriedHigh
<1>7. InFlight' = InFlight
  <2>1. err \in Nat
    BY DEF IInv, TypeOK, CountersTypeOK
  <2>2. QED  BY <2>1 DEF InFlight
<1>8. tailBits' = {k - StoredTo' : k \in {j \in IllFormed : StoredTo' <= j /\ j < Cursor'}}
  <2>1. Cursor' \in Int
    BY <1>3, IInvFacts DEF Cursor
  <2>2. \A j \in IllFormed : ~(Cursor' <= j /\ j < Cursor')
    BY <2>1, IInvFacts, IllFormedFacts
  <2>3. {j \in IllFormed : StoredTo' <= j /\ j < Cursor'} = {}
    BY <1>6, <2>2
  <2>4. QED  BY <2>3
<1>9. QED  BY <1>1, <1>4, <1>5, <1>6, <1>7, <1>8, IInvFacts, ProgressNext DEF IInv

\* The tail, from the unit after the last whole block to the end of the
\* segment: where it is in the input, and what its bits say.
LEMMA TailFacts ==
    ASSUME IInv, pc \in {"markTailLoop", "markTailDone"}
    PROVE  /\ SegmentGranted /\ TailBase \in Nat /\ ValidUnits \in Nat /\ idx \in Nat
           /\ TailBase <= idx /\ idx <= ValidUnits
           /\ ValidUnits < TailBase + BlockUnits /\ BlockUnits \in Nat
           /\ StoredTo = (processed \div 2) + TailBase /\ StoredTo \in Nat
           /\ Cursor = (processed \div 2) + idx /\ Cursor \in Nat /\ StoredTo <= Cursor
           /\ InFlight = err + tErr /\ CarriedHigh = pend
           /\ (processed \div 2) + ValidUnits <= Units
           /\ \A i \in Int : i \in tailBits <=>
                 0 <= i /\ StoredTo + i \in IllFormed /\ StoredTo + i < Cursor
<1>1. SegmentGranted /\ idx \in Nat /\ TailBase <= idx /\ idx <= ValidUnits
  BY IInvFacts, SegmentGeometry DEF IInv, Geometry, Running, TypeOK, CountersTypeOK
<1>2. /\ TailBase \in Nat /\ ValidUnits \in Nat /\ ValidUnits < TailBase + BlockUnits
      /\ BlockUnits \in Nat /\ 2 * ValidUnits <= avail
  BY IInvFacts, SegmentGeometry, PackFacts
<1>3. (processed \div 2) \in Nat /\ processed = 2 * (processed \div 2)
      /\ avail \in Nat /\ processed \in Nat
  BY IInvFacts
<1>4. StoredTo = (processed \div 2) + TailBase /\ Cursor = (processed \div 2) + idx
      /\ InFlight = err + tErr /\ CarriedHigh = pend
  BY DEF StoredTo, Cursor, InFlight, CarriedHigh
<1>5. StoredTo \in Nat /\ Cursor \in Nat /\ StoredTo <= Cursor
  BY <1>1, <1>2, <1>3, <1>4
<1>6. (processed \div 2) + ValidUnits <= Units
  <2>1. 2 * ((processed \div 2) + ValidUnits) <= processed + avail
    BY <1>2, <1>3
  <2>2. QED  BY <1>1, <1>2, <1>3, <2>1, IInvFacts, UnitsOfSegment
<1>7. tailBits = {k - StoredTo : k \in {j \in IllFormed : StoredTo <= j /\ j < Cursor}}
  BY DEF IInv, MarksExact
<1>8. \A i \in Int : i \in tailBits <=> 0 <= i /\ StoredTo + i \in IllFormed /\ StoredTo + i < Cursor
  <2>1. SUFFICES ASSUME NEW i \in Int
                 PROVE  i \in tailBits <=> 0 <= i /\ StoredTo + i \in IllFormed /\ StoredTo + i < Cursor
    OBVIOUS
  <2>2. Cursor \in Int /\ InputTypeOK
    BY <1>5, IInvFacts
  <2>3. i \in {k - StoredTo : k \in {j \in IllFormed : StoredTo <= j /\ j < Cursor}}
          <=> 0 <= i /\ StoredTo + i \in IllFormed /\ StoredTo + i < Cursor
    BY <1>5, <2>2, TailBitsAre, Zenon
  <2>4. QED  BY <1>7, <2>3, Zenon
<1>9. QED  BY <1>1, <1>2, <1>4, <1>5, <1>6, <1>8

\* A unit of the tail is marked when, and only when, it is ill-formed.
LEMMA TailUnitIsJudged ==
    ASSUME IInv, pc = "markTailLoop"
    PROVE  /\ Cursor \in 0..Units-1
           /\ Cursor \in Highs <=> IsHi8(RawByte(2 * idx + HB))
           /\ Cursor \in IllFormed <=>
                \/ IsLo8(RawByte(2 * idx + HB)) /\ ~pend
                \/ /\ IsHi8(RawByte(2 * idx + HB))
                   /\ ~IsLo8(LookaheadHighByte(2 * idx + HB + 2))
<1> DEFINE u == (processed \div 2) + idx
<1>1. /\ SegmentGranted /\ ValidUnits \in Nat /\ idx \in Nat /\ idx < ValidUnits
      /\ Cursor = u /\ CarriedHigh = pend /\ (processed \div 2) + ValidUnits <= Units
  BY TailFacts DEF IInv, Geometry
<1>2. /\ (processed \div 2) \in Nat /\ processed = 2 * (processed \div 2) /\ HB \in {0, 1}
      /\ 2 * ValidUnits <= avail /\ Units \in Nat /\ avail \in Nat /\ processed \in Nat /\ InputTypeOK
  BY <1>1, IInvFacts, SegmentGeometry
<1>3. /\ u \in 0..Units-1 /\ processed + (2 * idx + HB) = 2 * u + HB
      /\ processed + (2 * idx + HB + 2) = 2 * (u + 1) + HB
      /\ 2 * (u + 1) <= processed + avail /\ 2 * idx + HB + 2 \in Nat
  BY <1>1, <1>2
<1>4. CarriedHigh <=> Cursor - 1 \in Highs
  BY <1>1, IInvFacts
<1>5. pend <=> u - 1 \in Highs
  BY <1>1, <1>4
<1> HIDE DEF u
<1>6. RawByte(2 * idx + HB) = HighByte(u)
  BY <1>3 DEF RawByte, HighByte
<1>7. /\ u \in Highs <=> IsHi8(RawByte(2 * idx + HB))
      /\ u \in Lows <=> IsLo8(RawByte(2 * idx + HB))
  BY <1>2, <1>3, <1>6, ClassOfUnit
<1>8. IsLo8(LookaheadHighByte(2 * idx + HB + 2)) <=> u + 1 \in Lows
  BY <1>1, <1>2, <1>3, LookaheadIsNextLow
<1>9. u \in IllFormed <=> (u \in Lows /\ u - 1 \notin Highs) \/ (u \in Highs /\ u + 1 \notin Lows)
  BY DEF IllFormed
<1>10. QED  BY <1>1, <1>3, <1>5, <1>7, <1>8, <1>9

\* MarkTailLoop preserves the marks kernel's inductive invariant.
LEMMA MarkTailLoopIInv ==
    ASSUME IInv, MarkTailLoop
    PROVE  IInv'
<1> USE DEF scalars, segment, blockLoopVars, markStream
<1>1. /\ UNCHANGED <<input, scalars, segment, blockLoopVars, markStream>>
      /\ pc = "markTailLoop" /\ idx' = idx + 1
      /\ pc' \in {"markTailLoop", "markTailDone"}
      /\ pc' = IF idx + 1 # ValidUnits THEN "markTailLoop" ELSE "markTailDone"
      /\ pend' = IsHi8(RawByte(2 * idx + HB))
  BY DEF MarkTailLoop
<1>2. /\ Cursor \in 0..Units-1
      /\ Cursor \in Highs <=> pend'
      /\ tailBits' = (IF Cursor \in IllFormed THEN tailBits \cup {idx - TailBase} ELSE tailBits)
      /\ tErr' = (IF Cursor \in IllFormed THEN tErr + 1 ELSE tErr)
  BY <1>1, TailUnitIsJudged DEF MarkTailLoop
<1> UNCHANGED input
  BY <1>1
<1>3. TailBase' = TailBase /\ ValidUnits' = ValidUnits /\ FullBlocks' = FullBlocks
  BY <1>1 DEF TailBase, FullBlocks, ValidUnits
<1>4. /\ SegmentGranted /\ TailBase \in Nat /\ ValidUnits \in Nat /\ idx \in Nat
      /\ TailBase <= idx /\ idx < ValidUnits
      /\ ValidUnits < TailBase + BlockUnits /\ BlockUnits \in Nat
      /\ StoredTo = (processed \div 2) + TailBase /\ StoredTo \in Nat
      /\ Cursor = (processed \div 2) + idx /\ StoredTo <= Cursor /\ Cursor \in Nat
      /\ InFlight = err + tErr /\ CarriedHigh = pend
      /\ \A i \in Int : i \in tailBits <=>
            0 <= i /\ StoredTo + i \in IllFormed /\ StoredTo + i < Cursor
  BY <1>1, TailFacts DEF IInv, Geometry
<1>5. SegmentGranted' /\ processed % 2 = 0 /\ (processed \div 2) \in Nat
  BY <1>1, <1>4, IInvFacts, InputStable DEF SegmentGranted
<1>6. idx - TailBase \in 0..BlockUnits-1
  BY <1>4
<1>7. TypeOK'
  <2>1. FlagsTypeOK'
    BY <1>1 DEF IInv, TypeOK, FlagsTypeOK, IsHi8
  <2>2. tErr' \in Nat /\ tailBits' \in SUBSET (0..BlockUnits-1) /\ idx' \in Nat
    BY <1>1, <1>2, <1>4, <1>6 DEF IInv, TypeOK, CountersTypeOK
  <2>3. CountersTypeOK'
    BY <1>1, <2>2, InputStable DEF IInv, TypeOK, CountersTypeOK, Lanes, BytesPerPack
  <2>4. MarksTypeOK'
    BY <1>1 DEF IInv, TypeOK, MarksTypeOK
  <2>5. QED  BY <2>1, <2>3, <2>4, InputStable DEF IInv, TypeOK
<1>8. Geometry'
  BY <1>1, <1>3, <1>4, <1>5 DEF Geometry
<1>9. Cursor' = Cursor + 1 /\ StoredTo' = StoredTo /\ Cursor' - 1 = Cursor
  BY <1>1, <1>3, <1>4, <1>5 DEF Cursor, StoredTo
<1>10. InFlight' = err + tErr' /\ CarriedHigh' = pend'
  BY <1>1 DEF InFlight, CarriedHigh
<1>11. errAccum' + InFlight' = Cardinality(IllBefore(Cursor'))
  <2>1. errAccum \in Nat /\ err \in Nat /\ tErr \in Nat /\ errAccum' = errAccum
    BY <1>1 DEF IInv, TypeOK, CountersTypeOK
  <2>2. errAccum + (err + tErr) = Cardinality(IllBefore(Cursor))
    BY <1>4, IInvFacts
  <2>3. Cardinality(IllBefore(Cursor + 1)) =
          Cardinality(IllBefore(Cursor)) + (IF Cursor \in IllFormed THEN 1 ELSE 0)
    BY <1>4, IInvFacts, IllBeforeNext
  <2>4. QED  BY <1>2, <1>9, <1>10, <2>1, <2>2, <2>3
<1>12. tailBits' = {k - StoredTo' : k \in {j \in IllFormed : StoredTo' <= j /\ j < Cursor'}}
  <2> DEFINE marked == {k - StoredTo : k \in {j \in IllFormed : StoredTo <= j /\ j < Cursor + 1}}
  <2>1. \A i \in Int : i \in marked <=> 0 <= i /\ StoredTo + i \in IllFormed /\ StoredTo + i < Cursor + 1
    BY <1>4, IInvFacts, TailBitsAre
  <2>2. marked \subseteq Int
    BY <1>4, IInvFacts, IllFormedFacts, UnitsType
  <2>3. tailBits \subseteq Int /\ tailBits' \subseteq Int
    <3>1. tailBits \in SUBSET (0..BlockUnits-1) /\ 0..BlockUnits-1 \subseteq Int
      BY <1>4 DEF IInv, TypeOK, CountersTypeOK
    <3>2. tailBits' \subseteq tailBits \cup {idx - TailBase}
      BY <1>2, Zenon
    <3>3. QED  BY <1>6, <3>1, <3>2, Zenon
  <2> HIDE DEF marked
  <2>4. ASSUME NEW i \in Int PROVE i \in tailBits' <=> i \in marked
    <3>1. StoredTo + i < Cursor + 1 <=> StoredTo + i < Cursor \/ i = idx - TailBase
      BY <1>4, <1>5
    <3>2. i = idx - TailBase => 0 <= i /\ StoredTo + i = Cursor
      BY <1>4, <1>5
    <3>3. i \in tailBits' <=> i \in tailBits \/ (Cursor \in IllFormed /\ i = idx - TailBase)
      BY <1>2
    <3>4. QED  BY <1>4, <2>1, <3>1, <3>2, <3>3
  <2>5. tailBits' = marked
    BY <2>2, <2>3, <2>4
  <2>6. QED  BY <1>9, <2>5 DEF marked
<1>13. QED  BY <1>1, <1>2, <1>7, <1>8, <1>9, <1>10, <1>11, <1>12, IInvFacts, ProgressNext DEF IInv

\* What is in the buffer after the partial block is stored: right marks up to
\* the end of the segment, nothing changed before the segment, and a zero in
\* the slot of an odd byte the last block reaches.
LEMMA TailStoreFacts ==
    ASSUME IInv, pc = "markTailDone"
    PROVE  /\ TailStore \in [0..MarkSlots-1 -> BOOLEAN]
           /\ \A k \in 0..Cursor-1 : TailStore[k] <=> k \in IllFormed
           /\ \A k \in 0..MarkSlots-1 : k < processed \div 2 => TailStore[k] = marks[k]
           /\ HasOddTailByte /\ Cursor < MarkSlots /\ (FullBlocks = 0 \/ HasTail) =>
                 ~TailStore[Cursor]
<1> DEFINE base == (processed \div 2)
<1>1. /\ SegmentGranted /\ TailBase \in Nat /\ ValidUnits \in Nat /\ TailBase <= ValidUnits
      /\ ValidUnits < TailBase + BlockUnits /\ BlockUnits \in Nat
      /\ StoredTo = base + TailBase /\ Cursor = base + ValidUnits
      /\ StoredTo \in Nat /\ Cursor \in Nat /\ Cursor <= Units
      /\ \A i \in Int : i \in tailBits <=>
            0 <= i /\ StoredTo + i \in IllFormed /\ StoredTo + i < Cursor
  BY TailFacts DEF IInv, Geometry
<1>2. /\ base \in Nat /\ MarkSlots \in Nat /\ Units <= MarkSlots /\ Units \in Nat
      /\ (FullBlocks = 0 => TailBase = 0)
      /\ \A k \in 0..StoredTo-1 : marks[k] <=> k \in IllFormed
  <2>1. Units <= MarkSlots /\ MarkSlots \in Nat
    BY IInvFacts, SlotsSuffice
  <2>2. QED  BY <2>1, IInvFacts, SegmentGeometry
<1>3. marks \in [0..MarkSlots-1 -> BOOLEAN]
  BY DEF IInv, TypeOK, MarksTypeOK
<1>4. BlockBase(FullBlocks) = StoredTo /\ BlockBase(0) = base
  <2>1. 0 * BlockUnits = 0
    BY <1>1
  <2>2. QED  BY <1>1, <1>2, <2>1 DEF BlockBase, TailBase
<1> HIDE DEF base
<1>5. CASE HasTail
  <2> DEFINE new == Stored(FullBlocks, tailBits)
  <2>1. TailStore = new
    BY <1>5 DEF TailStore
  <2>2. /\ new \in [0..MarkSlots-1 -> BOOLEAN]
        /\ \A k \in 0..MarkSlots-1 :
              new[k] = IF StoredTo <= k /\ k < StoredTo + BlockUnits
                       THEN k - StoredTo \in tailBits ELSE marks[k]
    BY <1>3, <1>4, StoredFacts
  <2> HIDE DEF new
  <2>3. ASSUME NEW k \in 0..MarkSlots-1, k < StoredTo PROVE new[k] = marks[k]
    BY <1>1, <2>2, <2>3
  <2>4. ASSUME NEW k \in 0..MarkSlots-1, StoredTo <= k, k <= Cursor
        PROVE  new[k] <=> k \in IllFormed /\ k < Cursor
    <3>1. k < StoredTo + BlockUnits /\ k - StoredTo \in Int /\ 0 <= k - StoredTo
          /\ StoredTo + (k - StoredTo) = k
      BY <1>1, <1>2, <2>4
    <3>2. new[k] = (k - StoredTo \in tailBits)
      BY <2>2, <2>4, <3>1
    <3>3. k - StoredTo \in tailBits <=> k \in IllFormed /\ k < Cursor
      BY <1>1, <3>1
    <3>4. QED  BY <3>2, <3>3
  <2>5. ASSUME NEW k \in 0..Cursor-1 PROVE new[k] <=> k \in IllFormed
    <3>1. k \in 0..MarkSlots-1 /\ k < Cursor /\ k <= Cursor /\ (~(StoredTo <= k) => k < StoredTo)
          /\ (k < StoredTo => k \in 0..StoredTo-1)
      BY <1>1, <1>2, <2>5
    <3>2. CASE k < StoredTo
      <4>1. new[k] = marks[k] /\ (marks[k] <=> k \in IllFormed)
        BY <1>2, <2>3, <3>1, <3>2
      <4>2. QED  BY <4>1
    <3>3. CASE StoredTo <= k
      BY <2>4, <3>1, <3>3
    <3>4. QED  BY <3>1, <3>2, <3>3
  <2>6. ASSUME NEW k \in 0..MarkSlots-1, k < base PROVE new[k] = marks[k]
    <3>1. k < StoredTo
      BY <1>1, <1>2, <2>6
    <3>2. QED  BY <2>3, <3>1
  <2>7. ASSUME Cursor < MarkSlots PROVE ~new[Cursor]
    <3>1. Cursor \in 0..MarkSlots-1 /\ StoredTo <= Cursor /\ Cursor <= Cursor /\ ~(Cursor < Cursor)
      BY <1>1, <1>2, <2>7
    <3>2. QED  BY <2>4, <3>1
  <2>8. QED  BY <2>1, <2>2, <2>5, <2>6, <2>7 DEF base
<1>6. CASE ~HasTail
  <2>1. StoredTo = Cursor
    BY <1>1, <1>6 DEF HasTail
  <2>2. CASE HasOddTailByte /\ ValidUnits = 0
    <3> DEFINE new == Stored(0, {})
    <3>1. TailStore = new
      BY <1>6, <2>2 DEF TailStore
    <3>2. Cursor = base
      BY <1>1, <1>2, <2>2
    <3>3. /\ new \in [0..MarkSlots-1 -> BOOLEAN]
          /\ \A k \in 0..MarkSlots-1 :
                new[k] = IF base <= k /\ k < base + BlockUnits THEN k - base \in {} ELSE marks[k]
      BY <1>3, <1>4, StoredFacts
    <3> HIDE DEF new
    <3>4. ASSUME NEW k \in 0..MarkSlots-1, k < base PROVE new[k] = marks[k]
      BY <1>2, <3>3, <3>4
    <3>5. ASSUME NEW k \in 0..Cursor-1 PROVE new[k] <=> k \in IllFormed
      <4>1. k \in 0..MarkSlots-1 /\ k < base /\ k \in 0..StoredTo-1
        BY <1>1, <1>2, <2>1, <3>2, <3>5
      <4>2. QED  BY <1>2, <3>4, <4>1
    <3>6. ASSUME Cursor < MarkSlots PROVE ~new[Cursor]
      <4>1. Cursor \in 0..MarkSlots-1 /\ base <= Cursor /\ Cursor < base + BlockUnits
        BY <1>1, <1>2, <2>2, <3>2, <3>6
      <4>2. QED  BY <3>3, <4>1
    <3>7. QED  BY <3>1, <3>3, <3>4, <3>5, <3>6 DEF base
  <2>3. CASE ~(HasOddTailByte /\ ValidUnits = 0)
    <3>1. TailStore = marks
      BY <1>6, <2>3 DEF TailStore
    <3>2. ~(HasOddTailByte /\ (FullBlocks = 0 \/ HasTail))
      BY <1>1, <1>2, <1>6, <2>3 DEF HasTail
    <3>3. \A k \in 0..Cursor-1 : marks[k] <=> k \in IllFormed
      BY <1>2, <2>1
    <3>4. QED  BY <1>3, <3>1, <3>2, <3>3
  <2>4. QED  BY <2>2, <2>3
<1>7. QED  BY <1>5, <1>6

\* MarkTailDone preserves the marks kernel's inductive invariant.
LEMMA MarkTailDoneIInv ==
    ASSUME IInv, MarkTailDone
    PROVE  IInv'
<1> USE DEF MarkTailDone, segment, blockLoopVars, tail
<1> DEFINE half == processed \div 2
<1>1. UNCHANGED input /\ pc = "markTailDone"
  OBVIOUS
<1>2. /\ SegmentGranted /\ ValidUnits \in Nat /\ Cursor = half + ValidUnits
      /\ Cursor \in Nat /\ Cursor <= Units /\ InFlight = err + tErr /\ CarriedHigh = pend
  BY TailFacts DEF IInv, Geometry
<1>3. /\ half \in Nat /\ processed = 2 * half /\ avail \in Nat /\ size \in Nat /\ Units \in Nat
      /\ processed \in Nat /\ MarkSlots \in Nat
      /\ 2 * ValidUnits <= avail /\ avail <= 2 * ValidUnits + 1
      /\ size = 2 * Units + OddTrailingByte /\ OddTrailingByte \in {0, 1}
      /\ Units + OddTrailingByte <= MarkSlots
      /\ (isFinal => processed + avail = size)
      /\ (~isFinal => processed + avail + 2 <= size /\ avail % 2 = 0)
  BY <1>1, <1>2, IInvFacts, SegmentGeometry, UnitsType, SlotsSuffice DEF SegmentGranted
<1>4. /\ isFinal \in BOOLEAN
      /\ isFinal => ValidUnits = Units - half /\ Cursor = Units
                    /\ avail = 2 * ValidUnits + OddTrailingByte
                    /\ (processed + avail) \div 2 = Units
                    /\ avail % 2 = OddTrailingByte /\ (avail + 1) \div 2 = ValidUnits + OddTrailingByte
      /\ ~isFinal => avail = 2 * ValidUnits /\ (processed + avail) \div 2 = Cursor
                     /\ (processed + avail) % 2 = 0 /\ (avail + 1) \div 2 = ValidUnits
  <2> HIDE DEF half
  <2>1. isFinal \in BOOLEAN
    BY <1>2 DEF SegmentGranted
  <2>2. CASE isFinal
    <3>1. processed + avail = 2 * Units + OddTrailingByte /\ avail = 2 * (Units - half) + OddTrailingByte
      BY <1>3, <2>2
    <3>2. ValidUnits = Units - half /\ (processed + avail) \div 2 = Units
      BY <1>2, <1>3, <3>1
    <3>3. avail = 2 * ValidUnits + OddTrailingByte
      BY <3>1, <3>2
    <3>4. avail % 2 = OddTrailingByte /\ (avail + 1) \div 2 = ValidUnits + OddTrailingByte
      BY <1>2, <1>3, <3>3
    <3>5. Cursor = Units
      BY <1>2, <1>3, <3>2
    <3>6. QED  BY <2>1, <2>2, <3>2, <3>3, <3>4, <3>5
  <2>3. CASE ~isFinal
    <3>1. avail = 2 * ValidUnits
      BY <1>2, <1>3, <2>3
    <3>2. processed + avail = 2 * Cursor
      BY <1>2, <1>3, <3>1
    <3>3. (processed + avail) \div 2 = Cursor /\ (processed + avail) % 2 = 0 /\ (avail + 1) \div 2 = ValidUnits
      BY <1>2, <3>1, <3>2
    <3>4. QED  BY <2>1, <2>3, <3>1, <3>3
  <2>4. QED  BY <2>1, <2>2, <2>3
<1>5. /\ processed' = processed + avail /\ processed' \div 2 = Cursor
      /\ pc' = (IF isFinal THEN "finished" ELSE "idle")
      /\ processed' \in Nat /\ processed' <= size
  BY <1>3, <1>4
<1>6. produced' \in Nat /\ produced' <= Cursor + OddTrailingByte /\ produced' <= MarkSlots
      /\ (~isFinal => produced' <= Cursor)
  <2>1. produced' \in {half + ValidUnits, half + (avail + 1) \div 2}
    BY DEF half
  <2>2. half + ValidUnits = Cursor
    BY <1>2 DEF half
  <2>3. half + (avail + 1) \div 2 \in {Cursor, Cursor + OddTrailingByte}
        /\ (~isFinal => half + (avail + 1) \div 2 = Cursor)
    BY <1>2, <1>3, <1>4, <2>2
  <2>4. produced' \in {Cursor, Cursor + OddTrailingByte} /\ (~isFinal => produced' = Cursor)
    BY <2>1, <2>2, <2>3, Zenon
  <2> HIDE DEF MarkTailDone
  <2>5. QED  BY <1>2, <1>3, <2>4
<1>7. OddByteError \in {0, 1} /\ (~isFinal => OddByteError = 0)
      /\ (isFinal => OddByteError = OddTrailingByte)
  BY <1>3, <1>4 DEF OddByteError
<1>8. errAccum \in Nat /\ err \in Nat /\ tErr \in Nat
  BY DEF IInv, TypeOK, CountersTypeOK
<1>9. errAccum' = errAccum + (err + tErr) /\ errorCount' = errAccum' + OddByteError
      /\ errAccum' = Cardinality(IllBefore(Cursor))
  BY <1>2, IInvFacts
<1>10. Cursor' = Cursor /\ InFlight' = 0 /\ StoredTo' = Cursor /\ CarriedHigh' = pendingHigh'
  BY <1>2, <1>5 DEF Cursor, InFlight, StoredTo, CarriedHigh
<1>11. \A k \in 0..StoredTo'-1 : marks'[k] <=> k \in IllFormed
  BY <1>1, <1>10, TailStoreFacts
<1>12. TypeOK'
  <2>1. FlagsTypeOK'
    BY <1>4, <1>5 DEF IInv, TypeOK, FlagsTypeOK
  <2>2. CountersTypeOK'
    BY <1>1, <1>5, <1>7, <1>8, <1>9, InputStable DEF IInv, TypeOK, CountersTypeOK, Lanes, BytesPerPack
  <2>3. MarksTypeOK'
    BY <1>1, <1>3, <1>6, TailStoreFacts DEF MarksTypeOK
  <2>4. QED  BY <1>1, <2>1, <2>2, <2>3, InputStable DEF IInv, TypeOK
<1>13. Geometry'
  BY <1>1, <1>3, <1>4, <1>5, InputStable DEF Geometry, Running
<1>14. errAccum' + InFlight' = Cardinality(IllBefore(Cursor'))
  BY <1>8, <1>9, <1>10
<1>15. CASE ~isFinal
  <2>1. pc' = "idle" /\ errorCount' <= errAccum' /\ produced' <= processed' \div 2
    BY <1>5, <1>6, <1>7, <1>8, <1>9, <1>15
  <2>2. CarriedHigh' <=> Cursor' - 1 \in Highs
    BY <1>1, <1>2, <1>10, <1>15, IInvFacts
  <2>3. produced \in Nat
    BY IInvFacts
  <2>4. QED
    BY <1>1, <1>5, <1>6, <1>11, <1>12, <1>13, <1>14, <2>1, <2>2, <2>3, ProgressNext DEF IInv
<1>16. CASE isFinal
  <2>1. pc' = "finished" /\ Cursor = Units
    BY <1>4, <1>5, <1>16
  <2>2. IllFormed' = IllFormed /\ Units' = Units /\ OddTrailingByte' = OddTrailingByte
    BY <1>1, InputStable
  <2>3. MarksExact'
    BY <1>11, <2>1, <2>2 DEF MarksExact
  <2>4. {k \in 0..Units-1 : marks'[k]} = IllFormed
    <3>1. IllFormed \subseteq 0..Units-1
      BY IInvFacts, IllFormedFacts
    <3>2. \A k \in 0..Units-1 : marks'[k] <=> k \in IllFormed
      BY <1>10, <1>11, <2>1
    <3>3. QED  BY <3>1, <3>2
  <2>5. CountIsPopcount'
    <3>1. IllBefore(Units) = IllFormed
      BY <1>3, IInvFacts, IllBeforeFacts
    <3>2. errorCount' = Cardinality({k \in 0..Units-1 : marks'[k]}) + OddTrailingByte
      BY <1>7, <1>9, <1>16, <2>1, <2>4, <3>1
    <3>3. errAccum' + InFlight' = Cardinality({k \in IllFormed : k < Cursor'})
      BY <1>14 DEF IllBefore
    <3>4. QED  BY <2>2, <3>2, <3>3 DEF CountIsPopcount
  <2>6. CarryExact' /\ Published'
    BY <2>1 DEF CarryExact, Published
  <2>7. ShownMarksWritten'
    <3>1. SUFFICES ASSUME NEW k \in 0..produced'-1, ~(k < processed' \div 2)
                   PROVE  /\ k = Units /\ OddTrailingByte = 1
                          /\ (FullBlocks' = 0 \/ HasTail') => ~marks'[k]
      BY <2>1, <2>2 DEF ShownMarksWritten
    <3>2. k = Units /\ OddTrailingByte = 1 /\ Cursor < MarkSlots /\ k = Cursor
      <4> HIDE DEF MarkTailDone
      <4>1. \A m, n \in Nat : m <= n => \A i \in 0..m-1 : i \in Nat /\ i < n
        OBVIOUS
      <4>2. produced' <= Units + OddTrailingByte /\ Units + OddTrailingByte \in Nat
        BY <1>3, <1>6, <2>1
      <4>3. k \in Nat /\ k < Units + OddTrailingByte
        BY <1>6, <4>1, <4>2, Zenon
      <4>4. ~(k < Units)
        BY <1>5, <2>1, <3>1, Zenon
      <4>5. QED  BY <1>3, <2>1, <4>3, <4>4
    <3>3. HasOddTailByte
      BY <1>4, <1>16, <3>2 DEF HasOddTailByte
    <3>4. FullBlocks' = FullBlocks /\ HasTail' = HasTail
      BY DEF FullBlocks, HasTail, TailBase, ValidUnits
    <3>5. QED  BY <1>1, <3>2, <3>3, <3>4, TailStoreFacts
  <2>8. QED  BY <1>12, <1>13, <2>3, <2>5, <2>6, <2>7 DEF IInv
<1>17. QED  BY <1>15, <1>16

\* Stuttering preserves the marks kernel's inductive invariant.
LEMMA StutterIInv ==
    ASSUME IInv, UNCHANGED vars
    PROVE  IInv'
<1> USE DEF IInv, vars, kernel, scalars, segment, blockLoopVars, tail, markStream
<1>1. UNCHANGED input
  OBVIOUS
<1>2. TypeOK'
  <2>1. FlagsTypeOK'
    BY DEF TypeOK, FlagsTypeOK
  <2>2. CountersTypeOK'
    BY <1>1, InputStable DEF TypeOK, CountersTypeOK, Lanes, BytesPerPack
  <2>3. MarksTypeOK'
    BY DEF TypeOK, MarksTypeOK
  <2>4. QED  BY <1>1, <2>1, <2>2, <2>3, InputStable DEF TypeOK
<1>3. FullBlocks' = FullBlocks /\ ValidUnits' = ValidUnits /\ TailBase' = TailBase
  BY DEF FullBlocks, ValidUnits, TailBase
<1>4. Geometry'
  BY <1>1, <1>3, InputStable DEF Geometry, SegmentGranted
<1>5. Cursor' = Cursor /\ InFlight' = InFlight /\ StoredTo' = StoredTo
  BY <1>3 DEF Cursor, InFlight, StoredTo
<1>6. MarksExact'
  BY <1>1, <1>5, InputStable DEF MarksExact
<1>7. CountIsPopcount'
  BY <1>1, <1>5, InputStable DEF CountIsPopcount
<1>8. ShownMarksWritten'
  BY <1>1, <1>3, InputStable DEF ShownMarksWritten, HasTail
<1>9. CarryExact'
  <2>1. CarriedHigh' <=> CarriedHigh
    BY <1>1, InputStable DEF CarriedHigh
  <2>2. QED  BY <1>1, <1>5, <2>1, InputStable DEF CarryExact
<1>10. Published'
  BY DEF Published
<1>11. QED  BY <1>2, <1>4, <1>6, <1>7, <1>8, <1>9, <1>10

\* Every step preserves the marks kernel's inductive invariant.
LEMMA NextIInv == IInv /\ [Next]_vars => IInv'
<1> SUFFICES ASSUME IInv, [Next]_vars PROVE IInv'
  OBVIOUS
<1>1. CASE Invoke           BY <1>1, InvokeIInv
<1>2. CASE Entry            BY <1>2, EntryIInv
<1>3. CASE MarkBlockLoop    BY <1>3, MarkBlockLoopIInv
<1>4. CASE AfterMarkBlocks  BY <1>4, AfterMarkBlocksIInv
<1>5. CASE MarkTailLoop     BY <1>5, MarkTailLoopIInv
<1>6. CASE MarkTailDone     BY <1>6, MarkTailDoneIInv
<1>7. CASE UNCHANGED vars   BY <1>7, StutterIInv
<1>8. QED
  BY <1>1, <1>2, <1>3, <1>4, <1>5, <1>6, <1>7 DEF Next, Step, Terminated

\* No byte is read beyond the segment and its two bytes of look-ahead.
LEMMA ReadsBounded == IInv => ReadsInBounds
<1> SUFFICES ASSUME IInv PROVE ReadsInBounds
  OBVIOUS
<1>1. HB \in {0, 1} /\ avail \in Nat /\ processed \in Nat /\ size \in Nat
  BY IInvFacts
<1>2. CASE pc = "markBlockLoop"
  <2>1. blk \in Nat /\ blk < FullBlocks
    BY <1>2 DEF IInv, Geometry, TypeOK, CountersTypeOK
  <2>2. (blk + 1) * BlockUnits <= ValidUnits /\ 2 * ValidUnits <= avail /\ ValidUnits \in Nat
    BY <1>1, <2>1, SegmentGeometry
  <2>3. (blk + 1) * PacksPerBlock * BytesPerPack = 2 * ((blk + 1) * BlockUnits)
        /\ (blk + 1) * BlockUnits \in Nat
    <3>1. (blk + 1) * PacksPerBlock * BytesPerPack = (blk + 1) * (PacksPerBlock * BytesPerPack)
      BY <2>1, PackFacts
    <3>2. blk + 1 \in Nat /\ BlockUnits \in Nat
      BY <2>1, PackFacts
    <3>3. (blk + 1) * (2 * BlockUnits) = 2 * ((blk + 1) * BlockUnits) /\ (blk + 1) * BlockUnits \in Nat
      BY <3>2, ProductStep
    <3>4. QED  BY <3>1, <3>3, PackFacts
  <2>4. ReadsTo <= avail /\ LooksAt < avail + 2
    BY <1>1, <1>2, <2>2, <2>3 DEF ReadsTo, LooksAt
  <2>5. processed + avail + (IF isFinal THEN 0 ELSE 2) <= size
    BY <1>1, <1>2 DEF IInv, Geometry, Running, SegmentGranted
  <2>6. QED  BY <1>2, <2>4, <2>5 DEF ReadsInBounds
<1>3. CASE pc # "markBlockLoop"
  <2>1. pc = "markTailLoop" => ReadsTo <= avail /\ LooksAt < avail + 2
    <3>1. SUFFICES ASSUME pc = "markTailLoop" PROVE ReadsTo <= avail /\ LooksAt < avail + 2
      OBVIOUS
    <3>2. idx \in Nat /\ idx < ValidUnits /\ ValidUnits \in Nat /\ 2 * ValidUnits <= avail
      BY <1>1, <3>1, SegmentGeometry DEF IInv, Geometry, TypeOK, CountersTypeOK
    <3>3. QED  BY <1>1, <1>3, <3>1, <3>2 DEF ReadsTo, LooksAt
  <2>2. pc \notin {"idle", "finished"} => processed + avail + (IF isFinal THEN 0 ELSE 2) <= size
    <3>1. pc \notin {"idle", "finished"} => SegmentGranted
      BY DEF IInv, Geometry, Running, TypeOK, FlagsTypeOK
    <3>2. QED  BY <1>1, <3>1 DEF SegmentGranted
  <2>3. QED  BY <1>3, <2>1, <2>2 DEF ReadsInBounds
<1>4. QED  BY <1>2, <1>3

-----------------------------------------------------------------------------
\* Every state of the marks kernel satisfies the inductive invariant.
THEOREM InductiveInvariant == Spec => []IInv
  BY InitIInv, NextIInv, PTL DEF Spec

\* At every step of every segmentation the marks stored and the bits of the
\* partial block are exactly the ill-formed units, the running count is their
\* number, in the end it is the population count of the marks plus the odd
\* byte, and no read leaves the segment and its look-ahead.
THEOREM MarksCorrect == Spec => []MarksInv
<1>1. IInv => MarksInv
  BY ReadsBounded DEF IInv, MarksInv
<1>2. QED  BY <1>1, InductiveInvariant, PTL

\* Every mark the consumers are shown has been written; the extra slot an odd
\* byte adds is zero where the kernel stores a block over it.
THEOREM ShownMarksAreWritten == Spec => []ShownMarksWritten
<1>1. IInv => ShownMarksWritten
  BY DEF IInv
<1>2. QED  BY <1>1, InductiveInvariant, PTL

\* A block of marks is stored only beyond what the consumers have been shown.
LEMMA ShownMarksKept ==
    ASSUME IInv, Next
    PROVE  \A k \in 0..produced-1 : marks'[k] = marks[k]
<1>1. SUFFICES ASSUME NEW k \in 0..produced-1, marks' # marks PROVE marks'[k] = marks[k]
  OBVIOUS
<1>2. pc # "finished" /\ (MarkBlockLoop \/ MarkTailDone)
  BY <1>1 DEF Next, Step, Terminated, Invoke, Entry, AfterMarkBlocks, MarkTailLoop,
              MarkBlockLoop, MarkTailDone, markStream, vars
<1>3. k \in 0..MarkSlots-1 /\ k < processed \div 2
  <2>1. produced \in Nat /\ produced <= MarkSlots /\ MarkSlots \in Nat /\ produced <= processed \div 2
        /\ (processed \div 2) \in Nat
    BY <1>2, IInvFacts DEF IInv, TypeOK, MarksTypeOK
  <2>2. QED  BY <2>1
<1>4. CASE MarkBlockLoop
  <2>1. blk \in Nat /\ BlockUnits \in Nat /\ marks \in [0..MarkSlots-1 -> BOOLEAN]
        /\ (processed \div 2) \in Nat
    BY IInvFacts, PackFacts DEF IInv, TypeOK, CountersTypeOK, MarksTypeOK
  <2>2. blk * BlockUnits \in Nat
    BY <2>1, ProductStep
  <2>3. ~(BlockBase(blk) <= k)
    BY <1>3, <2>1, <2>2 DEF BlockBase
  <2>4. Stored(blk, BlockBits(blk))[k] = marks[k]
    BY <1>3, <2>1, <2>3, StoredFacts
  <2>5. QED  BY <1>4, <2>4 DEF MarkBlockLoop
<1>5. CASE MarkTailDone
  BY <1>3, <1>5, TailStoreFacts DEF MarkTailDone
<1>6. QED  BY <1>2, <1>4, <1>5

\* A mark that a consumer may be reading never changes.
THEOREM ShownMarksAreStable == Spec => ShownMarksStable
<1>1. IInv /\ [Next]_vars => [\A k \in 0..produced-1 : marks'[k] = marks[k]]_vars
  BY ShownMarksKept
<1>2. QED  BY <1>1, InductiveInvariant, PTL DEF Spec, ShownMarksStable

-----------------------------------------------------------------------------
(* The kernel implements the validator's abstract specification.           *)

\* The abstract count is the ill-formed units and the odd trailing byte.
LEMMA AbstractCount ==
    ASSUME InputTypeOK
    PROVE  /\ Abstract!ErrorCount = Cardinality(IllFormed) + OddTrailingByte
           /\ Cardinality(IllFormed) \in Nat /\ OddTrailingByte \in {0, 1}
           /\ Abstract!ErrorCount \in Nat
<1>1. Abstract!ErrorCount = Cardinality(IllFormed) + OddTrailingByte
  <2>1. Abstract!Highs = Highs /\ Abstract!Lows = Lows
    BY DEF Abstract!Highs, Abstract!Lows, Abstract!Units, Abstract!UnitAt, Abstract!HighByte,
           Abstract!LowByte, Abstract!IsHighSurrogate, Abstract!IsLowSurrogate, Highs, Lows,
           Units, UnitAt, HighByte, LowByte, IsHighSurrogate, IsLowSurrogate
  <2>2. Abstract!IllFormed = IllFormed
    BY <2>1 DEF Abstract!IllFormed, IllFormed
  <2>3. Abstract!Cardinality(IllFormed) = Cardinality(IllFormed)
    BY Zenon DEF Abstract!Cardinality, Cardinality
  <2>4. QED  BY <2>2, <2>3 DEF Abstract!ErrorCount, Abstract!OddTrailingByte, OddTrailingByte
<1>2. QED  BY <1>1, IllFormedFacts, UnitsType

\* The marks kernel begins in an initial state of ValidatorSpec.
LEMMA InitRefines == Init => Abstract!Init
  BY DEF Init, InputInit, KernelInit, Abstract!Init, Abstract!InputInit

\* Publishing is the only step the specification sees: an intermediate segment
\* publishes a count between the last one and the true one, the final segment
\* the true one.
LEMMA StepRefines == IInv /\ [Next]_vars => [Abstract!Next]_(Abstract!specVars)
<1> SUFFICES ASSUME IInv, [Next]_vars, UNCHANGED Abstract!specVars => FALSE
             PROVE  Abstract!Next
  OBVIOUS
<1>1. MarkTailDone
  BY DEF Next, Step, Terminated, Invoke, Entry, AfterMarkBlocks, MarkTailLoop, MarkBlockLoop,
         scalars, vars, kernel, Abstract!specVars, Abstract!input, input
<1>2. /\ IInv' /\ UNCHANGED input /\ pc = "markTailDone"
      /\ isFinal \in BOOLEAN /\ pc' = (IF isFinal THEN "finished" ELSE "idle")
      /\ errAccum' = errAccum + (err + tErr) /\ errorCount' = errAccum' + OddByteError
  BY <1>1, MarkTailDoneIInv DEF MarkTailDone, IInv, TypeOK, FlagsTypeOK
<1>3. /\ errAccum \in Nat /\ err \in Nat /\ tErr \in Nat /\ errorCount \in Nat
      /\ errorCount <= errAccum
  BY <1>2, IInvFacts DEF IInv, TypeOK, CountersTypeOK
<1>4. /\ Abstract!ErrorCount = Cardinality(IllFormed) + OddTrailingByte
      /\ Cardinality(IllFormed) \in Nat /\ OddTrailingByte \in {0, 1}
  BY IInvFacts, AbstractCount
<1>5. errAccum' <= Cardinality(IllFormed)
  <2>1. errAccum' = Cardinality(IllBefore(Cursor)) /\ Cursor \in Int
    BY <1>2, IInvFacts, TailFacts
  <2>2. QED  BY <2>1, IInvFacts, IllBeforeFacts
<1>6. CASE ~isFinal
  <2>1. errorCount' = errAccum'
    BY <1>2, <1>3, <1>6 DEF OddByteError
  <2>2. errorCount' \in errorCount..Abstract!ErrorCount
    BY <1>2, <1>3, <1>4, <1>5, <2>1
  <2>3. QED  BY <1>2, <1>6, <2>2 DEF Abstract!Next, Abstract!Publish, Abstract!input, input
<1>7. CASE isFinal
  <2>1. errorCount' = Abstract!ErrorCount
    <3>1. errorCount' = Cardinality({k \in 0..Units-1 : marks[k]})' + OddTrailingByte'
      BY <1>2, <1>7 DEF IInv, CountIsPopcount
    <3>2. \A k \in 0..Units'-1 : marks'[k] <=> k \in IllFormed'
      <4>1. StoredTo' = Units'
        <5>1. pc' = "finished" /\ processed' = size' /\ size' \in Nat
          BY <1>2, <1>7, IInvFacts, InputStable DEF IInv, Geometry
        <5>2. StoredTo' = (processed' \div 2) + 0
          BY <5>1 DEF StoredTo
        <5>3. QED  BY <5>1, <5>2 DEF Units
      <4>2. QED  BY <1>2, <4>1 DEF IInv, MarksExact
    <3>3. OddTrailingByte' = OddTrailingByte /\ IllFormed' = IllFormed /\ Units' = Units
      BY <1>2, InputStable
    <3>4. {k \in 0..Units-1 : marks'[k]} = IllFormed
      BY <3>2, <3>3, IInvFacts, IllFormedFacts
    <3>5. QED  BY <1>4, <3>1, <3>3, <3>4
  <2>2. errorCount <= Abstract!ErrorCount
    BY <1>2, <1>3, <1>4, <1>5
  <2>3. QED  BY <1>2, <1>7, <2>1, <2>2 DEF Abstract!Next, Abstract!Finish, Abstract!input, input
<1>8. QED  BY <1>2, <1>6, <1>7

\* The safety part of Refines: however the input is cut into segments, the
\* published count only grows, never passes the true count, and is the true
\* count from the moment the kernel has finished.
THEOREM ImplementsValidator == Spec => Abstract!SafetySpec
<1>1. Init => Abstract!Init
  BY InitRefines
<1>2. QED  BY <1>1, StepRefines, InductiveInvariant, PTL DEF Spec, Abstract!SafetySpec


-----------------------------------------------------------------------------
(* Part 2: the printers and the repair.                                    *)

-----------------------------------------------------------------------------
(* Increasing sequences of numbers.                                        *)

Increasing(s) == \A i, j \in 1..Len(s) : i < j => s[i] < s[j]

\* Every finite set of numbers can be listed in ascending order.
LEMMA AscendingExists ==
    ASSUME NEW n \in Nat, NEW S \in SUBSET (0..n-1)
    PROVE  \E s \in [1..Cardinality(S) -> S] :
              \A i, j \in 1..Cardinality(S) : i < j => s[i] < s[j]
<1> DEFINE Listed(X) == \E s \in [1..Cardinality(X) -> X] :
                          \A i, j \in 1..Cardinality(X) : i < j => s[i] < s[j]
           Good == {m \in Nat : \A X \in SUBSET (0..m-1) : Listed(X)}
<1>1. 0 \in Good
  <2>1. ASSUME NEW X \in SUBSET (0..0-1) PROVE Listed(X)
    <3>0. X = {}
      OBVIOUS
    <3>1. Cardinality(X) = 0
      BY <3>0, FS_EmptySet
    <3>2. [i \in 1..0 |-> 0] \in [1..Cardinality(X) -> X]
      BY <3>0, <3>1
    <3>3. \A i, j \in 1..Cardinality(X) : FALSE
      BY <3>1
    <3>4. QED  BY <3>2, <3>3
  <2>2. QED  BY <2>1
<1>2. ASSUME NEW m \in Nat, m \in Good PROVE m + 1 \in Good
  <2>1. ASSUME NEW X \in SUBSET (0..m) PROVE Listed(X)
    <3> DEFINE Y == X \ {m}
    <3>1. Y \in SUBSET (0..m-1) /\ IsFiniteSet(Y)
      <4>1. IsFiniteSet(0..m-1)
        BY FS_Interval
      <4>2. Y \in SUBSET (0..m-1)
        OBVIOUS
      <4>3. QED  BY <4>1, <4>2, FS_Subset
    <3>2. Listed(Y)
      BY <1>2, <3>1
    <3>3. CASE m \notin X
      <4>1. Y = X
        BY <3>3
      <4>2. QED  BY <3>2, <4>1
    <3>4. CASE m \in X
      <4> DEFINE c == Cardinality(Y)
      <4>1. X = Y \cup {m} /\ Cardinality(X) = c + 1 /\ c \in Nat
        <5>1. X = Y \cup {m} /\ m \notin Y
          BY <3>4
        <5>2. QED  BY <3>1, <5>1, FS_AddElement, FS_CardinalityType
      <4>2. PICK s \in [1..c -> Y] : \A i, j \in 1..c : i < j => s[i] < s[j]
        BY <3>2
      <4> DEFINE t == [i \in 1..c+1 |-> IF i = c + 1 THEN m ELSE s[i]]
      <4> HIDE DEF c, Y
      <4>3. t \in [1..c+1 -> X]
        <5>1. ASSUME NEW i \in 1..c+1 PROVE (IF i = c + 1 THEN m ELSE s[i]) \in X
          <6>1. i # c + 1 => i \in 1..c
            BY <4>1
          <6>2. QED  BY <4>1, <4>2, <6>1, <3>4
        <5>2. QED  BY <5>1
      <4>4. ASSUME NEW i \in 1..c+1, NEW j \in 1..c+1, i < j PROVE t[i] < t[j]
        <5>1. i \in 1..c /\ t[i] = s[i] /\ s[i] \in Y
          BY <4>1, <4>2, <4>4
        <5>2. \A y \in Y : y < m
          BY <3>1
        <5>3. CASE j = c + 1
          BY <5>1, <5>2, <5>3
        <5>4. CASE j # c + 1
          <6>1. j \in 1..c /\ t[j] = s[j]
            BY <4>1, <5>4
          <6>2. QED  BY <4>2, <4>4, <5>1, <6>1
        <5>5. QED  BY <5>3, <5>4
      <4>5. QED  BY <4>1, <4>3, <4>4
    <3>5. QED  BY <3>3, <3>4
  <2>2. (m + 1) - 1 = m
    OBVIOUS
  <2>3. QED  BY <2>1, <2>2
<1>3. Nat \subseteq Good
  <2> HIDE DEF Good
  <2>1. QED  BY <1>1, <1>2, InductionOnNat
<1>4. QED  BY <1>3

\* An increasing sequence has as many elements as its range.
LEMMA IncreasingSize ==
    ASSUME NEW s \in Seq(Nat), Increasing(s)
    PROVE  Cardinality(Range(s)) = Len(s) /\ IsFiniteSet(Range(s))
<1>1. s \in [1..Len(s) -> Range(s)] /\ DOMAIN s = 1..Len(s) /\ Len(s) \in Nat
  BY DEF Range
<1>2. \A i, j \in 1..Len(s) : s[i] = s[j] => i = j
  BY DEF Increasing
<1>3. s \in Bijection(1..Len(s), Range(s))
  <2>1. s \in Injection(1..Len(s), Range(s))
    BY <1>1, <1>2 DEF Injection, IsInjective
  <2>2. s \in Surjection(1..Len(s), Range(s))
    BY <1>1 DEF Surjection, Range
  <2>3. QED  BY <2>1, <2>2 DEF Bijection
<1>4. ExistsBijection(1..Len(s), Range(s))
  BY <1>3 DEF ExistsBijection
<1>5. IsFiniteSet(1..Len(s)) /\ Cardinality(1..Len(s)) = Len(s)
  <2>1. \A n \in Nat : (IF 1 > n THEN 0 ELSE n - 1 + 1) = n
    OBVIOUS
  <2>2. Len(s) \in Nat /\ Len(s) \in Int /\ 1 \in Int
    BY <1>1
  <2>3. /\ IsFiniteSet(1..Len(s))
        /\ Cardinality(1..Len(s)) = IF 1 > Len(s) THEN 0 ELSE Len(s) - 1 + 1
    BY <2>2, FS_Interval
  <2>4. QED  BY <2>1, <2>2, <2>3
<1>6. QED  BY <1>4, <1>5, FS_Bijection

\* Ascending lists a set: its elements, each once, in order.
LEMMA AscendingLists ==
    ASSUME NEW n \in Nat, NEW S \in SUBSET (0..n-1)
    PROVE  /\ Ascending(S) \in Seq(Nat) /\ Increasing(Ascending(S))
           /\ Range(Ascending(S)) = S
<1> DEFINE c == Cardinality(S)
           s == Ascending(S)
<1>1. s \in [1..c -> S] /\ \A i, j \in 1..c : i < j => s[i] < s[j]
  BY AscendingExists DEF Ascending
<1>2. IsFiniteSet(S) /\ c \in Nat
  <2>1. IsFiniteSet(0..n-1)
    BY FS_Interval
  <2>2. QED  BY <2>1, FS_Subset, FS_CardinalityType
<1> HIDE DEF c, s
<1>3. s \in Seq(Nat) /\ Len(s) = c /\ DOMAIN s = 1..c
  <2>1. s \in [1..c -> Nat]
    <3>1. S \subseteq Nat
      OBVIOUS
    <3>2. QED  BY <1>1, <3>1
  <2>2. QED  BY <1>2, <2>1
<1>4. Increasing(s) /\ Range(s) \subseteq S
  BY <1>1, <1>3 DEF Increasing, Range
<1>5. Cardinality(Range(s)) = c
  BY <1>3, <1>4, IncreasingSize
<1>6. Range(s) = S
  BY <1>2, <1>4, <1>5, FS_Subset DEF c
<1>7. QED  BY <1>3, <1>4, <1>6 DEF s

\* Two increasing sequences with the same elements are the same.
LEMMA IncreasingUnique ==
    ASSUME NEW s \in Seq(Nat), NEW t \in Seq(Nat), Increasing(s), Increasing(t),
           Range(s) = Range(t)
    PROVE  s = t
<1>1. Len(s) = Len(t)
  BY IncreasingSize
<1> DEFINE n == Len(s)
           T == {i \in 1..n : s[i] # t[i]}
<1>2. /\ n \in Nat /\ s \in [1..n -> Nat] /\ t \in [1..n -> Nat]
      /\ Range(s) = {s[i] : i \in 1..n} /\ Range(t) = {t[i] : i \in 1..n}
  BY <1>1 DEF Range
<1>3. ASSUME T # {} PROVE FALSE
  <2>1. T \subseteq Nat
    OBVIOUS
  <2>2. PICK i \in T : \A m \in T : i <= m
    BY <1>3, <2>1, LeastNatural
  <2>3. \A j \in 1..n : j < i => s[j] = t[j]
    BY <2>2
  <2>4. PICK j \in 1..n : s[i] = t[j]
    BY <1>2, <2>2
  <2>5. PICK k \in 1..n : t[i] = s[k]
    BY <1>2, <2>2
  <2>6. i \in 1..n /\ s[i] # t[i]
    BY <2>2
  <2>7. j > i
    <3>1. j # i
      BY <2>4, <2>6
    <3>2. j < i => FALSE
      <4>1. ASSUME j < i PROVE FALSE
        <5>1. s[j] < s[i] /\ s[j] = t[j]
          BY <2>3, <2>6, <4>1 DEF Increasing
        <5>2. QED  BY <1>2, <2>4, <5>1
      <4>2. QED  BY <4>1
    <3>3. QED  BY <2>6, <3>1, <3>2
  <2>8. k > i
    <3>1. k # i
      BY <2>5, <2>6
    <3>2. k < i => FALSE
      <4>1. ASSUME k < i PROVE FALSE
        <5>1. t[k] < t[i] /\ s[k] = t[k]
          BY <1>1, <2>3, <2>6, <4>1 DEF Increasing
        <5>2. QED  BY <1>2, <2>5, <5>1
      <4>2. QED  BY <4>1
    <3>3. QED  BY <2>6, <3>1, <3>2
  <2>9. t[i] < t[j] /\ s[i] < s[k]
    BY <1>1, <2>6, <2>7, <2>8 DEF Increasing
  <2>10. QED  BY <1>2, <2>4, <2>5, <2>6, <2>9
<1>4. QED  BY <1>2, <1>3

\* An increasing sequence goes on with larger numbers.
LEMMA IncreasingJoin ==
    ASSUME NEW s \in Seq(Nat), NEW t \in Seq(Nat), Increasing(s), Increasing(t),
           \A x \in Range(s), y \in Range(t) : x < y
    PROVE  /\ s \o t \in Seq(Nat) /\ Increasing(s \o t)
           /\ Range(s \o t) = Range(s) \cup Range(t)
<1> DEFINE u == s \o t
           m == Len(s)
           n == Len(t)
<1>1. /\ u \in Seq(Nat) /\ m \in Nat /\ n \in Nat /\ Len(u) = m + n
      /\ \A i \in 1..m : u[i] = s[i]
      /\ \A i \in m+1..m+n : i - m \in 1..n /\ u[i] = t[i - m]
      /\ DOMAIN u = 1..m+n /\ DOMAIN s = 1..m /\ DOMAIN t = 1..n
  OBVIOUS
<1>2. \A i \in 1..m : s[i] \in Range(s)
  BY DEF Range
<1>3. \A i \in 1..n : t[i] \in Range(t)
  BY DEF Range
<1> HIDE DEF u, m, n
<1>4. ASSUME NEW i \in 1..m+n, NEW j \in 1..m+n, i < j PROVE u[i] < u[j]
  <2>1. CASE j <= m
    <3>1. i \in 1..m /\ j \in 1..m
      BY <1>1, <1>4, <2>1
    <3>2. s[i] < s[j]
      BY <1>4, <3>1 DEF Increasing, m
    <3>3. QED  BY <1>1, <3>1, <3>2
  <2>2. CASE j > m /\ i <= m
    <3>1. i \in 1..m /\ j \in m+1..m+n
      BY <1>1, <1>4, <2>2
    <3>2. u[i] \in Range(s) /\ u[j] \in Range(t)
      BY <1>1, <1>2, <1>3, <3>1
    <3>3. QED  BY <3>2
  <2>3. CASE i > m
    <3>1. i \in m+1..m+n /\ j \in m+1..m+n /\ i - m < j - m
      BY <1>1, <1>4, <2>3
    <3>2. i - m \in 1..n /\ j - m \in 1..n /\ u[i] = t[i - m] /\ u[j] = t[j - m]
      BY <1>1, <3>1
    <3>3. QED  BY <3>1, <3>2 DEF Increasing, n
  <2>4. QED  BY <1>1, <1>4, <2>1, <2>2, <2>3
<1>5. Increasing(u)
  BY <1>1, <1>4 DEF Increasing
<1>6. Range(u) = Range(s) \cup Range(t)
  <2>1. /\ Range(u) = {u[i] : i \in 1..m+n} /\ Range(s) = {s[i] : i \in 1..m}
        /\ Range(t) = {t[i] : i \in 1..n}
    BY <1>1 DEF Range, m, n
  <2>2. Range(u) \subseteq Range(s) \cup Range(t)
    <3>1. ASSUME NEW i \in 1..m+n PROVE u[i] \in Range(s) \cup Range(t)
      <4>1. i \in 1..m \/ i \in m+1..m+n
        BY <1>1
      <4>2. QED  BY <1>1, <1>2, <1>3, <4>1 DEF m, n
    <3>2. QED  BY <2>1, <3>1
  <2>3. Range(s) \subseteq Range(u)
    <3>1. \A i \in 1..m : i \in 1..m+n
      BY <1>1
    <3>2. QED  BY <1>1, <2>1, <3>1
  <2>4. Range(t) \subseteq Range(u)
    <3>1. ASSUME NEW i \in 1..n PROVE m + i \in 1..m+n /\ u[m + i] = t[i]
      <4>1. m + i \in m+1..m+n /\ (m + i) - m = i
        BY <1>1
      <4>2. QED  BY <1>1, <4>1
    <3>2. QED  BY <2>1, <3>1
  <2>5. QED  BY <2>2, <2>3, <2>4
<1>7. QED  BY <1>1, <1>5, <1>6 DEF u

-----------------------------------------------------------------------------
(* What holds between the two processes.                                   *)

\* How many units a consumer looks at in one visit, and how far it has come.
VisitUnits ==
    CASE consumer = "linear" -> BlockUnits
      [] consumer = "scan" -> ScanStride
      [] consumer = "repair" -> 1

Reached == consumed + (IF cpc = "loop" THEN at * VisitUnits ELSE 0)

ConsumerTypes ==
    /\ consumer \in {"linear", "scan", "repair"}
    /\ cpc \in {"idle", "loop", "finished"}
    /\ consumed \in Nat /\ accessible \in Nat /\ at \in Nat /\ rounds \in Nat
    /\ last \in BOOLEAN
    /\ positions \in Seq(Nat) /\ repaired \in Seq(Nat)

\* The visits of a call cover what is accessible; all but those of the last
\* call of the scan begin within it, and those of any other call of the scan
\* end within it.
CallCovered ==
    /\ accessible <= rounds * VisitUnits
    /\ (consumer = "scan" /\ last) \/ rounds * VisitUnits < accessible + VisitUnits
    /\ consumer = "scan" /\ ~last => rounds * VisitUnits = accessible

\* A call is about marks that are shown, and the last about all of them.
Extent ==
    /\ pc = "finished" => Units <= produced
    /\ cpc # "loop" => consumed <= produced
    /\ cpc = "loop" =>
          /\ consumed + accessible <= produced
          /\ at < rounds
          /\ last => pc = "finished" /\ consumed + accessible = produced
          /\ CallCovered
    /\ cpc = "finished" => pc = "finished" /\ consumed = produced

\* What is printed: right as far as the printer has come, in order, and, past
\* the end of the input, only what nobody wrote.
PrintInv ==
    consumer \in {"linear", "scan"} =>
        /\ Increasing(positions)
        /\ cpc # "finished" => \A k \in Printed : k < Reached
        /\ \A k \in 0..Units-1 : k \in Printed <=> k \in IllFormed /\ k < Reached
        /\ \A k \in Printed : k >= Units =>
              /\ pc = "finished" /\ k \in StaleMarks
              /\ consumer = "linear" => UnwrittenSlot

\* The byte the repaired text should have in a unit of the input.
RightByte(k, offset) ==
    IF k \in IllFormed THEN ReplacementByte(offset) ELSE data[2 * k + offset]

RepairInv ==
    consumer = "repair" =>
        /\ Reached <= produced
        /\ Len(repaired) = IF Reached <= Units THEN 2 * Reached ELSE size
        /\ \A k \in 0..Units-1 : k < Reached =>
              /\ repaired[2 * k + 1] = RightByte(k, 0)
              /\ repaired[2 * k + 2] = RightByte(k, 1)

PipelineInv == IInv /\ ConsumerTypes /\ Extent /\ PrintInv /\ RepairInv

\* The decoder, besides what its own invariant says: its positions are in
\* order, and what it repairs is what encode_code_units makes of them.
DecodeInv ==
    /\ O!TypeOK /\ O!ScanExact
    /\ Increasing(opositions)
    /\ opc # "scan" => oindex = Units
    /\ opc = "done" =>
          /\ orepairedSize = 2 * O!RepairedUnits
          /\ orepaired = [i \in 0..(2 * O!RepairedUnits)-1 |->
                             O!EncodedByte(O!RepairedUnit(i \div 2), i % 2)]

-----------------------------------------------------------------------------
(* The marks a consumer is shown, and the steps of the producer.           *)

\* What the consumers need to know of the sizes, from the kernel's invariant.
LEMMA SizesFacts ==
    ASSUME IInv
    PROVE  /\ InputTypeOK /\ size \in Nat /\ Units \in Nat /\ HB \in {0, 1}
           /\ size = 2 * Units + OddTrailingByte /\ OddTrailingByte \in {0, 1}
           /\ produced \in Nat /\ produced <= MarkSlots /\ MarkSlots \in Nat
           /\ Units <= MarkSlots
           /\ BlockUnits \in Nat \ {0} /\ ScanStride \in Nat \ {0}
           /\ IllFormed \subseteq 0..Units-1
           /\ marks \in [0..MarkSlots-1 -> BOOLEAN]
<1>1. InputTypeOK /\ size \in Nat /\ Units \in Nat /\ HB \in {0, 1} /\ MarkSlots \in Nat
      /\ produced \in Nat
  BY IInvFacts
<1>2. produced <= MarkSlots /\ marks \in [0..MarkSlots-1 -> BOOLEAN]
  BY <1>1 DEF IInv, TypeOK, MarksTypeOK
<1>3. Units <= MarkSlots
  <2>1. /\ (size + 1) \div 2 <= MarkSlots /\ Units <= (size + 1) \div 2
        /\ (size + 1) \div 2 \in Nat
    BY <1>1, SlotsSuffice
  <2>2. QED  BY <1>1, <2>1
<1>4. BlockUnits \in Nat \ {0} /\ ScanStride \in Nat \ {0}
  <2>1. \A m, n \in Nat \ {0} : m * n \in Nat \ {0}
    OBVIOUS
  <2>2. QED  BY <2>1, PackFacts, ScanStrideAssumption DEF ScanStride
<1>5. QED  BY <1>1, <1>2, <1>3, <1>4, UnitsType, IllFormedFacts

\* A mark shown is right if it is a code unit's; one more may be shown in the
\* end, and it is set only where nobody wrote.
LEMMA ShownMark ==
    ASSUME IInv, NEW k \in 0..produced-1
    PROVE  /\ k < Units => (marks[k] <=> k \in IllFormed)
           /\ k >= Units => /\ pc = "finished" /\ k = Units /\ OddTrailingByte = 1
                            /\ marks[k] => UnwrittenSlot
<1>1. /\ processed \in Nat /\ (processed \div 2) \in Nat /\ Units \in Nat
      /\ processed <= size /\ size \in Nat /\ processed \div 2 <= Units
  <2>1. processed \in Nat /\ (processed \div 2) \in Nat /\ processed <= size /\ size \in Nat
        /\ Units \in Nat
    BY IInvFacts
  <2>2. \A m, n \in Nat : m <= n => m \div 2 <= n \div 2
    OBVIOUS
  <2>3. QED  BY <2>1, <2>2 DEF Units
<1>2. processed \div 2 <= StoredTo /\ StoredTo \in Nat
  <2>1. blk \in Nat /\ avail \in Nat /\ BlockUnits \in Nat /\ TailBase \in Nat
    BY IInvFacts, PackFacts, SegmentGeometry DEF IInv, TypeOK, CountersTypeOK
  <2>2. blk * BlockUnits \in Nat
    BY <2>1, ProductStep
  <2>3. pc \in {"idle", "entry", "markBlockLoop", "afterMarkBlocks",
               "markTailLoop", "markTailDone", "finished"}
    BY DEF IInv, TypeOK, FlagsTypeOK
  <2>4. QED  BY <1>1, <2>1, <2>2, <2>3 DEF StoredTo
<1>3. \/ k < processed \div 2
      \/ /\ k = Units /\ OddTrailingByte = 1 /\ pc = "finished"
         /\ FullBlocks = 0 \/ HasTail => ~marks[k]
  BY DEF IInv, ShownMarksWritten
<1>4. k < processed \div 2 => k < Units /\ k \in 0..StoredTo-1
  BY <1>1, <1>2
<1>5. k < processed \div 2 => (marks[k] <=> k \in IllFormed)
  BY <1>4 DEF IInv, MarksExact
<1>6. k < Units => k < processed \div 2
  BY <1>1, <1>3
<1>7. k >= Units => /\ pc = "finished" /\ k = Units /\ OddTrailingByte = 1
                    /\ marks[k] => UnwrittenSlot
  BY <1>1, <1>3, <1>4 DEF UnwrittenSlot
<1>8. QED  BY <1>5, <1>6, <1>7

\* A step of the producer shows more marks, and all of them in the end, and
\* leaves those already shown as they are.
LEMMA ProducerMoves ==
    ASSUME IInv, Step
    PROVE  /\ IInv' /\ UNCHANGED input /\ pc # "finished"
           /\ produced <= produced'
           /\ \A k \in 0..produced-1 : marks'[k] = marks[k]
           /\ pc' = "finished" => Units <= produced'
<1>1. UNCHANGED input /\ pc # "finished"
  BY DEF Step, Invoke, Entry, MarkBlockLoop, AfterMarkBlocks, MarkTailLoop, MarkTailDone
<1>2. IInv' /\ \A k \in 0..produced-1 : marks'[k] = marks[k]
  BY NextIInv, ShownMarksKept DEF Next
<1>3. produced \in Nat
  BY IInvFacts
<1>4. CASE MarkTailDone
  <2>1. /\ processed \in Nat /\ avail \in Nat /\ (processed \div 2) \in Nat
        /\ produced <= processed \div 2 /\ processed = 2 * (processed \div 2)
    BY <1>1, IInvFacts
  <2>2. ValidUnits \in Nat /\ (avail + 1) \div 2 \in Nat /\ ValidUnits <= (avail + 1) \div 2
    BY <2>1 DEF ValidUnits
  <2>3. produced' \in {processed \div 2 + ValidUnits,
                       processed \div 2 + (avail + 1) \div 2}
    BY <1>4 DEF MarkTailDone
  <2>4. processed \div 2 + ValidUnits <= produced' /\ produced' \in Nat
    BY <2>1, <2>2, <2>3
  <2>5. produced <= produced'
    BY <1>3, <2>1, <2>2, <2>4
  <2>6. ASSUME pc' = "finished" PROVE Units <= produced'
    <3>1. isFinal
      BY <1>4, <2>6 DEF MarkTailDone
    <3>2. SegmentGranted
      BY <1>4 DEF MarkTailDone, IInv, Geometry, Running
    <3>3. processed + avail = size
      BY <3>1, <3>2 DEF SegmentGranted
    <3>4. \A m, n \in Nat : (2 * m + n) \div 2 = m + n \div 2
      OBVIOUS
    <3>5. Units = processed \div 2 + ValidUnits
      BY <2>1, <3>3, <3>4 DEF Units, ValidUnits
    <3>6. QED  BY <2>4, <3>5
  <2>7. QED  BY <1>1, <1>2, <2>5, <2>6
<1>5. CASE ~MarkTailDone
  <2>1. UNCHANGED produced /\ pc' # "finished"
    BY <1>5 DEF Step, Invoke, Entry, MarkBlockLoop, AfterMarkBlocks, MarkTailLoop,
                markStream
  <2>2. QED  BY <1>1, <1>2, <1>3, <2>1
<1>6. QED  BY <1>4, <1>5

\* Nothing said of the consumer's progress changes with the producer.
LEMMA ProduceKeeps == PipelineInv /\ Produce => PipelineInv'
<1> SUFFICES ASSUME PipelineInv, Produce PROVE PipelineInv'
  OBVIOUS
<1> USE DEF consumerVars, call, results
<1>1. /\ IInv' /\ UNCHANGED input /\ pc # "finished" /\ produced <= produced'
      /\ pc' = "finished" => Units <= produced'
  BY ProducerMoves DEF PipelineInv, Produce
<1>2. UNCHANGED <<consumer, cpc, consumed, accessible, last, at, rounds, positions, repaired>>
  BY DEF Produce
<1>3. UNCHANGED <<VisitUnits, Reached, Printed, Units, IllFormed, CallCovered>>
      /\ size' = size /\ data' = data /\ HB' = HB
  BY <1>1, <1>2, InputStable DEF VisitUnits, Reached, Printed, ScanStride, CallCovered
<1>4. produced \in Nat /\ produced' \in Nat /\ Units \in Nat
  BY <1>1, IInvFacts DEF PipelineInv, IInv, TypeOK, MarksTypeOK
<1>5. ConsumerTypes'
  BY <1>2 DEF PipelineInv, ConsumerTypes
<1>6. Extent'
  <2>1. consumed \in Nat /\ accessible \in Nat
    BY DEF PipelineInv, ConsumerTypes
  <2>2. QED  BY <1>1, <1>2, <1>3, <1>4, <2>1 DEF PipelineInv, Extent
<1>7. PrintInv'
  <2>1. consumer \in {"linear", "scan"} => \A k \in Printed : ~(k >= Units)
    BY <1>1 DEF PipelineInv, PrintInv
  <2>2. QED  BY <1>2, <1>3, <2>1 DEF PipelineInv, PrintInv, Increasing
<1>8. RepairInv'
  <2>1. \A k, i : RightByte(k, i)' = RightByte(k, i)
    BY <1>3 DEF RightByte, ReplacementByte
  <2>2. cpc \in {"idle", "loop", "finished"} /\ consumed \in Nat /\ at \in Nat
    BY DEF PipelineInv, ConsumerTypes
  <2>3. consumer = "repair" => Reached \in Nat
    BY <2>2 DEF Reached, VisitUnits
  <2>4. consumer = "repair" => Reached <= produced'
    BY <1>1, <1>4, <2>3 DEF PipelineInv, RepairInv
  <2>5. QED  BY <1>2, <1>3, <2>4 DEF PipelineInv, RepairInv, RightByte, ReplacementByte
<1>9. QED  BY <1>1, <1>5, <1>6, <1>7, <1>8 DEF PipelineInv

-----------------------------------------------------------------------------
(* The steps of the consumer.                                              *)

\* While the kernel rests, the input and the marks stay as they are.
LEMMA KernelStill ==
    ASSUME UNCHANGED vars
    PROVE  /\ size' = size /\ data' = data /\ HB' = HB /\ pc' = pc
           /\ marks' = marks /\ produced' = produced
           /\ Units' = Units /\ IllFormed' = IllFormed /\ UnwrittenSlot' = UnwrittenSlot
           /\ StaleMarks' = StaleMarks
<1> USE DEF vars, kernel, segment, markStream
<1>1. UNCHANGED input
  OBVIOUS
<1>2. UnwrittenSlot' = UnwrittenSlot
  BY <1>1, InputStable DEF UnwrittenSlot, FullBlocks, HasTail, TailBase, ValidUnits
<1>3. QED  BY <1>1, <1>2, InputStable DEF StaleMarks

\* The number of visits of a call, whatever the consumer.
LEMMA VisitsRoundUp ==
    ASSUME NEW n \in Nat, NEW b \in Nat \ {0}
    PROVE  LET q == (n + b - 1) \div b
           IN  q \in Nat /\ n <= q * b /\ q * b < n + b /\ (n % b = 0 => q * b = n)
<1> DEFINE q == (n + b - 1) \div b
<1>1. n + b - 1 \in Nat
  OBVIOUS
<1>2. q \in Nat /\ q * b <= n + b - 1 /\ n + b - 1 < q * b + b
  BY <1>1, QuotientBounds
<1>3. q * b \in Nat
  BY <1>2, ProductStep
<1> HIDE DEF q
<1>4. ASSUME n % b = 0 PROVE q * b = n
  <2> DEFINE m == n \div b
  <2>1. m \in Nat /\ n = m * b
    BY <1>4, QuotientBounds, ExactQuotient
  <2> HIDE DEF m
  <2>2. ASSUME q >= m + 1 PROVE FALSE
    <3>1. (m + 1) * b <= q * b /\ (m + 1) * b = m * b + b
      BY <1>2, <2>1, <2>2, ProductMonotone, ProductStep
    <3>2. QED  BY <1>2, <1>3, <2>1, <3>1
  <2>3. q <= m
    BY <1>2, <2>1, <2>2
  <2>4. q * b <= m * b
    BY <1>2, <2>1, <2>3, ProductMonotone
  <2>5. QED  BY <1>2, <1>3, <2>1, <2>4
<1>5. QED  BY <1>2, <1>3, <1>4 DEF q

\* What a consumer's call is given: items already produced, and rounds enough
\* to visit all of them.
LEMMA CallFacts ==
    ASSUME PipelineInv, cpc = "idle", NEW n \in Callable, NEW r \in Rounds(n)
    PROVE  /\ n \in Nat /\ r \in Nat /\ consumed + n <= produced
           /\ pc = "finished" => consumed + n = produced
           /\ n <= r * VisitUnits
           /\ (consumer = "scan" /\ pc = "finished") \/ r * VisitUnits < n + VisitUnits
           /\ consumer = "scan" /\ pc # "finished" => r * VisitUnits = n
<1>1. /\ consumed \in Nat /\ produced \in Nat /\ consumed <= produced
      /\ consumer \in {"linear", "scan", "repair"}
      /\ BlockUnits \in Nat \ {0} /\ ScanStride \in Nat \ {0}
  BY SizesFacts DEF PipelineInv, ConsumerTypes, Extent
<1>2. Unread \in Nat /\ consumed + Unread = produced
  BY <1>1 DEF Unread
<1>3. n \in Nat /\ n <= Unread /\ (pc = "finished" => n = Unread)
      /\ (consumer = "scan" /\ pc # "finished" => n % ScanStride = 0)
  <2>1. CASE pc = "finished"
    BY <1>2, <2>1 DEF Callable
  <2>2. CASE n = Unread /\ pc # "finished" /\ (consumer = "scan" => n % ScanStride = 0)
    BY <1>2, <2>2
  <2>3. CASE n = (Unread \div ScanStride) * ScanStride /\ pc # "finished"
    <3>1. (Unread \div ScanStride) \in Nat /\ n <= Unread
      BY <1>1, <1>2, <2>3, QuotientBounds
    <3>2. \A q \in Nat, b \in Nat \ {0} : q * b \in Nat /\ (q * b) % b = 0
      <4>1. ASSUME NEW q \in Nat, NEW b \in Nat \ {0} PROVE q * b \in Nat /\ (q * b) % b = 0
        <5>1. q * b \in Nat
          BY ProductStep
        <5> DEFINE p == q * b
        <5>2. p \in Nat /\ (p \div b) \in Nat /\ (p \div b) * b <= p /\ p < (p \div b) * b + b
              /\ p = (p \div b) * b + (p % b) /\ (p % b) \in Nat
          BY <5>1
        <5>3. p \div b = q
          <6> DEFINE d == p \div b
          <6>1. d \in Nat /\ d * b <= q * b /\ q * b < d * b + b /\ d * b \in Nat
            BY <5>1, <5>2, ProductStep
          <6> HIDE DEF d
          <6>2. ASSUME d >= q + 1 PROVE FALSE
            <7>1. (q + 1) * b <= d * b /\ (q + 1) * b = q * b + b
              BY <6>1, <6>2, ProductMonotone, ProductStep
            <7>2. QED  BY <5>1, <6>1, <7>1
          <6>3. ASSUME q >= d + 1 PROVE FALSE
            <7>1. (d + 1) * b <= q * b /\ (d + 1) * b = d * b + b
              BY <6>1, <6>3, ProductMonotone, ProductStep
            <7>2. QED  BY <5>1, <6>1, <7>1
          <6>4. d = q
            BY <6>1, <6>2, <6>3
          <6>5. QED  BY <6>4 DEF d
        <5>4. QED  BY <5>1, <5>2, <5>3
      <4>2. QED  BY <4>1
    <3>3. QED  BY <1>1, <2>3, <3>1, <3>2
  <2>4. QED  BY <2>1, <2>2, <2>3 DEF Callable
<1>4. CASE consumer = "linear"
  <2>1. r = (n + BlockUnits - 1) \div BlockUnits /\ VisitUnits = BlockUnits
    BY <1>4 DEF Rounds, NumBlocks, VisitUnits
  <2>2. r \in Nat /\ n <= r * BlockUnits /\ r * BlockUnits < n + BlockUnits
    BY <1>1, <1>3, <2>1, VisitsRoundUp
  <2>3. QED  BY <1>1, <1>2, <1>3, <1>4, <2>1, <2>2
<1>5. CASE consumer = "repair"
  <2>1. r = n /\ VisitUnits = 1
    BY <1>5 DEF Rounds, VisitUnits
  <2>2. QED  BY <1>1, <1>2, <1>3, <1>5, <2>1
<1>6. CASE consumer = "scan"
  <2>1. VisitUnits = ScanStride /\ r \in WalkedStrides(n)
    BY <1>6 DEF Rounds, VisitUnits
  <2>2. CASE r = (n + ScanStride - 1) \div ScanStride
    <3>1. /\ r \in Nat /\ n <= r * ScanStride /\ r * ScanStride < n + ScanStride
          /\ n % ScanStride = 0 => r * ScanStride = n
      BY <1>1, <1>3, <2>2, VisitsRoundUp
    <3>2. QED  BY <1>1, <1>2, <1>3, <1>6, <2>1, <3>1
  <2>3. CASE r = n \div ScanStride + 1 /\ pc = "finished"
    <3> DEFINE q == n \div ScanStride
    <3>1. q \in Nat /\ n < q * ScanStride + ScanStride
      BY <1>1, <1>3, QuotientBounds
    <3> HIDE DEF q
    <3>2. (q + 1) * ScanStride = q * ScanStride + ScanStride /\ q * ScanStride \in Nat
      BY <1>1, <3>1, ProductStep
    <3>3. r = q + 1
      BY <2>3 DEF q
    <3>4. QED  BY <1>1, <1>2, <1>3, <1>6, <2>1, <2>3, <3>1, <3>2, <3>3
  <2>4. QED  BY <2>1, <2>2, <2>3 DEF WalkedStrides
<1>7. QED  BY <1>1, <1>4, <1>5, <1>6

\* CallConsumer preserves the pipeline's invariant.
LEMMA CallKeeps == PipelineInv /\ CallConsumer => PipelineInv'
<1> SUFFICES ASSUME PipelineInv, CallConsumer PROVE PipelineInv'
  OBVIOUS
<1>1. PICK n \in Callable : accessible' = n /\ rounds' \in Rounds(n)
  BY DEF CallConsumer
<1>2. /\ UNCHANGED vars /\ cpc = "idle" /\ at' = 0 /\ last' = (pc = "finished")
      /\ UNCHANGED <<consumer, consumed, positions, repaired>>
      /\ cpc' = IF rounds' # 0 THEN "loop" ELSE AfterCall(last')
  BY DEF CallConsumer, results
<1>3. /\ n \in Nat /\ rounds' \in Nat /\ consumed + n <= produced
      /\ pc = "finished" => consumed + n = produced
      /\ n <= rounds' * VisitUnits
      /\ (consumer = "scan" /\ pc = "finished")
           \/ rounds' * VisitUnits < n + VisitUnits
      /\ consumer = "scan" /\ pc # "finished" => rounds' * VisitUnits = n
  BY <1>1, <1>2, CallFacts
<1>4. /\ consumed \in Nat /\ VisitUnits \in Nat /\ VisitUnits' = VisitUnits
      /\ consumer \in {"linear", "scan", "repair"}
  BY <1>2, SizesFacts DEF PipelineInv, ConsumerTypes, VisitUnits, ScanStride
<1>5. Reached' = consumed /\ Reached = consumed
  BY <1>2, <1>4 DEF Reached, AfterCall
<1>6. IInv'
  BY <1>2, StutterIInv DEF PipelineInv
<1>7. ConsumerTypes'
  BY <1>1, <1>2, <1>3 DEF PipelineInv, ConsumerTypes, AfterCall
<1>8. Extent'
  <2>1. CASE rounds' # 0
    <3>1. cpc' = "loop" /\ at' < rounds'
      BY <1>2, <1>3, <2>1
    <3>2. CallCovered'
      BY <1>1, <1>2, <1>3, <1>4 DEF CallCovered
    <3>3. QED
      BY <1>1, <1>2, <1>3, <3>1, <3>2, KernelStill DEF PipelineInv, Extent
  <2>2. CASE rounds' = 0
    <3>1. n = 0
      BY <1>3, <1>4, <2>2
    <3>2. cpc' = (IF last' THEN "finished" ELSE "idle")
      BY <1>2, <2>2 DEF AfterCall
    <3>3. consumed <= produced /\ (last' => pc = "finished" /\ consumed = produced)
      <4>1. consumed + 0 = consumed
        BY <1>4
      <4>2. last' => pc = "finished"
        BY <1>2
      <4>3. QED  BY <1>3, <3>1, <4>1, <4>2
    <3>4. QED  BY <1>2, <3>2, <3>3, KernelStill DEF PipelineInv, Extent
  <2>3. QED  BY <2>1, <2>2
<1>9. PrintInv'
  BY <1>2, <1>5, KernelStill DEF PipelineInv, PrintInv, Increasing, Printed
<1>10. RepairInv'
  BY <1>2, <1>5, KernelStill DEF PipelineInv, RepairInv, RightByte, ReplacementByte
<1>11. QED  BY <1>6, <1>7, <1>8, <1>9, <1>10 DEF PipelineInv

\* A visit takes the consumer on by one visit's units, the last of a call to
\* the end of what was accessible.
LEMMA AdvanceMoves ==
    ASSUME PipelineInv, cpc = "loop", Advance
    PROVE  /\ UNCHANGED vars /\ UNCHANGED consumer /\ VisitUnits' = VisitUnits
           /\ VisitUnits \in Nat \ {0} /\ consumed \in Nat /\ accessible \in Nat
           /\ Reached \in Nat /\ Reached' \in Nat
           /\ Reached = consumed + at * VisitUnits /\ consumed <= Reached
           /\ cpc' \in {"idle", "loop", "finished"} /\ at' \in Nat
           /\ UNCHANGED <<accessible, last, rounds>> /\ consumed' \in Nat
           /\ Extent'
           /\ cpc' = "loop" => Reached' = Reached + VisitUnits
           /\ cpc' # "loop" => /\ Reached' = consumed + accessible
                               /\ Reached' <= Reached + VisitUnits
           /\ ~(consumer = "scan" /\ last) => /\ Reached < consumed + accessible
                                              /\ Reached' <= consumed + accessible
           /\ consumer = "scan" /\ ~last => Reached' = Reached + VisitUnits
           /\ cpc' = "finished" => last
<1>1. /\ UNCHANGED vars /\ UNCHANGED consumer /\ at' = at + 1
      /\ UNCHANGED <<accessible, last, rounds>>
      /\ at + 1 # rounds => cpc' = cpc /\ consumed' = consumed
      /\ at + 1 = rounds => cpc' = AfterCall(last) /\ consumed' = consumed + accessible
  BY DEF Advance, call, ConsumedAfterCall
<1>2. /\ consumed \in Nat /\ accessible \in Nat /\ at \in Nat /\ rounds \in Nat
      /\ consumer \in {"linear", "scan", "repair"} /\ last \in BOOLEAN
      /\ produced \in Nat
  BY SizesFacts DEF PipelineInv, ConsumerTypes
<1>3. VisitUnits' = VisitUnits /\ VisitUnits \in Nat \ {0}
  BY <1>1, <1>2, SizesFacts DEF PipelineInv, VisitUnits, ScanStride
<1>4. /\ consumed + accessible <= produced /\ at < rounds
      /\ last => pc = "finished" /\ consumed + accessible = produced
      /\ accessible <= rounds * VisitUnits
      /\ (consumer = "scan" /\ last) \/ rounds * VisitUnits < accessible + VisitUnits
      /\ consumer = "scan" /\ ~last => rounds * VisitUnits = accessible
  BY DEF PipelineInv, Extent, CallCovered
<1> DEFINE V == VisitUnits
           m == at * V
           e == rounds * V
<1>5. m \in Nat /\ e \in Nat /\ (at + 1) * V = m + V
  BY <1>2, <1>3, ProductStep
<1>6. m + V <= e
  <2>1. (at + 1) * V <= rounds * V
    BY <1>2, <1>3, <1>4, ProductMonotone
  <2>2. QED  BY <1>5, <2>1
<1>7. at + 1 = rounds => e = m + V
  BY <1>5
<1>8. Reached = consumed + m
  BY DEF Reached
<1>9. /\ at + 1 # rounds => cpc' = "loop" /\ Reached' = consumed + (at + 1) * V
      /\ at + 1 = rounds => cpc' # "loop" /\ Reached' = consumed + accessible
  <2>1. at + 1 = rounds => cpc' # "loop" /\ cpc' = AfterCall(last)
    BY <1>1 DEF AfterCall
  <2>2. Reached' = consumed' + (IF cpc' = "loop" THEN at' * VisitUnits' ELSE 0)
    BY DEF Reached
  <2>3. consumed + accessible + 0 = consumed + accessible
    BY <1>2
  <2>4. QED  BY <1>1, <1>3, <2>1, <2>2, <2>3
<1>10. Extent'
  <2>1. CASE at + 1 # rounds
    <3>1. at + 1 < rounds /\ cpc' = "loop" /\ consumed' = consumed
      BY <1>1, <1>2, <1>4, <2>1
    <3>2. CallCovered'
      BY <1>1, <1>3, <1>4 DEF CallCovered
    <3>3. QED
      BY <1>1, <1>4, <3>1, <3>2, KernelStill DEF PipelineInv, Extent
  <2>2. CASE at + 1 = rounds
    <3>1. cpc' = (IF last THEN "finished" ELSE "idle") /\ consumed' = consumed + accessible
      BY <1>1, <2>2 DEF AfterCall
    <3>2. QED  BY <1>1, <1>4, <3>1, KernelStill DEF PipelineInv, Extent
  <2>3. QED  BY <2>1, <2>2
<1> HIDE DEF V, m, e
<1>11. (cpc' = "loop" => Reached' = Reached + V)
       /\ (cpc' # "loop" => Reached' = consumed + accessible /\ Reached' <= Reached + V)
  BY <1>2, <1>4, <1>5, <1>7, <1>8, <1>9, <1>3 DEF V, e
<1>12. ~(consumer = "scan" /\ last) =>
          Reached < consumed + accessible /\ Reached' <= consumed + accessible
  <2>1. SUFFICES ASSUME ~(consumer = "scan" /\ last)
                 PROVE  Reached < consumed + accessible /\ Reached' <= consumed + accessible
    OBVIOUS
  <2>2. e < accessible + V
    BY <1>4, <2>1 DEF e, V
  <2>3. V \in Nat \ {0}
    BY <1>3 DEF V
  <2>4. Reached < consumed + accessible
    BY <1>2, <1>5, <1>6, <1>8, <2>2, <2>3
  <2>5. at + 1 # rounds => m + V + V <= e
    <3>1. at + 1 # rounds => at + 2 <= rounds
      BY <1>2, <1>4
    <3>2. (at + 2) * V = m + V + V /\ (at + 2 <= rounds => (at + 2) * V <= e)
      BY <1>2, <1>5, <2>3, ProductStep, ProductMonotone DEF m, e
    <3>3. QED  BY <3>1, <3>2
  <2>6. at + 1 # rounds => Reached' <= consumed + accessible
    BY <1>2, <1>5, <1>9, <2>2, <2>3, <2>5
  <2>7. QED  BY <1>2, <1>9, <2>4, <2>6
<1>13. consumer = "scan" /\ ~last => Reached' = Reached + V
  <2>1. consumer = "scan" /\ ~last => e = accessible
    BY <1>4 DEF e, V
  <2>2. V \in Nat
    BY <1>3 DEF V
  <2>3. QED  BY <1>2, <1>5, <1>7, <1>8, <1>9, <2>1, <2>2
<1>14. Reached \in Nat /\ Reached' \in Nat /\ consumed <= Reached /\ consumed' \in Nat
       /\ cpc' \in {"idle", "loop", "finished"} /\ at' \in Nat
       /\ (cpc' = "finished" => last)
  BY <1>1, <1>2, <1>5, <1>8, <1>9, <1>3 DEF AfterCall, V
<1>15. QED
  BY <1>1, <1>2, <1>3, <1>8, <1>10, <1>11, <1>12, <1>13, <1>14 DEF V, m

\* Printing a set of marks beyond those printed so far, in order.
LEMMA PrintKeeps ==
    ASSUME PipelineInv, cpc = "loop", Advance, consumer \in {"linear", "scan"},
           NEW new \in SUBSET (0..MarkSlots-1), positions' = positions \o Ascending(new),
           \A k \in new : Reached <= k /\ (cpc' # "finished" => k < Reached'),
           cpc' # "finished" => Reached <= Reached',
           \A k \in 0..Units-1 : (k \in IllFormed /\ k < Reached')
                                   <=> (k \in IllFormed /\ k < Reached) \/ k \in new,
           \A k \in new : k >= Units =>
              /\ pc = "finished" /\ k \in StaleMarks
              /\ consumer = "linear" => UnwrittenSlot
    PROVE  PrintInv' /\ positions' \in Seq(Nat)
<1>1. /\ positions \in Seq(Nat) /\ Increasing(positions)
      /\ \A k \in Printed : k < Reached
      /\ \A k \in 0..Units-1 : k \in Printed <=> k \in IllFormed /\ k < Reached
      /\ \A k \in Printed : k >= Units =>
              /\ pc = "finished" /\ k \in StaleMarks
              /\ consumer = "linear" => UnwrittenSlot
  BY DEF PipelineInv, ConsumerTypes, PrintInv
<1>2. /\ Ascending(new) \in Seq(Nat) /\ Increasing(Ascending(new))
      /\ Range(Ascending(new)) = new
  BY SizesFacts, AscendingLists DEF PipelineInv
<1>3. Printed \subseteq Nat
  BY <1>1 DEF Printed, Range
<1>4. Reached \in Nat /\ Reached' \in Nat /\ MarkSlots \in Nat
  BY AdvanceMoves, SizesFacts DEF PipelineInv
<1>5. \A x \in Printed, y \in new : x < y
  BY <1>1, <1>3, <1>4
<1>6. /\ positions' \in Seq(Nat) /\ Increasing(positions')
      /\ Range(positions') = Printed \cup new
  BY <1>1, <1>2, <1>5, IncreasingJoin DEF Printed
<1>7. /\ Printed' = Printed \cup new /\ Increasing(positions)'
  BY <1>6 DEF Printed, Increasing
<1>8. UNCHANGED <<pc, Units, IllFormed, UnwrittenSlot, StaleMarks, consumer>>
  BY AdvanceMoves, KernelStill
<1>9. cpc' # "finished" => \A k \in Printed \cup new : k < Reached'
  BY <1>1, <1>3, <1>4
<1>10. \A k \in 0..Units-1 : k \in Printed \cup new <=> k \in IllFormed /\ k < Reached'
  BY <1>1
<1>11. \A k \in Printed \cup new : k >= Units =>
              /\ pc = "finished" /\ k \in StaleMarks
              /\ consumer = "linear" => UnwrittenSlot
  BY <1>1
<1>12. PrintInv'
  BY <1>7, <1>8, <1>9, <1>10, <1>11 DEF PrintInv
<1>13. QED  BY <1>6, <1>12

\* The linear printer visits the marks of a block that are accessible.
LEMMA PosBlockLoopKeeps == PipelineInv /\ PosBlockLoop => PipelineInv'
<1> SUFFICES ASSUME PipelineInv, PosBlockLoop PROVE PipelineInv'
  OBVIOUS
<1> DEFINE new == {k \in MarkedFrom(consumed + at * BlockUnits, BlockUnits) :
                      k < AccessibleMask}
<1>1. /\ consumer = "linear" /\ cpc = "loop" /\ Advance /\ repaired' = repaired
      /\ positions' = positions \o Ascending(new)
  BY DEF PosBlockLoop
<1>2. VisitUnits = BlockUnits
  BY <1>1 DEF VisitUnits
<1>3. /\ Reached \in Nat /\ Reached' \in Nat /\ BlockUnits \in Nat \ {0}
      /\ consumed \in Nat /\ accessible \in Nat /\ Reached < consumed + accessible
      /\ Reached = consumed + at * BlockUnits
      /\ cpc' = "loop" => Reached' = Reached + BlockUnits
      /\ cpc' # "loop" => Reached' = consumed + accessible
      /\ Reached' <= Reached + BlockUnits /\ Reached' <= consumed + accessible
      /\ UNCHANGED vars
  BY <1>1, <1>2, AdvanceMoves
<1>4. /\ consumed + accessible <= produced /\ produced \in Nat /\ produced <= MarkSlots
      /\ MarkSlots \in Nat /\ Units \in Nat
  BY <1>1, SizesFacts DEF PipelineInv, Extent
<1> DEFINE to == Reached'
<1>0. /\ Reached \in Nat /\ to \in Nat /\ BlockUnits \in Nat /\ Reached <= to
      /\ to = Reached + BlockUnits \/ to = consumed + accessible
      /\ to <= Reached + BlockUnits /\ to <= consumed + accessible /\ to <= produced
      /\ consumed + accessible \in Nat
  BY <1>3, <1>4
<1> HIDE DEF to
<1>5. new = {k \in Reached..to-1 : marks[k]}
  <2>1. new = {k \in Reached..Reached + BlockUnits - 1 :
                  k < MarkSlots /\ marks[k] /\ k < consumed + accessible}
    BY <1>3 DEF MarkedFrom, AccessibleMask
  <2>2. ASSUME NEW k \in Int
        PROVE  (k \in Reached..Reached + BlockUnits - 1 /\ k < MarkSlots
                  /\ k < consumed + accessible) <=> k \in Reached..to-1
    BY <1>0, <1>4
  <2>3. Reached..Reached + BlockUnits - 1 \subseteq Int /\ Reached..to-1 \subseteq Int
    BY <1>0
  <2> HIDE DEF new
  <2>4. QED  BY <2>1, <2>2, <2>3
<1> HIDE DEF new
<1>6. ASSUME NEW k \in Reached..to-1
      PROVE  /\ k \in 0..MarkSlots-1 /\ k \in 0..produced-1
  BY <1>0, <1>4
<1>7. new \in SUBSET (0..MarkSlots-1)
  BY <1>5, <1>6
<1>8. \A k \in new : Reached <= k /\ k < Reached'
  <2>1. \A k \in new : Reached <= k /\ k < to
    BY <1>0, <1>5
  <2>2. QED  BY <2>1 DEF to
<1>9. \A k \in 0..Units-1 : (k \in IllFormed /\ k < Reached')
                               <=> (k \in IllFormed /\ k < Reached) \/ k \in new
  <2>1. ASSUME NEW k \in 0..Units-1
        PROVE  (k \in IllFormed /\ k < Reached')
                  <=> (k \in IllFormed /\ k < Reached) \/ k \in new
    <3>1. k < Reached' <=> k < Reached \/ k \in Reached..to-1
      <4>1. k < to <=> k < Reached \/ k \in Reached..to-1
        BY <1>0, <1>4
      <4>2. QED  BY <4>1 DEF to
    <3>2. k \in Reached..to-1 => (marks[k] <=> k \in IllFormed)
      BY <1>4, <1>6, ShownMark DEF PipelineInv
    <3>3. QED  BY <1>5, <3>1, <3>2
  <2>2. QED  BY <2>1
<1>10. \A k \in new : k >= Units => pc = "finished" /\ k \in StaleMarks /\ UnwrittenSlot
  <2>1. ASSUME NEW k \in new, k >= Units
        PROVE  pc = "finished" /\ k \in StaleMarks /\ UnwrittenSlot
    <3>1. k \in 0..produced-1 /\ marks[k]
      BY <1>5, <1>6
    <3>2. pc = "finished" /\ k = Units /\ UnwrittenSlot
      BY <2>1, <3>1, ShownMark DEF PipelineInv
    <3>3. QED  BY <3>2 DEF StaleMarks
  <2>2. QED  BY <2>1
<1>11. Reached <= Reached'
  BY <1>0 DEF to
<1>12. PrintInv' /\ positions' \in Seq(Nat)
  BY <1>1, <1>7, <1>8, <1>9, <1>10, <1>11, PrintKeeps
<1>13. RepairInv' /\ Extent' /\ IInv'
  BY <1>1, <1>3, AdvanceMoves, StutterIInv DEF PipelineInv, RepairInv
<1>14. ConsumerTypes'
  BY <1>1, <1>12, AdvanceMoves DEF PipelineInv, ConsumerTypes
<1>15. QED  BY <1>12, <1>13, <1>14 DEF PipelineInv

\* The scan visits a whole stride, also where it ends past the marks shown;
\* that happens in its last call, when the input has been judged to its end.
LEMMA ScanStrideLoopKeeps == PipelineInv /\ ScanStrideLoop => PipelineInv'
<1> SUFFICES ASSUME PipelineInv, ScanStrideLoop PROVE PipelineInv'
  OBVIOUS
<1> DEFINE stride == MarkedFrom(consumed + at * ScanStride, ScanStride)
<1>1. /\ consumer = "scan" /\ cpc = "loop" /\ Advance /\ repaired' = repaired
      /\ positions' = IF accessible = 0 THEN positions
                      ELSE positions \o Ascending(stride)
  BY DEF ScanStrideLoop
<1>2. VisitUnits = ScanStride
  BY <1>1 DEF VisitUnits
<1>3. /\ Reached \in Nat /\ Reached' \in Nat /\ ScanStride \in Nat \ {0}
      /\ consumed \in Nat /\ accessible \in Nat /\ consumed <= Reached
      /\ Reached = consumed + at * ScanStride
      /\ cpc' = "loop" => Reached' = Reached + ScanStride
      /\ cpc' # "loop" => /\ Reached' = consumed + accessible
                          /\ Reached' <= Reached + ScanStride
      /\ ~last => /\ Reached < consumed + accessible
                  /\ Reached' <= consumed + accessible
                  /\ Reached' = Reached + ScanStride
      /\ cpc' = "finished" => last
      /\ cpc' \in {"idle", "loop", "finished"}
      /\ UNCHANGED vars
  BY <1>1, <1>2, AdvanceMoves
<1>4. /\ consumed + accessible <= produced /\ produced \in Nat /\ produced <= MarkSlots
      /\ MarkSlots \in Nat /\ Units \in Nat
      /\ last => pc = "finished" /\ consumed + accessible = produced /\ Units <= produced
      /\ IllFormed \subseteq 0..Units-1
  BY <1>1, SizesFacts DEF PipelineInv, Extent
<1>5. RepairInv' /\ Extent' /\ IInv'
  BY <1>1, <1>3, AdvanceMoves, StutterIInv DEF PipelineInv, RepairInv
<1>6. CASE accessible = 0
  <2>1. last /\ pc = "finished" /\ consumed = produced
    BY <1>3, <1>4, <1>6
  <2>2. Units <= Reached /\ Units <= Reached'
    BY <1>3, <1>4, <1>6, <2>1
  <2>3. UNCHANGED <<pc, Units, IllFormed, UnwrittenSlot, StaleMarks, consumer, positions>>
    BY <1>1, <1>3, <1>6, KernelStill, AdvanceMoves
  <2>4. /\ Increasing(positions) /\ \A k \in Printed : k < Reached
        /\ \A k \in 0..Units-1 : k \in Printed <=> k \in IllFormed /\ k < Reached
        /\ \A k \in Printed : k >= Units =>
              /\ pc = "finished" /\ k \in StaleMarks
              /\ consumer = "linear" => UnwrittenSlot
    BY <1>1 DEF PipelineInv, PrintInv
  <2>5. Printed' = Printed /\ Printed \subseteq Nat
    BY <2>3 DEF Printed, Range, PipelineInv, ConsumerTypes
  <2>6. \A k \in 0..Units-1 : k < Reached /\ k < Reached'
    BY <1>3, <1>4, <2>2
  <2>7. cpc' # "finished" => Reached <= Reached'
    <3>1. cpc' \in {"idle", "loop"} => Extent'
      BY <1>5
    <3>2. cpc' = "idle" => FALSE
      BY <1>1, <2>1 DEF Advance, AfterCall
    <3>3. QED  BY <1>3, <3>2
  <2>8. cpc' # "finished" => \A k \in Printed : k < Reached'
    BY <1>3, <2>4, <2>5, <2>7
  <2>9. PrintInv'
    BY <2>3, <2>4, <2>5, <2>6, <2>8 DEF PrintInv, Increasing
  <2>10. ConsumerTypes'
    BY <1>1, <2>3, AdvanceMoves DEF PipelineInv, ConsumerTypes
  <2>11. QED  BY <1>5, <2>9, <2>10 DEF PipelineInv
<1>7. CASE accessible # 0
  <2>1. positions' = positions \o Ascending(stride)
    BY <1>1, <1>7
  <2>2. stride = {k \in Reached..Reached + ScanStride - 1 : k < MarkSlots /\ marks[k]}
    BY <1>3 DEF MarkedFrom
  <2> HIDE DEF stride
  <2>3. \A k \in stride : k \in 0..MarkSlots-1 /\ Reached <= k /\ k < Reached + ScanStride
                          /\ marks[k]
    BY <1>3, <1>4, <2>2
  <2>4. stride \in SUBSET (0..MarkSlots-1)
    BY <2>3
  <2>5. cpc' # "finished" => Reached' = Reached + ScanStride
    <3>1. cpc' = "idle" => ~last
      BY <1>1 DEF Advance, AfterCall
    <3>2. QED  BY <1>3, <3>1
  <2>6. \A k \in stride : Reached <= k /\ (cpc' # "finished" => k < Reached')
    BY <2>3, <2>5
  <2>7. cpc' # "finished" => Reached <= Reached'
    BY <1>3, <2>5
  <2>8. ASSUME NEW k \in 0..Units-1, Reached <= k, k < Reached + ScanStride
        PROVE  k \in stride <=> k \in IllFormed
    <3>1. k \in 0..produced-1
      <4>1. CASE last
        BY <1>4, <2>8, <4>1
      <4>2. CASE ~last
        <5>1. k < produced
          BY <1>3, <1>4, <2>8, <4>2
        <5>2. QED  BY <1>4, <5>1
      <4>3. QED  BY <4>1, <4>2
    <3>2. marks[k] <=> k \in IllFormed
      BY <1>4, <3>1, ShownMark DEF PipelineInv
    <3>3. k < MarkSlots /\ k \in Reached..Reached + ScanStride - 1
      BY <1>3, <1>4, <2>8, <3>1
    <3>4. QED  BY <2>2, <3>2, <3>3
  <2>9. \A k \in 0..Units-1 : (k \in IllFormed /\ k < Reached')
                                 <=> (k \in IllFormed /\ k < Reached) \/ k \in stride
    <3>1. ASSUME NEW k \in 0..Units-1
          PROVE  (k \in IllFormed /\ k < Reached')
                    <=> (k \in IllFormed /\ k < Reached) \/ k \in stride
      <4>1. k \in stride => Reached <= k /\ k < Reached + ScanStride
        BY <2>3
      <4>2. CASE cpc' # "finished"
        <5>1. k < Reached' <=> k < Reached \/ (Reached <= k /\ k < Reached + ScanStride)
          BY <1>3, <1>4, <2>5, <4>2
        <5>2. QED  BY <2>8, <4>1, <5>1
      <4>3. CASE cpc' = "finished"
        <5>1. k < Reached' /\ k < Reached + ScanStride
          BY <1>3, <1>4, <4>3
        <5>2. k < Reached \/ Reached <= k
          BY <1>3, <1>4
        <5>3. QED  BY <2>8, <4>1, <5>1, <5>2
      <4>4. QED  BY <4>2, <4>3
    <3>2. QED  BY <3>1
  <2>10. \A k \in stride : k >= Units =>
            /\ pc = "finished" /\ k \in StaleMarks
            /\ consumer = "linear" => UnwrittenSlot
    <3>1. ASSUME NEW k \in stride, k >= Units PROVE pc = "finished" /\ k \in StaleMarks
      <4>1. k \in 0..MarkSlots-1 /\ marks[k] /\ k < Reached + ScanStride
        BY <2>3
      <4>2. CASE k < produced
        <5>1. k \in 0..produced-1
          BY <1>4, <4>1, <4>2
        <5>2. pc = "finished" /\ k = Units /\ UnwrittenSlot
          BY <3>1, <4>1, <5>1, ShownMark DEF PipelineInv
        <5>3. QED  BY <5>2 DEF StaleMarks
      <4>3. CASE k >= produced
        <5>1. last
          BY <1>3, <1>4, <4>1, <4>3
        <5>2. k \in produced..MarkSlots-1
          BY <1>4, <4>1, <4>3
        <5>3. QED  BY <1>4, <4>1, <5>1, <5>2 DEF StaleMarks
      <4>4. QED  BY <1>4, <4>1, <4>2, <4>3
    <3>2. QED  BY <1>1, <3>1
  <2>11. PrintInv' /\ positions' \in Seq(Nat)
    BY <1>1, <2>1, <2>4, <2>6, <2>7, <2>9, <2>10, PrintKeeps
  <2>12. ConsumerTypes'
    BY <1>1, <2>11, AdvanceMoves DEF PipelineInv, ConsumerTypes
  <2>13. QED  BY <1>5, <2>11, <2>12 DEF PipelineInv
<1>8. QED  BY <1>6, <1>7

\* The first n elements of a sequence.
LEMMA FirstOf ==
    ASSUME NEW s \in Seq(Nat), NEW n \in 0..Len(s)
    PROVE  /\ SubSeq(s, 1, n) \in Seq(Nat) /\ Len(SubSeq(s, 1, n)) = n
           /\ \A i \in 1..n : SubSeq(s, 1, n)[i] = s[i]
           /\ n = Len(s) => SubSeq(s, 1, n) = s
<1>1. SubSeq(s, 1, n) \in Seq(Nat) /\ Len(SubSeq(s, 1, n)) = n
  OBVIOUS
<1>2. \A i \in 1..n : SubSeq(s, 1, n)[i] = s[i]
  OBVIOUS
<1>3. n = Len(s) => SubSeq(s, 1, n) = s
  BY <1>1, <1>2
<1>4. QED  BY <1>1, <1>2, <1>3

\* The repair visits one unit, or the odd byte after the last.
LEMMA RepairLoopKeeps == PipelineInv /\ RepairLoop => PipelineInv'
<1> SUFFICES ASSUME PipelineInv, RepairLoop PROVE PipelineInv'
  OBVIOUS
<1> DEFINE k == consumed + at
           a == IF marks[k] THEN ReplacementByte(0) ELSE ByteAt(2 * k + 0)
           b == IF marks[k] THEN ReplacementByte(1) ELSE ByteAt(2 * k + 1)
           piece == SubSeq(<<a, b>>, 1, IF 2 * k + 1 < size THEN 2 ELSE 1)
<1>1. /\ consumer = "repair" /\ cpc = "loop" /\ Advance /\ positions' = positions
      /\ repaired' = repaired \o piece
  <2>1. RepairedUnit(k)[0] = a /\ RepairedUnit(k)[1] = b
    BY DEF RepairedUnit
  <2>2. QED  BY <2>1 DEF RepairLoop
<1>2. VisitUnits = 1
  BY <1>1 DEF VisitUnits
<1>3. /\ Reached \in Nat /\ Reached' \in Nat /\ consumed \in Nat /\ accessible \in Nat
      /\ at \in Nat /\ Reached = k /\ Reached' = k + 1
      /\ k + 1 <= consumed + accessible
      /\ UNCHANGED vars /\ UNCHANGED consumer
  <2>1. at \in Nat /\ at * 1 = at
    BY DEF PipelineInv, ConsumerTypes
  <2>2. /\ Reached \in Nat /\ Reached' \in Nat /\ consumed \in Nat /\ accessible \in Nat
        /\ Reached = consumed + at * 1 /\ UNCHANGED vars /\ UNCHANGED consumer
        /\ Reached < consumed + accessible
        /\ cpc' = "loop" => Reached' = Reached + 1
        /\ cpc' # "loop" => Reached' = consumed + accessible /\ Reached' <= Reached + 1
    BY <1>1, <1>2, AdvanceMoves
  <2>3. QED  BY <2>1, <2>2
<1>4. /\ consumed + accessible <= produced /\ produced \in Nat
      /\ MarkSlots \in Nat /\ Units \in Nat /\ size \in Nat /\ HB \in {0, 1}
      /\ size = 2 * Units + OddTrailingByte /\ OddTrailingByte \in {0, 1}
      /\ InputTypeOK /\ repaired \in Seq(Nat)
  BY <1>1, SizesFacts DEF PipelineInv, Extent, ConsumerTypes
<1> HIDE DEF k
<1>5. k \in Nat /\ k \in 0..produced-1
  BY <1>3, <1>4
<1>6. /\ k < Units => (marks[k] <=> k \in IllFormed)
      /\ k >= Units => k = Units /\ OddTrailingByte = 1
  BY <1>4, <1>5, ShownMark DEF PipelineInv
<1>7. /\ Len(repaired) = 2 * k
      /\ \A j \in 0..Units-1 : j < k =>
              /\ repaired[2 * j + 1] = RightByte(j, 0)
              /\ repaired[2 * j + 2] = RightByte(j, 1)
  <2>1. /\ Len(repaired) = IF k <= Units THEN 2 * k ELSE size
        /\ \A j \in 0..Units-1 : j < k =>
              /\ repaired[2 * j + 1] = RightByte(j, 0)
              /\ repaired[2 * j + 2] = RightByte(j, 1)
    BY <1>1, <1>3 DEF PipelineInv, RepairInv
  <2>2. k <= Units
    BY <1>4, <1>5, <1>6
  <2>3. QED  BY <2>1, <2>2
<1>8. a \in Nat /\ b \in Nat
  <2>1. \A i \in Nat : ByteAt(i) \in Nat
    <3>1. \A i \in 0..size-1 : data[i] \in Nat
      <4>1. data \in [0..size-1 -> Bytes] /\ Bytes \subseteq 0..255
        BY <1>4, BytesAssumption DEF InputTypeOK
      <4>2. \A i \in 0..size-1 : data[i] \in 0..255
        BY <4>1
      <4>3. QED  BY <4>2
    <3>2. QED  BY <1>4, <3>1 DEF ByteAt
  <2>2. ReplacementByte(0) \in Nat /\ ReplacementByte(1) \in Nat
    BY DEF ReplacementByte
  <2>3. 2 * k + 0 \in Nat /\ 2 * k + 1 \in Nat
    BY <1>5
  <2>4. QED  BY <2>1, <2>2, <2>3
<1>9. k < Units => a = RightByte(k, 0) /\ b = RightByte(k, 1)
  <2>1. k < Units => 2 * k + 0 < size /\ 2 * k + 1 < size
    BY <1>4, <1>5
  <2>2. QED  BY <1>6, <2>1 DEF RightByte, ByteAt
<1> HIDE DEF a, b
<1>10. /\ k < Units => piece = <<a, b>>
       /\ k = Units => Len(piece) = 1
       /\ piece \in Seq(Nat)
  <2>1. <<a, b>> \in Seq(Nat) /\ Len(<<a, b>>) = 2 /\ <<a, b>>[1] = a /\ <<a, b>>[2] = b
    BY <1>8
  <2>2. SubSeq(<<a, b>>, 1, 2) = <<a, b>> /\ SubSeq(<<a, b>>, 1, 1) \in Seq(Nat)
        /\ Len(SubSeq(<<a, b>>, 1, 1)) = 1
    <3> DEFINE t == <<a, b>>
    <3>1. t \in Seq(Nat) /\ Len(t) = 2 /\ 1 \in 0..Len(t) /\ 2 \in 0..Len(t)
      BY <2>1
    <3> HIDE DEF t
    <3>2. SubSeq(t, 1, 2) = t /\ SubSeq(t, 1, 1) \in Seq(Nat) /\ Len(SubSeq(t, 1, 1)) = 1
      BY <3>1, FirstOf
    <3>3. QED  BY <3>2 DEF t
  <2>3. k < Units => 2 * k + 1 < size
    BY <1>4, <1>5
  <2>4. k = Units => ~(2 * k + 1 < size)
    BY <1>4, <1>5, <1>6
  <2>5. QED  BY <2>1, <2>2, <2>3, <2>4
<1> HIDE DEF piece
<1>11. /\ repaired' \in Seq(Nat) /\ Len(repaired') = 2 * k + Len(piece)
       /\ \A i \in 1..2*k : repaired'[i] = repaired[i]
       /\ k < Units => repaired'[2 * k + 1] = a /\ repaired'[2 * k + 2] = b
  <2>1. repaired' \in Seq(Nat) /\ Len(repaired') = 2 * k + Len(piece)
    <3>1. \A s, t \in Seq(Nat) : s \o t \in Seq(Nat) /\ Len(s \o t) = Len(s) + Len(t)
      OBVIOUS
    <3>2. piece \in Seq(Nat)
      BY <1>4, <1>5, <1>6, <1>10
    <3>3. QED  BY <1>1, <1>4, <1>7, <3>1, <3>2
  <2>2. \A i \in 1..2*k : repaired'[i] = repaired[i]
    BY <1>1, <1>4, <1>5, <1>7, <1>10
  <2>3. ASSUME k < Units PROVE repaired'[2 * k + 1] = a /\ repaired'[2 * k + 2] = b
    <3>1. repaired' = repaired \o <<a, b>> /\ <<a, b>> \in Seq(Nat) /\ Len(<<a, b>>) = 2
          /\ <<a, b>>[1] = a /\ <<a, b>>[2] = b
      BY <1>1, <1>8, <1>10, <2>3
    <3>2. repaired'[2 * k + 1] = <<a, b>>[1] /\ repaired'[2 * k + 2] = <<a, b>>[2]
      BY <1>4, <1>5, <1>7, <3>1
    <3>3. QED  BY <3>1, <3>2
  <2>4. QED  BY <2>1, <2>2, <2>3
<1>12. \A j \in 0..Units-1 : j < k + 1 =>
              /\ repaired'[2 * j + 1] = RightByte(j, 0)
              /\ repaired'[2 * j + 2] = RightByte(j, 1)
  <2>1. ASSUME NEW j \in 0..Units-1, j < k
        PROVE  repaired'[2 * j + 1] = RightByte(j, 0) /\ repaired'[2 * j + 2] = RightByte(j, 1)
    <3>1. 2 * j + 1 \in 1..2*k /\ 2 * j + 2 \in 1..2*k
      BY <1>4, <1>5, <2>1
    <3>2. QED  BY <1>7, <1>11, <2>1, <3>1
  <2>2. ASSUME NEW j \in 0..Units-1, j = k
        PROVE  repaired'[2 * j + 1] = RightByte(j, 0) /\ repaired'[2 * j + 2] = RightByte(j, 1)
    BY <1>4, <1>9, <1>11, <2>2
  <2>3. \A j \in 0..Units-1 : j < k + 1 => j < k \/ j = k
    BY <1>4, <1>5
  <2>4. QED  BY <2>1, <2>2, <2>3
<1>13. Len(repaired') = IF k + 1 <= Units THEN 2 * (k + 1) ELSE size
  <2>1. k < Units => Len(piece) = 2
    BY <1>8, <1>10
  <2>2. CASE k < Units
    <3>1. Len(repaired') = 2 * k + 2
      BY <1>11, <2>1, <2>2
    <3>2. k + 1 <= Units /\ 2 * (k + 1) = 2 * k + 2
      BY <1>4, <1>5, <2>2
    <3>3. QED  BY <3>1, <3>2
  <2>3. CASE k >= Units
    <3>1. k = Units /\ OddTrailingByte = 1 /\ Len(repaired') = 2 * k + 1
      BY <1>6, <1>10, <1>11, <2>3
    <3>2. ~(k + 1 <= Units) /\ 2 * k + 1 = size
      BY <1>4, <1>5, <3>1
    <3>3. QED  BY <3>1, <3>2
  <2>4. QED  BY <1>4, <1>5, <2>2, <2>3
<1>14. UNCHANGED <<produced, Units, IllFormed>> /\ size' = size /\ data' = data /\ HB' = HB
  BY <1>3, KernelStill
<1>15. RepairInv'
  <2>1. k + 1 <= produced
    BY <1>3, <1>4
  <2>2. QED
    BY <1>3, <1>12, <1>13, <1>14, <2>1 DEF RepairInv, RightByte, ReplacementByte
<1>16. Extent' /\ IInv'
  BY <1>1, <1>3, AdvanceMoves, StutterIInv DEF PipelineInv
<1>17. PrintInv'
  BY <1>1, <1>3 DEF PrintInv
<1>18. ConsumerTypes'
  BY <1>1, <1>11, AdvanceMoves DEF PipelineInv, ConsumerTypes
<1>19. QED  BY <1>15, <1>16, <1>17, <1>18 DEF PipelineInv

-----------------------------------------------------------------------------
(* The invariant of the pipeline.                                          *)

\* The pipeline begins in its invariant.
LEMMA PipelineStarts == PipelineInit => PipelineInv
<1> SUFFICES ASSUME PipelineInit PROVE PipelineInv
  OBVIOUS
<1>1. /\ Init /\ consumer \in {"linear", "scan", "repair"} /\ cpc = "idle"
      /\ consumed = 0 /\ accessible = 0 /\ last = FALSE /\ at = 0 /\ rounds = 0
      /\ positions = <<>> /\ repaired = <<>>
  BY DEF PipelineInit, ConsumerInit
<1>2. IInv
  BY <1>1, InitIInv
<1>3. pc = "idle" /\ produced = 0
  BY <1>1 DEF Init, KernelInit
<1>4. Units \in Nat
  BY <1>2, SizesFacts
<1>5. ConsumerTypes
  <2>1. <<>> \in Seq(Nat) /\ 0 \in Nat /\ FALSE \in BOOLEAN
    OBVIOUS
  <2>2. QED  BY <1>1, <2>1 DEF ConsumerTypes
<1>6. Extent
  BY <1>1, <1>3 DEF Extent
<1>7. Reached = 0
  BY <1>1 DEF Reached
<1>8. PrintInv
  <2>1. Printed = {} /\ Len(positions) = 0
    BY <1>1 DEF Printed, Range
  <2>2. \A k \in 0..Units-1 : ~(k < Reached)
    BY <1>4, <1>7
  <2>3. Increasing(positions)
    BY <2>1 DEF Increasing
  <2>4. QED  BY <2>1, <2>2, <2>3 DEF PrintInv
<1>9. RepairInv
  <2>1. Len(repaired) = 0 /\ 0 <= Units /\ 2 * Reached = 0
    BY <1>1, <1>4, <1>7
  <2>2. \A k \in 0..Units-1 : ~(k < Reached)
    BY <1>4, <1>7
  <2>3. QED  BY <1>3, <1>7, <2>1, <2>2 DEF RepairInv
<1>10. QED  BY <1>2, <1>5, <1>6, <1>8, <1>9 DEF PipelineInv

\* The pipeline's invariant survives a step that leaves the pipeline alone.
LEMMA PipelineRests ==
    ASSUME PipelineInv, UNCHANGED pipelineVars
    PROVE  PipelineInv'
<1> USE DEF pipelineVars, consumerVars, call, results
<1>1. UNCHANGED vars
  OBVIOUS
<1>2. UNCHANGED <<consumer, cpc, consumed, accessible, last, at, rounds, positions, repaired>>
  OBVIOUS
<1>3. UNCHANGED <<VisitUnits, Reached, Printed, CallCovered>>
  BY <1>2 DEF VisitUnits, Reached, Printed, ScanStride, CallCovered
<1>4. IInv'
  BY <1>1, StutterIInv DEF PipelineInv
<1>5. ConsumerTypes'
  BY <1>2 DEF PipelineInv, ConsumerTypes
<1>6. Extent'
  BY <1>1, <1>2, <1>3, KernelStill DEF PipelineInv, Extent
<1>7. PrintInv'
  BY <1>1, <1>2, <1>3, KernelStill DEF PipelineInv, PrintInv, Increasing
<1>8. RepairInv'
  BY <1>1, <1>2, <1>3, KernelStill DEF PipelineInv, RepairInv, RightByte, ReplacementByte
<1>9. QED  BY <1>4, <1>5, <1>6, <1>7, <1>8 DEF PipelineInv

\* Every step of the fuzzing suite preserves the pipeline's invariant.
LEMMA FuzzKeepsPipeline == PipelineInv /\ [FuzzNext]_fuzzVars => PipelineInv'
<1> SUFFICES ASSUME PipelineInv, [FuzzNext]_fuzzVars PROVE PipelineInv'
  OBVIOUS
<1>1. CASE Diagnose
  BY <1>1, PipelineRests DEF Diagnose, pipelineVars
<1>2. CASE RunProducer
  BY <1>2, ProduceKeeps DEF RunProducer
<1>3. CASE RunConsumer
  BY <1>3, CallKeeps, PosBlockLoopKeeps, ScanStrideLoopKeeps, RepairLoopKeeps
     DEF RunConsumer, Consume
<1>4. CASE CaseDone \/ UNCHANGED fuzzVars
  BY <1>4, PipelineRests DEF CaseDone, fuzzVars
<1>5. QED  BY <1>1, <1>2, <1>3, <1>4 DEF FuzzNext

\* Between producer and consumer, at every moment: a call is about marks that
\* are shown, what a consumer has written is right as far as it has come, and
\* what is printed past the end of the input nobody wrote.
THEOREM PipelineInvariant == FuzzSpec => []PipelineInv
<1>1. FuzzInit => PipelineInv
  BY PipelineStarts DEF FuzzInit
<1>2. QED  BY <1>1, FuzzKeepsPipeline, PTL DEF FuzzSpec

-----------------------------------------------------------------------------
(* What the printers print and the repair writes.                          *)

\* Two sets that agree below a place have the same members below it.
LEMMA SameBelow ==
    ASSUME NEW n \in Nat, NEW P \in SUBSET Nat, NEW I \in SUBSET (0..n-1), NEW r \in Int,
           \A k \in 0..n-1 : k \in P <=> k \in I /\ k < r
    PROVE  {k \in P : k < n} = {k \in I : k < r}
<1>1. ASSUME NEW k \in P, k < n PROVE k \in I /\ k < r
  <2>1. k \in 0..n-1
    BY <1>1
  <2>2. QED  BY <2>1
<1>2. ASSUME NEW k \in I, k < r PROVE k \in P /\ k < n
  <2>1. k \in 0..n-1
    OBVIOUS
  <2>2. QED  BY <1>2, <2>1
<1>3. QED  BY <1>1, <1>2

\* A printer that has come to the end has been past every unit, and what it
\* has printed past the end of the input nobody wrote.
LEMMA PrintedIsExact == PipelineInv => PrintedExact
<1> SUFFICES ASSUME PipelineInv PROVE PrintedExact
  OBVIOUS
<1>1. /\ Units \in Nat /\ IllFormed \subseteq 0..Units-1 /\ produced \in Nat
      /\ positions \in Seq(Nat) /\ Printed \subseteq Nat
  BY SizesFacts DEF PipelineInv, ConsumerTypes, Printed, Range
<1>2. ASSUME consumer \in {"linear", "scan"}
      PROVE  /\ PrintedAscending
             /\ \A k \in 0..Units-1 : k \in Printed <=> k \in IllFormed /\ k < Reached
             /\ \A k \in Printed : k >= Units /\ consumer = "linear" => UnwrittenSlot
  BY <1>2 DEF PipelineInv, PrintInv, PrintedAscending, Increasing
<1>3. ASSUME cpc = "finished" PROVE \A k \in 0..Units-1 : k < Reached
  <2>1. Reached = produced /\ Units <= produced
    BY <1>1, <1>3 DEF PipelineInv, Extent, Reached
  <2>2. QED  BY <1>1, <2>1
<1> DEFINE C == consumer \in {"linear", "scan"}
<1>10. Reached \in Int
  <2>1. /\ consumed \in Nat /\ at \in Nat /\ consumer \in {"linear", "scan", "repair"}
        /\ BlockUnits \in Nat /\ ScanStride \in Nat
    BY SizesFacts DEF PipelineInv, ConsumerTypes
  <2>2. VisitUnits \in Nat
    BY <2>1 DEF VisitUnits
  <2>3. at * VisitUnits \in Nat
    BY <2>1, <2>2, ProductStep
  <2>4. QED  BY <2>1, <2>3 DEF Reached
<1>11. C => {k \in Printed : k < Units} = {k \in IllFormed : k < Reached}
  <2>1. SUFFICES ASSUME C PROVE {k \in Printed : k < Units} = {k \in IllFormed : k < Reached}
    OBVIOUS
  <2>2. \A k \in 0..Units-1 : k \in Printed <=> k \in IllFormed /\ k < Reached
    BY <1>2, <2>1
  <2>3. Units \in Nat /\ Printed \in SUBSET Nat /\ IllFormed \in SUBSET (0..Units-1)
    BY <1>1
  <2> DEFINE P == Printed
             I == IllFormed
             n == Units
             r == Reached
  <2>4. /\ n \in Nat /\ P \in SUBSET Nat /\ I \in SUBSET (0..n-1) /\ r \in Int
        /\ \A k \in 0..n-1 : k \in P <=> k \in I /\ k < r
    BY <1>10, <2>2, <2>3
  <2> HIDE DEF P, I, n, r
  <2>5. {k \in P : k < n} = {k \in I : k < r}
    BY <2>4, SameBelow
  <2>6. QED  BY <2>5 DEF P, I, n, r
<1>4. ASSUME C, cpc = "finished" PROVE  {k \in Printed : k < Units} = IllFormed
  <2>1. \A k \in IllFormed : k < Reached
    BY <1>1, <1>3, <1>4
  <2>2. QED  BY <1>4, <1>11, <2>1
<1>5. ASSUME consumer = "linear", cpc = "loop"
      PROVE  {k \in Printed : k < Units} = {k \in IllFormed : k < consumed + at * BlockUnits}
  <2>1. Reached = consumed + at * BlockUnits
    BY <1>5 DEF Reached, VisitUnits
  <2>2. QED  BY <1>5, <1>11, <2>1
<1>6. ASSUME consumer = "linear", cpc = "finished", ~UnwrittenSlot
      PROVE  Printed = IllFormed
  <2>1. \A k \in Printed : k < Units
    BY <1>1, <1>2, <1>6
  <2>2. QED  BY <1>4, <1>6, <2>1
<1>7. LinearExact
  BY <1>2, <1>4, <1>5, <1>6 DEF LinearExact
<1>8. ScanSound
  BY <1>2, <1>4 DEF ScanSound
<1>9. QED  BY <1>7, <1>8 DEF PrintedExact

\* PrintedExact for every input, block, stride, segmentation and interleaving:
\* both printers name the ill-formed units, each once and in ascending order.
THEOREM PrintersAreExact == FuzzSpec => []PrintedExact
  BY PipelineInvariant, PrintedIsExact, PTL

\* The replacement is no surrogate, and the surrogates that are left are paired.
LEMMA PairsAreLeft ==
    ASSUME InputTypeOK, NEW H, NEW L, H = Highs \ IllFormed, L = Lows \ IllFormed
    PROVE  {k \in L : k-1 \notin H} \cup {k \in H : k+1 \notin L} = {}
<1>0. Highs \subseteq Int /\ Lows \subseteq Int
  BY DEF Highs, Lows
<1>1. ASSUME NEW k \in L PROVE k - 1 \in H
  <2>1. k - 1 \in Highs /\ k \in Lows /\ k \in Int
    BY <1>0 DEF IllFormed
  <2>2. k - 1 \notin Lows /\ (k - 1) + 1 = k
    BY <2>1, HighsLowsDisjoint
  <2>3. k - 1 \notin IllFormed
    BY <2>1, <2>2 DEF IllFormed
  <2>4. QED  BY <2>1, <2>3
<1>2. ASSUME NEW k \in H PROVE k + 1 \in L
  <2>1. k + 1 \in Lows /\ k \in Highs /\ k \in Int
    BY <1>0 DEF IllFormed
  <2>2. k + 1 \notin Highs /\ (k + 1) - 1 = k
    BY <2>1, HighsLowsDisjoint
  <2>3. k + 1 \notin IllFormed
    BY <2>1, <2>2 DEF IllFormed
  <2>4. QED  BY <2>1, <2>3
<1>3. QED  BY <1>1, <1>2

\* U+FFFD in place of an ill-formed unit is no surrogate; other units keep
\* their class.
LEMMA ReplacementClass ==
    ASSUME InputTypeOK, NEW k \in 0..Units-1, NEW unit,
           unit = IF k \in IllFormed THEN 65533 ELSE UnitAt(k)
    PROVE  /\ IsHighSurrogate(unit) <=> k \in Highs \ IllFormed
           /\ IsLowSurrogate(unit) <=> k \in Lows \ IllFormed
  BY DEF Highs, Lows, IsHighSurrogate, IsLowSurrogate

\* The repaired stream, read as an input, unit by unit.
LEMMA TextUnits ==
    ASSUME PipelineInv, consumer = "repair", cpc = "finished"
    PROVE  /\ Len(repaired) \in {2 * Units, size}
           /\ Text!Units = Units /\ Text!OddTrailingByte = 0
           /\ \A k \in 0..Units-1 :
                 Text!UnitAt(k) = IF k \in IllFormed THEN 65533 ELSE UnitAt(k)
<1>1. /\ InputTypeOK /\ Units \in Nat /\ size = 2 * Units + OddTrailingByte
      /\ OddTrailingByte \in {0, 1} /\ HB \in {0, 1} /\ produced \in Nat
  BY SizesFacts DEF PipelineInv
<1>2. Reached = produced /\ Units <= produced /\ consumed \in Nat
  BY <1>1 DEF PipelineInv, Extent, Reached, ConsumerTypes
<1>3. /\ Len(repaired) = IF produced <= Units THEN 2 * produced ELSE size
      /\ \A k \in 0..Units-1 : /\ repaired[2 * k + 1] = RightByte(k, 0)
                               /\ repaired[2 * k + 2] = RightByte(k, 1)
  BY <1>1, <1>2 DEF PipelineInv, RepairInv
<1>4. Len(repaired) \in {2 * Units, size}
  BY <1>1, <1>2, <1>3
<1>5. 2 * (Len(repaired) \div 2) = 2 * Units
  BY <1>1, <1>4
<1>6. Text!Units = Units /\ Text!OddTrailingByte = 0
  BY <1>1, <1>5 DEF Text!Units, Text!OddTrailingByte
<1>7. ASSUME NEW k \in 0..Units-1
      PROVE  Text!UnitAt(k) = IF k \in IllFormed THEN 65533 ELSE UnitAt(k)
  <2> DEFINE t == [i \in 0..Len(repaired)-1 |-> repaired[i + 1]]
  <2>1. 2 * k + 0 \in 0..Len(repaired)-1 /\ 2 * k + 1 \in 0..Len(repaired)-1
    BY <1>1, <1>4
  <2>2. t[2 * k + 0] = RightByte(k, 0) /\ t[2 * k + 1] = RightByte(k, 1)
    <3>1. (2 * k + 0) + 1 = 2 * k + 1 /\ (2 * k + 1) + 1 = 2 * k + 2
      OBVIOUS
    <3>2. QED  BY <1>3, <2>1, <3>1
  <2>3. Text!UnitAt(k) = 256 * t[2 * k + HB] + t[2 * k + (1 - HB)]
    BY DEF Text!UnitAt, Text!HighByte, Text!LowByte
  <2> HIDE DEF t
  <2>4. Text!UnitAt(k) = 256 * RightByte(k, HB) + RightByte(k, 1 - HB)
    <3>1. CASE HB = 0
      BY <2>2, <2>3, <3>1
    <3>2. CASE HB = 1
      BY <2>2, <2>3, <3>2
    <3>3. QED  BY <1>1, <3>1, <3>2
  <2>5. CASE k \in IllFormed
    <3>1. RightByte(k, HB) = 255 /\ RightByte(k, 1 - HB) = 253
      BY <1>1, <2>5 DEF RightByte, ReplacementByte
    <3>2. QED  BY <2>4, <2>5, <3>1
  <2>6. CASE k \notin IllFormed
    BY <2>4, <2>6 DEF RightByte, UnitAt, HighByte, LowByte
  <2>7. QED  BY <2>5, <2>6
<1>8. QED  BY <1>4, <1>6, <1>7

\* The invariant implies that repaired text is well formed.
LEMMA RepairedIsSound == PipelineInv => RepairSound
<1> SUFFICES ASSUME PipelineInv, consumer = "repair", cpc = "finished"
             PROVE  /\ Len(repaired) \in {2 * Units, size}
                    /\ Text!ErrorCount = 0
                    /\ \A k \in 0..Units-1 :
                          Text!UnitAt(k) = IF k \in IllFormed THEN 65533 ELSE UnitAt(k)
  BY DEF RepairSound
<1>1. InputTypeOK /\ Highs \subseteq 0..Units-1 /\ Lows \subseteq 0..Units-1
  BY SizesFacts DEF PipelineInv, Highs, Lows
<1>2. /\ \A k \in 0..Units-1 : /\ Text!IsHighSurrogate(Text!UnitAt(k)) <=> k \in Highs \ IllFormed
                               /\ Text!IsLowSurrogate(Text!UnitAt(k)) <=> k \in Lows \ IllFormed
  BY <1>1, TextUnits, ReplacementClass DEF Text!IsHighSurrogate, Text!IsLowSurrogate,
     IsHighSurrogate, IsLowSurrogate
<1>3. Text!Highs = Highs \ IllFormed /\ Text!Lows = Lows \ IllFormed
  <2>1. /\ Text!Highs = {k \in 0..Units-1 : Text!IsHighSurrogate(Text!UnitAt(k))}
        /\ Text!Lows = {k \in 0..Units-1 : Text!IsLowSurrogate(Text!UnitAt(k))}
    <3>1. Text!Units = Units
      BY TextUnits
    <3>2. QED  BY <3>1 DEF Text!Highs, Text!Lows
  <2>2. QED  BY <1>1, <1>2, <2>1
<1>4. Text!IllFormed = {}
  BY <1>1, <1>3, PairsAreLeft DEF Text!IllFormed
<1>5. Text!ErrorCount = 0
  <2>1. Text!OddTrailingByte = 0 /\ Cardinality({}) = 0
    BY TextUnits, FS_EmptySet
  <2>2. Text!Cardinality({}) = Cardinality({})
    BY DEF Text!Cardinality, Text!IsFiniteSet, Cardinality, IsFiniteSet
  <2>3. QED  BY <1>4, <2>1, <2>2 DEF Text!ErrorCount
<1>6. QED  BY <1>5, TextUnits

\* RepairSound for every input, segmentation and interleaving: the repaired
\* text is well-formed and differs from the input in the ill-formed units only.
THEOREM RepairIsSound == FuzzSpec => []RepairSound
  BY PipelineInvariant, RepairedIsSound, PTL

-----------------------------------------------------------------------------
(* Part 3: the reference implementation.                                   *)

-----------------------------------------------------------------------------
(* The decoder.                                                            *)

\* It reads the program's input, and judges its units by the same classes.
SameInput ==
    /\ O!Units = Units /\ O!Highs = Highs /\ O!Lows = Lows /\ O!IllFormed = IllFormed
    /\ O!OddTrailingByte = OddTrailingByte /\ (O!InputTypeOK <=> InputTypeOK)
    /\ \A k : O!UnitAt(k) = UnitAt(k)
    /\ \A u : /\ O!IsHighSurrogate(u) <=> IsHighSurrogate(u)
              /\ O!IsLowSurrogate(u) <=> IsLowSurrogate(u)
    /\ opositions \in Seq(Nat) => O!Marked = Range(opositions)

\* The oracle's module reads the same units and error set off the same input.
LEMMA OracleReads == SameInput
<1>1. /\ O!Units = Units /\ O!OddTrailingByte = OddTrailingByte
      /\ O!InputTypeOK <=> InputTypeOK
      /\ \A k : O!UnitAt(k) = UnitAt(k)
      /\ \A u : /\ O!IsHighSurrogate(u) <=> IsHighSurrogate(u)
                /\ O!IsLowSurrogate(u) <=> IsLowSurrogate(u)
  BY DEF O!Units, Units, O!OddTrailingByte, OddTrailingByte, O!InputTypeOK, InputTypeOK,
         O!UnitAt, UnitAt, O!HighByte, HighByte, O!LowByte, LowByte, O!IsHighSurrogate,
         IsHighSurrogate, O!IsLowSurrogate, IsLowSurrogate
<1>2. O!Highs = Highs /\ O!Lows = Lows
  BY <1>1 DEF O!Highs, Highs, O!Lows, Lows
<1>3. O!IllFormed = IllFormed
  BY <1>2 DEF O!IllFormed, IllFormed
<1>4. ASSUME opositions \in Seq(Nat) PROVE O!Marked = Range(opositions)
  <2>1. O!Marked = {opositions[i] : i \in 1..Len(opositions)}
    BY DEF O!Marked
  <2>2. Range(opositions) = {opositions[i] : i \in DOMAIN opositions}
    BY DEF Range
  <2>3. DOMAIN opositions = 1..Len(opositions)
    BY <1>4
  <2>4. QED  BY <2>1, <2>2, <2>3
<1>5. QED  BY <1>1, <1>2, <1>3, <1>4 DEF SameInput

\* A sequence over a set is one over any larger set.
LEMMA WiderSeq ==
    ASSUME NEW S, NEW T, S \subseteq T, NEW s \in Seq(S)
    PROVE  s \in Seq(T)
<1>1. s \in [1..Len(s) -> S] /\ Len(s) \in Nat
  OBVIOUS
<1>2. s \in [1..Len(s) -> T]
  BY <1>1
<1>3. QED  BY <1>1, <1>2

\* Appending something larger keeps a listing increasing.
LEMMA IncreasingAppend ==
    ASSUME NEW S \in SUBSET Nat, NEW s \in Seq(S), NEW x \in S, Increasing(s),
           \A y \in Range(s) : y < x
    PROVE  /\ Append(s, x) \in Seq(S) /\ Increasing(Append(s, x))
           /\ Range(Append(s, x)) = Range(s) \cup {x}
<1> DEFINE u == Append(s, x)
           n == Len(s)
<1>1. /\ u \in Seq(S) /\ n \in Nat /\ Len(u) = n + 1 /\ u[n + 1] = x
      /\ \A i \in 1..n : u[i] = s[i] /\ s[i] \in Range(s)
      /\ DOMAIN u = 1..n+1 /\ DOMAIN s = 1..n
  BY DEF Range
<1> HIDE DEF u, n
<1>2. \A i \in 1..n+1 : i = n + 1 \/ i \in 1..n
  BY <1>1
<1>3. ASSUME NEW i \in 1..n+1, NEW j \in 1..n+1, i < j PROVE u[i] < u[j]
  <2>1. i \in 1..n
    BY <1>1, <1>3
  <2>2. CASE j = n + 1
    BY <1>1, <2>1, <2>2
  <2>3. CASE j \in 1..n
    BY <1>1, <1>3, <2>1, <2>3 DEF Increasing, n
  <2>4. QED  BY <1>2, <2>2, <2>3
<1>4. Range(u) = Range(s) \cup {x}
  <2>1. Range(u) = {u[i] : i \in 1..n+1} /\ Range(s) = {s[i] : i \in 1..n}
    BY <1>1 DEF Range
  <2>2. n + 1 \in 1..n+1 /\ \A i \in 1..n : i \in 1..n+1
    BY <1>1
  <2>3. QED  BY <1>1, <1>2, <2>1, <2>2
<1>5. QED  BY <1>1, <1>3, <1>4 DEF Increasing, u

\* What the invariant says of the decoder while it scans, in the program's
\* words.
LEMMA DecoderFacts ==
    ASSUME DecodeInv
    PROVE  /\ InputTypeOK /\ Units \in Nat /\ IllFormed \subseteq 0..Units-1
           /\ opc \in {"scan", "repair", "done"} /\ oindex \in 0..Units
           /\ opositions \in Seq(0..Units-1) /\ opositions \in Seq(Nat)
           /\ orepairedSize \in Nat /\ Increasing(opositions)
           /\ Range(opositions) = {k \in IllFormed : k < oindex}
           /\ ~(oindex - 1 \in Highs /\ oindex \in Lows)
           /\ opc # "scan" => oindex = Units
<1>1. InputTypeOK /\ Units \in Nat /\ IllFormed \subseteq 0..Units-1
  BY OracleReads, UnitsType, IllFormedFacts DEF DecodeInv, O!TypeOK, SameInput
<1>2. opositions \in Seq(0..Units-1) /\ opositions \in Seq(Nat)
  <2>1. opositions \in Seq(0..Units-1)
    BY OracleReads DEF DecodeInv, O!TypeOK, SameInput
  <2>2. 0..Units-1 \subseteq Nat
    BY <1>1
  <2>3. QED  BY <2>1, <2>2, WiderSeq
<1>3. QED  BY <1>1, <1>2, OracleReads DEF DecodeInv, O!TypeOK, O!ScanExact, SameInput

\* What a step of the scan has to establish.
LEMMA ScanNext ==
    ASSUME DecodeInv, opc = "scan", UNCHANGED <<input, opc, orepaired, orepairedSize>>,
           oindex' \in 0..Units, opositions' \in Seq(0..Units-1), Increasing(opositions'),
           Range(opositions') = {k \in IllFormed : k < oindex'},
           ~(oindex' - 1 \in Highs /\ oindex' \in Lows)
    PROVE  DecodeInv'
<1>1. /\ Units' = Units /\ IllFormed' = IllFormed /\ Highs' = Highs /\ Lows' = Lows
      /\ InputTypeOK' /\ InputTypeOK /\ Units \in Nat /\ opc' = "scan"
      /\ orepairedSize' \in Nat
  BY InputStable, DecoderFacts
<1>2. opositions' \in Seq(Nat)
  <2>1. 0..Units-1 \subseteq Nat
    BY <1>1
  <2>2. QED  BY <2>1, WiderSeq
<1>3. /\ O!Units' = Units /\ O!Highs' = Highs /\ O!Lows' = Lows /\ O!IllFormed' = IllFormed
      /\ O!InputTypeOK' /\ O!Marked' = Range(opositions')
  <2>1. SameInput'
    BY OracleReads, PTL
  <2>2. /\ O!Units' = Units' /\ O!Highs' = Highs' /\ O!Lows' = Lows'
        /\ O!IllFormed' = IllFormed' /\ (O!InputTypeOK' <=> InputTypeOK')
        /\ (opositions' \in Seq(Nat) => O!Marked' = Range(opositions'))
    BY <2>1 DEF SameInput, Range
  <2>3. QED  BY <1>1, <1>2, <2>2
<1>4. O!TypeOK'
  BY <1>1, <1>3 DEF O!TypeOK
<1>5. O!ScanExact'
  BY <1>3 DEF O!ScanExact
<1>6. QED  BY <1>1, <1>4, <1>5 DEF DecodeInv, Increasing

\* The arms of the scan, in the program's words.
LEMMA PairScans == DecodeInv /\ O!Pair => DecodeInv'
<1> SUFFICES ASSUME DecodeInv, O!Pair PROVE DecodeInv'
  OBVIOUS
<1>1. /\ opc = "scan" /\ oindex' = oindex + 2 /\ opositions' = opositions
      /\ UNCHANGED <<input, opc, orepaired, orepairedSize>>
  BY DEF O!Pair, O!Scanning, O!Advance, O!PairLength, O!input, input
<1>2. /\ oindex + 1 < Units /\ IsHighSurrogate(UnitAt(oindex))
      /\ IsLowSurrogate(UnitAt(oindex + 1))
  BY OracleReads DEF O!Pair, O!ClaimsNext, SameInput
<1>3. InputTypeOK /\ Units \in Nat /\ oindex \in 0..Units
  BY DecoderFacts
<1>4. oindex \in Highs /\ oindex + 1 \in Lows
  BY <1>2, <1>3 DEF Highs, Lows
<1>5. oindex \notin Lows /\ oindex + 1 \notin Highs
  BY <1>3, <1>4, HighsLowsDisjoint
<1>6. oindex \notin IllFormed /\ oindex + 1 \notin IllFormed
  <2>1. (oindex + 1) - 1 = oindex
    BY <1>3
  <2>2. QED  BY <1>4, <1>5, <2>1 DEF IllFormed
<1>7. {k \in IllFormed : k < oindex + 2} = {k \in IllFormed : k < oindex}
  <2>1. ASSUME NEW k \in IllFormed PROVE k < oindex + 2 <=> k < oindex
    <3>1. k \in Int /\ k # oindex /\ k # oindex + 1
      BY <1>6, DecoderFacts
    <3>2. QED  BY <1>3, <3>1
  <2>2. QED  BY <2>1
<1>8. oindex + 2 \in 0..Units /\ (oindex + 2) - 1 = oindex + 1
  BY <1>2, <1>3
<1>9. QED  BY <1>1, <1>5, <1>7, <1>8, DecoderFacts, ScanNext

\* The unit looked at alone: what has been found before it and at it.
LEMMA FoundNext ==
    ASSUME DecodeInv
    PROVE  {k \in IllFormed : k < oindex + 1} =
             {k \in IllFormed : k < oindex} \cup (IF oindex \in IllFormed THEN {oindex} ELSE {})
<1>1. oindex \in Int /\ IllFormed \subseteq Int
  BY DecoderFacts
<1>2. \A k \in Int : k < oindex + 1 <=> k < oindex \/ k = oindex
  BY <1>1
<1>3. oindex < oindex + 1
  BY <1>1
<1>4. QED  BY <1>1, <1>2, <1>3

\* Recording a lone surrogate and going on preserves the decoder's invariant.
LEMMA LoneScans ==
    ASSUME DecodeInv, opc = "scan", oindex < Units, oindex \in IllFormed,
           ~(oindex \in Highs /\ oindex + 1 \in Lows),
           opositions' = Append(opositions, oindex), oindex' = oindex + 1,
           UNCHANGED <<input, opc, orepaired, orepairedSize>>
    PROVE  DecodeInv'
<1>1. /\ Units \in Nat /\ oindex \in 0..Units-1 /\ opositions \in Seq(0..Units-1)
      /\ Increasing(opositions) /\ Range(opositions) = {k \in IllFormed : k < oindex}
      /\ oindex + 1 \in 0..Units /\ (oindex + 1) - 1 = oindex
  <2>1. /\ Units \in Nat /\ oindex \in 0..Units /\ opositions \in Seq(0..Units-1)
        /\ Increasing(opositions) /\ Range(opositions) = {k \in IllFormed : k < oindex}
    BY DecoderFacts
  <2>2. /\ oindex \in 0..Units-1 /\ oindex + 1 \in 0..Units /\ (oindex + 1) - 1 = oindex
    BY <2>1
  <2>3. QED  BY <2>1, <2>2
<1>2. /\ opositions' \in Seq(0..Units-1) /\ Increasing(opositions')
      /\ Range(opositions') = Range(opositions) \cup {oindex}
  <2>1. 0..Units-1 \in SUBSET Nat /\ \A y \in Range(opositions) : y < oindex
    BY <1>1
  <2> DEFINE S == 0..Units-1
             s == opositions
             x == oindex
  <2>2. S \in SUBSET Nat /\ s \in Seq(S) /\ x \in S /\ Increasing(s) /\ \A y \in Range(s) : y < x
    BY <1>1, <2>1
  <2> HIDE DEF S, s, x
  <2>3. /\ Append(s, x) \in Seq(S) /\ Increasing(Append(s, x))
        /\ Range(Append(s, x)) = Range(s) \cup {x}
    BY <2>2, IncreasingAppend
  <2>4. QED  BY <2>3 DEF S, s, x, Increasing
<1>3. Range(opositions') = {k \in IllFormed : k < oindex'}
  BY <1>1, <1>2, FoundNext
<1>4. QED  BY <1>1, <1>2, <1>3, ScanNext

\* LoneHigh preserves the decoder's invariant.
LEMMA LoneHighScans == DecodeInv /\ O!LoneHigh => DecodeInv'
<1> SUFFICES ASSUME DecodeInv, O!LoneHigh PROVE DecodeInv'
  OBVIOUS
<1>1. /\ opc = "scan" /\ oindex' = oindex + 1 /\ opositions' = Append(opositions, oindex)
      /\ UNCHANGED <<input, opc, orepaired, orepairedSize>>
  BY DEF O!LoneHigh, O!Scanning, O!Advance, O!input, input
<1>2. /\ oindex < Units /\ IsHighSurrogate(UnitAt(oindex))
      /\ ~(oindex + 1 < Units /\ IsLowSurrogate(UnitAt(oindex + 1)))
  BY OracleReads DEF O!LoneHigh, O!Scanning, O!ClaimsNext, SameInput
<1>3. Units \in Nat /\ oindex \in 0..Units
  BY DecoderFacts
<1>4. oindex \in Highs /\ oindex + 1 \notin Lows
  BY <1>2, <1>3 DEF Highs, Lows
<1>5. oindex \in IllFormed
  BY <1>4 DEF IllFormed
<1>6. QED  BY <1>1, <1>2, <1>4, <1>5, LoneScans

\* LoneLow preserves the decoder's invariant.
LEMMA LoneLowScans == DecodeInv /\ O!LoneLow => DecodeInv'
<1> SUFFICES ASSUME DecodeInv, O!LoneLow PROVE DecodeInv'
  OBVIOUS
<1>1. /\ opc = "scan" /\ oindex' = oindex + 1 /\ opositions' = Append(opositions, oindex)
      /\ UNCHANGED <<input, opc, orepaired, orepairedSize>>
  BY DEF O!LoneLow, O!Scanning, O!Advance, O!input, input
<1>2. oindex < Units /\ IsLowSurrogate(UnitAt(oindex))
  BY OracleReads DEF O!LoneLow, O!Scanning, SameInput
<1>3. InputTypeOK /\ Units \in Nat /\ oindex \in 0..Units
  BY DecoderFacts
<1>4. oindex \in Lows
  BY <1>2, <1>3 DEF Lows
<1>5. oindex \notin Highs /\ oindex - 1 \notin Highs
  BY <1>3, <1>4, HighsLowsDisjoint, DecoderFacts
<1>6. oindex \in IllFormed
  BY <1>4, <1>5 DEF IllFormed
<1>7. QED  BY <1>1, <1>2, <1>5, <1>6, LoneScans

\* Ordinary preserves the decoder's invariant.
LEMMA OrdinaryScans == DecodeInv /\ O!Ordinary => DecodeInv'
<1> SUFFICES ASSUME DecodeInv, O!Ordinary PROVE DecodeInv'
  OBVIOUS
<1>1. /\ opc = "scan" /\ oindex' = oindex + 1 /\ opositions' = opositions
      /\ UNCHANGED <<input, opc, orepaired, orepairedSize>>
  BY DEF O!Ordinary, O!Scanning, O!Advance, O!input, input
<1>2. oindex < Units /\ ~IsHighSurrogate(UnitAt(oindex)) /\ ~IsLowSurrogate(UnitAt(oindex))
  BY OracleReads DEF O!Ordinary, O!Scanning, SameInput
<1>3. Units \in Nat /\ oindex \in 0..Units
  BY DecoderFacts
<1>4. oindex \notin Highs /\ oindex \notin IllFormed
  BY <1>2 DEF Highs, Lows, IllFormed
<1>5. {k \in IllFormed : k < oindex + 1} = {k \in IllFormed : k < oindex}
  BY <1>4, FoundNext
<1>6. oindex + 1 \in 0..Units /\ (oindex + 1) - 1 = oindex
  BY <1>2, <1>3
<1>7. QED  BY <1>1, <1>4, <1>5, <1>6, DecoderFacts, ScanNext

\* The scan leaves its findings to the repair, and the repair leaves them as
\* they are.
LEMMA FindingsStay ==
    ASSUME DecodeInv, UNCHANGED <<input, oindex, opositions>>,
           opc' \in {"scan", "repair", "done"}, opc' # "scan" => oindex = Units,
           orepairedSize' \in Nat,
           opc' = "done" =>
              /\ orepairedSize' = 2 * O!RepairedUnits
              /\ orepaired' = [i \in 0..(2 * O!RepairedUnits)-1 |->
                                 O!EncodedByte(O!RepairedUnit(i \div 2), i % 2)]
    PROVE  DecodeInv'
<1>1. /\ size' = size /\ data' = data /\ HB' = HB /\ oindex' = oindex
      /\ opositions' = opositions
  BY DEF input
<1>2. /\ O!Units' = O!Units /\ O!Highs' = O!Highs /\ O!Lows' = O!Lows
      /\ O!IllFormed' = O!IllFormed /\ O!Marked' = O!Marked
      /\ O!RepairedUnits' = O!RepairedUnits /\ (O!InputTypeOK' <=> O!InputTypeOK)
      /\ Units' = Units
  BY <1>1 DEF O!Units, O!Highs, O!Lows, O!IllFormed, O!Marked, O!RepairedUnits, O!UnitAt,
       O!HighByte, O!LowByte, O!IsHighSurrogate, O!IsLowSurrogate, O!InputTypeOK,
       O!OddTrailingByte, Units
<1>3. O!TypeOK'
  BY <1>1, <1>2 DEF DecodeInv, O!TypeOK
<1>4. O!ScanExact'
  BY <1>1, <1>2 DEF DecodeInv, O!ScanExact
<1>5. [i \in 0..(2 * O!RepairedUnits)-1 |-> O!EncodedByte(O!RepairedUnit(i \div 2), i % 2)]'
        = [i \in 0..(2 * O!RepairedUnits)-1 |-> O!EncodedByte(O!RepairedUnit(i \div 2), i % 2)]
  BY <1>1 DEF O!RepairedUnits, O!RepairedUnit, O!EncodedByte, O!Units, O!Marked, O!UnitAt,
       O!HighByte, O!LowByte, O!OddTrailingByte
<1>6. opc' = "done" =>
         /\ orepairedSize' = 2 * O!RepairedUnits'
         /\ orepaired' = [i \in 0..(2 * O!RepairedUnits)-1 |->
                            O!EncodedByte(O!RepairedUnit(i \div 2), i % 2)]'
  BY <1>2, <1>5
<1>7. Increasing(opositions)'
  BY <1>1 DEF DecodeInv, Increasing
<1>8. (opc # "scan" => oindex = Units)'
  BY <1>1, <1>2
<1>9. QED  BY <1>3, <1>4, <1>6, <1>7, <1>8 DEF DecodeInv

\* ScanEnds preserves the decoder's invariant.
LEMMA ScanEndsKeeps == DecodeInv /\ O!ScanEnds => DecodeInv'
<1> SUFFICES ASSUME DecodeInv, O!ScanEnds PROVE DecodeInv'
  OBVIOUS
<1>1. /\ opc = "scan" /\ opc' = "repair" /\ oindex >= Units
      /\ UNCHANGED <<input, oindex, opositions, orepaired, orepairedSize>>
  BY OracleReads DEF O!ScanEnds, O!input, input, SameInput
<1>2. Units \in Nat /\ oindex \in 0..Units /\ orepairedSize \in Nat
  BY DecoderFacts
<1>3. oindex = Units
  BY <1>1, <1>2
<1>4. QED  BY <1>1, <1>2, <1>3, FindingsStay

\* Repair preserves the decoder's invariant.
LEMMA RepairKeeps == DecodeInv /\ O!Repair => DecodeInv'
<1> SUFFICES ASSUME DecodeInv, O!Repair PROVE DecodeInv'
  OBVIOUS
<1>1. /\ opc = "repair" /\ opc' = "done" /\ UNCHANGED <<input, oindex, opositions>>
      /\ orepairedSize' = 2 * O!RepairedUnits
      /\ orepaired' = [i \in 0..(2 * O!RepairedUnits)-1 |->
                         O!EncodedByte(O!RepairedUnit(i \div 2), i % 2)]
  BY DEF O!Repair, O!input, input
<1>2. oindex = Units /\ InputTypeOK
  BY <1>1, DecoderFacts
<1>3. 2 * O!RepairedUnits \in Nat
  <2>1. Units \in Nat /\ OddTrailingByte \in {0, 1}
    BY <1>2, UnitsType
  <2>2. QED  BY <2>1, OracleReads DEF O!RepairedUnits, SameInput
<1>4. QED  BY <1>1, <1>2, <1>3, FindingsStay

\* The decoder's invariant survives a step that leaves the decoder alone.
LEMMA DecoderRests ==
    ASSUME DecodeInv, UNCHANGED <<input, diagnosis>>
    PROVE  DecodeInv'
<1>1. UNCHANGED <<input, opc, oindex, opositions, orepaired, orepairedSize>>
  BY DEF diagnosis
<1>2. /\ opc \in {"scan", "repair", "done"} /\ (opc # "scan" => oindex = Units)
      /\ orepairedSize \in Nat
  BY DecoderFacts
<1>3. opc = "done" =>
        /\ orepairedSize = 2 * O!RepairedUnits
        /\ orepaired = [i \in 0..(2 * O!RepairedUnits)-1 |->
                          O!EncodedByte(O!RepairedUnit(i \div 2), i % 2)]
  BY DEF DecodeInv
<1>4. QED  BY <1>1, <1>2, <1>3, FindingsStay

\* The decoder begins in its invariant.
LEMMA DecoderStarts == FuzzInit => DecodeInv
<1> SUFFICES ASSUME FuzzInit PROVE DecodeInv
  OBVIOUS
<1>1. /\ opc = "scan" /\ oindex = 0 /\ opositions = <<>> /\ orepairedSize = 0
      /\ InputTypeOK
  BY DEF FuzzInit, DiagnosisInit, PipelineInit, Init, InputInit, InputTypeOK
<1>2. Units \in Nat /\ IllFormed \subseteq 0..Units-1 /\ Highs \subseteq 0..Units-1
  BY <1>1, UnitsType, IllFormedFacts DEF Highs
<1>3. <<>> \in Seq(0..Units-1) /\ <<>> \in Seq(Nat) /\ Range(<<>>) = {} /\ Len(<<>>) = 0
  BY DEF Range
<1>4. O!TypeOK
  BY <1>1, <1>2, <1>3, OracleReads DEF O!TypeOK, SameInput
<1>5. O!ScanExact
  <2>1. \A k \in IllFormed : ~(k < 0)
    BY <1>2
  <2>2. 0 - 1 \notin Highs
    BY <1>2
  <2>3. O!Marked = {}
    BY <1>1, <1>3, OracleReads DEF SameInput
  <2>4. QED  BY <1>1, <2>1, <2>2, <2>3, OracleReads DEF O!ScanExact, SameInput
<1>6. Increasing(opositions)
  BY <1>1, <1>3 DEF Increasing
<1>7. QED  BY <1>1, <1>4, <1>5, <1>6 DEF DecodeInv

\* Every step of the fuzzing suite preserves the decoder's invariant.
LEMMA FuzzKeepsDecoder == DecodeInv /\ [FuzzNext]_fuzzVars => DecodeInv'
<1> SUFFICES ASSUME DecodeInv, [FuzzNext]_fuzzVars PROVE DecodeInv'
  OBVIOUS
<1>1. CASE Diagnose
  BY <1>1, PairScans, LoneHighScans, LoneLowScans, OrdinaryScans, ScanEndsKeeps, RepairKeeps
     DEF Diagnose, O!Step
<1>2. CASE RunProducer
  <2>1. UNCHANGED input
    BY <1>2 DEF RunProducer, Produce, Step, Invoke, Entry, MarkBlockLoop, AfterMarkBlocks,
                MarkTailLoop, MarkTailDone
  <2>2. QED  BY <1>2, <2>1, DecoderRests DEF RunProducer
<1>3. CASE RunConsumer
  <2>1. UNCHANGED vars
    BY <1>3 DEF RunConsumer, Consume, CallConsumer, PosBlockLoop, ScanStrideLoop,
                RepairLoop, Advance
  <2>2. QED  BY <1>3, <2>1, DecoderRests DEF RunConsumer, vars
<1>4. CASE CaseDone \/ UNCHANGED fuzzVars
  BY <1>4, DecoderRests DEF CaseDone, fuzzVars, pipelineVars, vars
<1>5. QED  BY <1>1, <1>2, <1>3, <1>4 DEF FuzzNext

\* Before each unit the decoder has found exactly the ill-formed units it has
\* passed, in ascending order.
THEOREM DecoderInvariant == FuzzSpec => []DecodeInv
  BY DecoderStarts, FuzzKeepsDecoder, PTL DEF FuzzSpec

-----------------------------------------------------------------------------
(* What the reference implementation delivers.                             *)

\* When its scan ends, the oracle has listed every ill-formed unit, once.
LEMMA FoundExactly ==
    ASSUME DecodeInv, opc # "scan"
    PROVE  /\ Range(opositions) = IllFormed /\ Len(opositions) = Cardinality(IllFormed)
           /\ opositions \in Seq(Nat) /\ Increasing(opositions)
<1>1. /\ oindex = Units /\ Units \in Nat /\ IllFormed \subseteq 0..Units-1
      /\ opositions \in Seq(Nat) /\ Increasing(opositions)
      /\ Range(opositions) = {k \in IllFormed : k < oindex}
  BY DecoderFacts
<1>2. Range(opositions) = IllFormed
  <2>1. \A k \in IllFormed : k < oindex
    BY <1>1
  <2>2. QED  BY <1>1, <2>1
<1>3. Cardinality(Range(opositions)) = Len(opositions)
  BY <1>1, IncreasingSize
<1>4. QED  BY <1>1, <1>2, <1>3

\* The repaired text, unit by unit, and its bytes.
LEMMA DeliveredUnits ==
    ASSUME DecodeInv, opc = "done"
    PROVE  /\ orepairedSize = 2 * (Units + OddTrailingByte)
           /\ O!RepairedUnits = Units + OddTrailingByte
           /\ \A k \in 0..Units+OddTrailingByte-1 :
                 /\ O!RepairedUnit(k) \in Nat /\ O!RepairedUnit(k) < 65536
                 /\ O!RepairedUnit(k) = IF k \in IllFormed \/ k = Units THEN 65533
                                                                        ELSE UnitAt(k)
                 /\ orepaired[2 * k + HB] = O!RepairedUnit(k) \div 256
                 /\ orepaired[2 * k + (1 - HB)] = O!RepairedUnit(k) % 256
<1>1. /\ InputTypeOK /\ Units \in Nat /\ OddTrailingByte \in {0, 1} /\ HB \in {0, 1}
      /\ IllFormed \subseteq 0..Units-1
  BY DecoderFacts, UnitsType DEF InputTypeOK
<1>2. O!Marked = IllFormed
  BY FoundExactly, OracleReads DEF SameInput
<1>3. O!RepairedUnits = Units + OddTrailingByte
  BY OracleReads DEF O!RepairedUnits, SameInput
<1>4. /\ orepairedSize = 2 * (Units + OddTrailingByte)
      /\ orepaired = [i \in 0..(2 * (Units + OddTrailingByte))-1 |->
                         O!EncodedByte(O!RepairedUnit(i \div 2), i % 2)]
  BY <1>3 DEF DecodeInv
<1>5. ASSUME NEW k \in 0..Units+OddTrailingByte-1
      PROVE  /\ O!RepairedUnit(k) \in Nat /\ O!RepairedUnit(k) < 65536
             /\ O!RepairedUnit(k) = IF k \in IllFormed \/ k = Units THEN 65533 ELSE UnitAt(k)
             /\ orepaired[2 * k + HB] = O!RepairedUnit(k) \div 256
             /\ orepaired[2 * k + (1 - HB)] = O!RepairedUnit(k) % 256
  <2> DEFINE unit == O!RepairedUnit(k)
  <2>1. unit = IF k \in IllFormed \/ k = Units THEN 65533 ELSE UnitAt(k)
    BY <1>2, OracleReads DEF O!RepairedUnit, O!REPLACEMENT, SameInput
  <2>2. unit \in Nat /\ unit < 65536
    <3> HIDE DEF unit
    <3>1. CASE k \in IllFormed \/ k = Units
      BY <2>1, <3>1
    <3>2. CASE k \notin IllFormed /\ k # Units
      <4>1. k \in 0..Units-1
        BY <1>1, <3>2
      <4> DEFINE h == HighByte(k)
                 l == LowByte(k)
      <4>2. h \in 0..255 /\ l \in 0..255 /\ UnitAt(k) = 256 * h + l
        BY <1>1, <4>1, BytesOfUnit DEF UnitAt
      <4> HIDE DEF h, l
      <4>3. h \in Nat /\ l \in Nat /\ h < 256 /\ l < 256
        BY <4>2
      <4>4. UnitAt(k) \in Nat /\ UnitAt(k) < 65536
        BY <4>2, <4>3
      <4>5. QED  BY <2>1, <3>2, <4>4
    <3>3. QED  BY <3>1, <3>2
  <2>3. /\ 2 * k + 0 \in 0..(2 * (Units + OddTrailingByte))-1
        /\ 2 * k + 1 \in 0..(2 * (Units + OddTrailingByte))-1
        /\ (2 * k + 0) \div 2 = k /\ (2 * k + 1) \div 2 = k
        /\ ((2 * k + 0) % 2) = 0 /\ ((2 * k + 1) % 2) = 1
    BY <1>1
  <2>4. /\ orepaired[2 * k + 0] = O!EncodedByte(unit, 0)
        /\ orepaired[2 * k + 1] = O!EncodedByte(unit, 1)
    BY <1>4, <2>3
  <2> HIDE DEF unit
  <2>5. O!EncodedByte(unit, HB) = unit \div 256 /\ O!EncodedByte(unit, 1 - HB) = unit % 256
    <3>1. 1 - HB # HB
      BY <1>1
    <3>2. QED  BY <3>1 DEF O!EncodedByte
  <2>6. /\ orepaired[2 * k + HB] = O!EncodedByte(unit, HB)
        /\ orepaired[2 * k + (1 - HB)] = O!EncodedByte(unit, 1 - HB)
    <3>1. (HB = 0 /\ 1 - HB = 1) \/ (HB = 1 /\ 1 - HB = 0)
      BY <1>1
    <3>2. QED  BY <2>4, <3>1
  <2>7. QED  BY <2>1, <2>2, <2>5, <2>6 DEF unit
<1>6. QED  BY <1>3, <1>4, <1>5

\* The oracle's repaired text, unit by unit.
LEMMA DeliveredText ==
    ASSUME DecodeInv, opc = "done"
    PROVE  /\ O!R!Units = Units + OddTrailingByte /\ O!R!OddTrailingByte = 0
           /\ \A k \in 0..Units+OddTrailingByte-1 :
                 O!R!UnitAt(k) = IF k \in IllFormed \/ k = Units THEN 65533 ELSE UnitAt(k)
<1>1. /\ InputTypeOK /\ Units \in Nat /\ OddTrailingByte \in {0, 1}
  BY DecoderFacts, UnitsType
<1>2. O!R!Units = Units + OddTrailingByte /\ O!R!OddTrailingByte = 0
  BY <1>1, DeliveredUnits DEF O!R!Units, O!R!OddTrailingByte
<1>3. ASSUME NEW k \in 0..Units+OddTrailingByte-1
      PROVE  O!R!UnitAt(k) = IF k \in IllFormed \/ k = Units THEN 65533 ELSE UnitAt(k)
  <2>1. O!R!UnitAt(k) = 256 * orepaired[2 * k + HB] + orepaired[2 * k + (1 - HB)]
    BY DEF O!R!UnitAt, O!R!HighByte, O!R!LowByte
  <2>2. \A u \in Nat : 256 * (u \div 256) + (u % 256) = u
    OBVIOUS
  <2> DEFINE unit == O!RepairedUnit(k)
  <2>5. /\ unit \in Nat /\ orepaired[2 * k + HB] = unit \div 256
        /\ orepaired[2 * k + (1 - HB)] = unit % 256
    BY DeliveredUnits
  <2> HIDE DEF unit
  <2>6. O!R!UnitAt(k) = unit
    BY <2>1, <2>2, <2>5
  <2>3. O!R!UnitAt(k) = O!RepairedUnit(k)
    BY <2>6 DEF unit
  <2>4. QED  BY <2>3, DeliveredUnits
<1>4. QED  BY <1>2, <1>3

\* The decoder's invariant implies the property the run checks.
LEMMA DecoderIsRight == DecodeInv => DecoderInv
<1> SUFFICES ASSUME DecodeInv PROVE DecoderInv
  OBVIOUS
<1>1. /\ InputTypeOK /\ Units \in Nat /\ OddTrailingByte \in {0, 1}
      /\ Highs \subseteq 0..Units-1 /\ Lows \subseteq 0..Units-1
      /\ IllFormed \subseteq 0..Units-1
  BY DecoderFacts, UnitsType DEF Highs, Lows
<1>2. O!PositionsExact
  <2>1. SUFFICES ASSUME opc # "scan"
                 PROVE  /\ O!Marked = O!IllFormed
                        /\ Len(opositions) = O!Cardinality(O!IllFormed)
                        /\ \A i, j \in 1..Len(opositions) : i < j => opositions[i] < opositions[j]
    BY DEF O!PositionsExact
  <2>2. O!Marked = IllFormed /\ O!IllFormed = IllFormed
    BY <2>1, FoundExactly, OracleReads DEF SameInput
  <2>3. O!Cardinality(IllFormed) = Cardinality(IllFormed)
    BY Zenon DEF O!Cardinality, Cardinality
  <2>4. QED  BY <2>1, <2>2, <2>3, FoundExactly DEF Increasing
<1>3. ASSUME opc = "done"
      PROVE  O!R!ErrorCount = 0
  <2>1. /\ O!R!Units = Units + OddTrailingByte /\ O!R!OddTrailingByte = 0
        /\ \A k \in 0..Units+OddTrailingByte-1 :
              O!R!UnitAt(k) = IF k \in IllFormed \/ k = Units THEN 65533 ELSE UnitAt(k)
    BY <1>3, DeliveredText
  <2>2. ASSUME NEW k \in 0..Units+OddTrailingByte-1
        PROVE  /\ O!R!IsHighSurrogate(O!R!UnitAt(k)) <=> k \in Highs \ IllFormed
               /\ O!R!IsLowSurrogate(O!R!UnitAt(k)) <=> k \in Lows \ IllFormed
    <3>1. CASE k = Units
      <4>1. O!R!UnitAt(k) = 65533 /\ k \notin Highs /\ k \notin Lows
        BY <1>1, <2>1, <3>1
      <4>2. QED  BY <4>1 DEF O!R!IsHighSurrogate, O!R!IsLowSurrogate
    <3>2. CASE k # Units
      <4>1. k \in 0..Units-1 /\ O!R!UnitAt(k) = IF k \in IllFormed THEN 65533 ELSE UnitAt(k)
        BY <1>1, <2>1, <3>2
      <4>2. QED  BY <1>1, <4>1, ReplacementClass DEF O!R!IsHighSurrogate, O!R!IsLowSurrogate,
                 IsHighSurrogate, IsLowSurrogate
    <3>3. QED  BY <3>1, <3>2
  <2>3. /\ O!R!Highs = {k \in 0..Units+OddTrailingByte-1 : O!R!IsHighSurrogate(O!R!UnitAt(k))}
        /\ O!R!Lows = {k \in 0..Units+OddTrailingByte-1 : O!R!IsLowSurrogate(O!R!UnitAt(k))}
    <3> DEFINE n == Units + OddTrailingByte
    <3>1. O!R!Units = n
      BY <2>1
    <3> HIDE DEF n
    <3>2. /\ O!R!Highs = {k \in 0..n-1 : O!R!IsHighSurrogate(O!R!UnitAt(k))}
          /\ O!R!Lows = {k \in 0..n-1 : O!R!IsLowSurrogate(O!R!UnitAt(k))}
      BY <3>1, Zenon DEF O!R!Highs, O!R!Lows
    <3>3. n - 1 = Units + OddTrailingByte - 1
      BY <1>1 DEF n
    <3>4. QED  BY <3>2, <3>3
  <2>4. 0..Units-1 \subseteq 0..Units+OddTrailingByte-1
    BY <1>1
  <2>5. O!R!Highs = Highs \ IllFormed /\ O!R!Lows = Lows \ IllFormed
    BY <1>1, <2>2, <2>3, <2>4
  <2>6. O!R!IllFormed = {}
    <3> DEFINE H == O!R!Highs
               L == O!R!Lows
    <3>1. O!R!IllFormed = {k \in L : k-1 \notin H} \cup {k \in H : k+1 \notin L}
      BY DEF O!R!IllFormed
    <3>2. H = Highs \ IllFormed /\ L = Lows \ IllFormed
      BY <2>5
    <3> HIDE DEF H, L
    <3>3. QED  BY <1>1, <3>1, <3>2, PairsAreLeft
  <2>7. O!R!Cardinality({}) = Cardinality({}) /\ Cardinality({}) = 0
    <3>1. O!R!Cardinality({}) = Cardinality({})
      BY Zenon DEF O!R!Cardinality, Cardinality
    <3>2. QED  BY <3>1, FS_EmptySet
  <2>8. QED  BY <2>1, <2>6, <2>7 DEF O!R!ErrorCount
<1>4. O!RepairSound
  <2>1. SUFFICES ASSUME opc = "done"
                 PROVE  /\ O!R!ErrorCount = 0
                        /\ O!R!Units = O!Units + O!OddTrailingByte
                        /\ \A k \in 0..O!Units-1 :
                              O!R!UnitAt(k) = IF k \in O!IllFormed THEN 65533 ELSE O!UnitAt(k)
                        /\ O!OddTrailingByte = 1 => O!R!UnitAt(O!Units) = 65533
    BY DEF O!RepairSound, O!REPLACEMENT
  <2>2. /\ O!R!Units = Units + OddTrailingByte
        /\ \A k \in 0..Units+OddTrailingByte-1 :
              O!R!UnitAt(k) = IF k \in IllFormed \/ k = Units THEN 65533 ELSE UnitAt(k)
    BY <2>1, DeliveredText
  <2>3. /\ \A k \in 0..Units-1 : k \in 0..Units+OddTrailingByte-1 /\ k # Units
        /\ OddTrailingByte = 1 => Units \in 0..Units+OddTrailingByte-1
    BY <1>1
  <2>4. /\ \A k \in 0..Units-1 :
              O!R!UnitAt(k) = IF k \in IllFormed THEN 65533 ELSE UnitAt(k)
        /\ OddTrailingByte = 1 => O!R!UnitAt(Units) = 65533
    BY <2>2, <2>3
  <2>5. QED  BY <1>3, <2>1, <2>2, <2>4, OracleReads DEF SameInput
<1>5. O!TypeOK /\ O!ScanExact
  BY DEF DecodeInv
<1>6. QED  BY <1>2, <1>4, <1>5 DEF DecoderInv, O!DecoderInv

\* DecoderInv for every input: the left-to-right decoder, which takes pairs
\* whole, finds what the local rule calls ill-formed, and repairs just that.
THEOREM DecoderIsExact == FuzzSpec => []DecoderInv
  BY DecoderInvariant, DecoderIsRight, PTL

-----------------------------------------------------------------------------
(* The suite compares the two.                                             *)

\* P1: the published count is the number of positions of the decoder and the
\* odd byte.
LEMMA CountsAgree ==
    ASSUME PipelineInv, DecodeInv, Ran
    PROVE  CountAgrees
<1>1. pc = "finished" /\ opc = "done" /\ IInv
  BY DEF Ran, Diagnosed, PipelineInv
<1>2. /\ errorCount = Cardinality({k \in 0..Units-1 : marks[k]}) + OddTrailingByte
      /\ StoredTo = Units
  <2>1. processed = size /\ size \in Nat /\ (size \div 2) \in Nat
    BY <1>1, IInvFacts DEF IInv, Geometry
  <2>2. StoredTo = (processed \div 2) + 0
    BY <1>1 DEF StoredTo
  <2>3. StoredTo = Units
    BY <2>1, <2>2 DEF Units
  <2>4. QED  BY <1>1, <2>3 DEF IInv, CountIsPopcount
<1>3. {k \in 0..Units-1 : marks[k]} = IllFormed
  <2>1. /\ \A k \in 0..Units-1 : marks[k] <=> k \in IllFormed
        /\ IllFormed \subseteq 0..Units-1
    BY <1>1, <1>2, SizesFacts DEF IInv, MarksExact
  <2>2. QED  BY <2>1
<1>4. Len(opositions) = Cardinality(IllFormed)
  BY <1>1, FoundExactly
<1>5. QED  BY <1>2, <1>3, <1>4 DEF CountAgrees, OracleCount

\* The bytes the reference writes for a unit are the right ones.
LEMMA DeliveredBytes ==
    ASSUME IInv, DecodeInv, opc = "done", NEW i \in {0, 1}
    PROVE  /\ \A k \in 0..Units-1 : orepaired[2 * k + i] = RightByte(k, i)
           /\ OddTrailingByte = 1 => orepaired[2 * Units + i] = ReplacementByte(i)
<1>1. /\ InputTypeOK /\ Units \in Nat /\ OddTrailingByte \in {0, 1} /\ HB \in {0, 1}
      /\ IllFormed \subseteq 0..Units-1
  BY SizesFacts
<1>2. i = HB \/ i = 1 - HB
  BY <1>1
<1>3. (65533 \div 256) = 255 /\ (65533 % 256) = 253
  OBVIOUS
<1>4. 1 - HB # HB
  BY <1>1
<1>5. ASSUME NEW k \in 0..Units-1 PROVE orepaired[2 * k + i] = RightByte(k, i)
  <2> DEFINE unit == O!RepairedUnit(k)
  <2>1. k \in 0..Units+OddTrailingByte-1 /\ k # Units
    BY <1>1
  <2>2. /\ unit = IF k \in IllFormed THEN 65533 ELSE UnitAt(k)
        /\ orepaired[2 * k + HB] = unit \div 256
        /\ orepaired[2 * k + (1 - HB)] = unit % 256
    BY <2>1, DeliveredUnits
  <2> HIDE DEF unit
  <2>3. CASE k \in IllFormed
    <3>1. orepaired[2 * k + HB] = 255 /\ orepaired[2 * k + (1 - HB)] = 253
      BY <1>3, <2>2, <2>3
    <3>2. QED  BY <1>2, <1>4, <2>3, <3>1 DEF RightByte, ReplacementByte
  <2>4. CASE k \notin IllFormed
    <3> DEFINE h == HighByte(k)
               l == LowByte(k)
    <3>1. h \in 0..255 /\ l \in 0..255 /\ unit = 256 * h + l
      BY <1>1, <2>2, <2>4, BytesOfUnit DEF UnitAt
    <3> HIDE DEF h, l
    <3>2. h \in Nat /\ l \in Nat /\ l < 256
      BY <3>1
    <3>3. (unit \div 256) = h /\ (unit % 256) = l
      BY <3>1, <3>2
    <3>4. orepaired[2 * k + HB] = data[2 * k + HB]
          /\ orepaired[2 * k + (1 - HB)] = data[2 * k + (1 - HB)]
      BY <2>2, <3>3 DEF h, l, HighByte, LowByte
    <3>5. QED  BY <1>2, <2>4, <3>4 DEF RightByte
  <2>5. QED  BY <2>3, <2>4
<1>6. ASSUME OddTrailingByte = 1 PROVE orepaired[2 * Units + i] = ReplacementByte(i)
  <2> DEFINE k == Units
             unit == O!RepairedUnit(k)
  <2>1. k \in 0..Units+OddTrailingByte-1
    BY <1>1, <1>6
  <2>2. /\ unit = 65533 /\ orepaired[2 * k + HB] = unit \div 256
        /\ orepaired[2 * k + (1 - HB)] = unit % 256
    BY <2>1, DeliveredUnits
  <2> HIDE DEF unit
  <2>3. orepaired[2 * k + HB] = 255 /\ orepaired[2 * k + (1 - HB)] = 253
    BY <1>3, <2>2
  <2>4. QED  BY <1>2, <1>4, <2>3 DEF ReplacementByte
<1>7. QED  BY <1>5, <1>6

\* The elements of two sequences of units joined together.
LEMMA JoinedAt ==
    ASSUME NEW s \in Seq(Nat), NEW t \in Seq(Nat)
    PROVE  /\ Len(s) \in Nat /\ Len(s \o t) = Len(s) + Len(t)
           /\ \A i \in 1..Len(s) : (s \o t)[i] = s[i]
           /\ \A i \in Len(s)+1..Len(s)+Len(t) : (s \o t)[i] = t[i - Len(s)]
<1> DEFINE u == s \o t
           m == Len(s)
           n == Len(t)
<1>1. /\ u \in Seq(Nat) /\ m \in Nat /\ n \in Nat /\ Len(u) = m + n
      /\ \A i \in 1..m : u[i] = s[i]
      /\ \A i \in m+1..m+n : i - m \in 1..n /\ u[i] = t[i - m]
  OBVIOUS
<1> HIDE DEF u, m, n
<1>2. QED  BY <1>1 DEF u, m, n

\* The elements of a byte string after two bytes are appended.
LEMMA TwoMore ==
    ASSUME NEW s \in Seq(Nat), NEW t \in Seq(Nat), Len(t) = 2
    PROVE  /\ Len(s \o t) = Len(s) + 2 /\ \A j \in 1..Len(s) : (s \o t)[j] = s[j]
           /\ (s \o t)[Len(s) + 1] = t[1] /\ (s \o t)[Len(s) + 2] = t[2]
<1> DEFINE r == s \o t
           m == Len(s)
           n == Len(t)
<1>1. /\ m \in Nat /\ Len(r) = m + n /\ n = 2
      /\ \A i \in 1..m : r[i] = s[i]
      /\ \A i \in m+1..m+n : r[i] = t[i - m]
  BY JoinedAt
<1> HIDE DEF r, m, n
<1>2. /\ m + 1 \in m+1..m+n /\ (m + 1) - m = 1
      /\ m + 2 \in m+1..m+n /\ (m + 2) - m = 2
  BY <1>1
<1>3. r[m + 1] = t[1] /\ r[m + 2] = t[2]
  BY <1>1, <1>2
<1>4. QED  BY <1>1, <1>3 DEF r, m

\* P3: byte for byte the repaired text is what the reference makes of the input.
LEMMA RepairsAgree ==
    ASSUME PipelineInv, DecodeInv, Ran, consumer = "repair"
    PROVE  RepairAgrees
<1>1. /\ pc = "finished" /\ cpc = "finished" /\ opc = "done" /\ IInv
      /\ repaired \in Seq(Nat)
  BY DEF Ran, Diagnosed, PipelineInv, ConsumerTypes
<1>2. /\ Units \in Nat /\ OddTrailingByte \in {0, 1} /\ HB \in {0, 1}
      /\ size = 2 * Units + OddTrailingByte /\ produced \in Nat
  BY <1>1, SizesFacts
<1>3. Len(repaired) \in {2 * Units, size}
  BY <1>1, TextUnits
<1>4. ASSUME NEW k \in 0..Units-1
      PROVE  repaired[2 * k + 1] = RightByte(k, 0) /\ repaired[2 * k + 2] = RightByte(k, 1)
  <2>1. Reached = produced /\ Units <= produced
    <3>1. consumed = produced /\ Units <= produced /\ consumed \in Nat
      BY <1>1 DEF PipelineInv, Extent, ConsumerTypes
    <3>2. QED  BY <1>1, <3>1 DEF Reached
  <2>2. k < Reached
    BY <1>2, <2>1
  <2>3. QED  BY <2>2 DEF PipelineInv, RepairInv
<1>5. orepairedSize = 2 * (Units + OddTrailingByte)
  BY <1>1, DeliveredUnits
<1> DEFINE out == RepairOutput
           a == ReplacementByte(0)
           b == ReplacementByte(1)
           u == 2 * Units
<1>6. a \in Nat /\ b \in Nat /\ u \in Nat
  BY <1>2 DEF ReplacementByte
<1>7. /\ Len(out) = 2 * (Units + OddTrailingByte)
      /\ \A j \in 1..u : out[j] = repaired[j]
      /\ OddTrailingByte = 1 => out[u + 1] = a /\ out[u + 2] = b
  <2>1. CASE OddTrailingByte = 0
    <3>1. out = repaired /\ Len(repaired) = u
      BY <1>2, <1>3, <2>1 DEF RepairOutput
    <3>2. QED  BY <1>2, <2>1, <3>1
  <2>2. CASE OddTrailingByte = 1
    <3> DEFINE first == SubSeq(repaired, 1, u)
    <3>1. out = first \o <<a, b>>
      BY <2>2 DEF RepairOutput
    <3>2. /\ first \in Seq(Nat) /\ Len(first) = u
          /\ \A j \in 1..u : first[j] = repaired[j]
      <4>1. u \in 0..Len(repaired)
        BY <1>2, <1>3
      <4> HIDE DEF u
      <4>2. QED  BY <1>1, <4>1, FirstOf
    <3>3. 2 * (Units + OddTrailingByte) = u + 2
      BY <1>2, <2>2
    <3> HIDE DEF out, first, a, b, u
    <3>4. /\ Len(out) = u + 2 /\ \A j \in 1..u : out[j] = first[j]
          /\ out[u + 1] = a /\ out[u + 2] = b
      <4> DEFINE pair == <<a, b>>
      <4>1. pair \in Seq(Nat) /\ Len(pair) = 2 /\ pair[1] = a /\ pair[2] = b
        BY <1>6
      <4>2. out = first \o pair
        BY <3>1
      <4> HIDE DEF pair
      <4>3. first \in Seq(Nat) /\ Len(first) = u
        BY <3>2
      <4>4. /\ Len(out) = u + 2 /\ \A j \in 1..u : out[j] = first[j]
            /\ out[u + 1] = pair[1] /\ out[u + 2] = pair[2]
        BY <4>1, <4>2, <4>3, TwoMore
      <4>5. QED  BY <4>1, <4>4
    <3>5. QED  BY <2>2, <3>2, <3>3, <3>4
  <2>3. QED  BY <1>2, <2>1, <2>2
<1> HIDE DEF out
<1>8. ASSUME NEW i \in 0..orepairedSize-1 PROVE out[i + 1] = orepaired[i]
  <2>1. PICK k \in Nat, d \in {0, 1} : i = 2 * k + d
    <3>1. i \in Nat /\ i = 2 * (i \div 2) + (i % 2) /\ (i \div 2) \in Nat /\ (i % 2) \in {0, 1}
      BY <1>2, <1>5
    <3>2. QED  BY <3>1
  <2>2. CASE k < Units
    <3>1. k \in 0..Units-1 /\ i + 1 \in 1..u /\ (d = 0 => i + 1 = 2 * k + 1)
          /\ (d = 1 => i + 1 = 2 * k + 2)
      BY <1>2, <2>1, <2>2
    <3>2. out[i + 1] = RightByte(k, d)
      BY <1>4, <1>7, <3>1
    <3>3. orepaired[2 * k + d] = RightByte(k, d)
      BY <1>1, <3>1, DeliveredBytes
    <3>4. QED  BY <2>1, <3>2, <3>3
  <2>3. CASE k >= Units
    <3>1. k = Units /\ OddTrailingByte = 1 /\ (d = 0 => i + 1 = u + 1)
          /\ (d = 1 => i + 1 = u + 2)
      BY <1>2, <1>5, <2>1, <2>3
    <3>2. out[i + 1] = ReplacementByte(d)
      BY <1>7, <3>1
    <3>3. orepaired[2 * Units + d] = ReplacementByte(d)
      BY <1>1, <3>1, DeliveredBytes
    <3>4. QED  BY <2>1, <3>1, <3>2, <3>3
  <2>4. QED  BY <1>2, <2>1, <2>2, <2>3
<1>9. QED  BY <1>5, <1>7, <1>8 DEF RepairAgrees, out

\* P2: a printer that names no place past the end of the input names what the
\* decoder names, and in the same order.
LEMMA PositionsDiffer ==
    ASSUME PipelineInv, DecodeInv, Ran, consumer \in {"linear", "scan"}, ~PositionsAgree
    PROVE  /\ \E p \in Printed : p >= Units
           /\ \A p \in Printed : p >= Units =>
                 p \in StaleMarks /\ (consumer = "linear" => UnwrittenSlot)
           /\ {k \in Printed : k < Units} = IllFormed
           /\ Range(opositions) = IllFormed /\ IllFormed \subseteq 0..Units-1
           /\ Printed \subseteq Nat /\ Units \in Nat
<1>1. /\ pc = "finished" /\ cpc = "finished" /\ opc = "done" /\ IInv
      /\ positions \in Seq(Nat)
  BY DEF Ran, Diagnosed, PipelineInv, ConsumerTypes
<1>2. Units \in Nat /\ IllFormed \subseteq 0..Units-1 /\ Printed \subseteq Nat
  BY <1>1, SizesFacts DEF Printed, Range
<1>3. /\ Range(opositions) = IllFormed /\ opositions \in Seq(Nat) /\ Increasing(opositions)
  BY <1>1, FoundExactly
<1>4. {k \in Printed : k < Units} = IllFormed
  BY <1>1, PrintedIsExact DEF PrintedExact, LinearExact, ScanSound
<1>5. /\ Increasing(positions)
      /\ \A p \in Printed : p >= Units =>
            p \in StaleMarks /\ (consumer = "linear" => UnwrittenSlot)
  BY DEF PipelineInv, PrintInv
<1>6. ASSUME \A p \in Printed : ~(p >= Units) PROVE FALSE
  <2>1. Printed = IllFormed
    <3>1. \A p \in Printed : p < Units
      BY <1>2, <1>6
    <3>2. QED  BY <1>4, <3>1
  <2>2. positions = opositions
    BY <1>1, <1>3, <1>5, <2>1, IncreasingUnique DEF Printed
  <2>3. QED  BY <2>2 DEF PositionsAgree
<1>7. QED  BY <1>2, <1>3, <1>4, <1>5, <1>6

\* A mismatch of the scan on an even input that ends with a stride is the known
\* defect.
LEMMA KnownWhenOnStride ==
    ASSUME PipelineInv, DecodeInv, Ran, consumer = "scan", ~PositionsAgree,
           OddTrailingByte = 0, OnStride
    PROVE  KnownDefect
<1>1. CountAgrees
  BY CountsAgree
<1>2. ScanMissing = {}
  BY PositionsDiffer DEF ScanMissing, Printed
<1>3. ScanUnexpected # {}
  <2>1. PICK p \in Printed : p >= Units
    BY PositionsDiffer
  <2>2. p \notin IllFormed
    <3>1. Units \in Nat /\ IllFormed \subseteq 0..Units-1
      BY PositionsDiffer
    <3>2. ASSUME p \in IllFormed PROVE FALSE
      <4>1. p \in 0..Units-1
        BY <3>1, <3>2
      <4>2. QED  BY <2>1, <3>1, <4>1
    <3>3. QED  BY <3>2
  <2>3. QED  BY <2>1, <2>2, PositionsDiffer DEF ScanUnexpected, Printed
<1>4. \A p \in ScanUnexpected : p >= Units
  <2>1. ASSUME NEW p \in Printed, p \notin IllFormed PROVE p >= Units
    <3>1. p \in Nat /\ Units \in Nat /\ ~(p < Units)
      BY <2>1, PositionsDiffer
    <3>2. QED  BY <3>1
  <2>2. QED  BY <2>1, PositionsDiffer DEF ScanUnexpected, Printed
<1>5. QED  BY <1>1, <1>2, <1>3, <1>4 DEF KnownDefect

\* Both invariants together: the suite's comparisons succeed.
LEMMA SuiteIsContent == PipelineInv /\ DecodeInv => SuiteAgrees
<1> SUFFICES ASSUME PipelineInv, DecodeInv, Ran
             PROVE  /\ Problems \subseteq {"P2"}
                    /\ Problems # {} => StaleMarks # {}
                    /\ Problems # {} /\ consumer = "scan" => OddTrailingByte = 1 \/ ~OnStride
                    /\ Problems # {} /\ consumer = "linear" => UnwrittenSlot
  BY DEF SuiteAgrees
<1>1. CountAgrees /\ (consumer = "repair" => RepairAgrees)
  BY CountsAgree, RepairsAgree
<1>2. Problems = IF consumer = "repair" \/ PositionsAgree \/ KnownDefect THEN {} ELSE {"P2"}
  BY <1>1 DEF Problems
<1>3. SUFFICES ASSUME consumer # "repair", ~PositionsAgree, ~KnownDefect
               PROVE  /\ StaleMarks # {}
                      /\ consumer = "scan" => OddTrailingByte = 1 \/ ~OnStride
                      /\ consumer = "linear" => UnwrittenSlot
  BY <1>2
<1>4. consumer \in {"linear", "scan"} /\ OddTrailingByte \in {0, 1}
  BY <1>3, SizesFacts DEF PipelineInv, ConsumerTypes
<1>5. PICK p \in Printed : p >= Units
  BY <1>3, <1>4, PositionsDiffer
<1>6. p \in StaleMarks /\ (consumer = "linear" => UnwrittenSlot)
  BY <1>3, <1>4, <1>5, PositionsDiffer
<1>7. consumer = "scan" => OddTrailingByte = 1 \/ ~OnStride
  BY <1>3, <1>4, KnownWhenOnStride
<1>8. QED  BY <1>6, <1>7

\* SuiteAgrees for every input, block, stride, segmentation, interleaving and
\* content of the buffer: only positions can differ, only because of what the
\* buffer held, and only where the known defect does not excuse them.
THEOREM SuiteFindsAgreement == FuzzSpec => []SuiteAgrees
  BY PipelineInvariant, DecoderInvariant, SuiteIsContent, PTL
=============================================================================
