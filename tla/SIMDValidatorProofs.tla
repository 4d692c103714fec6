------------------------ MODULE SIMDValidatorProofs ------------------------
(***************************************************************************)
(* The SIMD counting kernel is correct for every input, pack width and     *)
(* stride: proofs of the invariants that MCSIMDValidator checks on small   *)
(* instances.                                                              *)
(***************************************************************************)
EXTENDS SIMDValidator, UTF16Lemmas

Running == {"entry", "simdLoop", "afterSIMD", "tailLoop", "tailDone"}

-----------------------------------------------------------------------------
\* The sizes of a pack, and the lane that carries the last unit's high byte.
LEMMA PackFacts ==
    /\ UnitsPerPack \in Nat \ {0}
    /\ BytesPerPack = 2 * UnitsPerPack /\ BytesPerPack \in Nat \ {0}
    /\ (HB \in {0, 1} => HighBytePos \in Lanes)
  BY PackAssumption DEF BytesPerPack, HighBytePos, Lanes

\* Segments that are not final hold a whole number of code units.
LEMMA StrideIsEven ==
    ASSUME NEW n \in Nat, n % StrideBytes = 0
    PROVE  n % 2 = 0
<1>1. PacksPerStride * UnitsPerPack \in Nat \ {0}
  BY PackAssumption, StrideAssumption
<1>2. StrideBytes = 2 * (PacksPerStride * UnitsPerPack)
  BY PackAssumption, StrideAssumption, ProductStep DEF StrideBytes, BytesPerPack
<1>3. QED  BY <1>1, <1>2, MultipleOfEven

\* The whole packs of a segment hold at most its code units.
LEMMA SegmentGeometry ==
    ASSUME TypeOK
    PROVE  /\ FullPacks \in Nat /\ TailBase \in Nat /\ ValidUnits \in Nat
           /\ TailBase <= ValidUnits
           /\ FullPacks = 0 => TailBase = 0
           /\ \A q \in Nat : q < FullPacks => (q + 1) * BytesPerPack <= avail
<1>1. avail \in Nat
  BY UnitsType DEF TypeOK, CountersTypeOK
<1>2. FullPacks \in Nat /\ FullPacks * BytesPerPack <= avail
  BY <1>1, PackFacts, QuotientBounds DEF FullPacks
<1>3. TailBase \in Nat /\ FullPacks * BytesPerPack = 2 * TailBase
  BY <1>2, PackFacts, ProductStep DEF TailBase
<1>4. ValidUnits \in Nat /\ TailBase <= ValidUnits
  BY <1>1, <1>2, <1>3 DEF ValidUnits
<1>5. FullPacks = 0 => TailBase = 0
  BY PackFacts DEF TailBase
<1>6. ASSUME NEW q \in Nat, q < FullPacks
      PROVE  (q + 1) * BytesPerPack <= avail
  <2>1. (q + 1) * BytesPerPack <= FullPacks * BytesPerPack
    BY <1>2, <1>6, PackFacts, ProductMonotone
  <2>2. (q + 1) * BytesPerPack \in Nat /\ FullPacks * BytesPerPack \in Nat
    BY <1>2, <1>6, PackFacts, ProductStep
  <2>3. QED  BY <1>1, <1>2, <2>1, <2>2
<1>7. QED  BY <1>2, <1>3, <1>4, <1>5, <1>6

-----------------------------------------------------------------------------
(* One pack.  The lanes that survive the mask are, one for one, the code   *)
(* units of the pack at which a mismatch is.                               *)

\* The code unit, in the whole input, that pack q of the segment begins with.
PackBase(q) == (processed \div 2) + q * UnitsPerPack

\* One pack, given the right carry, adds exactly the mismatches of its units
\* and leaves the right carry for the next pack.
LEMMA PackCountsMismatches ==
    ASSUME InputTypeOK, NEW q \in Nat, processed \in Nat, processed % 2 = 0,
           PackBase(q) + UnitsPerPack <= Units,
           HighBytePos \in carryVec <=> PackBase(q) - 1 \in Highs
    PROVE  /\ PackBase(q) \in Nat
           /\ Cardinality(MismatchBefore(PackBase(q) + UnitsPerPack)) =
                Cardinality(MismatchBefore(PackBase(q))) + Cardinality(PackMismatch(q))
           /\ Cardinality(PackMismatch(q)) \in Nat
           /\ HighBytePos \in HiLanes(q) <=> PackBase(q) + UnitsPerPack - 1 \in Highs
<1> DEFINE U == UnitsPerPack
<1> DEFINE Local == {k \in PackBase(q)..PackBase(q)+U-1 : MismatchAt(k)}
<1> DEFINE unit == [pos \in PackMismatch(q) |-> PackBase(q) + (pos \div 2)]
<1>0. U \in Nat \ {0} /\ HB \in {0, 1} /\ Lanes = 0..2*U-1 /\ Units \in Nat
  BY PackFacts, UnitsType DEF Lanes, InputTypeOK
<1>a. q * BytesPerPack = 2 * (q * U) /\ q * U \in Nat /\ q * BytesPerPack \in Nat
  BY PackFacts, ProductStep
<1>b. PackBase(q) \in Nat /\ processed + q * BytesPerPack = 2 * PackBase(q)
  BY <1>a DEF PackBase
<1>1. ASSUME NEW j \in 0..U-1
      PROVE  /\ 2*j + HB \in Lanes
             /\ RawByte(q * BytesPerPack + (2*j + HB)) = HighByte(PackBase(q) + j)
             /\ 2*j + HB \in HiLanes(q) <=> PackBase(q) + j \in Highs
             /\ 2*j + HB \in LoLanes(q) <=> PackBase(q) + j \in Lows
  <2>1. 2*j + HB \in Lanes
    BY <1>0, <1>b, <1>1
  <2>3. processed + (q * BytesPerPack + (2*j + HB)) = 2 * (PackBase(q) + j) + HB
    <3>1. j \in Int /\ HB \in Int /\ processed \in Int
      BY <1>0, <1>1
    <3>2. QED  BY <1>a, <1>b, <3>1
  <2>4. RawByte(q * BytesPerPack + (2*j + HB)) = HighByte(PackBase(q) + j)
    BY <2>3 DEF RawByte, HighByte
  <2>5. PackBase(q) + j \in 0..Units-1
    BY <1>0, <1>b, <1>1
  <2>6. QED  BY <2>1, <2>4, <2>5, ClassOfUnit DEF HiLanes, LoLanes
<1>2. HighBytePos = 2*(U-1) + HB /\ U-1 \in 0..U-1
  BY <1>0, <1>b, PackFacts DEF HighBytePos
<1>3. HighBytePos \in HiLanes(q) <=> PackBase(q) + U - 1 \in Highs
  <2>1. PackBase(q) + (U - 1) = PackBase(q) + U - 1
    BY <1>0, <1>b
  <2>2. QED  BY <1>1, <1>2, <2>1
<1>4. ASSUME NEW j \in 0..U-1
      PROVE  (2*j + HB \in ShiftInPrevious(HiLanes(q), carryVec)) <=> (PackBase(q) + j) - 1 \in Highs
  <2>1. CASE j = 0
    <3>1. (2*j + HB \in ShiftInPrevious(HiLanes(q), carryVec)) <=> BytesPerPack - 2 + (2*j + HB) \in carryVec
      BY <2>1, <1>0, <1>b, <1>1 DEF ShiftInPrevious
    <3>2. BytesPerPack - 2 + (2*j + HB) = HighBytePos /\ (PackBase(q) + j) - 1 = PackBase(q) - 1
      BY <2>1, <1>0, <1>b, PackFacts DEF HighBytePos
    <3>3. QED  BY <3>1, <3>2
  <2>2. CASE j # 0
    <3>1. j - 1 \in 0..U-1 /\ 2*j + HB >= 2 /\ 2*(j-1) + HB = (2*j + HB) - 2 /\ PackBase(q) + (j-1) = (PackBase(q) + j) - 1
      BY <2>2, <1>0, <1>b, <1>4
    <3>2. (2*j + HB \in ShiftInPrevious(HiLanes(q), carryVec)) <=> (2*j + HB) - 2 \in HiLanes(q)
      BY <3>1, <1>1 DEF ShiftInPrevious
    <3>3. 2*(j-1) + HB \in HiLanes(q) <=> PackBase(q) + (j-1) \in Highs
      BY <1>1, <3>1
    <3>4. QED  BY <3>1, <3>2, <3>3
  <2>3. QED  BY <2>1, <2>2
<1>5. ASSUME NEW j \in 0..U-1
      PROVE  2*j + HB \in PackMismatch(q) <=> MismatchAt(PackBase(q) + j)
  <2>1. (2*j + HB) % 2 = HB
    BY <1>0, <1>b, <1>5
  <2>2. QED  BY <2>1, <1>1, <1>4, <1>5 DEF PackMismatch, MismatchAt
<1>6. ASSUME NEW pos \in PackMismatch(q)
      PROVE  /\ pos \div 2 \in 0..U-1 /\ pos = 2 * (pos \div 2) + HB
             /\ MismatchAt(PackBase(q) + (pos \div 2))
  <2>1. pos \in 0..2*U-1 /\ pos % 2 = HB
    BY <1>0, <1>b, <1>6 DEF PackMismatch
  <2>2. pos \div 2 \in 0..U-1 /\ pos = 2 * (pos \div 2) + HB
    BY <1>0, <1>b, <2>1
  <2>3. QED  BY <1>5, <1>6, <2>2
<1>7. unit \in Bijection(PackMismatch(q), Local)
  <2>1. unit \in [PackMismatch(q) -> Local]
    <3>1. SUFFICES ASSUME NEW pos \in PackMismatch(q)
                   PROVE  PackBase(q) + (pos \div 2) \in Local
      OBVIOUS
    <3>2. pos \div 2 \in 0..U-1 /\ MismatchAt(PackBase(q) + (pos \div 2))
      BY <1>6
    <3>3. QED  BY <1>0, <1>b, <3>2
  <2>2. \A a, b \in PackMismatch(q) : unit[a] = unit[b] => a = b
    <3>1. SUFFICES ASSUME NEW a \in PackMismatch(q), NEW b \in PackMismatch(q),
                          PackBase(q) + (a \div 2) = PackBase(q) + (b \div 2)
                   PROVE  a = b
      OBVIOUS
    <3>2. /\ a \div 2 \in Int /\ a = 2 * (a \div 2) + HB
          /\ b \div 2 \in Int /\ b = 2 * (b \div 2) + HB
      BY <1>6
    <3>3. a \div 2 = b \div 2
      BY <1>b, <3>1, <3>2
    <3>4. QED  BY <3>2, <3>3
  <2>3. \A k \in Local : \E pos \in PackMismatch(q) : unit[pos] = k
    <3>1. SUFFICES ASSUME NEW k \in Local
                   PROVE  \E pos \in PackMismatch(q) : unit[pos] = k
      OBVIOUS
    <3>2. k - PackBase(q) \in 0..U-1 /\ PackBase(q) + (k - PackBase(q)) = k
      BY <1>0, <1>b, <3>1
    <3>3. 2*(k - PackBase(q)) + HB \in PackMismatch(q)
      BY <1>5, <3>1, <3>2
    <3>4. unit[2*(k - PackBase(q)) + HB] = k
      <4>1. (2*(k - PackBase(q)) + HB) \div 2 = k - PackBase(q)
        BY <1>0, <3>2
      <4>2. QED  BY <3>2, <3>3, <4>1
    <3>5. QED  BY <3>3, <3>4
  <2>4. QED  BY <2>1, <2>2, <2>3 DEF Bijection, Injection, Surjection, IsInjective
<1>8. IsFiniteSet(PackMismatch(q)) /\ Cardinality(PackMismatch(q)) \in Nat
  <2>1. IsFiniteSet(Lanes)
    BY <1>0, <1>b, FS_Interval
  <2>2. PackMismatch(q) \subseteq Lanes
    BY DEF PackMismatch
  <2>3. IsFiniteSet(PackMismatch(q))
    BY <2>1, <2>2, FS_Subset
  <2>4. QED  BY <2>3, FS_CardinalityType
<1>9. IsFiniteSet(Local) /\ Cardinality(Local) = Cardinality(PackMismatch(q))
  BY <1>7, <1>8, FS_Bijection DEF ExistsBijection
<1>10. Cardinality(MismatchBefore(PackBase(q) + U)) = Cardinality(MismatchBefore(PackBase(q))) + Cardinality(Local)
  BY <1>0, <1>b, MismatchesSplit
<1>11. QED  BY <1>b, <1>3, <1>8, <1>9, <1>10

-----------------------------------------------------------------------------
(* The inductive invariant: where the kernel is in its segment, and that   *)
(* the count so far and the carry are those of the prefix it has read.     *)

Geometry ==
    /\ processed <= size
    /\ pc # "finished" => processed % 2 = 0
    /\ pc \in Running =>
         /\ processed + avail <= size
         /\ isFinal => processed + avail = size
         /\ ~isFinal => avail % 2 = 0
    /\ pc = "simdLoop" => p < FullPacks
    /\ pc = "afterSIMD" => p = FullPacks
    /\ pc = "tailLoop" => idx < ValidUnits
    /\ pc = "tailDone" => idx = ValidUnits

IInv == TypeOK /\ Geometry /\ AccumExact /\ CountExact

\* The initial states satisfy the SIMD kernel's inductive invariant.
LEMMA InitIInv == Init => IInv
<1> SUFFICES ASSUME Init PROVE IInv
  OBVIOUS
<1> USE DEF Init, KernelInit
<1>1. InputTypeOK
  BY DEF InputInit, InputTypeOK
<1>2. size \in Nat
  BY <1>1, UnitsType
<1>3. TypeOK
  <2>1. FlagsTypeOK
    BY DEF FlagsTypeOK
  <2>2. CountersTypeOK
    BY <1>2 DEF CountersTypeOK
  <2>3. QED  BY <1>1, <2>1, <2>2 DEF TypeOK
<1>4. Geometry
  BY <1>2 DEF Geometry, Running
<1>5. AccumExact
  <2>1. Cursor = 0 /\ InFlight = 0 /\ CarriedHigh = FALSE
    BY DEF Cursor, InFlight, CarriedHigh
  <2>2. 0 - 1 \notin Highs
    BY DEF Highs
  <2>3. QED  BY <2>1, <2>2, NoMismatchBeforeStart DEF AccumExact
<1>6. QED  BY <1>3, <1>4, <1>5 DEF IInv, CountExact

\* Nothing the invariant says of the input changes with the kernel's state.
LEMMA InputStable ==
    ASSUME UNCHANGED input
    PROVE  /\ size' = size /\ data' = data /\ HB' = HB
           /\ Units' = Units /\ Highs' = Highs /\ Lows' = Lows
           /\ HighBytePos' = HighBytePos /\ ErrorCount' = ErrorCount
           /\ InputTypeOK' = InputTypeOK
           /\ \A n : MismatchBefore(n)' = MismatchBefore(n)
  BY DEF input, Units, Highs, Lows, UnitAt, HighByte, LowByte, HighBytePos, ErrorCount,
         IllFormed, OddTrailingByte, InputTypeOK, MismatchBefore, MismatchAt

\* To keep AccumExact it is enough that the step kept the count and the carry.
LEMMA AccumExactNext ==
    ASSUME UNCHANGED input,
           pc' # "finished" =>
             /\ errAccum' + InFlight' = Cardinality(MismatchBefore(Cursor'))
             /\ CarriedHigh' <=> Cursor' - 1 \in Highs
    PROVE  AccumExact'
<1>1. Highs' = Highs /\ Lows' = Lows
  BY InputStable
<1>2. MismatchBefore(Cursor)' = MismatchBefore(Cursor')
  BY <1>1 DEF MismatchBefore, MismatchAt
<1>3. QED  BY <1>1, <1>2 DEF AccumExact

-----------------------------------------------------------------------------
\* Invoke preserves the SIMD kernel's inductive invariant.
LEMMA InvokeIInv ==
    ASSUME IInv, Invoke
    PROVE  IInv'
<1> USE DEF Invoke, scalars, packLoop, tail, IInv
<1>1. UNCHANGED input
  OBVIOUS
<1>2. TypeOK'
  <2>1. FlagsTypeOK'
    BY DEF TypeOK, FlagsTypeOK
  <2>2. size \in Nat /\ processed \in 0..size
    BY UnitsType DEF TypeOK, CountersTypeOK
  <2>3. avail' \in 0..size
    BY <2>2
  <2>4. CountersTypeOK'
    BY <1>1, <2>3, InputStable DEF TypeOK, CountersTypeOK, Lanes, BytesPerPack
  <2>5. QED  BY <1>1, <2>1, <2>4, InputStable DEF TypeOK
<1>3. Geometry'
  <2>1. /\ size \in Nat /\ processed \in Nat /\ avail' \in Nat
        /\ processed <= size /\ processed % 2 = 0 /\ processed + avail' <= size
    BY UnitsType DEF TypeOK, CountersTypeOK, Geometry
  <2>2. CASE ~isFinal'
    <3>1. avail' \in 1..(size - processed) /\ avail' % StrideBytes = 0
      BY <2>2
    <3>2. avail' % 2 = 0
      BY <2>1, <3>1, StrideIsEven
    <3>3. size' = size /\ processed' = processed /\ pc' = "entry"
      BY <1>1, InputStable
    <3>4. QED  BY <2>1, <2>2, <3>2, <3>3 DEF Geometry, Running
  <2>3. CASE isFinal'
    BY <1>1, <2>1, <2>3, InputStable DEF Geometry, Running, TypeOK, CountersTypeOK
  <2>4. QED  BY <2>2, <2>3
<1>4. AccumExact'
  <2>1. Cursor' = Cursor /\ InFlight' = InFlight /\ CarriedHigh' = CarriedHigh
    BY DEF Cursor, InFlight, CarriedHigh
  <2>2. QED  BY <1>1, <2>1, InputStable DEF AccumExact
<1>5. QED  BY <1>2, <1>3, <1>4 DEF CountExact

\* Entry preserves the SIMD kernel's inductive invariant.
LEMMA EntryIInv ==
    ASSUME IInv, Entry
    PROVE  IInv'
<1> USE DEF Entry, scalars, segment, tail, IInv
<1>1. UNCHANGED input
  OBVIOUS
<1>2. FullPacks' = FullPacks /\ ValidUnits' = ValidUnits
  BY DEF FullPacks, ValidUnits
<1>3. TypeOK'
  <2>1. FlagsTypeOK'
    BY DEF TypeOK, FlagsTypeOK
  <2>2. CountersTypeOK'
    BY <1>1, InputStable, PackFacts DEF TypeOK, CountersTypeOK, InputTypeOK, Lanes, BytesPerPack, CarryInit
  <2>3. QED  BY <1>1, <2>1, <2>2, InputStable DEF TypeOK
<1>4. Geometry'
  BY <1>1, <1>2, InputStable, SegmentGeometry DEF Geometry, Running
<1>5. AccumExact'
  <2>1. processed \div 2 \in Nat
    BY UnitsType DEF TypeOK, CountersTypeOK
  <2>2. 0 * UnitsPerPack = 0
    BY PackFacts
  <2>3. Cursor' = Cursor /\ InFlight' = InFlight
    BY <2>1, <2>2 DEF Cursor, InFlight
  <2>4. CarriedHigh' <=> HighBytePos \in carryVec'
    BY <1>1, InputStable DEF CarriedHigh
  <2>5. CarriedHigh <=> pendingHigh
    BY DEF CarriedHigh
  <2>6. HighBytePos \in carryVec' <=> pendingHigh
    BY DEF CarryInit
  <2>7. errAccum + InFlight = Cardinality(MismatchBefore(Cursor)) /\ (CarriedHigh <=> Cursor - 1 \in Highs)
    BY DEF AccumExact
  <2>8. QED  BY <1>1, <2>3, <2>4, <2>5, <2>6, <2>7, AccumExactNext
<1>6. QED  BY <1>3, <1>4, <1>5 DEF CountExact

\* SimdLoop preserves the SIMD kernel's inductive invariant.
LEMMA SimdLoopIInv ==
    ASSUME IInv, SimdLoop
    PROVE  IInv'
<1> USE DEF SimdLoop, scalars, segment, tail, IInv
<1>1. UNCHANGED input
  OBVIOUS
<1>2. FullPacks' = FullPacks /\ ValidUnits' = ValidUnits
  BY DEF FullPacks, ValidUnits
<1>3. /\ p < FullPacks /\ p \in Nat /\ FullPacks \in Nat /\ processed \in Nat
      /\ size \in Nat /\ avail \in Nat
      /\ processed + avail <= size /\ processed % 2 = 0
  BY SegmentGeometry, UnitsType DEF Geometry, Running, TypeOK, CountersTypeOK
<1>4. p * UnitsPerPack \in Nat /\ (p + 1) * UnitsPerPack = p * UnitsPerPack + UnitsPerPack
      /\ (p + 1) * BytesPerPack = 2 * (p * UnitsPerPack + UnitsPerPack)
  BY <1>3, PackFacts, ProductStep
<1>5. PackBase(p) + UnitsPerPack <= Units
  <2>1. (p + 1) * BytesPerPack <= avail
    BY <1>3, SegmentGeometry
  <2>2. processed + 2 * (p * UnitsPerPack + UnitsPerPack) <= size
    BY <1>3, <1>4, <2>1, PackFacts
  <2>3. QED  BY <1>3, <1>4, <2>2, PackFacts DEF PackBase, Units
<1>6. /\ HighBytePos \in carryVec <=> PackBase(p) - 1 \in Highs
      /\ errAccum + mark = Cardinality(MismatchBefore(PackBase(p)))
  BY DEF AccumExact, Cursor, CarriedHigh, InFlight, PackBase
<1>7. /\ PackBase(p) \in Nat
      /\ Cardinality(MismatchBefore(PackBase(p) + UnitsPerPack)) =
            Cardinality(MismatchBefore(PackBase(p))) + Cardinality(PackMismatch(p))
      /\ Cardinality(PackMismatch(p)) \in Nat
      /\ HighBytePos \in HiLanes(p) <=> PackBase(p) + UnitsPerPack - 1 \in Highs
  BY <1>3, <1>5, <1>6, PackCountsMismatches DEF TypeOK
<1>8. TypeOK'
  <2>1. HiLanes(p) \in SUBSET Lanes
    BY DEF HiLanes
  <2>2. FlagsTypeOK'
    BY DEF TypeOK, FlagsTypeOK
  <2>3. CountersTypeOK'
    BY <1>1, <1>3, <1>7, <2>1, InputStable DEF TypeOK, CountersTypeOK, Lanes, BytesPerPack
  <2>4. QED  BY <1>1, <2>2, <2>3, InputStable DEF TypeOK
<1>9. Geometry'
  BY <1>1, <1>2, <1>3, InputStable DEF Geometry, Running
<1>10. AccumExact'
  <2>1. Cursor' = PackBase(p) + UnitsPerPack
    BY <1>3, <1>4, PackFacts DEF Cursor, PackBase
  <2>2. InFlight' = mark + Cardinality(PackMismatch(p))
    BY DEF InFlight
  <2>3. CarriedHigh' <=> HighBytePos \in HiLanes(p)
    BY <1>1, InputStable DEF CarriedHigh
  <2>4. errAccum' + InFlight' = Cardinality(MismatchBefore(Cursor'))
    <3>1. errAccum \in Nat /\ mark \in Nat
      BY DEF TypeOK, CountersTypeOK
    <3>2. QED  BY <1>6, <1>7, <2>1, <2>2, <3>1
  <2>5. CarriedHigh' <=> Cursor' - 1 \in Highs
    <3>1. Cursor' - 1 = PackBase(p) + UnitsPerPack - 1
      BY <1>7, <2>1, PackFacts
    <3>2. QED  BY <1>7, <2>3, <3>1
  <2>6. QED  BY <1>1, <2>4, <2>5, AccumExactNext
<1>11. QED  BY <1>8, <1>9, <1>10 DEF CountExact

\* AfterSIMD preserves the SIMD kernel's inductive invariant.
LEMMA AfterSIMDIInv ==
    ASSUME IInv, AfterSIMD
    PROVE  IInv'
<1> USE DEF AfterSIMD, scalars, segment, packLoop, IInv
<1>1. UNCHANGED input
  OBVIOUS
<1>2. ValidUnits' = ValidUnits
  BY DEF ValidUnits
<1>3. TypeOK'
  <2>1. FlagsTypeOK'
    BY DEF TypeOK, FlagsTypeOK
  <2>2. CountersTypeOK'
    BY <1>1, InputStable, SegmentGeometry DEF TypeOK, CountersTypeOK, Lanes, BytesPerPack
  <2>3. QED  BY <1>1, <2>1, <2>2, InputStable DEF TypeOK
<1>4. Geometry'
  BY <1>1, <1>2, InputStable, SegmentGeometry DEF Geometry, Running
<1>5. AccumExact'
  <2>1. Cursor' = Cursor
    BY DEF Cursor, TailBase, Geometry
  <2>2. InFlight' = InFlight /\ CarriedHigh' = CarriedHigh
    BY DEF InFlight, CarriedHigh, TypeOK, CountersTypeOK
  <2>3. QED  BY <1>1, <2>1, <2>2, InputStable DEF AccumExact
<1>6. QED  BY <1>3, <1>4, <1>5 DEF CountExact

\* TailLoop preserves the SIMD kernel's inductive invariant.
LEMMA TailLoopIInv ==
    ASSUME IInv, TailLoop
    PROVE  IInv'
<1> USE DEF TailLoop, scalars, segment, packLoop, IInv
<1> DEFINE u == (processed \div 2) + idx
<1>1. UNCHANGED input
  OBVIOUS
<1>2. ValidUnits' = ValidUnits
  BY DEF ValidUnits
<1>3. /\ idx \in Nat /\ idx < ValidUnits /\ processed \in Nat /\ avail \in Nat /\ size \in Nat
      /\ processed + avail <= size /\ processed % 2 = 0 /\ HB \in {0, 1} /\ ValidUnits \in Nat
  BY UnitsType, SegmentGeometry DEF Geometry, Running, TypeOK, CountersTypeOK, InputTypeOK
<1>4. u \in 0..Units-1 /\ processed + (2 * idx + HB) = 2 * u + HB
  BY <1>3 DEF ValidUnits, Units
<1>5. RawByte(2 * idx + HB) = HighByte(u)
  BY <1>4 DEF RawByte, HighByte
<1>6. /\ u \in Highs <=> IsHi8(RawByte(2 * idx + HB))
      /\ u \in Lows <=> IsLo8(RawByte(2 * idx + HB))
  BY <1>4, <1>5, ClassOfUnit DEF TypeOK, CountersTypeOK
<1>7. (pend <=> u - 1 \in Highs) /\ errAccum + (mark + tErr) = Cardinality(MismatchBefore(u))
  BY DEF AccumExact, Cursor, CarriedHigh, InFlight
<1>8. TypeOK'
  <2>1. FlagsTypeOK'
    BY DEF TypeOK, FlagsTypeOK, IsHi8
  <2>2. CountersTypeOK'
    BY <1>1, <1>3, InputStable DEF TypeOK, CountersTypeOK, Lanes, BytesPerPack
  <2>3. QED  BY <1>1, <2>1, <2>2, InputStable DEF TypeOK
<1>9. Geometry'
  BY <1>1, <1>2, <1>3, InputStable DEF Geometry, Running
<1>10. AccumExact'
  <2>1. Cursor' = u + 1 /\ u + 1 - 1 = u
    BY <1>3 DEF Cursor
  <2>2. InFlight' = mark + tErr' /\ (CarriedHigh' <=> u \in Highs)
    BY <1>6 DEF InFlight, CarriedHigh
  <2>3. Cardinality(MismatchBefore(u + 1)) =
          Cardinality(MismatchBefore(u)) + (IF MismatchAt(u) THEN 1 ELSE 0)
    BY <1>4, MismatchesStep
  <2>4. tErr' = tErr + (IF MismatchAt(u) THEN 1 ELSE 0)
    BY <1>6, <1>7 DEF MismatchAt
  <2>5. errAccum + (mark + tErr') = Cardinality(MismatchBefore(u + 1))
    BY <1>7, <2>3, <2>4 DEF TypeOK, CountersTypeOK
  <2>6. errAccum' + InFlight' = Cardinality(MismatchBefore(Cursor'))
    BY <2>1, <2>2, <2>5
  <2>7. CarriedHigh' <=> Cursor' - 1 \in Highs
    <3>1. Cursor' - 1 = u
      BY <1>4, <2>1
    <3>2. QED  BY <2>2, <3>1
  <2>8. QED  BY <1>1, <2>6, <2>7, AccumExactNext
<1>11. QED  BY <1>8, <1>9, <1>10 DEF CountExact

\* TailDone preserves the SIMD kernel's inductive invariant.
LEMMA TailDoneIInv ==
    ASSUME IInv, TailDone
    PROVE  IInv'
<1> USE DEF TailDone, segment, packLoop, tail, IInv
<1> DEFINE u == (processed \div 2) + idx
<1>1. UNCHANGED input
  OBVIOUS
<1>2. /\ idx \in Nat /\ idx = avail \div 2 /\ processed \in Nat /\ avail \in Nat /\ size \in Nat
      /\ processed + avail <= size /\ processed % 2 = 0
      /\ (isFinal => processed + avail = size) /\ (~isFinal => avail % 2 = 0)
  BY UnitsType DEF Geometry, Running, TypeOK, CountersTypeOK, ValidUnits
<1>3. (pend <=> u - 1 \in Highs) /\ errAccum + (mark + tErr) = Cardinality(MismatchBefore(u))
  BY DEF AccumExact, Cursor, CarriedHigh, InFlight
<1>4. errAccum' \in Nat /\ errorCount' \in Nat
  BY DEF EofErrors, TypeOK, CountersTypeOK
<1>5. TypeOK'
  <2>1. FlagsTypeOK'
    BY DEF TypeOK, FlagsTypeOK
  <2>2. CountersTypeOK'
    BY <1>1, <1>2, <1>4, InputStable DEF TypeOK, CountersTypeOK, Lanes, BytesPerPack
  <2>3. QED  BY <1>1, <2>1, <2>2, InputStable DEF TypeOK
<1>6. Geometry'
  BY <1>1, <1>2, InputStable DEF Geometry, Running
<1>7. AccumExact'
  <2>1. SUFFICES ASSUME ~isFinal PROVE AccumExact'
    BY DEF AccumExact
  <2>2. Cursor' = u /\ InFlight' = 0 /\ (CarriedHigh' <=> pend)
    <3>1. (processed + avail) \div 2 = u /\ u + 0 = u
      BY <1>2, <2>1
    <3>2. pc' = "idle" /\ processed' = processed + avail /\ (pendingHigh' <=> pend)
      BY <2>1
    <3>3. Cursor' = u
      BY <3>1, <3>2 DEF Cursor
    <3>4. InFlight' = 0 /\ (CarriedHigh' <=> pendingHigh')
      BY <3>2 DEF InFlight, CarriedHigh
    <3>5. QED  BY <3>2, <3>3, <3>4
  <2>3. errAccum' + 0 = Cardinality(MismatchBefore(u))
    BY <1>3, <1>4
  <2> HIDE DEF u
  <2>4. QED  BY <1>1, <1>3, <2>2, <2>3, AccumExactNext
<1>8. CountExact'
  <2>1. SUFFICES ASSUME isFinal PROVE errorCount' = ErrorCount
    BY <1>1, InputStable DEF CountExact
  <2>2. u = Units /\ avail % 2 = size % 2
    BY <1>2, <2>1 DEF Units
  <2>3. Cardinality(IllFormed) =
          Cardinality(MismatchBefore(Units)) + (IF Units - 1 \in Highs THEN 1 ELSE 0)
    BY MismatchesAtEnd DEF TypeOK, CountersTypeOK
  <2>4. OddTrailingByte = (IF avail % 2 # 0 THEN 1 ELSE 0)
    BY <1>2, <2>2 DEF OddTrailingByte
  <2>5. errorCount' = (errAccum + (mark + tErr)) + ((IF pend THEN 1 ELSE 0)
                        + (IF avail % 2 # 0 THEN 1 ELSE 0))
    BY <2>1 DEF EofErrors
  <2>6. QED  BY <1>3, <2>2, <2>3, <2>4, <2>5 DEF ErrorCount
<1>9. QED  BY <1>5, <1>6, <1>7, <1>8

\* Stuttering preserves the SIMD kernel's inductive invariant.
LEMMA StutterIInv ==
    ASSUME IInv, UNCHANGED vars
    PROVE  IInv'
<1> USE DEF IInv, vars, scalars, segment, packLoop, tail
<1>1. UNCHANGED input
  OBVIOUS
<1>2. TypeOK'
  <2>1. FlagsTypeOK'
    BY DEF TypeOK, FlagsTypeOK
  <2>2. CountersTypeOK'
    BY <1>1, InputStable DEF TypeOK, CountersTypeOK, Lanes, BytesPerPack
  <2>3. QED  BY <1>1, <2>1, <2>2, InputStable DEF TypeOK
<1>3. Geometry'
  BY <1>1, InputStable DEF Geometry, Running, FullPacks, ValidUnits
<1>4. AccumExact'
  <2>1. Cursor' = Cursor /\ InFlight' = InFlight
    BY DEF Cursor, InFlight
  <2>2. CarriedHigh' <=> CarriedHigh
    BY <1>1, InputStable DEF CarriedHigh
  <2>3. QED  BY <1>1, <2>1, <2>2, AccumExactNext DEF AccumExact
<1>5. CountExact'
  BY <1>1, InputStable DEF CountExact
<1>6. QED  BY <1>2, <1>3, <1>4, <1>5

\* Every step preserves the SIMD kernel's inductive invariant.
LEMMA NextIInv == IInv /\ [Next]_vars => IInv'
<1> SUFFICES ASSUME IInv, [Next]_vars PROVE IInv'
  OBVIOUS
<1>1. CASE Invoke     BY <1>1, InvokeIInv
<1>2. CASE Entry      BY <1>2, EntryIInv
<1>3. CASE SimdLoop   BY <1>3, SimdLoopIInv
<1>4. CASE AfterSIMD  BY <1>4, AfterSIMDIInv
<1>5. CASE TailLoop   BY <1>5, TailLoopIInv
<1>6. CASE TailDone   BY <1>6, TailDoneIInv
<1>7. CASE UNCHANGED vars  BY <1>7, StutterIInv
<1>8. QED  BY <1>1, <1>2, <1>3, <1>4, <1>5, <1>6, <1>7 DEF Next, Terminated

-----------------------------------------------------------------------------
\* Every state of the SIMD kernel satisfies the inductive invariant.
THEOREM InductiveInvariant == Spec => []IInv
  BY InitIInv, NextIInv, PTL DEF Spec

\* The kernel's scalars, loop counters and masks stay what the code declares
\* them to be.
THEOREM TypeCorrect == Spec => []TypeOK
<1>1. IInv => TypeOK
  BY DEF IInv
<1>2. QED  BY <1>1, InductiveInvariant, PTL

\* When the kernel has finished, errorCount is the number of ill-formed code
\* units of the input plus the odd trailing byte.
THEOREM CountIsExact == Spec => []CountExact
<1>1. IInv => CountExact
  BY DEF IInv
<1>2. QED  BY <1>1, InductiveInvariant, PTL

\* At every step the accumulator plus the loop's count is the number of
\* mismatches before the cursor, and the carry is the class of the last unit.
THEOREM AccumulatorIsExact == Spec => []AccumExact
<1>1. IInv => AccumExact
  BY DEF IInv
<1>2. QED  BY <1>1, InductiveInvariant, PTL

\* No block of the kernel reads beyond the bytes of its segment.
THEOREM ReadsStayInBounds == Spec => []ReadsInBounds
<1>1. ASSUME IInv PROVE ReadsInBounds
  <2>1. pc = "simdLoop" => (p + 1) * BytesPerPack <= avail
    BY <1>1, SegmentGeometry DEF IInv, Geometry, TypeOK, CountersTypeOK
  <2>2. pc = "tailLoop" => 2 * idx + HB < avail
    BY <1>1, UnitsType DEF IInv, Geometry, TypeOK, CountersTypeOK, InputTypeOK, ValidUnits
  <2>3. pc \notin {"idle", "finished"} => pc \in Running
    BY <1>1 DEF IInv, TypeOK, FlagsTypeOK, Running
  <2>4. QED  BY <1>1, <2>1, <2>2, <2>3 DEF IInv, Geometry, ReadsInBounds
<1>2. QED  BY <1>1, InductiveInvariant, PTL

-----------------------------------------------------------------------------
(* The kernel implements the validator's abstract specification.           *)

\* Between segments what has been published is not more than the accumulator,
\* which is not more than the errors of the input.
Published == pc # "finished" => errorCount <= errAccum

\* The SIMD kernel publishes nothing before it finishes, step by step.
LEMMA PublishedNext == IInv /\ Published /\ [Next]_vars => Published'
<1> SUFFICES ASSUME IInv, Published, [Next]_vars PROVE Published'
  OBVIOUS
<1>1. /\ errAccum \in Nat /\ mark \in Nat /\ tErr \in Nat /\ errorCount \in Nat
      /\ isFinal \in BOOLEAN
  BY DEF IInv, TypeOK, CountersTypeOK, FlagsTypeOK
<1>2. CASE TailDone
  BY <1>1, <1>2 DEF TailDone, EofErrors, Published
<1>3. CASE ~TailDone
  BY <1>3 DEF Next, Terminated, Invoke, Entry, SimdLoop, AfterSIMD, TailLoop, scalars, vars, Published
<1>4. QED  BY <1>2, <1>3

\* The abstract specification's error count is the one defined for the input.
LEMMA AbstractCount == Abstract!ErrorCount = ErrorCount
<1>1. Abstract!Highs = Highs /\ Abstract!Lows = Lows
  BY DEF Abstract!Highs, Abstract!Lows, Abstract!Units, Abstract!UnitAt, Abstract!HighByte,
         Abstract!LowByte, Abstract!IsHighSurrogate, Abstract!IsLowSurrogate, Highs, Lows,
         Units, UnitAt, HighByte, LowByte, IsHighSurrogate, IsLowSurrogate
<1>2. Abstract!IllFormed = IllFormed
  BY <1>1 DEF Abstract!IllFormed, IllFormed
<1>3. Abstract!Cardinality(IllFormed) = Cardinality(IllFormed)
  BY Zenon DEF Abstract!Cardinality, Cardinality
<1>4. QED
  BY <1>2, <1>3 DEF Abstract!ErrorCount, Abstract!OddTrailingByte, ErrorCount, OddTrailingByte

\* Publishing is the only step the specification sees: an intermediate segment
\* publishes a count between the last one and the true one, the final segment
\* the true one.
LEMMA StepRefines ==
    IInv /\ Published /\ [Next]_vars => [Abstract!Next]_(Abstract!specVars)
<1> SUFFICES ASSUME IInv, Published, [Next]_vars, UNCHANGED Abstract!specVars => FALSE
             PROVE  Abstract!Next
  OBVIOUS
<1>1. TailDone
  BY DEF Next, Terminated, Invoke, Entry, SimdLoop, AfterSIMD, TailLoop,
         scalars, vars, Abstract!specVars, Abstract!input, input
<1>2. /\ IInv' /\ UNCHANGED input /\ pc = "tailDone" /\ isFinal \in BOOLEAN
      /\ pc' = (IF isFinal THEN "finished" ELSE "idle")
      /\ errorCount' = (errAccum + (mark + tErr)) + EofErrors
  BY <1>1, TailDoneIInv DEF TailDone, IInv, TypeOK, FlagsTypeOK
<1>3. /\ errAccum \in Nat /\ mark \in Nat /\ tErr \in Nat /\ errorCount \in Nat
      /\ errorCount <= errAccum
  BY <1>2 DEF IInv, TypeOK, CountersTypeOK, Published
<1> DEFINE u == (processed \div 2) + idx
<1>4. u \in Nat /\ u <= Units
  BY <1>2, UnitsType DEF IInv, Geometry, Running, TypeOK, CountersTypeOK, ValidUnits, Units
<1>5. errAccum + (mark + tErr) = Cardinality(MismatchBefore(u))
  BY <1>2 DEF IInv, AccumExact, Cursor, InFlight
<1> HIDE DEF u
<1>6. errAccum + (mark + tErr) <= ErrorCount /\ ErrorCount \in Nat
  BY <1>4, <1>5, CountedAtMostAll DEF IInv, TypeOK
<1>7. CASE ~isFinal
  <2>1. errorCount' \in errorCount..ErrorCount
    BY <1>2, <1>3, <1>6, <1>7 DEF EofErrors
  <2>2. QED
    BY <1>2, <1>7, <2>1, AbstractCount DEF Abstract!Next, Abstract!Publish, Abstract!input, input
<1>8. CASE isFinal
  <2>1. errorCount' = ErrorCount
    BY <1>2, <1>8, InputStable DEF IInv, CountExact
  <2>2. errorCount <= ErrorCount
    BY <1>3, <1>6
  <2>3. QED
    BY <1>2, <1>8, <2>1, <2>2, AbstractCount
       DEF Abstract!Next, Abstract!Finish, Abstract!input, input
<1>9. QED  BY <1>2, <1>7, <1>8

\* The safety part of Refines: however the pipeline cuts the input, the
\* published count only grows, never passes the true count, and is the true
\* count from the moment the kernel has finished.
THEOREM ImplementsValidator == Spec => Abstract!SafetySpec
<1>1. Init => Abstract!Init /\ Published
  BY DEF Init, InputInit, KernelInit, Abstract!Init, Abstract!InputInit, Published
<1>2. QED
  BY <1>1, PublishedNext, StepRefines, InductiveInvariant, PTL DEF Spec, Abstract!SafetySpec
=============================================================================
