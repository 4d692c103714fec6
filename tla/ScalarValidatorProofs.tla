----------------------- MODULE ScalarValidatorProofs -----------------------
(***************************************************************************)
(* The scalar kernel counts exactly the ill-formed code units, for every   *)
(* input and every division of it into segments.                           *)
(***************************************************************************)
EXTENDS ScalarValidator, UTF16Lemmas

\* Where the kernel is in its segment.
Geometry ==
    /\ processed <= size
    /\ pc # "finished" => processed % 2 = 0
    /\ pc \in {"entry", "scanUnits", "scanDone"} =>
         /\ processed + avail <= size
         /\ isFinal => processed + avail = size
         /\ ~isFinal => avail % 2 = 0
    /\ pc = "scanUnits" => idx < NumUnits
    /\ pc = "scanDone" => idx = NumUnits

IInv == TypeOK /\ Geometry /\ AccumExact /\ CountExact

\* Whatever is read off the input stays as it is while the input does.
LEMMA InputStable ==
    ASSUME UNCHANGED input
    PROVE  /\ size' = size /\ HB' = HB /\ Units' = Units
           /\ Highs' = Highs /\ Lows' = Lows /\ ErrorCount' = ErrorCount
           /\ InputTypeOK' = InputTypeOK
  BY DEF input, Units, Highs, Lows, UnitAt, HighByte, LowByte, ErrorCount,
         IllFormed, OddTrailingByte, InputTypeOK

\* The types of the scalar kernel's counters, gathered for arithmetic.
LEMMA StateFacts ==
    ASSUME TypeOK, Geometry
    PROVE  /\ size \in Nat /\ processed \in Nat /\ avail \in Nat /\ processed <= size
           /\ idx \in Nat /\ err \in Nat /\ errAccum \in Nat /\ NumUnits \in Nat
           /\ HB \in {0, 1} /\ InputTypeOK
  BY UnitsType DEF TypeOK, CountersTypeOK, Geometry, NumUnits, InputTypeOK

\* AccumExact of the next state, once the input is known not to have changed.
LEMMA AccumExactNext ==
    ASSUME UNCHANGED input,
           pc' \in {"idle", "entry"} =>
             /\ errAccum' = Cardinality(MismatchBefore(processed' \div 2))
             /\ pendingHigh' <=> (processed' \div 2) - 1 \in Highs,
           pc' \in {"scanUnits", "scanDone"} =>
             /\ err' = Cardinality(MismatchBefore((processed' \div 2) + idx'))
             /\ pend' <=> (processed' \div 2) + idx' - 1 \in Highs
    PROVE  AccumExact'
<1>1. Highs' = Highs /\ Lows' = Lows
  BY InputStable
<1>2. /\ MismatchBefore(processed \div 2)' = MismatchBefore(processed' \div 2)
      /\ MismatchBefore((processed \div 2) + idx)' = MismatchBefore((processed' \div 2) + idx')
  BY <1>1 DEF MismatchBefore, MismatchAt
<1>3. QED  BY <1>1, <1>2 DEF AccumExact

\* A load in the host's byte order, swapped when it must be, gives the unit.
LEMMA LoadAndSwap ==
    ASSUME NEW h \in 0..255, NEW l \in 0..255
    PROVE  l + 256 * h = 256 * h + l /\ ByteSwap(h + 256 * l) = 256 * h + l
<1>1. (h + 256 * l) % 256 = h /\ (h + 256 * l) \div 256 = l
  OBVIOUS
<1>2. QED  BY <1>1 DEF ByteSwap

\* The 16-bit load, with the swap for a big-endian input, yields the code unit.
LEMMA LoadedUnit ==
    ASSUME InputTypeOK, NEW k \in Nat, processed \in Nat,
           NEW u \in 0..Units-1, processed + 2*k = 2*u
    PROVE  Unit(k) = UnitAt(u)
<1>1. /\ HB \in {0, 1} /\ HighByte(u) \in 0..255 /\ LowByte(u) \in 0..255
  BY BytesOfUnit DEF InputTypeOK
<1>2. processed + 2*k = 2*u /\ processed + (2*k + 1) = 2*u + 1
  OBVIOUS
<1>3. CASE HB = 1
  <2>1. RawByte(2*k) = LowByte(u) /\ RawByte(2*k + 1) = HighByte(u)
    BY <1>2, <1>3 DEF RawByte, LowByte, HighByte
  <2>2. PICK h \in 0..255 : h = HighByte(u)
    BY <1>1
  <2>3. PICK l \in 0..255 : l = LowByte(u)
    BY <1>1
  <2>4. Unit(k) = l + 256 * h /\ UnitAt(u) = 256 * h + l
    BY <1>3, <2>1, <2>2, <2>3 DEF Unit, RawUnit, UnitAt
  <2>5. QED  BY <2>4, LoadAndSwap
<1>4. CASE HB = 0
  <2>1. RawByte(2*k) = HighByte(u) /\ RawByte(2*k + 1) = LowByte(u)
    BY <1>2, <1>4 DEF RawByte, LowByte, HighByte
  <2>2. PICK h \in 0..255 : h = HighByte(u)
    BY <1>1
  <2>3. PICK l \in 0..255 : l = LowByte(u)
    BY <1>1
  <2>4. Unit(k) = ByteSwap(h + 256 * l) /\ UnitAt(u) = 256 * h + l
    BY <1>4, <2>1, <2>2, <2>3 DEF Unit, RawUnit, UnitAt
  <2>5. QED  BY <2>4, LoadAndSwap
<1>5. QED  BY <1>1, <1>3, <1>4

-----------------------------------------------------------------------------
\* The initial states satisfy the scalar kernel's inductive invariant.
LEMMA InitIInv == Init => IInv
<1> SUFFICES ASSUME Init PROVE IInv
  OBVIOUS
<1> USE DEF Init, KernelInit
<1>1. InputTypeOK
  BY DEF InputInit, InputTypeOK
<1>2. size \in Nat
  BY <1>1, UnitsType
<1>3. FlagsTypeOK
  BY DEF FlagsTypeOK
<1>4. CountersTypeOK
  BY <1>2 DEF CountersTypeOK
<1>5. Geometry
  BY <1>2 DEF Geometry
<1>6. AccumExact
  <2>1. processed \div 2 = 0 /\ 0 - 1 \notin Highs
    BY DEF Highs
  <2>2. QED  BY <2>1, NoMismatchBeforeStart DEF AccumExact
<1>7. QED  BY <1>1, <1>3, <1>4, <1>5, <1>6 DEF IInv, TypeOK, CountExact

\* Invoke preserves the scalar kernel's inductive invariant.
LEMMA InvokeIInv ==
    ASSUME IInv, Invoke
    PROVE  IInv'
<1> USE DEF Invoke, scalars, loop, IInv
<1>1. UNCHANGED input
  OBVIOUS
<1>2. /\ size' = size /\ processed' = processed /\ avail' \in 0..size
      /\ processed + avail' <= size
  BY <1>1, StateFacts, InputStable
<1>3. TypeOK'
  <2>1. FlagsTypeOK'
    BY DEF TypeOK, FlagsTypeOK
  <2>2. CountersTypeOK'
    BY <1>2 DEF TypeOK, CountersTypeOK
  <2>3. QED  BY <1>1, <2>1, <2>2, InputStable DEF TypeOK
<1>4. Geometry'
  <2>1. processed % 2 = 0 /\ processed <= size /\ pc' = "entry"
    BY DEF Geometry
  <2>2. CASE ~isFinal'
    <3>1. avail' \in Nat /\ avail' % (2 * StrideUnits) = 0
      BY <2>2, StateFacts DEF StrideBytes
    <3>2. avail' % 2 = 0
      BY <3>1, StrideUnitsAssumption, MultipleOfEven
    <3>3. QED  BY <1>2, <2>1, <2>2, <3>2 DEF Geometry
  <2>3. CASE isFinal'
    <3>1. processed + avail' = size
      BY <2>3, StateFacts
    <3>2. QED  BY <1>2, <2>1, <2>3, <3>1 DEF Geometry
  <2>4. QED  BY <2>2, <2>3
<1>5. AccumExact'
  BY <1>1, AccumExactNext DEF AccumExact
<1>6. QED  BY <1>3, <1>4, <1>5 DEF CountExact

\* Entry preserves the scalar kernel's inductive invariant.
LEMMA EntryIInv ==
    ASSUME IInv, Entry
    PROVE  IInv'
<1> USE DEF Entry, scalars, segment, IInv
<1>1. UNCHANGED input /\ NumUnits' = NumUnits
  BY DEF NumUnits
<1>2. TypeOK'
  <2>1. FlagsTypeOK'
    BY DEF TypeOK, FlagsTypeOK
  <2>2. CountersTypeOK'
    BY <1>1, InputStable DEF TypeOK, CountersTypeOK
  <2>3. QED  BY <1>1, <2>1, <2>2, InputStable DEF TypeOK
<1>3. Geometry'
  BY <1>1, StateFacts, InputStable DEF Geometry, LoopStarts
<1>4. AccumExact'
  <2>1. (processed \div 2) + 0 = processed \div 2
    BY StateFacts
  <2>2. errAccum = Cardinality(MismatchBefore(processed \div 2))
        /\ (pendingHigh <=> (processed \div 2) - 1 \in Highs)
    BY DEF AccumExact
  <2>3. /\ errAccum = Cardinality(MismatchBefore((processed \div 2) + 0))
        /\ pendingHigh <=> (processed \div 2) + 0 - 1 \in Highs
    BY <2>1, <2>2, StateFacts
  <2>4. pc' \notin {"idle", "entry"}
    OBVIOUS
  <2>5. QED  BY <1>1, <2>3, <2>4, AccumExactNext
<1>5. QED  BY <1>2, <1>3, <1>4 DEF CountExact

\* ScanUnits preserves the scalar kernel's inductive invariant.
LEMMA ScanUnitsIInv ==
    ASSUME IInv, ScanUnits
    PROVE  IInv'
<1> USE DEF ScanUnits, scalars, segment, IInv
<1> DEFINE u == (processed \div 2) + idx
<1>1. UNCHANGED input /\ NumUnits' = NumUnits
  BY DEF NumUnits
<1>2. /\ idx < NumUnits /\ processed + avail <= size /\ processed % 2 = 0
  BY DEF Geometry
<1>3. u \in 0..Units-1 /\ Unit(idx) = UnitAt(u)
  <2>1. u \in 0..Units-1
    BY <1>2, StateFacts DEF NumUnits, Units
  <2>2. processed + 2*idx = 2*u
    BY <1>2, StateFacts
  <2>3. QED  BY <2>1, <2>2, StateFacts, LoadedUnit
<1>4. /\ u \in Highs <=> IsHighSurrogate(Unit(idx))
      /\ u \in Lows <=> IsLowSurrogate(Unit(idx))
  BY <1>3 DEF Highs, Lows
<1>5. (pend <=> u - 1 \in Highs) /\ err = Cardinality(MismatchBefore(u))
  BY StateFacts DEF AccumExact
<1>6. err' = Cardinality(MismatchBefore(u + 1))
  <2>1. ErrAdd(Unit(idx), pend) = IF MismatchAt(u) THEN 1 ELSE 0
    BY <1>4, <1>5 DEF ErrAdd, MismatchAt
  <2>2. Cardinality(MismatchBefore(u + 1)) =
          Cardinality(MismatchBefore(u)) + (IF MismatchAt(u) THEN 1 ELSE 0)
    BY <1>3, MismatchesStep
  <2>3. QED  BY <1>5, <2>1, <2>2
<1>7. TypeOK'
  <2>1. FlagsTypeOK'
    BY DEF TypeOK, FlagsTypeOK, IsHighSurrogate
  <2>2. err' \in Nat
    BY StateFacts DEF ErrAdd
  <2>3. CountersTypeOK'
    BY <1>1, <2>2, InputStable DEF TypeOK, CountersTypeOK
  <2>4. QED  BY <1>1, <2>1, <2>3, InputStable DEF TypeOK
<1>8. Geometry'
  BY <1>1, <1>2, StateFacts, InputStable DEF Geometry
<1>9. AccumExact'
  <2>1. (processed' \div 2) + idx' = u + 1 /\ (processed' \div 2) + idx' - 1 = u
    BY StateFacts
  <2>2. pend' <=> u \in Highs
    BY <1>4
  <2>3. pc' \notin {"idle", "entry"}
    OBVIOUS
  <2>4. QED  BY <1>1, <1>6, <2>1, <2>2, <2>3, AccumExactNext
<1>10. QED  BY <1>7, <1>8, <1>9 DEF CountExact

\* ScanDone preserves the scalar kernel's inductive invariant.
LEMMA ScanDoneIInv ==
    ASSUME IInv, ScanDone
    PROVE  IInv'
<1> USE DEF ScanDone, segment, loop, IInv
<1> DEFINE u == (processed \div 2) + idx
<1>1. UNCHANGED input /\ NumUnits' = NumUnits
  BY DEF NumUnits
<1>2. /\ idx = avail \div 2 /\ processed + avail <= size /\ processed % 2 = 0
      /\ (isFinal => processed + avail = size) /\ (~isFinal => avail % 2 = 0)
  BY DEF Geometry, NumUnits
<1>3. (pend <=> u - 1 \in Highs) /\ err = Cardinality(MismatchBefore(u))
  BY StateFacts DEF AccumExact
<1>4. TypeOK'
  <2>1. FlagsTypeOK'
    BY DEF TypeOK, FlagsTypeOK, PendStore
  <2>2. errAccum' \in Nat /\ errorCount' \in Nat
    BY StateFacts DEF EofErrors
  <2>3. CountersTypeOK'
    BY <1>1, <1>2, <2>2, StateFacts, InputStable DEF TypeOK, CountersTypeOK
  <2>4. QED  BY <1>1, <2>1, <2>3, InputStable DEF TypeOK
<1>5. Geometry'
  BY <1>1, <1>2, StateFacts, InputStable DEF Geometry
<1>6. AccumExact'
  <2>1. CASE isFinal
    <3>1. pc' = "finished"
      BY <2>1
    <3>2. QED  BY <3>1 DEF AccumExact
  <2>2. CASE ~isFinal
    <3>1. (processed + avail) \div 2 = u
      BY <1>2, <2>2, StateFacts
    <3>2. errAccum' = err
      BY <2>2, StateFacts DEF EofErrors
    <3>3. pc' = "idle" /\ (pendingHigh' <=> pend)
      BY <2>2 DEF PendStore
    <3>4. QED  BY <1>1, <1>3, <3>1, <3>2, <3>3, AccumExactNext
  <2>3. QED  BY <2>1, <2>2
<1>7. CountExact'
  <2>1. SUFFICES ASSUME isFinal PROVE errorCount' = ErrorCount
    BY <1>1, InputStable DEF CountExact
  <2>2. u = Units /\ avail % 2 = size % 2
    BY <1>2, <2>1, StateFacts DEF Units
  <2>3. Cardinality(IllFormed) =
          Cardinality(MismatchBefore(Units)) + (IF Units - 1 \in Highs THEN 1 ELSE 0)
    BY StateFacts, MismatchesAtEnd
  <2>4. errorCount' = err + ((IF pend THEN 1 ELSE 0) + (avail % 2))
    BY <2>1 DEF EofErrors
  <2>5. (IF pend THEN 1 ELSE 0) = (IF Units - 1 \in Highs THEN 1 ELSE 0)
    BY <1>3, <2>2
  <2>6. (IF Units - 1 \in Highs THEN 1 ELSE 0) \in Nat /\ avail % 2 \in Nat
    BY StateFacts
  <2>7. QED  BY <1>3, <2>2, <2>3, <2>4, <2>5, <2>6, StateFacts DEF ErrorCount, OddTrailingByte
<1>8. QED  BY <1>4, <1>5, <1>6, <1>7

\* Stuttering preserves the scalar kernel's inductive invariant.
LEMMA StutterIInv ==
    ASSUME IInv, UNCHANGED vars
    PROVE  IInv'
<1> USE DEF IInv, vars, scalars, segment, loop
<1>1. UNCHANGED input /\ NumUnits' = NumUnits
  BY DEF NumUnits
<1>2. TypeOK'
  <2>1. FlagsTypeOK'
    BY DEF TypeOK, FlagsTypeOK
  <2>2. CountersTypeOK'
    BY <1>1, InputStable DEF TypeOK, CountersTypeOK
  <2>3. QED  BY <1>1, <2>1, <2>2, InputStable DEF TypeOK
<1>3. Geometry'
  BY <1>1, InputStable DEF Geometry
<1>4. AccumExact'
  BY <1>1, AccumExactNext DEF AccumExact
<1>5. CountExact'
  BY <1>1, InputStable DEF CountExact
<1>6. QED  BY <1>2, <1>3, <1>4, <1>5

\* Every step preserves the scalar kernel's inductive invariant.
LEMMA NextIInv == IInv /\ [Next]_vars => IInv'
<1> SUFFICES ASSUME IInv, [Next]_vars PROVE IInv'
  OBVIOUS
<1>1. CASE Invoke     BY <1>1, InvokeIInv
<1>2. CASE Entry      BY <1>2, EntryIInv
<1>3. CASE ScanUnits  BY <1>3, ScanUnitsIInv
<1>4. CASE ScanDone   BY <1>4, ScanDoneIInv
<1>5. CASE UNCHANGED vars  BY <1>5, StutterIInv
<1>6. QED  BY <1>1, <1>2, <1>3, <1>4, <1>5 DEF Next, Terminated

-----------------------------------------------------------------------------
\* Every state of the scalar kernel satisfies the inductive invariant.
THEOREM InductiveInvariant == Spec => []IInv
  BY InitIInv, NextIInv, PTL DEF Spec

\* When the scalar kernel has finished, errorCount is the number of
\* ill-formed code units of the input plus the odd trailing byte.
THEOREM CountIsExact == Spec => []CountExact
<1>1. IInv => CountExact
  BY DEF IInv
<1>2. QED  BY <1>1, InductiveInvariant, PTL

\* The running count and the flag are those of the prefix already scanned.
THEOREM AccumulatorIsExact == Spec => []AccumExact
<1>1. IInv => AccumExact
  BY DEF IInv
<1>2. QED  BY <1>1, InductiveInvariant, PTL

\* No 16-bit load of the scalar kernel leaves its segment.
THEOREM ReadsStayInBounds == Spec => []ReadsInBounds
<1>1. ASSUME IInv PROVE ReadsInBounds
  <2>1. pc = "scanUnits" => 2 * idx + 1 < avail
    BY <1>1, StateFacts DEF IInv, Geometry, NumUnits
  <2>2. QED  BY <1>1, <2>1 DEF IInv, Geometry, ReadsInBounds
<1>2. QED  BY <1>1, InductiveInvariant, PTL

-----------------------------------------------------------------------------
(* The kernel implements the validator's abstract specification.           *)

\* What has been published is not more than the running count.
Published ==
    /\ pc \in {"idle", "entry"} => errorCount <= errAccum
    /\ pc \in {"scanUnits", "scanDone"} => errorCount <= err

\* The scalar kernel publishes nothing before it finishes, step by step.
LEMMA PublishedNext == IInv /\ Published /\ [Next]_vars => Published'
<1> SUFFICES ASSUME IInv, Published, [Next]_vars PROVE Published'
  OBVIOUS
<1>1. errAccum \in Nat /\ err \in Nat /\ errorCount \in Nat
  BY DEF IInv, TypeOK, CountersTypeOK
<1>2. CASE Invoke      BY <1>2 DEF Invoke, scalars, Published
<1>3. CASE Entry       BY <1>3 DEF Entry, scalars, Published
<1>4. CASE ScanUnits
  BY <1>1, <1>4 DEF ScanUnits, ErrAdd, scalars, Published
<1>5. CASE ScanDone
  <2>1. pc' \in {"idle", "finished"} /\ errorCount' = errAccum' /\ errAccum' \in Nat
    BY <1>5, ScanDoneIInv DEF ScanDone, IInv, TypeOK, CountersTypeOK
  <2>2. QED  BY <2>1 DEF Published
<1>6. CASE UNCHANGED vars  BY <1>6 DEF vars, scalars, loop, Published
<1>7. QED  BY <1>2, <1>3, <1>4, <1>5, <1>6 DEF Next, Terminated

\* The abstract specification's error count is the one defined for the input.
LEMMA AbstractCount == Abstract!ErrorCount = ErrorCount
<1>1. Abstract!Highs = Highs /\ Abstract!Lows = Lows
  BY DEF Abstract!Highs, Abstract!Lows, Abstract!Units, Abstract!UnitAt, Abstract!HighByte,
         Abstract!LowByte, Abstract!IsHighSurrogate, Abstract!IsLowSurrogate, Highs, Lows,
         Units, UnitAt, HighByte, LowByte, IsHighSurrogate, IsLowSurrogate
<1>2. Abstract!IllFormed = IllFormed
  BY <1>1 DEF Abstract!IllFormed, IllFormed
<1>3. Abstract!Cardinality(IllFormed) = Cardinality(IllFormed)
  BY Zenon DEF Abstract!Cardinality, Cardinality
<1>4. QED
  BY <1>2, <1>3 DEF Abstract!ErrorCount, Abstract!OddTrailingByte, ErrorCount, OddTrailingByte

\* Every step of the scalar kernel is a step or a stutter of ValidatorSpec.
LEMMA StepRefines ==
    IInv /\ Published /\ [Next]_vars => [Abstract!Next]_(Abstract!specVars)
<1> SUFFICES ASSUME IInv, Published, [Next]_vars, UNCHANGED Abstract!specVars => FALSE
             PROVE  Abstract!Next
  OBVIOUS
<1>1. ScanDone
  BY DEF Next, Terminated, Invoke, Entry, ScanUnits,
         scalars, vars, Abstract!specVars, Abstract!input, input
<1>2. /\ IInv' /\ UNCHANGED input /\ pc = "scanDone" /\ isFinal \in BOOLEAN
      /\ pc' = (IF isFinal THEN "finished" ELSE "idle")
      /\ errorCount' = err + EofErrors
  BY <1>1, ScanDoneIInv DEF ScanDone, IInv, TypeOK, FlagsTypeOK
<1>3. err \in Nat /\ errorCount \in Nat /\ errorCount <= err
  BY <1>2 DEF IInv, TypeOK, CountersTypeOK, Published
<1> DEFINE u == (processed \div 2) + idx
<1>4. u \in Nat /\ u <= Units
  BY <1>2, StateFacts DEF IInv, Geometry, NumUnits, Units
<1>5. err = Cardinality(MismatchBefore(u))
  BY <1>2 DEF IInv, AccumExact
<1> HIDE DEF u
<1>6. err <= ErrorCount /\ ErrorCount \in Nat
  BY <1>4, <1>5, CountedAtMostAll DEF IInv, TypeOK
<1>7. CASE ~isFinal
  <2>1. errorCount' \in errorCount..ErrorCount
    BY <1>2, <1>3, <1>6, <1>7 DEF EofErrors
  <2>2. QED
    BY <1>2, <1>7, <2>1, AbstractCount DEF Abstract!Next, Abstract!Publish, Abstract!input, input
<1>8. CASE isFinal
  <2>1. errorCount' = ErrorCount
    BY <1>2, <1>8, InputStable DEF IInv, CountExact
  <2>2. errorCount <= ErrorCount
    BY <1>3, <1>6
  <2>3. QED
    BY <1>2, <1>8, <2>1, <2>2, AbstractCount
       DEF Abstract!Next, Abstract!Finish, Abstract!input, input
<1>9. QED  BY <1>2, <1>7, <1>8

\* The safety part of Refines, the same promise the SIMD kernel keeps: the
\* published count only grows, never passes the true count, and is the true
\* count from the moment the kernel has finished.
THEOREM ImplementsValidator == Spec => Abstract!SafetySpec
<1>1. Init => Abstract!Init /\ Published
  BY DEF Init, InputInit, KernelInit, Abstract!Init, Abstract!InputInit, Published
<1>2. QED
  BY <1>1, PublishedNext, StepRefines, InductiveInvariant, PTL DEF Spec, Abstract!SafetySpec
=============================================================================
