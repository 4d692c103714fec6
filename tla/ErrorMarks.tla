----------------------------- MODULE ErrorMarks -----------------------------
(***************************************************************************)
(* UTF16ErrorMarksKernel (patches/utf16-simd-milestone.patch): the kernel  *)
(* that writes one bit per code unit, set when that unit is ill-formed,    *)
(* besides counting.  A high surrogate is judged by the unit after it, so  *)
(* the kernel reads up to two bytes past its segment (LookAhead(2)).       *)
(*                                                                         *)
(* As in SIMDValidator an action is one basic block of the generated code, *)
(* one iteration of it when it is a loop.  The bit stream lives in a       *)
(* buffer that the pipeline reuses and never clears: a slot the kernel has *)
(* not written holds whatever was there before.                            *)
(***************************************************************************)
EXTENDS BytePacks

CONSTANTS
    PacksPerBlock,  \* packs read for one block of marks (16)
    MarkSlots       \* slots of the marks buffer

BlockUnits == PacksPerBlock * UnitsPerPack   \* code units in a block: BITS

ASSUME PacksPerBlockAssumption == PacksPerBlock \in Nat \ {0}
ASSUME MarkSlotsAssumption ==
    /\ MarkSlots \in Nat
    /\ MarkSlots >= (MaxBytes \div (2 * BlockUnits) + 1) * BlockUnits

VARIABLES
    pc,           \* the basic block about to run, "idle" between segments
    errAccum,     \* scalar kept across segments: marks emitted
    errorCount,   \* output scalar
    avail,        \* bytes of this segment
    isFinal,      \* this is the last segment
    blk,          \* index, in this segment, of the block about to be read
    carryVec,     \* lanes set in the previous pack's high-surrogate mask
    err,          \* marks set in the blocks of this segment
    idx,          \* index, in this segment, of the tail's next code unit
    tErr,         \* marks set in the tail
    pend,         \* the code unit before idx was a high surrogate
    tailBits,     \* the marks of the partial block, before it is stored
    marks,        \* the marks buffer, by code unit of the whole input
    produced      \* marks the pipeline shows the consumers

segment == <<avail, isFinal>>
blockLoopVars == <<blk, carryVec, err>>
tail == <<idx, tErr, pend, tailBits>>
scalars == <<pendingHigh, errAccum, errorCount, processed>>
markStream == <<marks, produced>>
kernel == <<pc, scalars, segment, blockLoopVars, tail>>
vars == <<input, kernel, markStream>>

-----------------------------------------------------------------------------
ValidUnits == avail \div 2
FullBlocks == ValidUnits \div BlockUnits
TailBase == FullBlocks * BlockUnits
HasTail == TailBase # ValidUnits
HasOddTailByte == isFinal /\ avail % 2 # 0

\* A byte past the segment: the bytes of the next segment are really there,
\* and past the end of the input the pipeline supplies zeroes.
LookAheadByte(off) == IF processed + off < size THEN RawByte(off) ELSE 0

\* loadLookaheadHighByte: an incomplete trailing byte is not the high byte of
\* a code unit, and must not look like a low surrogate after a final high one.
LookaheadHighByteMutant(off) == LookAheadByte(off)
LookaheadHighByte(off) ==
    IF HasOddTailByte /\ off >= avail - 1 THEN 0 ELSE LookAheadByte(off)

\* mvmd_dslli(8, laVec, isLo8, BYTES_PER_PACK - 2): every lane moves down by
\* two; the last unit's lane takes the one byte read beyond the pack.
NextLowLanes(q) ==
    {pos \in Lanes :
        IF pos < BytesPerPack - 2
        THEN pos + 2 \in LoLanes(q)
        ELSE /\ pos = HighBytePos
             /\ IsLo8(LookaheadHighByte((q + 1) * BytesPerPack + HB))}

\* bad[k] = (isLow[k] & !isHigh[k-1]) | (isHigh[k] & !isLow[k+1])
BadLanes(q, carry) ==
    (LoLanes(q) \ ShiftInPrevious(HiLanes(q), carry))
        \cup (HiLanes(q) \ NextLowLanes(q))

\* The packs of a block are read one after the other, each leaving its
\* high-surrogate mask for the next.
Carry(b, sub) ==
    IF sub = 0 THEN carryVec ELSE HiLanes(b * PacksPerBlock + sub - 1)

\* The WEIGHTS mask and the OR-fold keep the high-byte lanes only, and leave
\* the mark of unit u of pack sub at bit sub * UNITS_PER_PACK + u of block b.
BlockBits(b) ==
    {i \in 0..BlockUnits-1 :
        LET sub == i \div UnitsPerPack
            u == i % UnitsPerPack
        IN  2 * u + HB \in BadLanes(b * PacksPerBlock + sub, Carry(b, sub))}

\* storeOutputStreamBlock: block b of this segment is overwritten as a whole.
StoredMutant(b, bits) ==
    [k \in 0..MarkSlots-1 |->
        IF b * BlockUnits <= k /\ k < (b + 1) * BlockUnits
        THEN k - b * BlockUnits \in bits ELSE marks[k]]
Stored(b, bits) ==
    LET first == (processed \div 2) + b * BlockUnits
    IN  [k \in 0..MarkSlots-1 |->
            IF first <= k /\ k < first + BlockUnits THEN k - first \in bits
                                                    ELSE marks[k]]

-----------------------------------------------------------------------------
KernelInit ==
    /\ pc = "idle"
    /\ pendingHigh = FALSE /\ errAccum = 0 /\ errorCount = 0 /\ processed = 0
    /\ avail = 0 /\ isFinal = FALSE
    /\ blk = 0 /\ carryVec = {} /\ err = 0
    /\ idx = 0 /\ tErr = 0 /\ pend = FALSE /\ tailBits = {}
    /\ produced = 0

Init == InputInit /\ KernelInit /\ marks \in [0..MarkSlots-1 -> BOOLEAN]

\* The pipeline calls the kernel: with whole blocks of code units while two
\* more bytes are known to follow them, and in the end with what is left.
Invoke ==
    /\ pc = "idle"
    /\ \/ /\ avail' \in {n \in 1..(size - processed - 2) : n % (2 * BlockUnits) = 0}
          /\ isFinal' = FALSE
       \/ /\ avail' = size - processed
          /\ isFinal' = TRUE
    /\ pc' = "entry"
    /\ UNCHANGED <<input, scalars, blockLoopVars, tail, markStream>>

Entry ==
    /\ pc = "entry"
    /\ blk' = 0
    /\ carryVec' = CarryInit
    /\ err' = 0
    /\ pc' = IF FullBlocks # 0 THEN "markBlockLoop" ELSE "afterMarkBlocks"
    /\ UNCHANGED <<input, scalars, segment, tail, markStream>>

MarkBlockLoop ==
    /\ pc = "markBlockLoop"
    /\ marks' = Stored(blk, BlockBits(blk))
    /\ err' = err + Cardinality(BlockBits(blk))
    /\ carryVec' = HiLanes(blk * PacksPerBlock + PacksPerBlock - 1)
    /\ blk' = blk + 1
    /\ pc' = IF blk + 1 # FullBlocks THEN "markBlockLoop" ELSE "afterMarkBlocks"
    /\ UNCHANGED <<input, scalars, segment, tail, produced>>

AfterMarkBlocks ==
    /\ pc = "afterMarkBlocks"
    /\ idx' = TailBase
    /\ tErr' = 0
    /\ pend' = (HighBytePos \in carryVec)
    /\ tailBits' = {}
    /\ pc' = IF HasTail THEN "markTailLoop" ELSE "markTailDone"
    /\ UNCHANGED <<input, scalars, segment, blockLoopVars, markStream>>

MarkTailLoop ==
    /\ pc = "markTailLoop"
    /\ LET hiByte == RawByte(2 * idx + HB)
           nxByte == LookaheadHighByte(2 * idx + HB + 2)
           tBad == \/ IsLo8(hiByte) /\ ~pend
                   \/ IsHi8(hiByte) /\ ~IsLo8(nxByte)
       IN  /\ tailBits' = IF tBad THEN tailBits \cup {idx - TailBase} ELSE tailBits
           /\ tErr' = IF tBad THEN tErr + 1 ELSE tErr
           /\ pend' = IsHi8(hiByte)
    /\ idx' = idx + 1
    /\ pc' = IF idx + 1 # ValidUnits THEN "markTailLoop" ELSE "markTailDone"
    /\ UNCHANGED <<input, scalars, segment, blockLoopVars, markStream>>

\* What is stored after the tail: the partial block, or, when the odd byte is
\* all there is, a block of zeroes over the slot the pipeline may show for it.
TailStoreMutant == IF HasTail THEN Stored(FullBlocks, tailBits) ELSE marks
TailStore ==
    CASE HasTail -> Stored(FullBlocks, tailBits)
      [] ~HasTail /\ HasOddTailByte /\ ValidUnits = 0 -> Stored(0, {})
      [] OTHER -> marks

\* The odd byte is the one error that is no code unit's.
OddByteErrorMutant == 0
OddByteError == IF isFinal THEN avail % 2 ELSE 0

\* An item of marks stands for two bytes, so a final segment of odd length
\* may show the consumers one item more than there are code units.
MarkTailDone ==
    /\ pc = "markTailDone"
    /\ marks' = TailStore
    /\ produced' \in {processed \div 2 + ValidUnits,
                      processed \div 2 + (avail + 1) \div 2}
    /\ errAccum' = errAccum + (err + tErr)
    /\ errorCount' = errAccum + (err + tErr) + OddByteError
    /\ pendingHigh' = (pend /\ ~isFinal)
    /\ processed' = processed + avail
    /\ pc' = IF isFinal THEN "finished" ELSE "idle"
    /\ UNCHANGED <<input, segment, blockLoopVars, tail>>

Step == Invoke \/ Entry \/ MarkBlockLoop \/ AfterMarkBlocks \/ MarkTailLoop
        \/ MarkTailDone

\* The pipeline has ended; nothing is left to do.
Terminated == pc = "finished" /\ UNCHANGED vars

Next == Step \/ Terminated

Spec == Init /\ [][Next]_vars

FairSpec == Spec /\ WF_vars(Next)

-----------------------------------------------------------------------------
FlagsTypeOK ==
    /\ pc \in {"idle", "entry", "markBlockLoop", "afterMarkBlocks",
               "markTailLoop", "markTailDone", "finished"}
    /\ pendingHigh \in BOOLEAN /\ pend \in BOOLEAN /\ isFinal \in BOOLEAN

CountersTypeOK ==
    /\ errAccum \in Nat /\ errorCount \in Nat
    /\ err \in Nat /\ tErr \in Nat
    /\ processed \in 0..size /\ avail \in 0..size
    /\ blk \in Nat /\ idx \in Nat
    /\ carryVec \in SUBSET Lanes
    /\ tailBits \in SUBSET (0..BlockUnits-1)

MarksTypeOK ==
    /\ marks \in [0..MarkSlots-1 -> BOOLEAN]
    /\ produced \in 0..MarkSlots

TypeOK == InputTypeOK /\ FlagsTypeOK /\ CountersTypeOK /\ MarksTypeOK

\* How far the kernel has come, in code units of the whole input, and how many
\* marks it has counted and not yet added to errAccum.
Cursor ==
    (processed \div 2) +
    CASE pc \in {"idle", "entry", "finished"} -> 0
      [] pc \in {"markBlockLoop", "afterMarkBlocks"} -> blk * BlockUnits
      [] pc \in {"markTailLoop", "markTailDone"} -> idx

InFlight ==
    CASE pc \in {"idle", "entry", "finished"} -> 0
      [] pc \in {"markBlockLoop", "afterMarkBlocks"} -> err
      [] pc \in {"markTailLoop", "markTailDone"} -> err + tErr

\* The first unit whose mark has not reached the buffer.
StoredTo ==
    (processed \div 2) +
    CASE pc \in {"idle", "entry", "finished"} -> 0
      [] pc \in {"markBlockLoop", "afterMarkBlocks"} -> blk * BlockUnits
      [] pc \in {"markTailLoop", "markTailDone"} -> TailBase

\* A mark once stored is right and stays so: at every point the buffer says of
\* each unit already stored whether that unit itself is ill-formed, and the
\* partial block says the same of the units of the tail.
MarksExact ==
    /\ \A k \in 0..StoredTo-1 : marks[k] <=> k \in IllFormed
    /\ pc \in {"markTailLoop", "markTailDone"} =>
          tailBits = {k - StoredTo : k \in {j \in IllFormed : StoredTo <= j /\ j < Cursor}}

\* The running count is the number of ill-formed units before the cursor, so
\* that the published count is the population count of the marks plus the odd
\* byte ("by construction popcount(errorMarks) + oddTrailingByte").
CountIsPopcount ==
    /\ errAccum + InFlight = Cardinality({k \in IllFormed : k < Cursor})
    /\ pc = "finished" =>
          errorCount = Cardinality({k \in 0..Units-1 : marks[k]}) + OddTrailingByte

\* A mark shown to a consumer belongs to a code unit already stored, except
\* for the one slot an odd byte may add; that slot is zero when the odd byte
\* is all the final segment holds, or follows a partial block.
ShownMarksWritten ==
    \A k \in 0..produced-1 :
        \/ k < processed \div 2
        \/ /\ k = Units /\ OddTrailingByte = 1 /\ pc = "finished"
           /\ FullBlocks = 0 \/ HasTail => ~marks[k]

\* A mark that a consumer may be reading never changes.
ShownMarksStable == [][\A k \in 0..produced-1 : marks'[k] = marks[k]]_vars

\* One past the last byte of the segment that the next step reads, and the
\* look-ahead byte it reads.
ReadsTo == IF pc = "markBlockLoop" THEN (blk + 1) * PacksPerBlock * BytesPerPack
                                   ELSE 2 * idx + HB + 1
LooksAt == IF pc = "markBlockLoop" THEN ReadsTo + HB ELSE ReadsTo + 1

\* Every byte the kernel reads belongs to the segment it was given or, for the
\* unit after the last, to the two bytes of look-ahead it declares; and while
\* the segment is not the last those two bytes are bytes of the input.
ReadsInBounds ==
    /\ pc \in {"markBlockLoop", "markTailLoop"} =>
          ReadsTo <= avail /\ LooksAt < avail + 2
    /\ pc \notin {"idle", "finished"} =>
          processed + avail + (IF isFinal THEN 0 ELSE 2) <= size

\* The invariant of the marks: the types, in particular of the carry between
\* packs, the exactness of what has been stored, its count, and the reads.
MarksInv == TypeOK /\ MarksExact /\ CountIsPopcount /\ ReadsInBounds

\* The kernel implements the validator's abstract specification.
Abstract == INSTANCE ValidatorSpec WITH finished <- (pc = "finished")
Refines == Abstract!Spec
=============================================================================
