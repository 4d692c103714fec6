--------------------------- MODULE SIMDValidator ---------------------------
(***************************************************************************)
(* UTF16ValidatorSIMDKernel (patches/utf16-simd-milestone.patch): the      *)
(* count-only kernel the program runs with --simd.                         *)
(*                                                                         *)
(* The pipeline calls the kernel once per segment; what survives from one  *)
(* call to the next are two internal scalars, pendingHigh and errAccum.    *)
(* An action is one basic block of the code the kernel generates, one      *)
(* iteration of it when the block is a loop; pc names the block that runs  *)
(* next.                                                                   *)
(***************************************************************************)
EXTENDS BytePacks

CONSTANT
    PacksPerStride  \* packs in the shortest segment that is not final (8)

ASSUME StrideAssumption == PacksPerStride \in Nat \ {0}

StrideBytes == PacksPerStride * BytesPerPack

VARIABLES
    pc,           \* the basic block about to run, "idle" between segments
    errAccum,     \* scalar kept across segments: errors without end-of-file
    errorCount,   \* output scalar
    avail,        \* bytes of this segment
    isFinal,      \* this is the last segment
    p,            \* index of the pack about to be read
    carryVec,     \* lanes set in the previous pack's high-surrogate mask
    mark,         \* mismatches counted in the packs of this segment
    idx,          \* index, in this segment, of the tail's next code unit
    tErr,         \* mismatches counted in the tail
    pend          \* the code unit before idx was a high surrogate

segment == <<avail, isFinal>>
packLoop == <<p, carryVec, mark>>
tail == <<idx, tErr, pend>>
scalars == <<pendingHigh, errAccum, errorCount, processed>>
vars == <<input, pc, scalars, segment, packLoop, tail>>

-----------------------------------------------------------------------------
(* Geometry of a pack and of a segment, and the bytes they give access to. *)

ValidUnitsMutant == (avail + 1) \div 2
ValidUnits == avail \div 2
FullPacks == avail \div BytesPerPack
TailBase == FullPacks * UnitsPerPack

\* The lanes left after the mismatch vector is masked with ODD_ONE_MASK.
PackMismatch(q) ==
    {pos \in Lanes :
        /\ pos % 2 = HB
        /\ ~(pos \in LoLanes(q) <=> pos \in ShiftInPrevious(HiLanes(q), carryVec))}

\* The errors only the end of the input reveals: a high surrogate still
\* waiting for its low one, and a byte that is no code unit.
EofErrorsMutant == (IF pend THEN 1 ELSE 0) + (IF avail % 2 # 0 THEN 1 ELSE 0)
EofErrors ==
    IF isFinal THEN (IF pend THEN 1 ELSE 0) + (IF avail % 2 # 0 THEN 1 ELSE 0)
               ELSE 0

-----------------------------------------------------------------------------
KernelInit ==
    /\ pc = "idle"
    /\ pendingHigh = FALSE /\ errAccum = 0 /\ errorCount = 0 /\ processed = 0
    /\ avail = 0 /\ isFinal = FALSE
    /\ p = 0 /\ carryVec = {} /\ mark = 0
    /\ idx = 0 /\ tErr = 0 /\ pend = FALSE

Init == InputInit /\ KernelInit

\* The pipeline calls the kernel.  It hands over whole strides while it does
\* not know that the input has ended, and in the end whatever is left, which
\* may be nothing.
Invoke ==
    /\ pc = "idle"
    /\ \/ /\ avail' \in {n \in 1..(size - processed) : n % StrideBytes = 0}
          /\ isFinal' = FALSE
       \/ /\ avail' = size - processed
          /\ isFinal' = TRUE
    /\ pc' = "entry"
    /\ UNCHANGED <<input, scalars, packLoop, tail>>

Entry ==
    /\ pc = "entry"
    /\ p' = 0
    /\ carryVec' = CarryInit
    /\ mark' = 0
    /\ pc' = IF FullPacks # 0 THEN "simdLoop" ELSE "afterSIMD"
    /\ UNCHANGED <<input, scalars, segment, tail>>

SimdLoop ==
    /\ pc = "simdLoop"
    /\ mark' = mark + Cardinality(PackMismatch(p))
    /\ carryVec' = HiLanes(p)
    /\ p' = p + 1
    /\ pc' = IF p + 1 # FullPacks THEN "simdLoop" ELSE "afterSIMD"
    /\ UNCHANGED <<input, scalars, segment, tail>>

AfterSIMD ==
    /\ pc = "afterSIMD"
    /\ idx' = TailBase
    /\ tErr' = 0
    /\ pend' = (HighBytePos \in carryVec)
    /\ pc' = IF TailBase # ValidUnits THEN "tailLoop" ELSE "tailDone"
    /\ UNCHANGED <<input, scalars, segment, packLoop>>

TailLoop ==
    /\ pc = "tailLoop"
    /\ LET hiByte == RawByte(2 * idx + HB)
       IN  /\ tErr' = tErr + (IF IsLo8(hiByte) <=> pend THEN 0 ELSE 1)
           /\ pend' = IsHi8(hiByte)
    /\ idx' = idx + 1
    /\ pc' = IF idx + 1 # ValidUnits THEN "tailLoop" ELSE "tailDone"
    /\ UNCHANGED <<input, scalars, segment, packLoop>>

TailDone ==
    /\ pc = "tailDone"
    /\ LET newErrAccum == errAccum + (mark + tErr)
       IN  /\ errAccum' = newErrAccum
           /\ errorCount' = newErrAccum + EofErrors
    /\ pendingHigh' = (pend /\ ~isFinal)
    /\ processed' = processed + avail
    /\ pc' = IF isFinal THEN "finished" ELSE "idle"
    /\ UNCHANGED <<input, segment, packLoop, tail>>

\* The pipeline has ended; nothing is left to do.
Terminated == pc = "finished" /\ UNCHANGED vars

Next == Invoke \/ Entry \/ SimdLoop \/ AfterSIMD \/ TailLoop \/ TailDone \/ Terminated

Spec == Init /\ [][Next]_vars

\* The pipeline keeps calling the kernel until the input is exhausted, and a
\* call that has started runs.
FairSpec == Spec /\ WF_vars(Next)

-----------------------------------------------------------------------------
FlagsTypeOK ==
    /\ pc \in {"idle", "entry", "simdLoop", "afterSIMD", "tailLoop", "tailDone", "finished"}
    /\ pendingHigh \in BOOLEAN /\ pend \in BOOLEAN /\ isFinal \in BOOLEAN

CountersTypeOK ==
    /\ errAccum \in Nat /\ errorCount \in Nat
    /\ mark \in Nat /\ tErr \in Nat
    /\ processed \in 0..size /\ avail \in 0..size
    /\ p \in Nat /\ idx \in Nat
    /\ carryVec \in SUBSET Lanes

TypeOK == InputTypeOK /\ FlagsTypeOK /\ CountersTypeOK

\* The published count is the number of ill-formed code units plus the odd
\* trailing byte, whatever the input, the byte order and the way the pipeline
\* cuts the input into segments.
CountExact == pc = "finished" => errorCount = ErrorCount

\* Every byte the kernel reads belongs to the segment it was given: a whole
\* pack in the SIMD loop, one high byte in the tail ("Every byte read is <
\* avail", and the tail's raw-pointer reads).
ReadsInBounds ==
    /\ processed <= size
    /\ pc \notin {"idle", "finished"} => processed + avail <= size
    /\ pc = "simdLoop" => (p + 1) * BytesPerPack <= avail
    /\ pc = "tailLoop" => 2 * idx + HB < avail

\* How far the kernel has come, in code units of the whole input.
Cursor ==
    (processed \div 2) +
    CASE pc \in {"idle", "entry", "finished"} -> 0
      [] pc \in {"simdLoop", "afterSIMD"} -> p * UnitsPerPack
      [] pc \in {"tailLoop", "tailDone"} -> idx

\* The errors counted and not yet added to errAccum.
InFlight ==
    CASE pc \in {"idle", "entry", "finished"} -> 0
      [] pc \in {"simdLoop", "afterSIMD"} -> mark
      [] pc \in {"tailLoop", "tailDone"} -> mark + tErr

\* What the kernel believes of the code unit before the cursor, wherever it
\* keeps it: the scalar, the carry vector's last high-byte lane or the tail's
\* flag.
CarriedHigh ==
    CASE pc \in {"idle", "entry", "finished"} -> pendingHigh
      [] pc \in {"simdLoop", "afterSIMD"} -> HighBytePos \in carryVec
      [] pc \in {"tailLoop", "tailDone"} -> pend

\* At every point of every segment the accumulator and the loop's own count
\* together hold exactly the mismatches before the cursor, and the one-bit
\* carry agrees with the code unit just before it: nothing is lost or counted
\* twice across packs, the hand-over to the scalar tail, or segments.
AccumExact ==
    pc # "finished" =>
        /\ errAccum + InFlight = Cardinality(MismatchBefore(Cursor))
        /\ CarriedHigh <=> Cursor - 1 \in Highs

\* The kernel implements the validator's abstract specification.
Abstract == INSTANCE ValidatorSpec WITH finished <- (pc = "finished")
Refines == Abstract!Spec
=============================================================================
