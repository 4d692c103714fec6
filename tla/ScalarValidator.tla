-------------------------- MODULE ScalarValidator --------------------------
(***************************************************************************)
(* UTF16ValidatorKernel (patches/utf16-simd-milestone.patch): the scalar   *)
(* kernel behind --scalar, kept as the oracle the SIMD kernel is compared  *)
(* with.  It loads each code unit as a 16-bit word in the order of the     *)
(* host, which is little-endian, swaps the bytes of a big-endian input and *)
(* tests the word against the surrogate ranges.                            *)
(*                                                                         *)
(* As in SIMDValidator, an action is a basic block and pc names the next   *)
(* one.  Unlike there, the errors of the end of the input are added into   *)
(* errAccum itself.                                                        *)
(***************************************************************************)
EXTENDS UTF16Input

CONSTANT StrideUnits   \* code units in the shortest segment that is not final
ASSUME StrideUnitsAssumption == StrideUnits \in Nat \ {0}

StrideBytes == 2 * StrideUnits

VARIABLES
    pc,           \* the basic block about to run, "idle" between segments
    pendingHigh,  \* scalar kept across segments: the last unit was a high
    errAccum,     \* scalar kept across segments: errors so far
    errorCount,   \* output scalar
    processed,    \* bytes consumed by earlier segments (kept by the pipeline)
    avail,        \* bytes of this segment
    isFinal,      \* this is the last segment
    idx,          \* index, in this segment, of the next code unit
    err,          \* the loop's running count, started from errAccum
    pend          \* the code unit before idx was a high surrogate

scalars == <<pendingHigh, errAccum, errorCount, processed>>
segment == <<avail, isFinal>>
loop == <<idx, err, pend>>
vars == <<input, pc, scalars, segment, loop>>

-----------------------------------------------------------------------------
NumUnits == avail \div 2
RawByte(off) == data[processed + off]

\* A 16-bit load on a little-endian host, and llvm.bswap.i16.
RawUnit(k) == RawByte(2*k) + 256 * RawByte(2*k + 1)
ByteSwap(w) == 256 * (w % 256) + (w \div 256)

Unit(k) == IF HB = 0 THEN ByteSwap(RawUnit(k)) ELSE RawUnit(k)

\* A low surrogate is valid only right after a high one; a waiting high
\* surrogate is valid only if a low one comes now.
ErrAddMutant(unit, waiting) == IF IsLowSurrogate(unit) /\ ~waiting THEN 1 ELSE 0
ErrAdd(unit, waiting) == IF IsLowSurrogate(unit) <=> waiting THEN 0 ELSE 1

\* Whether the flag survives the segment: not when the input has ended.
PendStoreMutant == FALSE
PendStore == pend /\ ~isFinal

EofErrorsMutant == (IF pend THEN 1 ELSE 0) + (avail % 2)
EofErrors == IF isFinal THEN (IF pend THEN 1 ELSE 0) + (avail % 2) ELSE 0

-----------------------------------------------------------------------------
KernelInit ==
    /\ pc = "idle"
    /\ pendingHigh = FALSE /\ errAccum = 0 /\ errorCount = 0 /\ processed = 0
    /\ avail = 0 /\ isFinal = FALSE
    /\ idx = 0 /\ err = 0 /\ pend = FALSE

Init == InputInit /\ KernelInit

\* The pipeline hands over whole strides while it does not know that the
\* input has ended, and in the end whatever is left, which may be nothing.
Invoke ==
    /\ pc = "idle"
    /\ \/ /\ avail' \in {n \in 1..(size - processed) : n % StrideBytes = 0}
          /\ isFinal' = FALSE
       \/ /\ avail' = size - processed
          /\ isFinal' = TRUE
    /\ pc' = "entry"
    /\ UNCHANGED <<input, scalars, loop>>

LoopStarts == NumUnits # 0

Entry ==
    /\ pc = "entry"
    /\ idx' = 0
    /\ err' = errAccum
    /\ pend' = pendingHigh
    /\ pc' = IF LoopStarts THEN "scanUnits" ELSE "scanDone"
    /\ UNCHANGED <<input, scalars, segment>>

ScanUnits ==
    /\ pc = "scanUnits"
    /\ err' = err + ErrAdd(Unit(idx), pend)
    /\ pend' = IsHighSurrogate(Unit(idx))
    /\ idx' = idx + 1
    /\ pc' = IF idx + 1 # NumUnits THEN "scanUnits" ELSE "scanDone"
    /\ UNCHANGED <<input, scalars, segment>>

ScanDone ==
    /\ pc = "scanDone"
    /\ errAccum' = err + EofErrors
    /\ errorCount' = errAccum'
    /\ pendingHigh' = PendStore
    /\ processed' = processed + avail
    /\ pc' = IF isFinal THEN "finished" ELSE "idle"
    /\ UNCHANGED <<input, segment, loop>>

\* The pipeline has ended; nothing is left to do.
Terminated == pc = "finished" /\ UNCHANGED vars

Next == Invoke \/ Entry \/ ScanUnits \/ ScanDone \/ Terminated

Spec == Init /\ [][Next]_vars

FairSpec == Spec /\ WF_vars(Next)

-----------------------------------------------------------------------------
FlagsTypeOK ==
    /\ pc \in {"idle", "entry", "scanUnits", "scanDone", "finished"}
    /\ pendingHigh \in BOOLEAN /\ pend \in BOOLEAN /\ isFinal \in BOOLEAN

CountersTypeOK ==
    /\ errAccum \in Nat /\ errorCount \in Nat /\ err \in Nat /\ idx \in Nat
    /\ processed \in 0..size /\ avail \in 0..size

TypeOK == InputTypeOK /\ FlagsTypeOK /\ CountersTypeOK

\* The published count is the number of ill-formed code units plus the odd
\* trailing byte, whatever the input, the byte order and the segments.
CountExact == pc = "finished" => errorCount = ErrorCount

\* Every 16-bit load lies inside the segment ("Linear() guarantees the
\* accessible bytes are contiguous").
ReadsInBounds ==
    /\ pc \in {"entry", "scanUnits", "scanDone"} => processed + avail <= size
    /\ pc = "scanUnits" => 2 * idx + 1 < avail

\* Between two segments, and at every unit inside one, the running count is
\* the number of mismatches before the unit about to be read and the flag is
\* the class of the one before it.
AccumExact ==
    /\ pc \in {"idle", "entry"} =>
         /\ errAccum = Cardinality(MismatchBefore(processed \div 2))
         /\ pendingHigh <=> (processed \div 2) - 1 \in Highs
    /\ pc \in {"scanUnits", "scanDone"} =>
         /\ err = Cardinality(MismatchBefore((processed \div 2) + idx))
         /\ pend <=> (processed \div 2) + idx - 1 \in Highs

\* The scalar kernel implements the validator's abstract specification, the
\* one the SIMD kernel implements too.
Abstract == INSTANCE ValidatorSpec WITH finished <- (pc = "finished")
Refines == Abstract!Spec
=============================================================================
