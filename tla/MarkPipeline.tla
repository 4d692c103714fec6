---------------------------- MODULE MarkPipeline ----------------------------
(***************************************************************************)
(* The marks pipeline of utf16validatePipelineGen: the marks kernel and,   *)
(* downstream of it, one of the three consumers of its bit stream, chosen  *)
(* by the command line.                                                    *)
(*                                                                         *)
(*   linear   ErrorMarkPositionKernel prints the position of every mark,   *)
(*            block by block                                               *)
(*   scan     UTF16ErrorMarkScanKernel, a subclass of Parabix's two-level  *)
(*            scan, prints them stride by stride                           *)
(*   repair   UTF16RepairKernel copies the bytes, replacing every marked   *)
(*            unit by U+FFFD, and StdOutKernel writes the result           *)
(*                                                                         *)
(* The pipeline runs the kernels in segments and may let the producer get  *)
(* ahead of the consumer; it never lets the producer overwrite marks that  *)
(* are still to be consumed.                                               *)
(***************************************************************************)
EXTENDS ErrorMarks, SequencesExt

CONSTANT ScanStrideBlocks   \* blocks of marks in one stride of the scan (32)
ASSUME ScanStrideAssumption == ScanStrideBlocks \in Nat \ {0}

ScanStride == ScanStrideBlocks * BlockUnits   \* 4096 on a 128-bit target

ASSUME ScanSlotsAssumption ==
    MarkSlots >= (MaxBytes \div (2 * ScanStride) + 1) * ScanStride

VARIABLES
    consumer,    \* which consumer this pipeline was built with
    cpc,         \* the basic block the consumer is about to run
    consumed,    \* marks consumed in earlier calls
    accessible,  \* marks of this call
    last,        \* this is the consumer's last call
    at,          \* the block, stride or unit of this call it looks at
    rounds,      \* how many of them it looks at in this call
    positions,   \* linear, scan: the positions printed
    repaired     \* repair: the bytes of the repaired stream

call == <<accessible, last, rounds>>
results == <<positions, repaired>>
consumerVars == <<consumer, cpc, consumed, call, at, results>>
pipelineVars == <<vars, consumerVars>>

-----------------------------------------------------------------------------
ConsumerInit ==
    /\ consumer \in {"linear", "scan", "repair"}
    /\ cpc = "idle"
    /\ consumed = 0 /\ accessible = 0 /\ last = FALSE /\ at = 0 /\ rounds = 0
    /\ positions = <<>> /\ repaired = <<>>

PipelineInit == Init /\ ConsumerInit

\* One call of the consumer: everything produced and not yet consumed.  It is
\* the last call when the producer has finished.  The scan is called for whole
\* strides until then.
Unread == produced - consumed
Callable ==
    IF pc = "finished" THEN {Unread}
    ELSE {n \in {Unread} : n > 0 /\ (consumer = "scan" => n % ScanStride = 0)}
         \cup {n \in {(Unread \div ScanStride) * ScanStride} : n > 0}

\* The base class of the scan walks whole strides.  In the last call it walks
\* what is left as one more stride, which it may do even when nothing is left.
WalkedStrides(n) ==
    {(n + ScanStride - 1) \div ScanStride}
        \cup (IF pc = "finished" THEN {n \div ScanStride + 1} ELSE {})

\* Blocks that hold at least one accessible mark.
NumBlocksMutant(n) == n \div BlockUnits
NumBlocks(n) == (n + BlockUnits - 1) \div BlockUnits

\* How many blocks, strides or units the consumer visits in a call for n marks.
Rounds(n) ==
    CASE consumer = "linear" -> {NumBlocks(n)}
      [] consumer = "scan" -> WalkedStrides(n)
      [] consumer = "repair" -> {n}

\* Where the consumer goes when a call ends.
AfterCall(wasLast) == IF wasLast THEN "finished" ELSE "idle"

CallConsumer ==
    /\ cpc = "idle"
    /\ last' = (pc = "finished")
    /\ \E n \in Callable :
          /\ accessible' = n
          /\ rounds' \in Rounds(n)
    /\ at' = 0
    /\ cpc' = IF rounds' # 0 THEN "loop" ELSE AfterCall(last')
    /\ UNCHANGED <<vars, consumer, consumed, results>>

\* The consumer goes on to its next visit, or returns after the last one.
ConsumedAfterCall == consumed + accessible

Advance ==
    /\ at' = at + 1
    /\ IF at + 1 # rounds THEN UNCHANGED <<cpc, consumed>>
                         ELSE cpc' = AfterCall(last) /\ consumed' = ConsumedAfterCall
    /\ UNCHANGED <<vars, consumer, call>>

\* The members of a finite set of numbers, in ascending order.
Ascending(set) ==
    CHOOSE s \in [1..Cardinality(set) -> set] :
        \A i, j \in 1..Cardinality(set) : i < j => s[i] < s[j]

MarkedFrom(first, n) == {k \in first..first + n - 1 : k < MarkSlots /\ marks[k]}

\* posBlockLoop: the marks of one block, in ascending order, the bits at or
\* beyond the accessible extent masked off.
AccessibleMask == consumed + accessible
PosBlockLoop ==
    /\ consumer = "linear" /\ cpc = "loop"
    /\ positions' = positions \o
          Ascending({k \in MarkedFrom(consumed + at * BlockUnits, BlockUnits) :
                        k < AccessibleMask})
    /\ Advance
    /\ UNCHANGED repaired

\* One stride of the scan: the marks of it in ascending order, whatever the
\* extent, unless there is nothing accessible in this call.
ScanStrideLoop ==
    /\ consumer = "scan" /\ cpc = "loop"
    /\ positions' =
          IF accessible = 0 THEN positions
          ELSE positions \o Ascending(MarkedFrom(consumed + at * ScanStride, ScanStride))
    /\ Advance
    /\ UNCHANGED repaired

\* A byte of the input as a raw pointer reads it; past the end it is zero.
ByteAt(i) == IF i < size THEN data[i] ELSE 0

ReplacementByte(offset) == IF offset = HB THEN 255 ELSE 253   \* U+FFFD

\* repairLoop: the two bytes of one unit.  The stream is shown downstream at
\* two bytes per mark, but no further than the bytes of the input.
RepairedUnitMutant(k) ==
    [i \in 0..1 |-> IF marks[k] THEN IF i = 1 THEN 255 ELSE 253 ELSE ByteAt(2 * k + i)]
RepairedUnit(k) ==
    [i \in 0..1 |-> IF marks[k] THEN ReplacementByte(i) ELSE ByteAt(2 * k + i)]
RepairLoop ==
    /\ consumer = "repair" /\ cpc = "loop"
    /\ LET k == consumed + at
           unit == RepairedUnit(k)
       IN  repaired' = repaired \o
              SubSeq(<<unit[0], unit[1]>>, 1, IF 2 * k + 1 < size THEN 2 ELSE 1)
    /\ Advance
    /\ UNCHANGED positions

Produce == Step /\ UNCHANGED consumerVars

Consume == CallConsumer \/ PosBlockLoop \/ ScanStrideLoop \/ RepairLoop

PipelineDone ==
    /\ pc = "finished" /\ cpc = "finished"
    /\ UNCHANGED pipelineVars

PipelineNext == Produce \/ Consume \/ PipelineDone

PipelineSpec ==
    /\ PipelineInit /\ [][PipelineNext]_pipelineVars
    /\ WF_pipelineVars(Produce) /\ WF_pipelineVars(Consume)
-----------------------------------------------------------------------------
Printed == Range(positions)

\* Each position is named once and in ascending order, across the blocks of a
\* call and across calls.
PrintedAscending ==
    \A i, j \in 1..Len(positions) : i < j => positions[i] < positions[j]

\* The slot that an odd byte may add is left unwritten when the final segment
\* is whole blocks and the odd byte.
UnwrittenSlot == OddTrailingByte = 1 /\ FullBlocks # 0 /\ ~HasTail

\* The linear printer prints exactly the ill-formed positions: at every moment
\* those before the place it has come to, and in the end all of them.
LinearExact ==
    /\ consumer = "linear" => PrintedAscending
    /\ consumer = "linear" /\ cpc = "loop" =>
          {k \in Printed : k < Units} =
              {k \in IllFormed : k < consumed + at * BlockUnits}
    /\ consumer = "linear" /\ cpc = "finished" =>
          /\ {k \in Printed : k < Units} = IllFormed
          /\ ~UnwrittenSlot => Printed = IllFormed

\* The two-level scan misses no ill-formed position, and what it prints beside
\* them lies past the end of the input; it repeats none and goes never back.
ScanSound ==
    consumer = "scan" =>
        /\ PrintedAscending
        /\ cpc = "finished" => {k \in Printed : k < Units} = IllFormed

\* What either printer prints: right, once, and in order.
PrintedExact == LinearExact /\ ScanSound

\* The bytes of the repaired stream that belong to whole code units, read as
\* an input.
Text == INSTANCE UTF16Input
    WITH data <- [i \in 0..Len(repaired)-1 |-> repaired[i + 1]],
         size <- 2 * (Len(repaired) \div 2)

\* The repaired stream is as long as the input but for an odd byte at most;
\* it is well-formed, holds every well-formed unit of the input at its place
\* and U+FFFD in place of every other.
RepairSound ==
    consumer = "repair" /\ cpc = "finished" =>
        /\ Len(repaired) \in {2 * Units, size}
        /\ Text!ErrorCount = 0
        /\ \A k \in 0..Units-1 :
              Text!UnitAt(k) = IF k \in IllFormed THEN 65533 ELSE UnitAt(k)

\* Both the producer and the consumer come to the end of the input.
Completes == <>(pc = "finished" /\ cpc = "finished")

\* What a comment says of the partial block: a consumer that reads whole
\* blocks never sees a phantom marker.
NoPhantomMark ==
    consumer = "linear" => \A k \in Printed : k < Units
=============================================================================
