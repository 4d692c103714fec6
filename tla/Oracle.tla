------------------------------- MODULE Oracle -------------------------------
(***************************************************************************)
(* The independent reference implementation (scripts/utf16_oracle.py): a   *)
(* left-to-right decoder that finds the ill-formed code units, and the     *)
(* repair built on what it finds.  The fuzz test compares the program with *)
(* it, so what it computes must be what the kernels promise, although it   *)
(* is written another way: a pair is consumed whole, two units at a time.  *)
(*                                                                         *)
(* Scanning is one action per arm of the loop in malformed_positions;      *)
(* repair_units, the odd-byte policy of analyze and encode_code_units are  *)
(* one more step.                                                          *)
(***************************************************************************)
EXTENDS UTF16Input, Sequences

VARIABLES
    pc,         \* "scan", then "repair", then "done"
    index,      \* the code unit malformed_positions looks at
    positions,  \* the ill-formed positions found so far, in order
    repaired,   \* the repaired bytes, indexed from 0
    repairedSize

vars == <<input, pc, index, positions, repaired, repairedSize>>

REPLACEMENT == 65533   \* U+FFFD

Init ==
    /\ InputInit
    /\ pc = "scan"
    /\ index = 0
    /\ positions = <<>>
    /\ repaired = <<>> /\ repairedSize = 0

-----------------------------------------------------------------------------
(* malformed_positions                                                     *)

Scanning == pc = "scan" /\ index < Units

\* A high surrogate claims the low one right after it.
ClaimsNext == index + 1 < Units /\ IsLowSurrogate(UnitAt(index + 1))

Advance(n) ==
    /\ index' = index + n
    /\ UNCHANGED <<input, pc, repaired, repairedSize>>

\* How many units a well-formed pair advances by.
PairLengthMutant == 1
PairStuckMutant == 0
PairLength == 2

Pair ==
    /\ Scanning
    /\ IsHighSurrogate(UnitAt(index)) /\ ClaimsNext
    /\ Advance(PairLength)
    /\ UNCHANGED positions

LoneHigh ==
    /\ Scanning
    /\ IsHighSurrogate(UnitAt(index)) /\ ~ClaimsNext
    /\ positions' = Append(positions, index)
    /\ Advance(1)

LoneLow ==
    /\ Scanning
    /\ IsLowSurrogate(UnitAt(index))
    /\ positions' = Append(positions, index)
    /\ Advance(1)

Ordinary ==
    /\ Scanning
    /\ ~IsHighSurrogate(UnitAt(index)) /\ ~IsLowSurrogate(UnitAt(index))
    /\ Advance(1)
    /\ UNCHANGED positions

ScanEnds ==
    /\ pc = "scan" /\ index >= Units
    /\ pc' = "repair"
    /\ UNCHANGED <<input, index, positions, repaired, repairedSize>>

-----------------------------------------------------------------------------
(* repair_units, the odd-byte policy of analyze, encode_code_units         *)

Marked == {positions[i] : i \in 1..Len(positions)}

\* The code units of the repaired text: U+FFFD at the marked positions and,
\* after an odd trailing byte, which is dropped, one more U+FFFD.
RepairedUnits == Units + OddTrailingByte
RepairedUnit(k) == IF k \in Marked \/ k = Units THEN REPLACEMENT ELSE UnitAt(k)

\* The two bytes of a code unit, in the byte order of the input.
EncodedByte(unit, offset) == IF offset = HB THEN unit \div 256 ELSE unit % 256

Repair ==
    /\ pc = "repair"
    /\ repaired' = [i \in 0..(2 * RepairedUnits) - 1 |->
                      EncodedByte(RepairedUnit(i \div 2), i % 2)]
    /\ repairedSize' = 2 * RepairedUnits
    /\ pc' = "done"
    /\ UNCHANGED <<input, index, positions>>

\* The diagnosis has been returned; nothing is left to do.
Terminated == pc = "done" /\ UNCHANGED vars

\* analyze, step by step.
Step == Pair \/ LoneHigh \/ LoneLow \/ Ordinary \/ ScanEnds \/ Repair

Next == Step \/ Terminated

Spec == Init /\ [][Next]_vars

-----------------------------------------------------------------------------
TypeOK ==
    /\ InputTypeOK
    /\ pc \in {"scan", "repair", "done"}
    /\ index \in 0..Units
    /\ positions \in Seq(0..Units-1)
    /\ repairedSize \in Nat

\* Before each unit the decoder has recorded exactly the ill-formed units
\* already passed, and it never stands inside a well-formed pair.
ScanExact ==
    /\ Marked = {k \in IllFormed : k < index}
    /\ ~(index - 1 \in Highs /\ index \in Lows)

\* The decoder finds exactly the units the local rule calls ill-formed, and
\* reports them in ascending order without repetition.
PositionsExact ==
    pc # "scan" =>
        /\ Marked = IllFormed
        /\ Len(positions) = Cardinality(IllFormed)
        /\ \A i, j \in 1..Len(positions) : i < j => positions[i] < positions[j]

\* The repaired bytes, read back as an input in the same byte order.
R == INSTANCE UTF16Input WITH data <- repaired, size <- repairedSize

\* Repaired text is well-formed, holds every well-formed unit of the input at
\* its place, and a replacement elsewhere: repairing it again changes nothing.
RepairSound ==
    pc = "done" =>
        /\ R!ErrorCount = 0
        /\ R!Units = Units + OddTrailingByte
        /\ \A k \in 0..Units-1 :
              R!UnitAt(k) = IF k \in IllFormed THEN REPLACEMENT ELSE UnitAt(k)
        /\ OddTrailingByte = 1 => R!UnitAt(Units) = REPLACEMENT

\* The invariant of the decoder: what holds before each unit and what is
\* reported in the end.
DecoderInv == TypeOK /\ ScanExact /\ PositionsExact
=============================================================================
