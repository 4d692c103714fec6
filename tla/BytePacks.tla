----------------------------- MODULE BytePacks -----------------------------
(***************************************************************************)
(* What the two SIMD kernels of the validator share: a stream of bytes     *)
(* read one pack at a time, each byte compared with the top six bits of a  *)
(* surrogate's high byte, and the one-bit carry from a pack to the next.   *)
(* A SIMD register of bytes is the set of its lanes that hold 0xFF.        *)
(*                                                                         *)
(* processed and pendingHigh outlive a call of the kernel; the kernels'    *)
(* modules say how they change.                                            *)
(***************************************************************************)
EXTENDS UTF16Input

CONSTANT UnitsPerPack   \* code units in one SIMD pack (8 on a 128-bit target)

ASSUME PackAssumption == UnitsPerPack \in Nat \ {0}

VARIABLES
    processed,    \* bytes consumed by earlier segments (kept by the pipeline)
    pendingHigh   \* scalar kept across segments: the last unit was a high

BytesPerPack == 2 * UnitsPerPack
Lanes == 0..BytesPerPack-1
HighBytePos == BytesPerPack - 2 + HB      \* last high-byte lane of a pack

\* The byte at offset off of this segment.
RawByte(off) == data[processed + off]

\* The lanes of pack q whose byte looks like a surrogate's high byte.  Low
\* bytes are classified too; PackMismatch ignores those lanes.
HiLanes(q) == {pos \in Lanes : IsHi8(RawByte(q * BytesPerPack + pos))}
LoLanes(q) == {pos \in Lanes : IsLo8(RawByte(q * BytesPerPack + pos))}

\* mvmd_dslli(8, vec, prev, 2): every lane moves up by two, and the top two
\* lanes of the previous pack's vector come in at the bottom.
ShiftInPreviousMutant(vec, prev) == {pos \in Lanes : pos >= 2 /\ pos - 2 \in vec}
ShiftInPrevious(vec, prev) ==
    {pos \in Lanes : IF pos >= 2 THEN pos - 2 \in vec
                                 ELSE BytesPerPack - 2 + pos \in prev}

\* The scalar carry of the segment before, injected where a pack's last high
\* byte leaves its mark.
CarryInit == IF pendingHigh THEN {HighBytePos} ELSE {}
=============================================================================
