---------------------------- MODULE UTF16Input ----------------------------
(***************************************************************************)
(* The input every component of the validator reads: `size' bytes, in one  *)
(* of the two UTF-16 byte orders, and what it means for a code unit of it  *)
(* to be ill-formed.                                                       *)
(*                                                                         *)
(* The kernels parameterise byte order by one number, HB, the offset of    *)
(* the high byte inside a two-byte code unit: 0 for UTF-16BE and 1 for     *)
(* UTF-16LE.  The modules of the kernels, of the consumers and of the      *)
(* oracle all extend this one.                                             *)
(***************************************************************************)
EXTENDS Integers, FiniteSets

CONSTANTS
    Bytes,      \* the byte values inputs are made of
    MaxBytes    \* the length of the longest input considered

ASSUME BytesAssumption == Bytes \subseteq 0..255
ASSUME MaxBytesAssumption == MaxBytes \in Nat

VARIABLES
    size,       \* the number of bytes of the input
    data,       \* the bytes, indexed from 0
    HB          \* the offset of a code unit's high byte: 0 = BE, 1 = LE

input == <<size, data, HB>>

InputTypeOK ==
    /\ size \in 0..MaxBytes
    /\ data \in [0..size-1 -> Bytes]
    /\ HB \in {0, 1}

InputInit ==
    /\ size \in 0..MaxBytes
    /\ data \in [0..size-1 -> Bytes]
    /\ HB \in {0, 1}

(***************************************************************************)
(* Code units.  A trailing odd byte is not a code unit.                    *)
(***************************************************************************)
Units == size \div 2
HighByte(k) == data[2*k + HB]
LowByte(k) == data[2*k + (1 - HB)]
UnitAt(k) == 256 * HighByte(k) + LowByte(k)

IsHighSurrogate(unit) == 55296 <= unit /\ unit <= 56319   \* D800..DBFF
IsLowSurrogate(unit)  == 56320 <= unit /\ unit <= 57343   \* DC00..DFFF

Highs == {k \in 0..Units-1 : IsHighSurrogate(UnitAt(k))}
Lows  == {k \in 0..Units-1 : IsLowSurrogate(UnitAt(k))}

(***************************************************************************)
(* The byte-oriented kernels classify a unit by its high byte alone, and   *)
(* by the top six bits of it only: b & 0xFC.                               *)
(***************************************************************************)
MaskFC(b) == b - (b % 4)
IsHi8(b) == MaskFC(b) = 216    \* 0xD8
IsLo8(b) == MaskFC(b) = 220    \* 0xDC

(***************************************************************************)
(* A low surrogate is ill-formed unless a high one precedes it; a high     *)
(* surrogate is ill-formed unless a low one follows it.  An odd trailing   *)
(* byte is one more error, with no code unit to attach it to.              *)
(***************************************************************************)
IllFormed == {k \in Lows : k-1 \notin Highs} \cup {k \in Highs : k+1 \notin Lows}

OddTrailingByte == size % 2

ErrorCount == Cardinality(IllFormed) + OddTrailingByte

(***************************************************************************)
(* The counting kernels do not count IllFormed itself but the places where *)
(* "a low surrogate is here" and "a high surrogate came just before"       *)
(* disagree.  MismatchBefore(n) is those among the places 0..n-1; place    *)
(* `Units' stands for the end of the input.                                *)
(***************************************************************************)
MismatchAt(k) == ~(k \in Lows <=> k-1 \in Highs)

MismatchBefore(n) == {k \in 0..n-1 : MismatchAt(k)}
=============================================================================
