------------------------------ MODULE MCInput ------------------------------
(***************************************************************************)
(* The small inputs the model checker starts from.  Byte by byte, the set  *)
(* [0..size-1 -> Bytes] is large for what it tells apart: the kernels look *)
(* at the high byte of a unit, and at its low byte only by mistake.  So    *)
(* high-byte positions take every value of Bytes, and the low-byte ones    *)
(* share a value of LowBytes, which holds values that would be surrogates  *)
(* were they read in a high byte's place.                                  *)
(***************************************************************************)
EXTENDS UTF16Input

CONSTANT LowBytes
ASSUME LowBytesAssumption == LowBytes \subseteq Bytes

SmallInput ==
    /\ HB \in {0, 1}
    /\ size \in 0..MaxBytes
    /\ \E high \in [0..((size + 1) \div 2) - 1 -> Bytes], low \in LowBytes :
          data = [i \in 0..size-1 |-> IF i % 2 = HB THEN high[i \div 2] ELSE low]
=============================================================================
