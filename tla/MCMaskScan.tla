----------------------------- MODULE MCMaskScan -----------------------------
(***************************************************************************)
(* Model checking of the bit-stream prototypes on small UTF-16LE inputs.   *)
(* Whether a unit is ill-formed depends on its two neighbours, so the      *)
(* inputs vary freely in a window of a few units, anywhere, and repeat one *)
(* byte outside it: an ordinary one, which leaves masks and whole regions  *)
(* clean, or a low surrogate's, which makes all of them dirty.             *)
(***************************************************************************)
EXTENDS MaskScan

CONSTANTS
    LowByteValue,   \* every low byte; one that would be a surrogate's if high
    Window          \* units of the window

ASSUME LowByteAssumption == LowByteValue \in Bytes
ASSUME WindowAssumption == Window \in Nat
ASSUME AroundAssumption == {65, 220} \subseteq Bytes

WindowedInput ==
    /\ HB = 1
    /\ size \in 0..MaxBytes
    /\ \E first \in 0..Units, around \in {65, 220}, inside \in [0..Window-1 -> Bytes] :
          /\ first + Window <= Units \/ first = 0
          /\ data = [i \in 0..size-1 |->
                LET u == i \div 2
                IN  CASE i % 2 = 0 -> LowByteValue
                      [] i % 2 = 1 /\ first <= u /\ u < first + Window -> inside[u - first]
                      [] OTHER -> around]

MCInit == WindowedInput /\ MaskInit
MCSpec == MCInit /\ [][MaskScanNext]_maskScanVars /\ WF_maskScanVars(MaskScanNext)
=============================================================================
