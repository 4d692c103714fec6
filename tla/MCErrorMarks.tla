---------------------------- MODULE MCErrorMarks ----------------------------
(***************************************************************************)
(* Model checking of the marks kernel on small inputs.  The slots of the   *)
(* buffer that were never written hold all zeroes or all ones: a stale bit *)
(* matters only where it is read, one slot at a time.                      *)
(***************************************************************************)
EXTENDS ErrorMarks, MCInput

MCInit ==
    /\ SmallInput /\ KernelInit
    /\ \E stale \in BOOLEAN : marks = [k \in 0..MarkSlots-1 |-> stale]
MCSpec == MCInit /\ [][Next]_vars /\ WF_vars(Next)
=============================================================================
