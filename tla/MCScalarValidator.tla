------------------------- MODULE MCScalarValidator -------------------------
(* Model checking of the scalar kernel on small inputs.                    *)
EXTENDS ScalarValidator, MCInput

MCInit == SmallInput /\ KernelInit
MCSpec == MCInit /\ [][Next]_vars /\ WF_vars(Next)
=============================================================================
