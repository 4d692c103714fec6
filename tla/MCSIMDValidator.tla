-------------------------- MODULE MCSIMDValidator --------------------------
(* Model checking of the SIMD counting kernel on small inputs.             *)
EXTENDS SIMDValidator, MCInput

MCInit == SmallInput /\ KernelInit
MCSpec == MCInit /\ [][Next]_vars /\ WF_vars(Next)
=============================================================================
