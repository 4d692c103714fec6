---------------------------- MODULE MCOracleFuzz ----------------------------
(* Model checking of a case of the fuzz suite with each consumer.          *)
EXTENDS OracleFuzz, MCInput

MCInit ==
    /\ SmallInput /\ KernelInit /\ ConsumerInit /\ DiagnosisInit
    /\ \E stale \in BOOLEAN : marks = [k \in 0..MarkSlots-1 |-> stale]
MCSpec == MCInit /\ [][FuzzNext]_fuzzVars /\ FuzzFairness
=============================================================================
