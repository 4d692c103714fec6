--------------------------- MODULE MCMarkPipeline ---------------------------
(* Model checking of the marks pipeline with each of its consumers.        *)
EXTENDS MarkPipeline, MCInput

MCInit ==
    /\ SmallInput /\ KernelInit /\ ConsumerInit
    /\ \E stale \in BOOLEAN : marks = [k \in 0..MarkSlots-1 |-> stale]
MCSpec ==
    /\ MCInit /\ [][PipelineNext]_pipelineVars
    /\ WF_pipelineVars(Produce) /\ WF_pipelineVars(Consume)
=============================================================================
