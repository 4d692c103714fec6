------------------------- MODULE MCResearchWorkflow -------------------------
(* Model checking of the workflow: runs of the script are interchangeable. *)
EXTENDS ResearchWorkflow, TLC

RunSymmetry == Permutations(Runs)
=============================================================================
