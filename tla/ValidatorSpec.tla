--------------------------- MODULE ValidatorSpec ---------------------------
(***************************************************************************)
(* What a validator promises, whichever kernel computes it.  Its result is *)
(* one scalar that the pipeline may overwrite after every segment (the     *)
(* last write wins).  The scalar never decreases, never passes the number  *)
(* of errors of the input and, once the validator has finished, is exactly *)
(* that number and stays so.                                               *)
(***************************************************************************)
EXTENDS UTF16Input

VARIABLES
    errorCount,  \* the published result
    finished     \* the final segment has been processed

specVars == <<input, errorCount, finished>>

Init ==
    /\ InputInit
    /\ errorCount = 0
    /\ finished = FALSE

Publish ==
    /\ ~finished
    /\ errorCount' \in errorCount..ErrorCount
    /\ UNCHANGED <<input, finished>>

Finish ==
    /\ ~finished
    /\ errorCount <= ErrorCount
    /\ errorCount' = ErrorCount
    /\ finished' = TRUE
    /\ UNCHANGED input

Next == Publish \/ Finish

SafetySpec == Init /\ [][Next]_specVars

\* A validator that can finish does.
Spec == SafetySpec /\ WF_specVars(Finish)
=============================================================================
