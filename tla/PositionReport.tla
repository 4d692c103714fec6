-------------------------- MODULE PositionReport --------------------------
(***************************************************************************)
(* What a scanner of error marks promises: it reports the position of      *)
(* every ill-formed code unit, one after the other, each once and in       *)
(* ascending order, and then it stops.  How it finds the next position,    *)
(* from bits, from bits of bits or from the units themselves, is for the   *)
(* scanner to say.                                                         *)
(***************************************************************************)
EXTENDS UTF16Input, Sequences, FiniteSetsExt

VARIABLES
    out,        \* the positions reported so far
    reported    \* the scanner has returned

reportVars == <<input, out, reported>>

Unreported == IllFormed \ {out[i] : i \in DOMAIN out}

ReportInit == InputInit /\ out = <<>> /\ reported = FALSE

ReportOne ==
    /\ Unreported # {}
    /\ out' = Append(out, Min(Unreported))
    /\ UNCHANGED <<input, reported>>

Return ==
    /\ Unreported = {} /\ ~reported
    /\ reported' = TRUE
    /\ UNCHANGED <<input, out>>

ReportNext == ReportOne \/ Return

\* What it may never do wrong, and that it goes on until it is done.
ReportSafety == ReportInit /\ [][ReportNext]_reportVars
ReportSpec == ReportSafety /\ WF_reportVars(ReportNext)
=============================================================================
