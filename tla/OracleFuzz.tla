----------------------------- MODULE OracleFuzz -----------------------------
(***************************************************************************)
(* One case of scripts/test_utf16_oracle_fuzz.py: the reference            *)
(* implementation diagnoses the bytes, then the program runs on them with  *)
(* a pipeline of the marks kernel and one consumer, and check_case         *)
(* compares the two.                                                       *)
(*                                                                         *)
(* Of the paths a case runs through, the marks kernel with each consumer   *)
(* is here; the two counting kernels have modules of their own.  One       *)
(* position mismatch is known and tolerated, as narrowly as                *)
(* classify_scan_tail_defect states it.                                    *)
(***************************************************************************)
EXTENDS MarkPipeline

VARIABLES opc, oindex, opositions, orepaired, orepairedSize

diagnosis == <<opc, oindex, opositions, orepaired, orepairedSize>>
fuzzVars == <<pipelineVars, diagnosis>>

O == INSTANCE Oracle WITH
        pc <- opc, index <- oindex, positions <- opositions,
        repaired <- orepaired, repairedSize <- orepairedSize

DiagnosisInit ==
    /\ opc = "scan" /\ oindex = 0 /\ opositions = <<>>
    /\ orepaired = <<>> /\ orepairedSize = 0

FuzzInit == PipelineInit /\ DiagnosisInit

\* analyze runs to its end before the program is started.
Diagnose == O!Step /\ UNCHANGED <<vars, consumerVars>>

Diagnosed == opc = "done"
RunProducer == Diagnosed /\ Produce /\ UNCHANGED diagnosis
RunConsumer == Diagnosed /\ Consume /\ UNCHANGED diagnosis

Ran == Diagnosed /\ pc = "finished" /\ cpc = "finished"

CaseDone == Ran /\ UNCHANGED fuzzVars

FuzzNext == Diagnose \/ RunProducer \/ RunConsumer \/ CaseDone

FuzzFairness ==
    /\ WF_fuzzVars(Diagnose) /\ WF_fuzzVars(RunProducer) /\ WF_fuzzVars(RunConsumer)

FuzzSpec == FuzzInit /\ [][FuzzNext]_fuzzVars /\ FuzzFairness

-----------------------------------------------------------------------------
\* The diagnosis.
OracleCount == Len(opositions) + OddTrailingByte

\* What --repair delivers: main discards an incomplete byte and appends one
\* U+FFFD in its place.
RepairOutput ==
    IF OddTrailingByte = 0 THEN repaired
    ELSE SubSeq(repaired, 1, 2 * Units) \o <<ReplacementByte(0), ReplacementByte(1)>>

\* P1, P3 and, for the linear printer, P2.
CountAgrees == errorCount = OracleCount
RepairAgrees ==
    /\ Len(RepairOutput) = orepairedSize
    /\ \A i \in 0..orepairedSize-1 : RepairOutput[i + 1] = orepaired[i]
PositionsAgree == positions = opositions

\* classify_scan_tail_defect: is a mismatch of the scan the known one?
ScanMissing == Range(opositions) \ Range(positions)
ScanUnexpected == Range(positions) \ Range(opositions)
OnStride == Units > 0 /\ Units % ScanStride = 0
KnownDefect ==
    /\ consumer = "scan" /\ ~PositionsAgree /\ CountAgrees
    /\ OddTrailingByte = 0 /\ OnStride
    /\ ScanMissing = {} /\ ScanUnexpected # {}
    /\ \A p \in ScanUnexpected : p >= Units

\* check_case: the properties the case fails.
Problems ==
    (IF CountAgrees THEN {} ELSE {"P1"})
    \cup (IF consumer = "repair" \/ PositionsAgree \/ KnownDefect THEN {} ELSE {"P2"})
    \cup (IF consumer # "repair" \/ RepairAgrees THEN {} ELSE {"P3"})

-----------------------------------------------------------------------------
\* The reference implementation finds the ill-formed units, and what it
\* repairs is well-formed and otherwise unchanged.
DecoderInv == O!DecoderInv /\ O!RepairSound

\* Marks that no call of the kernel has written, past the end of the input,
\* hold what the buffer held before.
StaleMarks == {k \in produced..MarkSlots-1 : marks[k]} \cup
              (IF UnwrittenSlot THEN {Units} ELSE {})

\* The suite finds the program at one with the reference, in count, positions
\* and repaired bytes, on every input and every segmentation, whenever the
\* buffer of the marks was clear past the end of the input; whatever it held,
\* only positions can differ, and an even input that ends with a scan stride
\* is then told apart as the known defect.
SuiteAgrees ==
    Ran =>
        /\ Problems \subseteq {"P2"}
        /\ Problems # {} => StaleMarks # {}
        /\ Problems # {} /\ consumer = "scan" => OddTrailingByte = 1 \/ ~OnStride
        /\ Problems # {} /\ consumer = "linear" => UnwrittenSlot
=============================================================================
