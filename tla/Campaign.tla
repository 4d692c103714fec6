------------------------------ MODULE Campaign ------------------------------
(***************************************************************************)
(* benchmarks/benchmark_utf16_pipeline.py: one campaign over the datasets  *)
(* of a manifest.  Every dataset first goes through the correctness gate;  *)
(* then every operation is timed on every dataset, in a shuffled order;    *)
(* in the end the result files are written one after the other.            *)
(*                                                                         *)
(* What the tools answer is chosen freely, right or wrong.  A time is not  *)
(* modelled, only that a measured run gave one.                            *)
(***************************************************************************)
EXTENDS Integers, FiniteSets, Sequences, SequencesExt

CONSTANTS
    Datasets,         \* how many datasets were selected
    Operations,       \* the operations asked for (--operations)
    IterationCounts,  \* values of --iterations
    Warmups,          \* value of --warmups
    CodeUnits,        \* code units of a dataset
    MaxPositions      \* bound on the positions a scan prints

Known == {"validate_scalar", "validate_simd", "emit_error_marks", "locate_linear",
          "locate_scan", "repair", "simdutf_validate", "simdutf_repair"}
SIMDUTF_OPERATIONS == {"simdutf_validate", "simdutf_repair"}

ASSUME OperationsAssumption == Operations \subseteq Known /\ Operations # {}
ASSUME CountsAssumption ==
    /\ Datasets \in Nat \ {0} /\ IterationCounts \subseteq Nat
    /\ Warmups \in Nat /\ CodeUnits \in Nat /\ MaxPositions \in Nat

Files == <<"csv", "aggregate", "json", "summary">>

VARIABLES
    pc,          \* the part of main() that is running
    args,        \* overwrite, estimate_only, iterations
    odd,         \* the datasets of odd length
    simdutf,     \* the simdutf helper was built
    file,        \* each result file: absent, old, partial or new
    fileNo,      \* the file being written
    workdir,     \* the temporary directory exists
    cur,         \* the dataset at hand
    check,       \* the check of the gate that comes next
    seen,        \* locals of gate_dataset: oracle, scan and scan_count, or none
    right,       \* for each dataset, the paths that gave the right answer on it
    gates,       \* for each dataset, the operations its gate excluded
    todo,        \* operations still to be timed on this dataset
    op,          \* the operation being timed, or none
    runs,        \* runs of it so far, warm-ups included
    rows,        \* raw_rows, counted by dataset, operation and status
    status       \* what the process returned

gateVars == <<cur, check, seen, right, gates>>
timingVars == <<todo, op, runs, rows>>
fileVars == <<file, fileNo>>
vars == <<pc, args, odd, simdutf, fileVars, workdir, gateVars, timingVars, status>>

-----------------------------------------------------------------------------
\* What gate_dataset asks, in this order.
GateChecks == <<"oracle", "validate_scalar", "validate_simd", "emit_error_marks",
                "locate_linear", "locate_scan", "repair", "revalidate">>

NoRows == [skipped |-> 0, failed |-> 0, ok |-> 0]
NotSeen == [oracle |-> <<>>, scan |-> <<>>, countOK |-> TRUE, done |-> FALSE]

\* Positions are sorted before they are compared; a list may repeat one.
SortedLists ==
    {s \in BoundedSeq(0..CodeUnits+1, MaxPositions) :
        \A i \in 1..Len(s)-1 : s[i] <= s[i + 1]}

\* The oracle lists code units, each once and in ascending order.
OracleLists ==
    {s \in SortedLists :
        \A i, j \in 1..Len(s) : s[i] < CodeUnits /\ (i < j => s[i] < s[j])}

\* The one symptom for which locate_scan is excluded and the run goes on; the
\* linear positions are known to be the oracle's at this point.
ClassifyMutant(oracle, scan, countOK) ==
    LET extras == ToSet(scan) \ ToSet(oracle)
    IN  /\ scan # oracle
        /\ countOK
        /\ ToSet(oracle) \subseteq ToSet(scan)
        /\ extras # {}
Classify(oracle, scan, countOK) ==
    LET extras == ToSet(scan) \ ToSet(oracle)
        in_range == {p \in extras : p < CodeUnits}
    IN  /\ scan # oracle
        /\ countOK
        /\ ToSet(oracle) \subseteq ToSet(scan)
        /\ in_range = {}
        /\ extras # {}

\* simdutf has no notion of an odd trailing byte.
GateSkips(d) == IF simdutf /\ d \in odd THEN {"simdutf_repair"} ELSE {}

\* Without the helper its operations are not timed at all.
Active == IF simdutf THEN Operations ELSE Operations \ SIMDUTF_OPERATIONS

\* What keeps the campaign from starting.
CheckedMutant == {"csv", "json"}
Checked == {"csv", "json", "summary"}
Refuses == \E f \in Checked : file[f] # "absent" /\ ~args.overwrite

-----------------------------------------------------------------------------
Init ==
    /\ pc = "start"
    /\ args \in [overwrite : BOOLEAN, estimate_only : BOOLEAN,
                 iterations : IterationCounts]
    /\ odd \in SUBSET (1..Datasets)
    /\ simdutf = FALSE
    /\ file \in [ToSet(Files) -> {"absent", "old"}]
    /\ fileNo = 1 /\ workdir = FALSE
    /\ cur = 1 /\ check = 1 /\ seen = NotSeen
    /\ right = [d \in 1..Datasets |-> {}]
    /\ gates = [d \in 1..Datasets |-> {}]
    /\ todo = {} /\ op = "none" /\ runs = 0
    /\ rows = [d \in 1..Datasets |-> [o \in Operations |-> NoRows]]
    /\ status = "running"

Leave(s) == pc' = "finished" /\ status' = s

\* finally: the temporary directory goes, however the try block is left.
LeaveTry(s) == Leave(s) /\ workdir' = FALSE

\* The binary and the datasets are looked for, and existing results.
Start ==
    /\ pc = "start"
    /\ \/ ~Refuses /\ pc' = "setup" /\ workdir' = TRUE /\ UNCHANGED status
       \/ Leave("failed") /\ UNCHANGED workdir
    /\ UNCHANGED <<args, odd, simdutf, fileVars, gateVars, timingVars>>

\* The simdutf helper is built if it can be and is not disabled.
BuildSimdutf ==
    /\ pc = "setup"
    /\ simdutf' \in BOOLEAN
    /\ pc' = "gate"
    /\ UNCHANGED <<args, odd, fileVars, workdir, gateVars, timingVars, status>>

Passes(d, path) == right' = [right EXCEPT ![d] = @ \cup {path}]

\* A check other than the scan's: the right answer, or the run is aborted.
GateCheck ==
    /\ pc = "gate" /\ check <= Len(GateChecks) /\ GateChecks[check] # "locate_scan"
    /\ \/ /\ Passes(cur, GateChecks[check])
          /\ check' = check + 1
          /\ UNCHANGED <<pc, workdir, status>>
       \/ /\ LeaveTry("failed")
          /\ UNCHANGED <<check, right>>
    /\ UNCHANGED <<args, odd, simdutf, fileVars, cur, seen, gates, timingVars>>

GateScan ==
    /\ pc = "gate" /\ check <= Len(GateChecks) /\ GateChecks[check] = "locate_scan"
    /\ \E oracle \in OracleLists, scan \in SortedLists, countOK \in BOOLEAN :
          /\ seen' = [oracle |-> oracle, scan |-> scan, countOK |-> countOK, done |-> TRUE]
          /\ \/ /\ scan = oracle
                /\ Passes(cur, "locate_scan")
                /\ check' = check + 1
                /\ UNCHANGED <<pc, workdir, status, gates>>
             \/ /\ scan # oracle
                /\ Classify(oracle, scan, countOK)
                /\ gates' = [gates EXCEPT ![cur] = @ \cup {"locate_scan"}]
                /\ check' = check + 1
                /\ UNCHANGED <<pc, workdir, status, right>>
             \/ /\ scan # oracle
                /\ ~Classify(oracle, scan, countOK)
                /\ LeaveTry("failed")
                /\ UNCHANGED <<check, right, gates>>
    /\ UNCHANGED <<args, odd, simdutf, fileVars, cur, timingVars>>

\* gate_dataset returns; the next dataset, or the measurements, follow.
GateReturn ==
    /\ pc = "gate" /\ check > Len(GateChecks)
    /\ gates' = [gates EXCEPT ![cur] = @ \cup GateSkips(cur)]
    /\ check' = 1
    /\ seen' = NotSeen
    /\ IF cur < Datasets THEN cur' = cur + 1 /\ UNCHANGED pc
                         ELSE cur' = 1 /\ pc' = "overhead"
    /\ UNCHANGED <<args, odd, simdutf, fileVars, workdir, right, timingVars, status>>

\* The fixed overhead is measured; --estimate-only stops after it.
MeasureOverhead ==
    /\ pc = "overhead"
    /\ IF args.estimate_only
       THEN LeaveTry("ok") /\ UNCHANGED todo
       ELSE pc' = "timing" /\ todo' = Active /\ UNCHANGED <<workdir, status>>
    /\ UNCHANGED <<args, odd, simdutf, fileVars, gateVars, op, runs, rows>>

\* What the gate of this dataset leaves to be timed.
ToTimeMutant == todo
ToTime == todo \ gates[cur]

\* Any operation may be next: the order is shuffled for every dataset.
SkipOperation ==
    /\ pc = "timing" /\ op = "none"
    /\ \E o \in todo \cap gates[cur] :
          /\ todo' = todo \ {o}
          /\ rows' = [rows EXCEPT ![cur][o].skipped = @ + 1]
    /\ UNCHANGED <<pc, args, odd, simdutf, fileVars, workdir, gateVars, op, runs, status>>

StartOperation ==
    /\ pc = "timing" /\ op = "none"
    /\ \E o \in ToTime : op' = o /\ todo' = todo \ {o}
    /\ runs' = 0
    /\ UNCHANGED <<pc, args, odd, simdutf, fileVars, workdir, gateVars, rows, status>>

\* What an operation adds to the rows when a run exits with an error or takes
\* too long: one row, whatever was measured before.
FailedRowsMutant(r) ==
    [r EXCEPT !.failed = 1, !.ok = IF runs > Warmups THEN runs - Warmups ELSE 0]
FailedRows(r) == [r EXCEPT !.failed = @ + 1]

TimedRun ==
    /\ pc = "timing" /\ op # "none" /\ runs < Warmups + args.iterations
    /\ \/ runs' = runs + 1 /\ UNCHANGED <<op, rows>>
       \/ /\ rows' = [rows EXCEPT ![cur][op] = FailedRows(@)]
          /\ op' = "none" /\ runs' = 0
    /\ UNCHANGED <<pc, args, odd, simdutf, fileVars, workdir, gateVars, todo, status>>

\* All runs have ended well; without a time that too is a failure.
MeasuredRows(r) ==
    IF args.iterations = 0 THEN [r EXCEPT !.failed = @ + 1]
                           ELSE [r EXCEPT !.ok = @ + args.iterations]

Measured ==
    /\ pc = "timing" /\ op # "none" /\ runs = Warmups + args.iterations
    /\ rows' = [rows EXCEPT ![cur][op] = MeasuredRows(@)]
    /\ op' = "none" /\ runs' = 0
    /\ UNCHANGED <<pc, args, odd, simdutf, fileVars, workdir, gateVars, todo, status>>

NextDataset ==
    /\ pc = "timing" /\ op = "none" /\ todo = {}
    /\ IF cur < Datasets
       THEN cur' = cur + 1 /\ todo' = Active /\ UNCHANGED <<pc, workdir>>
       ELSE pc' = "write" /\ workdir' = FALSE /\ UNCHANGED <<cur, todo>>
    /\ UNCHANGED <<args, odd, simdutf, fileVars, check, seen, right, gates, op, runs,
                   rows, status>>

\* An exception nothing catches before `finally': a document of the tool that
\* is not what was asked for, a timeout in the gate or in the overhead runs,
\* an interruption.
Raise ==
    /\ pc \in {"setup", "gate", "overhead", "timing"}
    /\ LeaveTry("failed")
    /\ UNCHANGED <<args, odd, simdutf, fileVars, gateVars, timingVars>>

\* open(..., "w") empties a file; it is whole when it is closed.
OpenFile ==
    /\ pc = "write" /\ fileNo <= Len(Files) /\ file[Files[fileNo]] # "partial"
    /\ file' = [file EXCEPT ![Files[fileNo]] = "partial"]
    /\ UNCHANGED <<pc, args, odd, simdutf, fileNo, workdir, gateVars, timingVars, status>>

CloseFile ==
    /\ pc = "write" /\ fileNo <= Len(Files) /\ file[Files[fileNo]] = "partial"
    /\ file' = [file EXCEPT ![Files[fileNo]] = "new"]
    /\ fileNo' = fileNo + 1
    /\ UNCHANGED <<pc, args, odd, simdutf, workdir, gateVars, timingVars, status>>

\* A file cannot be opened or written.
WriteFails ==
    /\ pc = "write" /\ fileNo <= Len(Files)
    /\ Leave("failed")
    /\ UNCHANGED <<args, odd, simdutf, fileVars, workdir, gateVars, timingVars>>

Failures == \E d \in 1..Datasets, o \in Operations : rows[d][o].failed > 0

ExitStatus == IF Failures THEN "failed" ELSE "ok"

Finish ==
    /\ pc = "write" /\ fileNo > Len(Files)
    /\ Leave(ExitStatus)
    /\ UNCHANGED <<args, odd, simdutf, fileVars, workdir, gateVars, timingVars>>

\* The process is killed; nothing of its own runs any more.
Kill ==
    /\ pc \notin {"finished", "killed"}
    /\ pc' = "killed"
    /\ UNCHANGED <<args, odd, simdutf, fileVars, workdir, gateVars, timingVars, status>>

Step == \/ Start \/ BuildSimdutf \/ GateCheck \/ GateScan \/ GateReturn
        \/ MeasureOverhead \/ SkipOperation \/ StartOperation \/ TimedRun \/ Measured
        \/ NextDataset \/ Raise \/ OpenFile \/ CloseFile \/ WriteFails \/ Finish

Ended == pc \in {"finished", "killed"} /\ UNCHANGED vars

Next == Step \/ Kill \/ Ended

Spec == Init /\ [][Next]_vars
-----------------------------------------------------------------------------
TypeOK ==
    /\ pc \in {"start", "setup", "gate", "overhead", "timing", "write", "finished", "killed"}
    /\ file \in [ToSet(Files) -> {"absent", "old", "partial", "new"}]
    /\ fileNo \in 1..Len(Files)+1
    /\ cur \in 1..Datasets /\ check \in 1..Len(GateChecks)+1
    /\ right \in [1..Datasets -> SUBSET ToSet(GateChecks)]
    /\ gates \in [1..Datasets -> SUBSET Known]
    /\ todo \subseteq Operations /\ op \in Operations \cup {"none"}
    /\ runs \in 0..Warmups+args.iterations
    /\ \A d \in 1..Datasets, o \in Operations :
          rows[d][o] \in [skipped : 0..1, failed : 0..1, ok : 0..args.iterations]
    /\ status \in {"running", "ok", "failed"}

\* A path that gave the right answer on a dataset; repair must also have
\* produced text that validates clean.
AnsweredRight(d, o) ==
    IF o = "repair" THEN {"repair", "revalidate"} \subseteq right[d] ELSE o \in right[d]

Timed(d, o) == rows[d][o].ok > 0 \/ rows[d][o].failed > 0

\* No timing row exists for a Parabix path that has not produced the right
\* answer on that very dataset, whatever was asked for and in whatever order.
TimedOnlyIfRight ==
    \A d \in 1..Datasets, o \in Operations \ SIMDUTF_OPERATIONS :
        Timed(d, o) \/ (pc = "timing" /\ cur = d /\ op = o) => AnsweredRight(d, o)

\* The scan is excluded, and the campaign goes on, for the documented symptom
\* only: no real position missing, at least one extra, every extra at or past
\* the end of the input, the count right.
ExclusionExact ==
    seen.done /\ pc = "gate" =>
        LET scanned == ToSet(seen.scan)
            real == ToSet(seen.oracle)
            extras == scanned \ real
        IN  \/ /\ "locate_scan" \in gates[cur]
               /\ "locate_scan" \notin right[cur]
               /\ real \subseteq scanned
               /\ extras # {} /\ \A p \in extras : p >= CodeUnits
               /\ seen.countOK
            \/ /\ "locate_scan" \notin gates[cur]
               /\ "locate_scan" \in right[cur]
               /\ scanned = real /\ Len(seen.scan) = Cardinality(real)

\* Every operation has left its rows: one that says it was skipped, one that
\* says it failed, or one for every measured iteration; never a mixture, and
\* never the iterations before a failure.
Complete(d, o) ==
    rows[d][o] \in
        IF o \in gates[d] THEN {[NoRows EXCEPT !.skipped = 1]}
        ELSE {[NoRows EXCEPT !.failed = 1]}
             \cup {[NoRows EXCEPT !.ok = n] : n \in {args.iterations} \ {0}}

\* A result file is touched only when every selected dataset has passed its
\* gate and every active operation has left its rows for it.
WrittenOnlyWhenComplete ==
    (\E f \in ToSet(Files) : file[f] \in {"partial", "new"}) =>
        \A d \in 1..Datasets :
            /\ ToSet(GateChecks) \ {"locate_scan"} \subseteq right[d]
            /\ \A o \in Operations : IF o \in Active THEN Complete(d, o)
                                                     ELSE rows[d][o] = NoRows

\* Results that were there are kept without --overwrite.  The aggregate file
\* is not among those that are looked for.
OldResultsKept ==
    [][~args.overwrite =>
        \A f \in ToSet(Files) \ {"aggregate"} : file[f] = "old" => file'[f] = "old"]_vars

\* The process reports success only if nothing it timed failed and, unless it
\* only estimated, all result files are new; and it reports failure after
\* writing them all only if an operation failed.
ExitTellsFailures ==
    pc = "finished" =>
        /\ status = "ok" =>
              \/ ~Failures /\ \A f \in ToSet(Files) : file[f] = "new"
              \/ args.estimate_only /\ \A f \in ToSet(Files) : file[f] \in {"absent", "old"}
        /\ status = "failed" /\ fileNo > Len(Files) => Failures

\* However the campaign ends, unless it is killed, its temporary directory is
\* gone.
WorkdirRemoved == pc = "finished" => ~workdir

\* The invariant of the results: what is written, what is reported and what
\* is left behind.
ResultsInv == TypeOK /\ WrittenOnlyWhenComplete /\ ExitTellsFailures /\ WorkdirRemoved
=============================================================================
