----------------------------- MODULE HostDriver -----------------------------
(***************************************************************************)
(* main() and utf16validate() of tools/utf16validate, the code around the  *)
(* pipeline (patches/utf16-simd-milestone.patch): for each input file it   *)
(* runs the pipeline, redirecting the standard output of the process into  *)
(* a temporary file when the pipeline's output must be rewritten (repair   *)
(* of an odd-length input) or turned into the fields of a JSON document.   *)
(*                                                                         *)
(* An action is one system call with the code up to the next one, and any  *)
(* of them may fail.  What a run writes is a sequence of pieces: the code  *)
(* units of a repaired file, the incomplete byte after them, the U+FFFD    *)
(* that replaces it, printed positions, a human-readable line, or a JSON   *)
(* document.                                                               *)
(***************************************************************************)
EXTENDS Integers, Sequences, FiniteSets, SequencesExt

CONSTANT MaxFiles   \* the most input files on a command line

ASSUME MaxFilesAssumption == MaxFiles \in Nat

Options == [json : BOOLEAN, repair : BOOLEAN, emit : BOOLEAN,
            scan : BOOLEAN, print : BOOLEAN, simd : BOOLEAN]

\* An input: whether it holds complete code units and whether its length is odd.
InputFile == [units : BOOLEAN, odd : BOOLEAN]

SysCalls == {"open", "fstat", "read", "tmpfile", "dup", "redirect", "restore",
             "readback", "short readback"}

VARIABLES
    opt,       \* the command line's options
    files,     \* and its input files
    pc,        \* the system call about to be made
    i,         \* the input file being processed
    statOK,    \* fstat has given the size
    fds,       \* descriptors open beside the standard ones
    fd1,       \* where descriptor 1 leads: "stdout", the temporary file
               \* "tmp", or one already closed elsewhere, "lost"
    saved,     \* where the saved copy of descriptor 1 leads
    inputRead, \* JSON repair has read the input for its replacement count
    stdout,    \* what has reached the standard output of the process
    tmp,       \* what the temporary file holds
    captured,  \* what was read back from it
    doc,       \* the JSON document emitted
    exit,      \* the exit status; -1 while running
    failed     \* the system calls that have failed or fallen short so far

vars == <<opt, files, pc, i, statOK, inputRead, fds, fd1, saved, stdout, tmp,
          captured, doc, exit, failed>>
environment == <<opt, files>>

File == files[i]

-----------------------------------------------------------------------------
(* What runs, and what it is called.                                       *)

\* utf16validatePipelineGen: the pipeline that the options select.
Pipeline ==
    IF opt.emit \/ opt.repair
    THEN CASE opt.repair -> "repair"
           [] ~opt.repair /\ opt.scan -> "locate_scan"
           [] ~opt.repair /\ ~opt.scan /\ opt.print -> "locate_linear"
           [] OTHER -> "emit_error_marks"
    ELSE IF opt.simd THEN "validate_simd" ELSE "validate_scalar"

\* operationName: the label of the document, worked out from the same options
\* by code of its own.
OperationNameMutant ==
    CASE opt.repair -> "repair"
      [] ~opt.repair /\ opt.emit /\ opt.print -> "locate_linear"
      [] ~opt.repair /\ opt.emit /\ ~opt.print /\ opt.scan -> "locate_scan"
      [] ~opt.repair /\ opt.emit /\ ~opt.print /\ ~opt.scan -> "emit_error_marks"
      [] OTHER -> IF opt.simd THEN "validate_simd" ELSE "validate_scalar"
OperationName ==
    CASE opt.repair -> "repair"
      [] ~opt.repair /\ opt.emit /\ opt.scan -> "locate_scan"
      [] ~opt.repair /\ opt.emit /\ ~opt.scan /\ opt.print -> "locate_linear"
      [] ~opt.repair /\ opt.emit /\ ~opt.scan /\ ~opt.print -> "emit_error_marks"
      [] OTHER -> IF opt.simd THEN "validate_simd" ELSE "validate_scalar"

Complete(file) == IF file.units THEN <<"units">> ELSE <<>>

\* What the pipeline writes to descriptor 1.
PipelineOutput(file) ==
    CASE Pipeline = "repair" ->
            Complete(file) \o (IF file.odd THEN <<"oddbyte">> ELSE <<>>)
      [] Pipeline \in {"locate_scan", "locate_linear"} -> <<"positions">>
      [] OTHER -> <<>>

-----------------------------------------------------------------------------
(* Descriptors, output, and the way from one file to the next.             *)

\* A write to descriptor 1 goes where the descriptor leads now.
WriteTo(target, pieces) ==
    /\ stdout' = IF target = "stdout" THEN stdout \o pieces ELSE stdout
    /\ tmp' = IF target = "tmp" THEN tmp \o pieces ELSE tmp

Fails(call) == failed' = failed \cup {call}

\* utf16validate returns and main goes on to the next file or ends.  JSON runs
\* have one file, and only they report failure.
Return(ok) ==
    IF i < Len(files)
    THEN i' = i + 1 /\ pc' = "open" /\ UNCHANGED exit
    ELSE pc' = "done" /\ exit' = (IF ok THEN 0 ELSE 1) /\ UNCHANGED i

NoDoc == [status |-> "none"]
ErrorDoc(code) == [status |-> "error", code |-> code]

\* emitJsonError, written to wherever descriptor 1 leads.
EmitError(code, target) ==
    /\ doc' = ErrorDoc(code)
    /\ WriteTo(target, <<"document">>)

Init ==
    /\ opt \in Options
    /\ files \in UNION {[1..n -> InputFile] : n \in 0..MaxFiles}
    /\ pc = "args" /\ i = 1 /\ statOK = FALSE
    /\ fds = {} /\ fd1 = "stdout" /\ saved = "stdout" /\ inputRead = FALSE
    /\ stdout = <<>> /\ tmp = <<>> /\ captured = <<>>
    /\ doc = NoDoc /\ exit = -1 /\ failed = {}

\* main: a JSON run takes exactly one file, any other at least one.
Args ==
    /\ pc = "args"
    /\ IF opt.json /\ Len(files) # 1
       THEN /\ EmitError("json_requires_single_input", fd1)
            /\ pc' = "done" /\ exit' = 1
       ELSE /\ IF files = <<>> THEN pc' = "done" /\ exit' = 1
                               ELSE pc' = "open" /\ UNCHANGED exit
            /\ UNCHANGED <<doc, stdout, tmp>>
    /\ UNCHANGED <<environment, i, statOK, fds, fd1, captured, failed, saved,
                   inputRead>>

Open ==
    /\ pc = "open"
    /\ fds' = fds \cup {"input"}
    /\ pc' = IF opt.json \/ opt.repair THEN "fstat" ELSE "run"
    /\ tmp' = <<>> /\ captured' = <<>>
    /\ UNCHANGED <<environment, i, statOK, fd1, stdout, doc, exit, failed,
                   saved, inputRead>>

\* A file that cannot be opened is skipped, or reported as the run's error.
OpenFails ==
    /\ pc = "open"
    /\ Fails("open")
    /\ IF opt.json THEN EmitError("input_open_failed", fd1)
                   ELSE UNCHANGED <<doc, stdout, tmp>>
    /\ Return(~opt.json)
    /\ UNCHANGED <<environment, statOK, fds, fd1, captured, saved, inputRead>>

\* The output is captured in a JSON run, and in the repair of an input known
\* to be of odd length.
OddRepair == opt.repair /\ statOK /\ File.odd

Fstat ==
    /\ pc = "fstat"
    /\ \E ok \in BOOLEAN :
          /\ statOK' = ok
          /\ IF ok THEN UNCHANGED failed ELSE Fails("fstat")
          /\ pc' = CASE opt.json -> IF opt.repair /\ ok /\ (File.units \/ File.odd)
                                    THEN "read" ELSE "tmpfile"
                     [] ~opt.json -> IF ok /\ File.odd THEN "tmpfile" ELSE "run"
    /\ UNCHANGED <<environment, i, fds, fd1, stdout, tmp, captured, doc, exit,
                   saved, inputRead>>

\* JSON repair reads the input for the replacement count; whatever it gets.
ReadInput ==
    /\ pc = "read"
    /\ \/ inputRead' = TRUE /\ UNCHANGED failed
       \/ inputRead' = FALSE /\ Fails("read")
    /\ pc' = "tmpfile"
    /\ UNCHANGED <<environment, i, statOK, fds, fd1, saved, stdout, tmp,
                   captured, doc, exit>>

Tmpfile ==
    /\ pc = "tmpfile"
    /\ fds' = fds \cup {"tmp"}
    /\ pc' = "dup"
    /\ UNCHANGED <<environment, i, statOK, fd1, stdout, tmp, captured, doc,
                   exit, failed, saved, inputRead>>

\* JSON: a structured error.  Repair: the pipeline runs without the capture.
TmpfileFails ==
    /\ pc = "tmpfile"
    /\ Fails("tmpfile")
    /\ fds' = fds \ {"input"}
    /\ IF opt.json THEN EmitError("capture_setup_failed", fd1)
                   ELSE /\ WriteTo(fd1, PipelineOutput(File) \o <<"fffd">>)
                        /\ UNCHANGED doc
    /\ Return(~opt.json)
    /\ UNCHANGED <<environment, statOK, fd1, captured, saved, inputRead>>

Dup ==
    /\ pc = "dup"
    /\ fds' = fds \cup {"saved"}
    /\ saved' = fd1
    /\ pc' = "redirect"
    /\ UNCHANGED <<environment, i, statOK, inputRead, fd1, stdout, tmp,
                   captured, doc, exit, failed>>

\* JSON gives up; the human-readable repair does not look at the result.
DupFails ==
    /\ pc = "dup"
    /\ Fails("dup")
    /\ IF opt.json
       THEN /\ EmitError("capture_setup_failed", fd1)
            /\ fds' = fds \ {"tmp", "input"}
            /\ Return(FALSE)
       ELSE /\ pc' = "redirect"
            /\ UNCHANGED <<i, fds, stdout, tmp, doc, exit>>
    /\ UNCHANGED <<environment, statOK, fd1, captured, saved, inputRead>>

Redirect ==
    /\ pc = "redirect"
    /\ fd1' = "tmp"
    /\ pc' = "run"
    /\ UNCHANGED <<environment, i, statOK, fds, stdout, tmp, captured, doc,
                   exit, failed, saved, inputRead>>

\* JSON closes everything it has opened; the repair carries on.
ClosedOnFailure == {"saved", "tmp", "input"}
AfterRedirectFailureMutant == "dup"
AfterRedirectFailure == "run"

RedirectFails ==
    /\ pc = "redirect"
    /\ Fails("redirect")
    /\ IF opt.json
       THEN /\ EmitError("capture_setup_failed", fd1)
            /\ fds' = fds \ ClosedOnFailure
            /\ Return(FALSE)
       ELSE /\ pc' = AfterRedirectFailure
            /\ UNCHANGED <<i, fds, stdout, tmp, doc, exit>>
    /\ UNCHANGED <<environment, statOK, inputRead, fd1, saved, captured>>

Capturing == opt.json \/ OddRepair

\* The pipeline runs and the input is closed.  Without a capture the summary
\* line follows: on the standard output, or on stderr when repaired bytes are.
Run ==
    /\ pc = "run"
    /\ fds' = fds \ {"input"}
    /\ IF Capturing
       THEN /\ WriteTo(fd1, PipelineOutput(File))
            /\ pc' = "restore"
            /\ UNCHANGED <<i, exit>>
       ELSE /\ WriteTo(fd1, PipelineOutput(File)
                            \o (IF opt.repair THEN <<>> ELSE <<"line">>))
            /\ Return(TRUE)
    /\ UNCHANGED <<environment, statOK, fd1, captured, doc, failed, saved,
                   inputRead>>

\* dup2(savedStdout, 1), which cannot succeed when dup has failed, and the
\* close that follows it in either case.
RestoredMutant == fd1
Restored == saved

Restore ==
    /\ pc = "restore"
    /\ "saved" \in fds
    /\ fd1' = Restored
    /\ fds' = fds \ {"saved"}
    /\ pc' = "readback"
    /\ UNCHANGED <<environment, i, statOK, inputRead, saved, stdout, tmp,
                   captured, doc, exit, failed>>

\* Closing the temporary file while descriptor 1 leads to it loses what is
\* written there from then on.
AfterClosingTmp == IF fd1 = "tmp" THEN "lost" ELSE fd1

RestoreFails ==
    /\ pc = "restore"
    /\ Fails("restore")
    /\ IF opt.json
       THEN /\ fds' = fds \ {"saved", "tmp"}
            /\ fd1' = AfterClosingTmp
            /\ EmitError("capture_setup_failed", AfterClosingTmp)
            /\ Return(FALSE)
       ELSE /\ fds' = fds \ {"saved"}
            /\ pc' = "readback"
            /\ UNCHANGED <<i, fd1, stdout, tmp, doc, exit>>
    /\ UNCHANGED <<environment, statOK, inputRead, saved, captured>>

\* The temporary file is read back and closed.  The read may return less than
\* the file holds, which neither path notices.
ReadBack ==
    /\ pc = "readback"
    /\ \/ captured' = tmp /\ UNCHANGED failed
       \/ /\ \E n \in 0..Len(tmp)-1 : captured' = SubSeq(tmp, 1, n)
          /\ Fails("short readback")
    /\ fds' = fds \ {"tmp"}
    /\ fd1' = AfterClosingTmp
    /\ pc' = "emit"
    /\ UNCHANGED <<environment, i, statOK, inputRead, saved, stdout, tmp, doc,
                   exit>>

\* When seeking or reading fails outright, an operation whose result is in the
\* captured stream reports an error in a JSON run; the human-readable repair
\* goes on with nothing.
NeedsCapture == opt.repair \/ opt.print \/ opt.scan

ReadBackFails ==
    /\ pc = "readback"
    /\ Fails("readback")
    /\ captured' = <<>>
    /\ fds' = fds \ {"tmp"}
    /\ fd1' = AfterClosingTmp
    /\ IF opt.json /\ NeedsCapture
       THEN EmitError("capture_read_failed", fd1') /\ Return(FALSE)
       ELSE pc' = "emit" /\ UNCHANGED <<i, doc, stdout, tmp, exit>>
    /\ UNCHANGED <<environment, statOK, inputRead, saved>>

\* The policy for an odd trailing byte, applied to the captured bytes: keep
\* those of the file's complete code units at most and append one U+FFFD.
OddPolicyMutant(pieces) == pieces \o <<"fffd">>
OddPolicy(pieces) ==
    LET keep == Len(Complete(File))
    IN  (IF Len(pieces) > keep THEN SubSeq(pieces, 1, keep) ELSE pieces) \o <<"fffd">>

\* The success document: which fields it carries and what they hold.
ReportedText == IF statOK /\ File.odd THEN OddPolicy(captured) ELSE captured
SuccessDoc ==
    [status |-> "ok",
     operation |-> OperationName,
     \* odd only if the size is known: mark_count = error_count - odd
     markCount |-> IF ~opt.emit THEN "absent"
                   ELSE IF statOK \/ ~File.odd THEN "marks" ELSE "marks and odd byte",
     positions |-> IF ~opt.repair /\ (opt.print \/ opt.scan) THEN captured
                                                             ELSE <<"absent">>,
     repaired |-> IF opt.repair THEN ReportedText ELSE <<"absent">>,
     replacements |-> IF opt.repair /\ inputRead THEN "all" ELSE "none",
     outputValid |-> opt.repair /\ "oddbyte" \notin Range(ReportedText)]

Emit ==
    /\ pc = "emit"
    /\ IF opt.json
       THEN /\ doc' = SuccessDoc
            /\ WriteTo(fd1, <<"document">>)
       ELSE /\ WriteTo(fd1, OddPolicy(captured))
            /\ UNCHANGED doc
    /\ Return(TRUE)
    /\ UNCHANGED <<environment, statOK, fds, fd1, captured, failed, saved,
                   inputRead>>

\* The process has exited.
Exited == pc = "done" /\ UNCHANGED vars

Next ==
    \/ Args \/ Open \/ OpenFails \/ Fstat \/ ReadInput
    \/ Tmpfile \/ TmpfileFails \/ Dup \/ DupFails \/ Redirect \/ RedirectFails
    \/ Run \/ Restore \/ RestoreFails \/ ReadBack \/ ReadBackFails \/ Emit
    \/ Exited

Spec == Init /\ [][Next]_vars

FairSpec == Spec /\ WF_vars(Next)

-----------------------------------------------------------------------------
TypeOK ==
    /\ opt \in Options
    /\ files \in UNION {[1..n -> InputFile] : n \in 0..MaxFiles}
    /\ pc \in {"args", "open", "fstat", "read", "tmpfile", "dup", "redirect",
               "run", "restore", "readback", "emit", "done"}
    /\ i = 1 \/ i \in 1..Len(files)
    /\ statOK \in BOOLEAN
    /\ fds \subseteq {"input", "tmp", "saved"}
    /\ fd1 \in {"stdout", "tmp", "lost"} /\ saved \in {"stdout", "tmp", "lost"}
    /\ inputRead \in BOOLEAN
    /\ doc.status \in {"none", "ok", "error"}
    /\ exit \in {-1, 0, 1}
    /\ failed \subseteq SysCalls

\* A JSON run writes nothing to its standard output but one document, in one
\* piece, and has written it when it exits, unless its standard output could
\* not be restored.
OneDocument ==
    opt.json =>
        /\ stdout \in {<<>>, <<"document">>}
        /\ pc = "done" /\ "restore" \notin failed => stdout = <<"document">>

\* The exit status of a JSON run says which document it emitted, and a run
\* that reports failure has not run the pipeline to a usable result.
ExitTellsStatus ==
    opt.json /\ pc = "done" => (exit = 0 <=> doc.status = "ok")

\* Between files and at exit nothing is left open, and descriptor 1 leads to
\* the standard output again, unless saving or restoring it failed.
DescriptorsRestored ==
    pc \in {"open", "done"} =>
        /\ fds = {}
        /\ failed \cap {"dup", "restore"} = {} => fd1 = "stdout"

\* The invariant of the driver: how many documents there are and what they
\* tell, and where descriptors lead when a file is done.
DocumentInv == TypeOK /\ OneDocument /\ ExitTellsStatus /\ DescriptorsRestored

\* A success document labels the pipeline that ran and carries fields only for
\* what that pipeline produced: the whole of its positions, or of its repaired
\* text.  (--print-positions and --scan-error-marks come with --emit-error-marks
\* as their help text requires, fstat gave the size, and no read fell short.)
ProperOptions == (opt.print \/ opt.scan) => opt.emit
HonestDocument ==
    doc.status = "ok" /\ ProperOptions
        /\ failed \cap {"fstat", "read", "short readback"} = {} =>
        /\ doc.operation = Pipeline
        /\ doc.markCount \in {"absent", "marks"}
        /\ doc.positions = (IF Pipeline \in {"locate_scan", "locate_linear"}
                            THEN <<"positions">> ELSE <<"absent">>)
        /\ Pipeline = "repair" =>
              /\ doc.repaired = Complete(File) \o (IF File.odd THEN <<"fffd">> ELSE <<>>)
              /\ doc.outputValid
              /\ File.units \/ File.odd => doc.replacements = "all"

\* What the repair of the files done so far ought to have written.
RepairedText(n) ==
    FlattenSeq([k \in 1..n |-> Complete(files[k])
                                 \o (IF files[k].odd THEN <<"fffd">> ELSE <<>>)])

\* The repair of several files writes the repaired text of each, in order and
\* whole, no incomplete byte, and nothing else, if no system call fails.
RepairWritesText ==
    opt.repair /\ ~opt.json /\ failed = {} =>
        /\ pc = "open" => stdout = RepairedText(i - 1)
        /\ pc = "done" => stdout = RepairedText(Len(files))

\* The program comes to its end, whatever fails.
Exits == <>(pc = "done")

=============================================================================
