----------------------------- MODULE Reproduce ------------------------------
(***************************************************************************)
(* scripts/reproduce_research.sh: it checks the environment, runs the test *)
(* suites and the benchmark, and puts the evidence they produce in one     *)
(* directory.  Everything is written to a staging directory beside it and  *)
(* moved into place at the end, only if every stage has succeeded.         *)
(*                                                                         *)
(* An action is one command on the two directories, which every run of the *)
(* script shares, or one stage; a directory is emptied file by file.  The  *)
(* runs may be interrupted, in which case the shell's EXIT trap still runs *)
(* if it is set, or killed, in which case it does not; a move may fail.    *)
(***************************************************************************)
EXTENDS Integers, FiniteSets

CONSTANTS
    Runs,        \* the runs of the script
    MaxActive,   \* how many of them may be under way at once
    Faults       \* what may happen to them: "kill", "interrupt", "move"

ASSUME MaxActiveAssumption == MaxActive \in Nat \ {0}
ASSUME FaultsAssumption == Faults \subseteq {"kill", "interrupt", "move"}

Earlier == "earlier"    \* the writer of evidence that was there before
Absent == "absent"
ASSUME WritersAssumption == {Earlier, Absent} \cap Runs = {}

\* The files of the evidence: those of the benchmark and those of the report,
\* one of each.
Names == {"benchmark", "report"}
Empty == [n \in Names |-> Absent]

VARIABLES
    evidence,       \* who wrote each file of the evidence directory
    staging,        \* who wrote each file of the staging directory
    stagingExists,
    pc,             \* the command each run is about to execute
    force, skip,    \* each run's options --force and --skip-benchmarks
    failed,         \* STAGE_FAILED, or the report's exit status, is set
    todo,           \* the files still to be removed or to be moved
    status,         \* the exit status; -1 while running
    stoppedAt       \* where a run failed or was stopped first

vars == <<evidence, staging, stagingExists, pc, force, skip, failed, todo, status, stoppedAt>>
options == <<force, skip>>
directories == <<evidence, staging, stagingExists>>
outcome == <<failed, todo, status, stoppedAt>>

Active == {r \in Runs : pc[r] \notin {"start", "done", "stopped", "killed"}}
Promoting == {r \in Runs : pc[r] \in {"prepare", "remove", "move"}}

\* The files in a directory.
Held(dir) == {n \in Names : dir[n] # Absent}

-----------------------------------------------------------------------------
Init ==
    /\ evidence \in {Empty, [n \in Names |-> Earlier]}
    /\ staging = Empty /\ stagingExists = FALSE
    /\ pc = [r \in Runs |-> "start"]
    /\ force = [r \in Runs |-> FALSE] /\ skip = [r \in Runs |-> FALSE]
    /\ failed = [r \in Runs |-> FALSE]
    /\ todo = [r \in Runs |-> {}]
    /\ status = [r \in Runs |-> -1]
    /\ stoppedAt = [r \in Runs |-> "nowhere"]

GoTo(r, next) == pc' = [pc EXCEPT ![r] = next]

\* How far a run has come that is stopped now.
Where(r) == IF pc[r] \in {"remove", "move", "trap"} THEN pc[r] ELSE "before"
StopsHere(r) ==
    stoppedAt' = [stoppedAt EXCEPT ![r] = IF @ = "nowhere" THEN Where(r) ELSE @]

\* The run ends with a status: through the EXIT trap once that is set.
Leave(r, code, next) ==
    /\ GoTo(r, next)
    /\ status' = [status EXCEPT ![r] = code]
    /\ IF code = 0 THEN UNCHANGED stoppedAt ELSE StopsHere(r)

\* die: the status of a run that stops itself.
DieStatus == 1

\* The command line is read, and the environment checked; then evidence that
\* is there already stops a run that was not told to replace it.
RefusesMutant(r) == FALSE
Refuses(r) == evidence # Empty /\ ~force[r]

CheckEnvironment(r) ==
    /\ pc[r] = "start"
    /\ Cardinality(Active) < MaxActive
    /\ \/ /\ \E f, s \in BOOLEAN :
                /\ force' = [force EXCEPT ![r] = f]
                /\ skip' = [skip EXCEPT ![r] = s]
          /\ GoTo(r, "check") /\ UNCHANGED outcome
       \/ Leave(r, DieStatus, "done") /\ UNCHANGED <<options, failed, todo>>
    /\ UNCHANGED directories

CheckEvidence(r) ==
    /\ pc[r] = "check"
    /\ IF Refuses(r) THEN Leave(r, DieStatus, "done") /\ UNCHANGED <<failed, todo>>
                     ELSE GoTo(r, "clear") /\ UNCHANGED outcome
    /\ UNCHANGED <<directories, options>>

\* rm -rf "$STAGING", with whatever stopped runs have left in it.
LeftoversMutant == {}
Leftovers == Held(staging)

ClearStaging(r) ==
    /\ pc[r] = "clear"
    /\ \/ /\ \E n \in Leftovers : staging' = [staging EXCEPT ![n] = Absent]
          /\ UNCHANGED <<stagingExists, pc>>
       \/ /\ Leftovers = {}
          /\ stagingExists' = FALSE
          /\ GoTo(r, "make") /\ UNCHANGED staging
    /\ UNCHANGED <<evidence, options, outcome>>

\* mkdir -p "$STAGING" || die
MakeStaging(r) ==
    /\ pc[r] = "make"
    /\ \/ stagingExists' = TRUE /\ GoTo(r, "settrap") /\ UNCHANGED outcome
       \/ Leave(r, DieStatus, "done") /\ UNCHANGED <<stagingExists, failed, todo>>
    /\ UNCHANGED <<evidence, staging, options>>

\* trap cleanup_staging EXIT
SetTrap(r) ==
    /\ pc[r] = "settrap"
    /\ GoTo(r, "tests")
    /\ UNCHANGED <<directories, options, outcome>>

\* Stages 2 and 3: the datasets and the test suites; a failure stops the run.
RunTests(r) ==
    /\ pc[r] = "tests"
    /\ \/ GoTo(r, "benchmark") /\ UNCHANGED outcome
       \/ Leave(r, DieStatus, "trap") /\ UNCHANGED <<failed, todo>>
    /\ UNCHANGED <<directories, options>>

\* A stage writes all of its files, or fails with any of them written; with no
\* staging directory there is nowhere to write them.
Produces(r, names) ==
    \E written \in SUBSET names :
        /\ written # {} => stagingExists
        /\ staging' = [n \in Names |-> IF n \in written THEN r ELSE staging[n]]
        /\ \/ written = names /\ UNCHANGED failed
           \/ failed' = [failed EXCEPT ![r] = TRUE]

\* Stage 4: the benchmark writes its files.  A failure is remembered and the
\* run goes on.
RunBenchmark(r) ==
    /\ pc[r] = "benchmark"
    /\ GoTo(r, "report")
    /\ IF skip[r] THEN UNCHANGED <<staging, failed>> ELSE Produces(r, {"benchmark"})
    /\ UNCHANGED <<evidence, stagingExists, options, todo, status, stoppedAt>>

\* Stage 5: the report is written, of a failed run too.  Its exit status says
\* whether the run as a whole has passed.
WriteReport(r) ==
    /\ pc[r] = "report"
    /\ GoTo(r, "decide")
    /\ Produces(r, {"report"})
    /\ UNCHANGED <<evidence, stagingExists, options, todo, status, stoppedAt>>

MayPromote(r) == ~failed[r]

Decide(r) ==
    /\ pc[r] = "decide"
    /\ IF MayPromote(r) THEN GoTo(r, "prepare") /\ UNCHANGED outcome
                        ELSE Leave(r, 1, "trap") /\ UNCHANGED <<failed, todo>>
    /\ UNCHANGED <<directories, options>>

\* mkdir -p "$OUTPUT_DIR" || die; what is there is to be removed.
OldEvidenceMutant == {}
OldEvidence == Held(evidence)

PrepareEvidence(r) ==
    /\ pc[r] = "prepare"
    /\ \/ /\ todo' = [todo EXCEPT ![r] = OldEvidence]
          /\ GoTo(r, "remove") /\ UNCHANGED <<failed, status, stoppedAt>>
       \/ Leave(r, DieStatus, "trap") /\ UNCHANGED <<failed, todo>>
    /\ UNCHANGED <<directories, options>>

\* rm -f "$OUTPUT_DIR"/*.json ...
RemoveOne(r) ==
    /\ pc[r] = "remove"
    /\ \E n \in todo[r] :
          /\ evidence' = [evidence EXCEPT ![n] = Absent]
          /\ todo' = [todo EXCEPT ![r] = @ \ {n}]
    /\ UNCHANGED <<staging, stagingExists, pc, options, failed, status, stoppedAt>>

\* for staged in "$STAGING"/*
ListStaged(r) ==
    /\ pc[r] = "remove" /\ todo[r] = {}
    /\ todo' = [todo EXCEPT ![r] = Held(staging)]
    /\ GoTo(r, "move")
    /\ UNCHANGED <<directories, options, failed, status, stoppedAt>>

\* [ -e "$staged" ] || continue; mv "$staged" "$OUTPUT_DIR/" || die
MoveOne(r) ==
    /\ pc[r] = "move"
    /\ \E n \in todo[r] :
          /\ todo' = [todo EXCEPT ![r] = @ \ {n}]
          /\ IF staging[n] = Absent
             THEN UNCHANGED <<evidence, staging>>
             ELSE /\ evidence' = [evidence EXCEPT ![n] = staging[n]]
                  /\ staging' = [staging EXCEPT ![n] = Absent]
    /\ UNCHANGED <<stagingExists, pc, options, failed, status, stoppedAt>>

MoveFails(r) ==
    /\ pc[r] = "move" /\ todo[r] # {} /\ "move" \in Faults
    /\ Leave(r, DieStatus, "trap")
    /\ UNCHANGED <<directories, options, failed, todo>>

Passed(r) ==
    /\ pc[r] = "move" /\ todo[r] = {}
    /\ Leave(r, 0, "trap")
    /\ UNCHANGED <<directories, options, failed, todo>>

\* cleanup_staging() { rm -rf "$STAGING"; }
Trap(r) ==
    /\ pc[r] = "trap"
    /\ \/ /\ \E n \in Held(staging) : staging' = [staging EXCEPT ![n] = Absent]
          /\ UNCHANGED <<stagingExists, pc>>
       \/ /\ staging = Empty
          /\ stagingExists' = FALSE
          /\ GoTo(r, "done") /\ UNCHANGED staging
    /\ UNCHANGED <<evidence, options, outcome>>

\* SIGINT or SIGTERM.  The trap is run once it is set, and not a second time;
\* a run that has made its staging directory and ends without it is stopped.
Interrupt(r) ==
    /\ "interrupt" \in Faults /\ r \in Active
    /\ \/ pc[r] \in {"check", "clear", "make"} /\ Leave(r, 1, "done")
       \/ pc[r] \in {"settrap", "trap"} /\ Leave(r, 1, "stopped")
       \/ /\ pc[r] \notin {"check", "clear", "make", "settrap", "trap"}
          /\ Leave(r, 1, "trap")
    /\ UNCHANGED <<directories, options, failed, todo>>

\* SIGKILL, or the machine stops.
Kill(r) ==
    /\ "kill" \in Faults /\ r \in Active
    /\ GoTo(r, "killed")
    /\ StopsHere(r)
    /\ UNCHANGED <<directories, options, failed, todo, status>>

Step(r) ==
    \/ CheckEnvironment(r) \/ CheckEvidence(r) \/ ClearStaging(r) \/ MakeStaging(r)
    \/ SetTrap(r) \/ RunTests(r) \/ RunBenchmark(r) \/ WriteReport(r) \/ Decide(r)
    \/ PrepareEvidence(r) \/ RemoveOne(r) \/ ListStaged(r) \/ MoveOne(r) \/ MoveFails(r)
    \/ Passed(r) \/ Trap(r)

\* Every run has ended.
AllEnded == (\A r \in Runs : pc[r] \in {"done", "stopped", "killed"}) /\ UNCHANGED vars

Next == (\E r \in Runs : Step(r) \/ Interrupt(r) \/ Kill(r)) \/ AllEnded

Spec == Init /\ [][Next]_vars

-----------------------------------------------------------------------------
Commands == {"start", "check", "clear", "make", "settrap", "tests", "benchmark",
             "report", "decide", "prepare", "remove", "move", "trap", "done",
             "stopped", "killed"}

TypeOK ==
    /\ evidence \in [Names -> Runs \cup {Earlier, Absent}]
    /\ staging \in [Names -> Runs \cup {Absent}]
    /\ stagingExists \in BOOLEAN
    /\ pc \in [Runs -> Commands]
    /\ failed \in [Runs -> BOOLEAN]
    /\ todo \in [Runs -> SUBSET Names]
    /\ status \in [Runs -> {-1, 0, 1}]

\* The evidence that a writer leaves when it has finished.
EvidenceOf(w) ==
    [n \in Names |->
        IF n = "benchmark" /\ w \in Runs /\ (w \in Runs => skip[w]) THEN Absent ELSE w]

\* A run has been stopped while it was putting its evidence in place.
Torn == \E r \in Runs : stoppedAt[r] \in {"remove", "move"}

\* Unless a run was stopped while promoting, the evidence directory holds the
\* whole evidence of one run, or of the one before, whenever none is promoting.
EvidenceWhole ==
    Promoting = {} /\ ~Torn =>
        evidence \in {Empty} \cup {EvidenceOf(w) : w \in Runs \cup {Earlier}}

\* Whatever is interrupted or killed, and whenever: a file of the evidence
\* comes from a run that passed every stage.
EvidenceFromPassingRun ==
    \A n \in Names : \A r \in Runs :
        evidence[n] = r => ~failed[r] /\ stoppedAt[r] \in {"nowhere", "move", "trap"}

\* No run leaves its staging directory behind, whether it passes, fails, or is
\* interrupted, unless it was killed, or interrupted between making the
\* directory and setting the trap, or again while the trap was removing it.
StagingRemoved ==
    Active = {} /\ (\A r \in Runs : pc[r] \notin {"stopped", "killed"}) =>
        ~stagingExists /\ staging = Empty

\* The invariant of the two directories.
EvidenceInv == TypeOK /\ EvidenceWhole /\ EvidenceFromPassingRun /\ StagingRemoved

\* A run that says it passed has left all of its evidence and nothing else.
SuccessMeansEvidence ==
    \A r \in Runs : status[r] = 0 /\ pc[r] = "trap" => evidence = EvidenceOf(r)

\* Existing evidence is not removed or replaced without --force.
KeptWithoutForce ==
    [][\A n \in Names :
          evidence[n] \in {Earlier} \cup {r \in Runs : r \notin Active}
              /\ evidence'[n] # evidence[n]
              => \E r \in Promoting : force[r]]_vars
=============================================================================
