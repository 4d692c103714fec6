-------------------------- MODULE ResearchWorkflow --------------------------
(***************************************************************************)
(* Setting up the validator and reproducing the research with it: the two  *)
(* scripts share the binary.  reproduce_research.sh only asks whether      *)
(* there is one; it does not ask what it was built from, and records the   *)
(* commit of this repository, which says what the patch is.                *)
(*                                                                         *)
(* One script runs at a time, and the developer works between runs.        *)
(***************************************************************************)
EXTENDS Reproduce, Setup

VARIABLE used     \* what each run has found: the binary, the patch it records,
                  \* and how the last set-up ended
workflowVars == <<vars, setupVars, used>>

NotUsed == [bin |-> NoBinary, version |-> 0, after |-> "none"]

WorkflowInit == Init /\ SetupInit /\ used = [r \in Runs |-> NotUsed]

\* [ -x "$BIN" ] || die, among the checks of the environment, and
\* GIT_COMMIT="$(git rev-parse HEAD)".
BinaryPresent == bin # NoBinary

StartRun(r) ==
    /\ spc = "idle"
    /\ CheckEnvironment(r)
    /\ IF pc'[r] = "check"
       THEN /\ BinaryPresent
            /\ used' = [used EXCEPT ![r] =
                           [bin |-> bin, version |-> version, after |-> result]]
       ELSE UNCHANGED used
    /\ UNCHANGED setupVars

ContinueRun(r) ==
    /\ r \in Active
    /\ Step(r) \/ Interrupt(r) \/ Kill(r)
    /\ UNCHANGED <<setupVars, used>>

SetUp == Active = {} /\ SetupStep /\ UNCHANGED <<vars, used>>

Develop == Active = {} /\ ChangeStep /\ UNCHANGED <<vars, used>>

AtRest ==
    /\ spc = "idle" /\ Active = {}
    /\ UNCHANGED workflowVars

WorkflowNext ==
    \/ \E r \in Runs : StartRun(r) \/ ContinueRun(r)
    \/ SetUp \/ Develop \/ AtRest

WorkflowSpec == WorkflowInit /\ [][WorkflowNext]_workflowVars
-----------------------------------------------------------------------------
\* Evidence can be traced: no run gets as far as producing any without a
\* binary, and when the set-up before it succeeded and nothing was changed in
\* between, the binary its tests and measurements ran was built at the pinned
\* commit with the very patch that the recorded commit of this repository
\* holds.
EvidenceTraceable ==
    \A r \in Runs : r \in {evidence[n] : n \in Names} =>
        /\ used[r].bin # NoBinary
        /\ used[r].after = "ok" =>
              /\ used[r].bin.head = "pinned"
              /\ used[r].bin.tree.patch = used[r].version
              /\ "inside" \notin used[r].bin.tree.edits
=============================================================================
