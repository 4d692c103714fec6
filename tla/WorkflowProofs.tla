--------------------------- MODULE WorkflowProofs ---------------------------
(***************************************************************************)
(* Proofs about the two scripts, for any number of runs of either, of      *)
(* versions of the patch and of changes between them: about the set-up     *)
(* alone; about the workflow as a whole, that is, what can be said of the  *)
(* binary behind any evidence, also when runs of reproduce_research.sh     *)
(* overlap; and what can be said of the evidence directory when they do    *)
(* not.                                                                    *)
(***************************************************************************)
EXTENDS ResearchWorkflow, FiniteSetTheorems, TLAPS

(* The set-up.                                                             *)

\* What the properties rest on besides themselves: at a commit of the remote's
\* branch there is no patch, what is verified was just built, and before there
\* is a clone there is nothing in it.
Unpatched == head \in {"none", "tip"} => tree.patch = 0
JustBuilt == spc = "verify" => bin = [head |-> head, tree |-> tree]
Idle == spc # "idle" => result = "running"
Unmade ==
    /\ ~cloned => head = "none" /\ tree = Clean
    /\ spc \notin {"idle", "clone"} => cloned

IInv == SetupInv /\ Unpatched /\ JustBuilt /\ Idle /\ Unmade

\* A tree is clean if it holds no patch, no edit, and is not torn.
LEMMA CleanTree ==
    ASSUME NEW t \in Trees, t.patch = 0, t.edits = {}, ~t.torn
    PROVE  t = Clean
  BY DEF Trees, Clean, Tree

\* Clean is a tree, and so is what is committed.
LEMMA CleanIsTree == Clean \in Trees
  BY SetupBoundsAssumption DEF Trees, Clean, Tree

\* A clean tree has no patch, no edit and nothing torn.
LEMMA CleanHoldsNothing == Clean.patch = 0 /\ Clean.edits = {} /\ Clean.torn = FALSE
  BY DEF Clean, Tree

\* So "no binary" is a binary's description.
LEMMA NoBinaryIsBinary ==
    NoBinary \in [head : {"none", "tip", "pinned", "own"}, tree : Trees]
  BY CleanIsTree DEF NoBinary

-----------------------------------------------------------------------------
\* The initial state satisfies the invariant.
LEMMA InitIInv == SetupInit => IInv
  <1> SUFFICES ASSUME SetupInit PROVE IInv
    OBVIOUS
  <1> USE SetupBoundsAssumption DEF SetupInit
  <1>1. SetupTypeOK
    <2>1. version \in 1..Versions
      OBVIOUS
    <2> QED
      BY <2>1, CleanIsTree, NoBinaryIsBinary DEF SetupTypeOK
  <1>2. SuccessMeansPinned /\ WritesClean /\ RefusedWithCause
    BY DEF SuccessMeansPinned, WritesClean, RefusedWithCause
  <1>3. Unpatched /\ JustBuilt /\ Idle /\ Unmade
    BY DEF Unpatched, JustBuilt, Idle, Unmade, Clean, Tree
  <1> QED
    BY <1>1, <1>2, <1>3 DEF IInv, SetupInv

\* Every command of the script preserves it.
LEMMA ScriptIInv == IInv /\ SetupStep => IInv'
  <1> SUFFICES ASSUME IInv, SetupStep PROVE IInv'
    OBVIOUS
  <1> USE SetupBoundsAssumption, CleanIsTree
      DEF IInv, SetupInv, Goes, Ends, checkout
  <1>1. CASE BeginSetup
    BY <1>1 DEF BeginSetup, SetupTypeOK, SuccessMeansPinned, WritesClean,
                RefusedWithCause, Unpatched, JustBuilt, Idle, Unmade, Dirty, PatchReverses,
                Committed
  <1>2. CASE CloneOrReuse
    <2>1. SetupTypeOK'
      BY <1>2 DEF CloneOrReuse, SetupTypeOK
    <2>2. Unpatched'
      BY <1>2, CleanHoldsNothing DEF CloneOrReuse, Unpatched
    <2> QED
      BY <1>2, <2>1, <2>2 DEF CloneOrReuse, SuccessMeansPinned, WritesClean,
                RefusedWithCause, JustBuilt, Idle, Unmade
  <1>3. CASE FetchPinned
    BY <1>3 DEF FetchPinned, SetupTypeOK, SuccessMeansPinned, WritesClean,
                RefusedWithCause, Unpatched, JustBuilt, Idle, Unmade, Dirty, PatchReverses,
                Committed
  <1>4. CASE Inspect
    <2>1. CASE PatchReverses /\ head = "pinned"
      BY <1>4, <2>1 DEF Inspect, SetupTypeOK, SuccessMeansPinned, WritesClean,
                RefusedWithCause, Unpatched, JustBuilt, Idle, Unmade, PatchReverses
    <2>2. CASE PatchReverses /\ head # "pinned"
      <3>1. tree.patch # 0
        BY <2>2 DEF PatchReverses, SetupTypeOK
      <3>2. head = "own"
        BY <2>2, <3>1 DEF Unpatched, SetupTypeOK
      <3> QED
        BY <1>4, <2>2, <3>2 DEF Inspect, SetupTypeOK, SuccessMeansPinned,
                WritesClean, RefusedWithCause, Unpatched, JustBuilt, Idle, Unmade
    <2>3. CASE ~PatchReverses /\ Dirty
      <3>1. tree.edits # {} \/ tree.torn \/ tree.patch \notin {0, version}
                \/ head = "own"
        <4>1. CASE tree.patch = version /\ tree.edits = {} /\ ~tree.torn
          BY <2>3, <4>1 DEF PatchReverses
        <4>2. CASE tree.patch = 0 /\ tree.edits = {} /\ ~tree.torn
          <5>1. tree = Clean
            BY <4>2, CleanTree DEF SetupTypeOK
          <5> QED
            BY <2>3, <5>1 DEF Dirty, Committed
        <4> QED
          BY <4>1, <4>2
      <3> QED
        BY <1>4, <2>3, <3>1 DEF Inspect, SetupTypeOK, SuccessMeansPinned,
                WritesClean, RefusedWithCause, Unpatched, JustBuilt, Idle, Unmade
    <2>4. CASE ~PatchReverses /\ ~Dirty
      <3>1. head = "pinned" => tree = Clean
        BY <2>4 DEF Dirty, Committed
      <3> QED
        BY <1>4, <2>4, <3>1 DEF Inspect, SetupTypeOK, SuccessMeansPinned,
                WritesClean, RefusedWithCause, Unpatched, JustBuilt, Idle, Unmade, Dirty,
                Committed
    <2> QED
      BY <2>1, <2>2, <2>3, <2>4
  <1>5. CASE CheckoutPinned
    BY <1>5 DEF CheckoutPinned, SetupTypeOK, SuccessMeansPinned, WritesClean,
                RefusedWithCause, Unpatched, JustBuilt, Idle, Unmade, Dirty, Committed
  <1>6. CASE ApplyPatch
    <2>1. /\ tree = Clean /\ head = "pinned" /\ spc = "apply"
          /\ tree' = Tree(version, {}, FALSE) /\ spc' = "configure"
      BY <1>6 DEF ApplyPatch, WritesClean
    <2>2. tree' \in Trees /\ PatchReverses'
      BY <1>6, <2>1 DEF ApplyPatch, SetupTypeOK, Trees, Tree, PatchReverses
    <2> QED
      BY <1>6, <2>1, <2>2 DEF ApplyPatch, SetupTypeOK, SuccessMeansPinned,
                WritesClean, RefusedWithCause, Unpatched, JustBuilt, Idle, Unmade
  <1>7. CASE Configure
    BY <1>7 DEF Configure, SetupTypeOK, SuccessMeansPinned, WritesClean,
                RefusedWithCause, Unpatched, JustBuilt, Idle, Unmade, PatchReverses
  <1>8. CASE Build
    BY <1>8 DEF Build, BuildResult, AfterFailedBuild, SetupTypeOK,
                SuccessMeansPinned, WritesClean, RefusedWithCause, Unpatched,
                JustBuilt, Idle, Unmade, PatchReverses
  <1>9. CASE VerifyBinary
    BY <1>9 DEF VerifyBinary, SetupTypeOK, SuccessMeansPinned, WritesClean,
                RefusedWithCause, Unpatched, JustBuilt, Idle, Unmade, PatchReverses
  <1>10. CASE StopSetup
    <2>1. Tree(0, {}, TRUE) \in Trees /\ Tree(0, {}, TRUE).patch = 0
      BY DEF Tree, Trees
    <2>2. [tree EXCEPT !.torn = TRUE] \in Trees
          /\ [tree EXCEPT !.torn = TRUE].patch = tree.patch
      BY DEF SetupTypeOK, Trees
    <2>3. /\ spc' = "idle" /\ result' = "killed"
          /\ version' = version /\ own' = own
          /\ cloned' \in BOOLEAN /\ has' \in BOOLEAN
          /\ head' = head \/ head' = "tip"
          /\ \/ tree' = tree /\ head' = head
             \/ tree' = Tree(0, {}, TRUE)
             \/ tree' = [tree EXCEPT !.torn = TRUE] /\ head' = head
          /\ bin' = bin \/ bin' = NoBinary
      BY <1>10 DEF StopSetup, SetupTypeOK
    <2>6. cloned' = TRUE \/ (cloned' = cloned /\ head' = head /\ tree' = tree)
      BY <1>10 DEF StopSetup, SetupTypeOK, Unmade
    <2>4. SetupTypeOK'
      BY <2>1, <2>2, <2>3, NoBinaryIsBinary DEF SetupTypeOK
    <2>5. Unpatched'
      BY <2>1, <2>2, <2>3 DEF Unpatched
    <2> QED
      BY <2>3, <2>4, <2>5, <2>6 DEF SuccessMeansPinned, WritesClean, RefusedWithCause,
                JustBuilt, Idle, Unmade
  <1> QED
    BY <1>1, <1>2, <1>3, <1>4, <1>5, <1>6, <1>7, <1>8, <1>9, <1>10 DEF SetupStep

\* So does everything a developer does.
LEMMA ChangeIInv == IInv /\ ChangeStep => IInv'
  <1> SUFFICES ASSUME IInv, ChangeStep PROVE IInv'
    OBVIOUS
  <1> USE SetupBoundsAssumption, CleanIsTree DEF IInv, SetupInv
  <1>1. spc = "idle" /\ spc' = "idle" /\ result' = "changed"
    BY DEF ChangeStep, Change, EditTree, Commit, Discard, Remove, UpdatePatch,
           BuildByHand
  <1>2. (SuccessMeansPinned /\ WritesClean /\ RefusedWithCause /\ JustBuilt /\ Idle)'
    BY <1>1 DEF SuccessMeansPinned, WritesClean, RefusedWithCause, JustBuilt, Idle, Unmade
  <1>3. SetupTypeOK' /\ Unpatched' /\ Unmade'
    <2>1. CASE EditTree
      <3>1. PICK e \in Edits \ tree.edits : tree' = [tree EXCEPT !.edits = @ \cup {e}]
        BY <2>1 DEF EditTree
      <3>2. tree' \in Trees /\ tree'.patch = tree.patch
        BY <3>1 DEF SetupTypeOK, Trees
      <3> QED
        BY <1>1, <2>1, <3>2 DEF EditTree, SetupTypeOK, Unpatched, Unmade
    <2>2. CASE Commit
      BY <1>1, <2>2 DEF Commit, SetupTypeOK, Unpatched, Unmade
    <2>3. CASE Discard
      BY <1>1, <2>3, CleanHoldsNothing DEF Discard, Committed, SetupTypeOK, Unpatched, Unmade
    <2>4. CASE Remove
      BY <1>1, <2>4, CleanHoldsNothing, NoBinaryIsBinary DEF Remove, SetupTypeOK, Unpatched, Unmade
    <2>5. CASE UpdatePatch
      BY <1>1, <2>5 DEF UpdatePatch, checkout, SetupTypeOK, Unpatched, Unmade
    <2>6. CASE BuildByHand
      BY <1>1, <2>6 DEF BuildByHand, BuildResult, checkout, SetupTypeOK, Unpatched, Unmade
    <2> QED
      BY <2>1, <2>2, <2>3, <2>4, <2>5, <2>6 DEF ChangeStep
  <1> QED
    BY <1>2, <1>3

\* A step that leaves everything as it is.
LEMMA StutterIInv == IInv /\ UNCHANGED setupVars => IInv'
  BY DEF IInv, SetupInv, SetupTypeOK, SuccessMeansPinned, WritesClean,
         RefusedWithCause, Unpatched, JustBuilt, Idle, Unmade, Dirty, Committed,
         PatchReverses, setupVars, checkout

\* Every state of the set-up satisfies its inductive invariant.
LEMMA InvariantHolds == SetupSpec => []IInv
  <1>1. IInv /\ [SetupStep \/ ChangeStep]_setupVars => IInv'
    BY ScriptIInv, ChangeIInv, StutterIInv
  <1> QED
    BY InitIInv, <1>1, PTL DEF SetupSpec

\* Whatever earlier runs, kills and developers have left: a set-up that
\* succeeds leaves the pinned commit, this repository's patch and a binary
\* built from both, writes no tree that is not committed, and refuses only for
\* a cause.
THEOREM SetupIsSound == SetupSpec => []SetupInv
  <1>1. IInv => SetupInv
    BY DEF IInv
  <1> QED
    BY InvariantHolds, <1>1, PTL
-----------------------------------------------------------------------------
\* The script's side of the promise that local work is never destroyed.
Spares ==
    /\ \A e \in tree.edits : e \in tree'.edits \/ (head = "own" /\ e \in own.edits)
    /\ own' = own
    /\ head = "pinned" /\ PatchReverses => UNCHANGED <<head, tree>>

\* Every step of the set-up keeps local work as Spares says.
LEMMA StepSpares == IInv /\ SetupStep => Spares
  <1> SUFFICES ASSUME IInv, SetupStep PROVE Spares
    OBVIOUS
  <1> USE DEF IInv, SetupInv, checkout
  <1>1. CASE BeginSetup \/ FetchPinned \/ Inspect \/ Configure \/ Build \/ VerifyBinary
    BY <1>1 DEF Spares, BeginSetup, FetchPinned, Inspect, Configure, Build, VerifyBinary
  <1>2. CASE CloneOrReuse
    BY <1>2, CleanHoldsNothing DEF Spares, CloneOrReuse, Unmade
  <1>3. CASE spc \in {"checkout", "apply"} /\ (CheckoutPinned \/ ApplyPatch \/ StopSetup)
    <2>1. \A e \in tree.edits : head = "own" /\ e \in own.edits
      BY <1>3, CleanHoldsNothing DEF WritesClean, Dirty, Committed
    <2>2. ~(head = "pinned" /\ PatchReverses)
      BY <1>3, CleanHoldsNothing DEF WritesClean, Dirty, Committed, PatchReverses,
                                     SetupTypeOK
    <2>3. own' = own
      BY <1>3 DEF CheckoutPinned, ApplyPatch, StopSetup
    <2> QED
      BY <2>1, <2>2, <2>3 DEF Spares
  <1>4. CASE StopSetup /\ spc \notin {"checkout", "apply"}
    BY <1>4, CleanHoldsNothing DEF Spares, StopSetup, Unmade
  <1>5. CheckoutPinned \/ ApplyPatch => spc \in {"checkout", "apply"}
    BY DEF CheckoutPinned, ApplyPatch
  <1> QED
    BY <1>1, <1>2, <1>3, <1>4, <1>5 DEF SetupStep

\* No step of the script, whatever came before it and wherever it is stopped,
\* destroys local work: edits stay in the working tree or are in the
\* developer's commit, that commit stays, and so does an applied patch.
THEOREM SetupKeepsWork == SetupSpec => WorkKept
  <1>1. IInv /\ [SetupStep \/ ChangeStep]_setupVars
           => [SetupStep => Spares]_setupVars
    BY StepSpares
  <1> QED
    BY InvariantHolds, <1>1, PTL DEF SetupSpec, WorkKept, Spares

-----------------------------------------------------------------------------
(* The binary behind the evidence.                                         *)

Writers == Runs \cup {Earlier, Absent}

UsedType ==
    [bin : [head : {"none", "tip", "pinned", "own"}, tree : Trees],
     version : 0..Versions,
     after : {"none", "running", "ok", "refused", "failed", "killed", "changed"}]

WriterTypes ==
    /\ evidence \in [Names -> Writers] /\ staging \in [Names -> Writers]
    /\ pc \in [Runs -> Commands]
    /\ used \in [Runs -> UsedType]

\* What a run that may write evidence has found.
Traceable(r) ==
    /\ used[r].bin # NoBinary
    /\ used[r].after = "ok" =>
          /\ used[r].bin.head = "pinned"
          /\ used[r].bin.tree.patch = used[r].version
          /\ "inside" \notin used[r].bin.tree.edits

\* A run that is under way may still write.
MayHaveWritten(r) ==
    r \in Active \/ \E n \in Names : evidence[n] = r \/ staging[n] = r

TraceInv ==
    /\ WriterTypes
    /\ \A r \in Runs : MayHaveWritten(r) => Traceable(r)

-----------------------------------------------------------------------------
\* The workflow begins in the set-up's invariant with its traces in order.
LEMMA WorkflowInitInv == WorkflowInit => IInv /\ TraceInv
  <1> SUFFICES ASSUME WorkflowInit PROVE IInv /\ TraceInv
    OBVIOUS
  <1>1. IInv
    BY InitIInv DEF WorkflowInit
  <1>2. NotUsed \in UsedType
    BY NoBinaryIsBinary, SetupBoundsAssumption DEF NotUsed, UsedType
  <1>3. WriterTypes
    BY <1>2 DEF WorkflowInit, Init, WriterTypes, Writers, Empty, Commands
  <1>4. ASSUME NEW r \in Runs PROVE ~MayHaveWritten(r)
    BY WritersAssumption DEF MayHaveWritten, WorkflowInit, Init, Active, Empty
  <1> QED
    BY <1>1, <1>3, <1>4 DEF TraceInv

\* A run that starts finds a binary, and knows of it what the set-up has left.
LEMMA StartTraces ==
    ASSUME IInv, TraceInv, NEW r \in Runs, StartRun(r)
    PROVE  TraceInv'
  <1> DEFINE found == [bin |-> bin, version |-> version, after |-> result]
  <1>1. CASE pc'[r] = "check"
    <2>1. bin # NoBinary /\ used' = [used EXCEPT ![r] = found]
      BY <1>1 DEF StartRun, BinaryPresent
    <2>2. found \in UsedType
      BY SetupBoundsAssumption DEF IInv, SetupInv, SetupTypeOK, UsedType
    <2>3. result = "ok" => /\ bin.head = "pinned" /\ bin.tree.patch = version
                           /\ "inside" \notin bin.tree.edits
      BY DEF IInv, SetupInv, SuccessMeansPinned, PatchReverses
    <2>4. used'[r] = found /\ \A q \in Runs \ {r} : used'[q] = used[q]
      BY <2>1 DEF TraceInv, WriterTypes
    <2>5. Traceable(r)'
      BY <2>1, <2>3, <2>4 DEF Traceable
    <2>6. evidence' = evidence /\ staging' = staging /\ pc' \in [Runs -> Commands]
          /\ \A q \in Runs \ {r} : pc'[q] = pc[q]
      BY DEF StartRun, CheckEnvironment, directories, GoTo, Leave, TraceInv, WriterTypes, Commands
    <2>7. ASSUME NEW q \in Runs \ {r}, MayHaveWritten(q)' PROVE Traceable(q)'
      <3>1. MayHaveWritten(q)
        BY <2>6, <2>7 DEF MayHaveWritten, Active
      <3> QED
        BY <2>4, <3>1 DEF TraceInv, Traceable
    <2>8. WriterTypes'
      BY <2>1, <2>2, <2>6 DEF TraceInv, WriterTypes
    <2> QED
      BY <2>5, <2>7, <2>8 DEF TraceInv
  <1>2. CASE pc'[r] # "check"
    <2>1. /\ used' = used /\ evidence' = evidence /\ staging' = staging
          /\ pc' = [pc EXCEPT ![r] = "done"]
      BY <1>2 DEF StartRun, CheckEnvironment, directories, GoTo, Leave, TraceInv, WriterTypes, Commands
    <2>2. pc' \in [Runs -> Commands] /\ pc'[r] = "done"
          /\ \A q \in Runs \ {r} : pc'[q] = pc[q]
      BY <2>1 DEF TraceInv, WriterTypes, Commands
    <2>3. ASSUME NEW q \in Runs, MayHaveWritten(q)' PROVE MayHaveWritten(q)
      BY <2>1, <2>2, <2>3 DEF MayHaveWritten, Active
    <2>4. ASSUME NEW q \in Runs, MayHaveWritten(q)' PROVE Traceable(q)'
      BY <2>1, <2>3, <2>4 DEF TraceInv, Traceable
    <2> QED
      BY <2>1, <2>2, <2>4 DEF TraceInv, WriterTypes
  <1> QED
    BY <1>1, <1>2

\* A run under way writes only under its own name, or moves what was staged.
LEMMA ContinueWrites ==
    ASSUME TraceInv, NEW r \in Runs, ContinueRun(r)
    PROVE  /\ evidence' \in [Names -> Writers] /\ staging' \in [Names -> Writers]
           /\ pc' \in [Runs -> Commands]
           /\ \A q \in Runs : q # r => pc'[q] = pc[q]
           /\ \A q \in Runs, n \in Names :
                 evidence'[n] = q \/ staging'[n] = q
                     => q = r \/ \E m \in Names : evidence[m] = q \/ staging[m] = q
  <1> USE WritersAssumption DEF TraceInv, WriterTypes, Writers, directories, GoTo, Leave, Commands
  <1>1. r \in Active
    BY DEF ContinueRun
  <1>2. CASE CheckEnvironment(r)
    BY <1>1, <1>2 DEF CheckEnvironment, Active
  <1>3. CASE CheckEvidence(r)
    BY <1>3 DEF CheckEvidence
  <1>4. CASE ClearStaging(r)
    BY <1>4 DEF ClearStaging
  <1>5. CASE MakeStaging(r) \/ SetTrap(r)
    BY <1>5 DEF MakeStaging, SetTrap
  <1>6. CASE RunTests(r) \/ Decide(r) \/ MoveFails(r) \/ Passed(r)
    BY <1>6 DEF RunTests, Decide, MoveFails, Passed
  <1>7. CASE RunBenchmark(r)
    BY <1>7 DEF RunBenchmark, Produces
  <1>8. CASE WriteReport(r)
    BY <1>8 DEF WriteReport, Produces
  <1>9. CASE PrepareEvidence(r) \/ RemoveOne(r)
    BY <1>9 DEF PrepareEvidence, RemoveOne
  <1>10. CASE ListStaged(r)
    BY <1>10 DEF ListStaged
  <1>11. CASE MoveOne(r)
    BY <1>11 DEF MoveOne
  <1>12. CASE Trap(r)
    BY <1>12 DEF Trap
  <1>13. CASE Interrupt(r) \/ Kill(r)
    BY <1>13 DEF Interrupt, Kill
  <1> QED
    BY <1>2, <1>3, <1>4, <1>5, <1>6, <1>7, <1>8, <1>9, <1>10, <1>11, <1>12, <1>13
       DEF ContinueRun, Step

\* A run that goes on keeps the traces in order.
LEMMA ContinueTraces ==
    ASSUME TraceInv, NEW r \in Runs, ContinueRun(r)
    PROVE  TraceInv'
  <1>1. used' = used /\ r \in Active
    BY DEF ContinueRun
  <1>2. ASSUME NEW q \in Runs, MayHaveWritten(q)' PROVE MayHaveWritten(q)
    BY <1>1, <1>2, ContinueWrites DEF MayHaveWritten, Active
  <1>3. ASSUME NEW q \in Runs, MayHaveWritten(q)' PROVE Traceable(q)'
    BY <1>1, <1>2, <1>3 DEF TraceInv, Traceable
  <1> QED
    BY <1>1, <1>3, ContinueWrites DEF TraceInv, WriterTypes

\* Setting up and developing leave the evidence and what was found alone.
LEMMA OtherTraces ==
    ASSUME TraceInv, UNCHANGED <<vars, used>>
    PROVE  TraceInv'
  BY DEF TraceInv, WriterTypes, MayHaveWritten, Traceable, Active, vars

\* Every step of the workflow preserves both invariants.
LEMMA WorkflowStep ==
    ASSUME IInv, TraceInv, [WorkflowNext]_workflowVars
    PROVE  IInv' /\ TraceInv'
  <1>1. ASSUME NEW r \in Runs, StartRun(r) \/ ContinueRun(r) PROVE IInv' /\ TraceInv'
    <2>1. UNCHANGED setupVars
      BY <1>1 DEF StartRun, ContinueRun
    <2> QED
      BY <1>1, <2>1, StutterIInv, StartTraces, ContinueTraces
  <1>2. CASE SetUp \/ Develop
    BY <1>2, ScriptIInv, ChangeIInv, OtherTraces DEF SetUp, Develop
  <1>3. CASE AtRest \/ UNCHANGED workflowVars
    BY <1>3, StutterIInv, OtherTraces DEF AtRest, workflowVars
  <1> QED
    BY <1>1, <1>2, <1>3 DEF WorkflowNext

\* Every state of the workflow satisfies both invariants.
LEMMA WorkflowInvariant == WorkflowSpec => [](IInv /\ TraceInv)
  BY WorkflowInitInv, WorkflowStep, PTL DEF WorkflowSpec

\* Evidence can be traced: whoever wrote a file of it had found a binary and,
\* if the set-up before had succeeded and nothing was changed since, one built
\* at the pinned commit from the patch of the recorded commit.
THEOREM EvidenceIsTraceable == WorkflowSpec => []EvidenceTraceable
  <1>1. TraceInv => EvidenceTraceable
    BY DEF TraceInv, MayHaveWritten, Traceable, EvidenceTraceable
  <1> QED
    BY WorkflowInvariant, <1>1, PTL

-----------------------------------------------------------------------------
(* reproduce_research.sh, one run at a time.  The script takes no lock; what  *)
(* follows is what holds as long as no two of its runs overlap.            *)

Settled == evidence \in {Empty} \cup {EvidenceOf(w) : w \in Runs \cup {Earlier}}

OneActive == \A q, r \in Active : q = r

Recorded ==
    /\ stoppedAt \in [Runs -> {"nowhere", "before", "remove", "move", "trap"}]
    /\ skip \in [Runs -> BOOLEAN] /\ force \in [Runs -> BOOLEAN]
    /\ \A r \in Runs : pc[r] \notin {"trap", "done", "stopped", "killed"} =>
          stoppedAt[r] = "nowhere" /\ status[r] = -1
    /\ \A r \in Runs : pc[r] = "trap" /\ status[r] = 0 => stoppedAt[r] = "nowhere"

\* The staging directory is that of the one run that has made it.
StagingOwned ==
    /\ (\A r \in Runs : pc[r] \in {"start", "check", "clear", "make", "done"}) =>
          ~stagingExists /\ staging = Empty
    /\ \A r \in Runs :
          /\ pc[r] \in {"make", "settrap", "tests", "benchmark"} => staging = Empty
          /\ pc[r] \in {"settrap", "tests", "benchmark", "report", "decide", "prepare",
                        "remove", "move"} => stagingExists
          /\ pc[r] \in {"start", "check", "clear", "make", "settrap", "tests", "benchmark"} =>
                ~failed[r]
          /\ pc[r] = "report" /\ ~failed[r] =>
                staging = [EvidenceOf(r) EXCEPT !["report"] = Absent]
          /\ pc[r] = "decide" /\ ~failed[r] => staging = EvidenceOf(r)
          /\ pc[r] \in {"prepare", "remove", "move"} => ~failed[r]
          /\ pc[r] \in {"prepare", "remove"} => staging = EvidenceOf(r)

\* Removing empties the evidence directory; moving fills it from the other.
Moving ==
    \A r \in Runs :
        /\ pc[r] = "remove" => \A n \in Names \ todo[r] : evidence[n] = Absent
        /\ pc[r] = "move" =>
              \A n \in Names :
                 IF n \in todo[r] THEN staging[n] = EvidenceOf(r)[n] /\ evidence[n] = Absent
                                  ELSE staging[n] = Absent /\ evidence[n] = EvidenceOf(r)[n]

\* Only a run that got as far as moving has files in the evidence directory.
WrittenBy ==
    \A r \in Runs, n \in Names :
        evidence[n] = r => /\ pc[r] \in {"move", "trap", "done", "stopped", "killed"}
                           /\ ~failed[r] /\ stoppedAt[r] \in {"nowhere", "move", "trap"}

SettledUnlessTorn ==
    ~Torn /\ (\A r \in Runs : pc[r] \notin {"remove", "move"}) => Settled

\* The check for existing evidence still stands when the evidence is replaced.
CheckStands ==
    \A r \in Runs :
        pc[r] \in {"clear", "make", "settrap", "tests", "benchmark", "report", "decide",
                  "prepare", "remove"}
            /\ ~force[r] => evidence = Empty

SerialInv ==
    /\ TypeOK /\ OneActive /\ Recorded /\ StagingOwned /\ Moving /\ WrittenBy
    /\ SettledUnlessTorn /\ CheckStands /\ SuccessMeansEvidence

\* The reproduction begins in the invariant of serial runs.
LEMMA SerialInit == Init => SerialInv
  <1> SUFFICES ASSUME Init PROVE SerialInv
    OBVIOUS
  <1> USE WritersAssumption DEF Init
  <1>1. TypeOK
    BY DEF TypeOK, Empty, Commands
  <1>2. OneActive /\ Recorded
    BY DEF OneActive, Active, Recorded
  <1>3. \A r \in Runs, n \in Names : evidence[n] # r
    BY DEF Empty
  <1>4. EvidenceOf(Earlier) = [n \in Names |-> Earlier]
    BY DEF EvidenceOf
  <1>5. Settled
    BY <1>4 DEF Settled
  <1>6. StagingOwned /\ Moving /\ WrittenBy /\ SettledUnlessTorn
    BY <1>3, <1>5 DEF StagingOwned, Moving, WrittenBy, SettledUnlessTorn
  <1>7. CheckStands /\ SuccessMeansEvidence
    BY DEF CheckStands, SuccessMeansEvidence
  <1> QED
    BY <1>1, <1>2, <1>6, <1>7 DEF SerialInv

\* While a run is under way every other has yet to start or has ended.
LEMMA Alone ==
    ASSUME SerialInv, NEW r \in Active
    PROVE  /\ r \in Runs /\ r \notin {Earlier, Absent} /\ pc[r] \in Commands
           /\ pc[r] \notin {"start", "done", "stopped", "killed"}
           /\ \A q \in Runs : q # r => pc[q] \in {"start", "done", "stopped", "killed"}
  BY WritersAssumption DEF SerialInv, OneActive, Active, TypeOK

\* A run goes on: the others stay where they are.
LEMMA RunGoesOn ==
    ASSUME SerialInv, NEW r \in Active, NEW next \in Commands, GoTo(r, next), UNCHANGED options
    PROVE  /\ pc' \in [Runs -> Commands] /\ pc'[r] = next
           /\ \A q \in Runs : q # r => pc'[q] = pc[q]
           /\ \A q \in Runs : q # r => pc'[q] \in {"start", "done", "stopped", "killed"}
           /\ OneActive'
           /\ \A w : EvidenceOf(w)' = EvidenceOf(w)
  <1>1. /\ pc' \in [Runs -> Commands] /\ pc'[r] = next
        /\ \A q \in Runs : q # r => pc'[q] = pc[q]
    BY Alone DEF SerialInv, TypeOK, GoTo
  <1>2. \A q \in Runs : q # r => pc'[q] \in {"start", "done", "stopped", "killed"}
    BY <1>1, Alone
  <1>3. OneActive'
    BY <1>2 DEF OneActive, Active
  <1>4. \A w : EvidenceOf(w)' = EvidenceOf(w)
    BY DEF EvidenceOf, options
  <1> QED
    BY <1>1, <1>2, <1>3, <1>4

\* What a run that ends the script before it has passed, or in the trap, leaves.
Stops(r, next) ==
    /\ Leave(r, 1, next)
    /\ next \in {"trap", "done", "stopped"}
    /\ next = "done" => pc[r] \in {"check", "clear", "make"}
    /\ next = "trap" => pc[r] # "trap"
    /\ UNCHANGED <<directories, options, failed, todo>>

\* Ending the script early, at the trap or where there is none, preserves the
\* serial invariant.
LEMMA StopKeeps ==
    ASSUME SerialInv, NEW r \in Active, NEW next, Stops(r, next)
    PROVE  SerialInv'
  <1> USE DEF directories
  <1>1. /\ r \in Runs /\ pc[r] \in Commands /\ pc[r] \notin {"start", "done", "stopped", "killed"}
        /\ \A q \in Runs : q # r => pc[q] \in {"start", "done", "stopped", "killed"}
    BY Alone
  <1>2. next \in Commands /\ GoTo(r, next) /\ UNCHANGED options
    BY DEF Stops, Leave, Commands
  <1>3. /\ pc' \in [Runs -> Commands] /\ pc'[r] = next
        /\ \A q \in Runs : q # r => pc'[q] = pc[q]
        /\ \A q \in Runs : q # r => pc'[q] \in {"start", "done", "stopped", "killed"}
        /\ OneActive' /\ \A w : EvidenceOf(w)' = EvidenceOf(w)
    BY <1>2, RunGoesOn
  <1>4. /\ status' = [status EXCEPT ![r] = 1]
        /\ stoppedAt' = [stoppedAt EXCEPT ![r] = IF @ = "nowhere" THEN Where(r) ELSE @]
        /\ Where(r) = (IF pc[r] \in {"remove", "move", "trap"} THEN pc[r] ELSE "before")
    BY DEF Stops, Leave, StopsHere, Where
  <1>5. TypeOK'
    BY <1>3, <1>4 DEF Stops, SerialInv, TypeOK
  <1>6. Recorded'
    BY <1>1, <1>3, <1>4 DEF Stops, SerialInv, Recorded, TypeOK, options
  <1>7. StagingOwned'
    BY <1>1, <1>3 DEF Stops, SerialInv, StagingOwned
  <1>8. Moving'
    BY <1>1, <1>3 DEF Stops, SerialInv, Moving
  <1>9. WrittenBy'
    BY <1>1, <1>3, <1>4 DEF Stops, SerialInv, WrittenBy, Recorded
  <1>10. SettledUnlessTorn'
    <2>1. Torn' \/ (~Torn /\ pc[r] \notin {"remove", "move"})
      BY <1>1, <1>4 DEF Torn, SerialInv, Recorded
    <2>2. Settled' = Settled
      BY <1>3 DEF Stops, Settled
    <2> QED
      BY <1>1, <2>1, <2>2 DEF SerialInv, SettledUnlessTorn
  <1>11. CheckStands'
    BY <1>1, <1>3 DEF Stops, SerialInv, CheckStands, options
  <1>12. SuccessMeansEvidence'
    BY <1>1, <1>3, <1>4 DEF Stops, SuccessMeansEvidence, SerialInv, TypeOK
  <1> QED
    BY <1>3, <1>5, <1>6, <1>7, <1>8, <1>9, <1>10, <1>11, <1>12 DEF SerialInv

\* Kill preserves the serial invariant.
LEMMA KillKeeps ==
    ASSUME SerialInv, NEW r \in Runs, Kill(r)
    PROVE  SerialInv'
  <1> USE DEF Kill, directories
  <1>1. /\ r \in Active /\ pc[r] \in Commands /\ pc[r] \notin {"start", "done", "stopped", "killed"}
        /\ \A q \in Runs : q # r => pc[q] \in {"start", "done", "stopped", "killed"}
    BY Alone
  <1>2. /\ pc' \in [Runs -> Commands] /\ pc'[r] = "killed"
        /\ \A q \in Runs : q # r => pc'[q] = pc[q]
        /\ \A q \in Runs : q # r => pc'[q] \in {"start", "done", "stopped", "killed"}
        /\ OneActive' /\ \A w : EvidenceOf(w)' = EvidenceOf(w)
    BY <1>1, RunGoesOn DEF Commands
  <1>3. /\ stoppedAt' = [stoppedAt EXCEPT ![r] = IF @ = "nowhere" THEN Where(r) ELSE @]
        /\ Where(r) = (IF pc[r] \in {"remove", "move", "trap"} THEN pc[r] ELSE "before")
    BY DEF Where, StopsHere
  <1>4. TypeOK'
    BY <1>2 DEF SerialInv, TypeOK
  <1>5. Recorded'
    BY <1>1, <1>2, <1>3 DEF SerialInv, Recorded, options
  <1>6. StagingOwned' /\ Moving'
    BY <1>1, <1>2 DEF SerialInv, StagingOwned, Moving
  <1>7. WrittenBy'
    BY <1>1, <1>2, <1>3 DEF SerialInv, WrittenBy, Recorded
  <1>8. SettledUnlessTorn'
    <2>1. Torn' \/ (~Torn /\ pc[r] \notin {"remove", "move"})
      BY <1>1, <1>3 DEF Torn, SerialInv, Recorded
    <2>2. Settled' = Settled
      BY <1>2 DEF Settled
    <2> QED
      BY <1>1, <2>1, <2>2 DEF SerialInv, SettledUnlessTorn
  <1>9. CheckStands' /\ SuccessMeansEvidence'
    BY <1>1, <1>2 DEF SerialInv, CheckStands, SuccessMeansEvidence, options
  <1> QED
    BY <1>2, <1>4, <1>5, <1>6, <1>7, <1>8, <1>9 DEF SerialInv

\* No run is under way when one starts, whatever its options are.
LEMMA CheckEnvironmentKeeps ==
    ASSUME MaxActive = 1, SerialInv, NEW r \in Runs, CheckEnvironment(r)
    PROVE  SerialInv'
  <1> USE DEF CheckEnvironment, directories, outcome
  <1>1. Active = {}
    <2>1. SUFFICES ASSUME NEW q \in Active PROVE FALSE
      OBVIOUS
    <2>2. Active = {q}
      BY DEF SerialInv, OneActive
    <2>3. Cardinality(Active) = 1
      BY <2>2, FS_Singleton
    <2> QED
      BY <2>3
  <1>2. /\ pc[r] = "start" /\ r \notin {Earlier, Absent}
        /\ \A q \in Runs : pc[q] \in {"start", "done", "stopped", "killed"}
    BY <1>1, WritersAssumption DEF Active, SerialInv, TypeOK
  <1>3. /\ pc' \in [Runs -> Commands] /\ pc'[r] \in {"check", "done"}
        /\ \A q \in Runs : q # r => pc'[q] = pc[q]
    BY DEF GoTo, Leave, Commands, SerialInv, TypeOK
  <1>4. OneActive'
    BY <1>2, <1>3 DEF OneActive, Active
  <1>5. /\ skip' \in [Runs -> BOOLEAN] /\ force' \in [Runs -> BOOLEAN]
        /\ \A q \in Runs : q # r => skip'[q] = skip[q] /\ force'[q] = force[q]
    BY DEF SerialInv, Recorded, options
  <1>6. /\ stoppedAt' \in [Runs -> {"nowhere", "before", "remove", "move", "trap"}]
        /\ status' \in [Runs -> {-1, 0, 1}]
        /\ \A q \in Runs : q # r => stoppedAt'[q] = stoppedAt[q] /\ status'[q] = status[q]
        /\ pc'[r] = "check" => stoppedAt' = stoppedAt /\ status' = status
        /\ stoppedAt'[r] \in {"nowhere", "before"}
    BY <1>2 DEF Leave, StopsHere, Where, DieStatus, SerialInv, TypeOK, Recorded, GoTo
  <1>7. UNCHANGED <<evidence, staging, stagingExists, failed, todo>>
    OBVIOUS
  <1> HIDE DEF CheckEnvironment
  <1>8. TypeOK'
    BY <1>3, <1>6, <1>7 DEF SerialInv, TypeOK
  <1>9. Recorded'
    BY <1>2, <1>3, <1>5, <1>6 DEF SerialInv, Recorded
  <1>10. StagingOwned' /\ Moving'
    BY <1>2, <1>3, <1>7 DEF SerialInv, StagingOwned, Moving
  <1>11. WrittenBy'
    BY <1>2, <1>3, <1>6, <1>7 DEF SerialInv, WrittenBy
  <1>12. SettledUnlessTorn'
    <2>1. \A n \in Names : evidence[n] # r
      BY <1>2 DEF SerialInv, WrittenBy
    <2>2. \A w \in Runs \cup {Earlier} : w # r => EvidenceOf(w)' = EvidenceOf(w)
      BY <1>5, WritersAssumption DEF EvidenceOf
    <2>3. evidence # EvidenceOf(r)
      BY <2>1 DEF EvidenceOf, Names
    <2>4. Torn <=> Torn'
      <3>1. stoppedAt[r] = "nowhere"
        BY <1>2 DEF SerialInv, Recorded
      <3> QED
        BY <1>6, <3>1 DEF Torn
    <2>5. ~Torn => Settled
      BY <1>2 DEF SerialInv, SettledUnlessTorn
    <2>6. Settled => Settled'
      BY <1>7, <2>2, <2>3 DEF Settled
    <2> QED
      BY <2>4, <2>5, <2>6 DEF SettledUnlessTorn
  <1>13. CheckStands' /\ SuccessMeansEvidence'
    BY <1>2, <1>3, <1>6, <1>7 DEF CheckStands, SuccessMeansEvidence
  <1> QED
    BY <1>4, <1>8, <1>9, <1>10, <1>11, <1>12, <1>13 DEF SerialInv

\* A run takes a step without ending and without a write to the evidence.
LEMMA QuietStep ==
    ASSUME SerialInv, NEW r \in Active, NEW next \in Commands, GoTo(r, next),
           next \notin {"remove", "move", "done", "stopped", "killed"}, pc[r] \notin {"remove", "move", "trap"},
           UNCHANGED <<evidence, options, status, stoppedAt>>,
           next = "trap" => status[r] # 0,
           failed' \in [Runs -> BOOLEAN], todo' \in [Runs -> SUBSET Names],
           staging' \in [Names -> Runs \cup {Absent}], stagingExists' \in BOOLEAN,
           \A q \in Runs : q # r => failed'[q] = failed[q],
           StagingOwned',
           next \in {"clear", "make", "settrap", "tests", "benchmark", "report", "decide",
                     "prepare"}
               /\ ~force[r] => evidence = Empty
    PROVE  SerialInv'
  <1>1. /\ r \in Runs /\ pc[r] \in Commands /\ pc[r] \notin {"start", "done", "stopped", "killed"}
        /\ \A q \in Runs : q # r => pc[q] \in {"start", "done", "stopped", "killed"}
    BY Alone
  <1>2. /\ pc' \in [Runs -> Commands] /\ pc'[r] = next
        /\ \A q \in Runs : q # r => pc'[q] = pc[q]
        /\ \A q \in Runs : q # r => pc'[q] \in {"start", "done", "stopped", "killed"}
        /\ OneActive' /\ \A w : EvidenceOf(w)' = EvidenceOf(w)
    BY RunGoesOn
  <1>3. TypeOK'
    BY <1>2 DEF SerialInv, TypeOK
  <1>4. Recorded'
    BY <1>1, <1>2 DEF SerialInv, Recorded, options
  <1>5. Moving'
    BY <1>2 DEF Moving
  <1>6. WrittenBy'
    BY <1>1, <1>2 DEF SerialInv, WrittenBy
  <1>7. SettledUnlessTorn'
    <2>1. Settled' = Settled /\ Torn' = Torn
      BY <1>2 DEF Settled, Torn
    <2>2. \A q \in Runs : pc[q] \notin {"remove", "move"}
      BY <1>1
    <2> QED
      BY <2>1, <2>2 DEF SerialInv, SettledUnlessTorn
  <1>8. CheckStands'
    BY <1>1, <1>2 DEF CheckStands, options
  <1>9. SuccessMeansEvidence'
    BY <1>1, <1>2 DEF SuccessMeansEvidence
  <1> QED
    BY <1>2, <1>3, <1>4, <1>5, <1>6, <1>7, <1>8, <1>9 DEF SerialInv

\* CheckEvidence preserves the serial invariant.
LEMMA CheckEvidenceKeeps ==
    ASSUME SerialInv, NEW r \in Active, CheckEvidence(r)
    PROVE  SerialInv'
  <1> USE DEF CheckEvidence, directories, outcome
  <1>1. CASE Refuses(r)
    <2>1. Stops(r, "done")
      BY <1>1 DEF Stops, DieStatus
    <2> QED
      BY <2>1, StopKeeps
  <1>2. CASE ~Refuses(r)
    <2>1. GoTo(r, "clear") /\ pc[r] = "check" /\ "clear" \in Commands
      BY <1>2 DEF Commands
    <2>2. ~force[r] => evidence = Empty
      BY <1>2 DEF Refuses
    <2>3. StagingOwned'
      BY <1>2, <2>1, RunGoesOn, Alone DEF SerialInv, StagingOwned
    <2> QED
      BY <1>2, <2>1, <2>2, <2>3, QuietStep DEF SerialInv, TypeOK
  <1> QED
    BY <1>1, <1>2

\* ClearStaging preserves the serial invariant.
LEMMA ClearStagingKeeps ==
    ASSUME SerialInv, NEW r \in Active, ClearStaging(r)
    PROVE  SerialInv'
  <1> USE DEF ClearStaging, Leftovers, Held, outcome
  <1>1. pc[r] = "clear" /\ {"clear", "make"} \subseteq Commands
    BY DEF Commands
  <1>2. ~force[r] => evidence = Empty
    BY <1>1, Alone DEF SerialInv, CheckStands
  <1>3. staging' \in [Names -> Runs \cup {Absent}]
    BY DEF SerialInv, TypeOK
  <1>4. CASE UNCHANGED <<stagingExists, pc>>
    <2>1. GoTo(r, "clear")
      BY <1>1, <1>4, Alone DEF SerialInv, TypeOK, GoTo
    <2>2. PICK n \in Names : staging[n] # Absent /\ staging' = [staging EXCEPT ![n] = Absent]
      BY <1>1, <1>4, Alone DEF GoTo, SerialInv, TypeOK
    <2>3. staging # Empty
      BY <2>2 DEF Empty
    <2>4. StagingOwned'
      BY <1>1, <1>4, <2>1, <2>3, RunGoesOn, Alone DEF SerialInv, StagingOwned
    <2> QED
      BY <1>1, <1>2, <1>3, <1>4, <2>1, <2>4, QuietStep DEF SerialInv, TypeOK
  <1>5. CASE stagingExists' = FALSE /\ GoTo(r, "make") /\ UNCHANGED staging /\ Leftovers = {}
    <2>1. staging = Empty
      BY <1>5 DEF Empty, SerialInv, TypeOK
    <2>2. StagingOwned'
      BY <1>1, <1>5, <2>1, RunGoesOn, Alone DEF SerialInv, StagingOwned
    <2> QED
      BY <1>1, <1>2, <1>3, <1>5, <2>2, QuietStep DEF SerialInv, TypeOK
  <1> QED
    BY <1>4, <1>5

\* MakeStaging and SetTrap preserve the serial invariant.
LEMMA MakeStagingKeeps ==
    ASSUME SerialInv, NEW r \in Active, MakeStaging(r) \/ SetTrap(r)
    PROVE  SerialInv'
  <1> USE DEF MakeStaging, SetTrap, outcome, directories
  <1>1. CASE Leave(r, DieStatus, "done") /\ UNCHANGED <<stagingExists, failed, todo>>
             /\ MakeStaging(r)
    <2>1. Stops(r, "done")
      BY <1>1 DEF Stops, DieStatus
    <2> QED
      BY <2>1, StopKeeps
  <1>2. CASE MakeStaging(r) /\ stagingExists' = TRUE /\ GoTo(r, "settrap") /\ UNCHANGED outcome
    <2>1. GoTo(r, "settrap") /\ pc[r] = "make" /\ "settrap" \in Commands
      BY <1>2 DEF Commands
    <2>2. ~force[r] => evidence = Empty
      BY <2>1, Alone DEF SerialInv, CheckStands
    <2>3. StagingOwned'
      BY <1>2, <2>1, RunGoesOn, Alone DEF SerialInv, StagingOwned
    <2> QED
      BY <1>2, <2>1, <2>2, <2>3, QuietStep DEF SerialInv, TypeOK
  <1>3. CASE SetTrap(r)
    <2>1. GoTo(r, "tests") /\ pc[r] = "settrap" /\ "tests" \in Commands
      BY <1>3 DEF Commands
    <2>2. ~force[r] => evidence = Empty
      BY <2>1, Alone DEF SerialInv, CheckStands
    <2>3. StagingOwned'
      BY <1>3, <2>1, RunGoesOn, Alone DEF SerialInv, StagingOwned
    <2> QED
      BY <1>3, <2>1, <2>2, <2>3, QuietStep DEF SerialInv, TypeOK
  <1> QED
    BY <1>1, <1>2, <1>3

\* RunTests preserves the serial invariant.
LEMMA RunTestsKeeps ==
    ASSUME SerialInv, NEW r \in Active, RunTests(r)
    PROVE  SerialInv'
  <1> USE DEF RunTests, outcome, directories
  <1>1. CASE Leave(r, DieStatus, "trap") /\ UNCHANGED <<failed, todo>>
    <2>1. Stops(r, "trap")
      BY <1>1 DEF Stops, DieStatus
    <2> QED
      BY <2>1, StopKeeps
  <1>2. CASE GoTo(r, "benchmark") /\ UNCHANGED outcome
    <2>1. GoTo(r, "benchmark") /\ pc[r] = "tests" /\ "benchmark" \in Commands
      BY <1>2 DEF Commands
    <2>2. ~force[r] => evidence = Empty
      BY <2>1, Alone DEF SerialInv, CheckStands
    <2>3. StagingOwned'
      BY <1>2, <2>1, RunGoesOn, Alone DEF SerialInv, StagingOwned
    <2> QED
      BY <1>2, <2>1, <2>2, <2>3, QuietStep DEF SerialInv, TypeOK
  <1> QED
    BY <1>1, <1>2

\* The one run's staged files are the evidence it is going to leave.
LEMMA EvidenceOfRun ==
    ASSUME NEW r \in Runs, skip \in [Runs -> BOOLEAN]
    PROVE  /\ EvidenceOf(r) \in [Names -> {r, Absent}]
           /\ EvidenceOf(r)["benchmark"] = (IF skip[r] THEN Absent ELSE r)
           /\ EvidenceOf(r)["report"] = r
           /\ EvidenceOf(r) # Empty
  BY WritersAssumption DEF EvidenceOf, Names, Empty

\* RunBenchmark preserves the serial invariant.
LEMMA RunBenchmarkKeeps ==
    ASSUME SerialInv, NEW r \in Active, RunBenchmark(r)
    PROVE  SerialInv'
  <1> USE DEF RunBenchmark, Produces
  <1>1. GoTo(r, "report") /\ pc[r] = "benchmark" /\ "report" \in Commands
    BY DEF Commands
  <1>2. /\ pc' \in [Runs -> Commands] /\ pc'[r] = "report" /\ r \in Runs
        /\ \A q \in Runs : q # r => pc'[q] = pc[q] /\ pc[q] \in {"start", "done", "stopped", "killed"}
        /\ EvidenceOf(r)' = EvidenceOf(r)
    BY <1>1, RunGoesOn, Alone
  <1>3. ~force[r] => evidence = Empty
    BY <1>1, Alone DEF SerialInv, CheckStands
  <1>4. staging = Empty /\ stagingExists /\ ~failed[r] /\ skip[r] \in BOOLEAN
    BY <1>1, <1>2 DEF SerialInv, StagingOwned, Recorded
  <1>5. /\ failed' \in [Runs -> BOOLEAN]
        /\ \A q \in Runs : q # r => failed'[q] = failed[q]
        /\ staging' \in [Names -> Runs \cup {Absent}]
    BY <1>2 DEF SerialInv, TypeOK
  <1>6. ~failed'[r] =>
           staging' = [EvidenceOf(r) EXCEPT !["report"] = Absent]
    <2>1. SUFFICES ASSUME ~failed'[r]
                   PROVE  staging' = [EvidenceOf(r) EXCEPT !["report"] = Absent]
      OBVIOUS
    <2>2. CASE skip[r]
      <3>1. staging' = Empty
        BY <1>4, <2>2
      <3> QED
        BY <1>2, <2>2, <3>1, EvidenceOfRun DEF Empty, Names, SerialInv, Recorded
    <2>3. CASE ~skip[r]
      <3>1. staging' = [n \in Names |-> IF n = "benchmark" THEN r ELSE Absent]
        BY <1>2, <1>4, <2>1, <2>3 DEF SerialInv, TypeOK, Empty
      <3> QED
        BY <1>2, <2>3, <3>1, EvidenceOfRun DEF Empty, Names, SerialInv, Recorded
    <2> QED
      BY <2>2, <2>3
  <1>7. StagingOwned'
    BY <1>2, <1>4, <1>5, <1>6 DEF SerialInv, StagingOwned
  <1> QED
    BY <1>1, <1>3, <1>5, <1>7, QuietStep DEF SerialInv, TypeOK

\* WriteReport preserves the serial invariant.
LEMMA WriteReportKeeps ==
    ASSUME SerialInv, NEW r \in Active, WriteReport(r)
    PROVE  SerialInv'
  <1> USE DEF WriteReport, Produces
  <1>1. GoTo(r, "decide") /\ pc[r] = "report" /\ "decide" \in Commands
    BY DEF Commands
  <1>2. /\ pc' \in [Runs -> Commands] /\ pc'[r] = "decide" /\ r \in Runs
        /\ \A q \in Runs : q # r => pc'[q] = pc[q] /\ pc[q] \in {"start", "done", "stopped", "killed"}
        /\ EvidenceOf(r)' = EvidenceOf(r)
    BY <1>1, RunGoesOn, Alone
  <1>3. ~force[r] => evidence = Empty
    BY <1>1, Alone DEF SerialInv, CheckStands
  <1>4. /\ failed' \in [Runs -> BOOLEAN] /\ \A q \in Runs : q # r => failed'[q] = failed[q]
        /\ ~failed'[r] =>
              ~failed[r] /\ staging' = [n \in Names |-> IF n \in {"report"} THEN r
                                                       ELSE staging[n]]
    BY <1>2 DEF SerialInv, TypeOK
  <1>5. staging' \in [Names -> Runs \cup {Absent}]
    BY <1>2 DEF SerialInv, TypeOK
  <1>6. ~failed'[r] => staging' = EvidenceOf(r)
    <2>1. SUFFICES ASSUME ~failed'[r] PROVE staging' = EvidenceOf(r)
      OBVIOUS
    <2>2. staging = [EvidenceOf(r) EXCEPT !["report"] = Absent]
      BY <1>1, <1>2, <1>4, <2>1 DEF SerialInv, StagingOwned
    <2> QED
      BY <1>2, <1>4, <2>1, <2>2, EvidenceOfRun DEF Names, SerialInv, Recorded
  <1>8. stagingExists
    BY <1>1, <1>2 DEF SerialInv, StagingOwned
  <1>7. StagingOwned'
    BY <1>2, <1>4, <1>6, <1>8 DEF SerialInv, StagingOwned
  <1> QED
    BY <1>1, <1>3, <1>4, <1>5, <1>7, QuietStep DEF SerialInv, TypeOK

\* Decide preserves the serial invariant.
LEMMA DecideKeeps ==
    ASSUME SerialInv, NEW r \in Active, Decide(r)
    PROVE  SerialInv'
  <1> USE DEF Decide, outcome, directories
  <1>1. CASE ~MayPromote(r)
    <2>1. Stops(r, "trap")
      BY <1>1 DEF Stops
    <2> QED
      BY <2>1, StopKeeps
  <1>2. CASE MayPromote(r)
    <2>1. GoTo(r, "prepare") /\ pc[r] = "decide" /\ "prepare" \in Commands
      BY <1>2 DEF Commands
    <2>2. ~force[r] => evidence = Empty
      BY <2>1, Alone DEF SerialInv, CheckStands
    <2>3. StagingOwned'
      BY <1>2, <2>1, RunGoesOn, Alone DEF MayPromote, SerialInv, StagingOwned
    <2> QED
      BY <1>2, <2>1, <2>2, <2>3, QuietStep DEF SerialInv, TypeOK
  <1> QED
    BY <1>1, <1>2

\* PrepareEvidence preserves the serial invariant.
LEMMA PrepareEvidenceKeeps ==
    ASSUME SerialInv, NEW r \in Active, PrepareEvidence(r)
    PROVE  SerialInv'
  <1> USE DEF PrepareEvidence, directories
  <1>1. CASE Leave(r, DieStatus, "trap") /\ UNCHANGED <<failed, todo>>
    <2>1. Stops(r, "trap")
      BY <1>1 DEF Stops, DieStatus
    <2> QED
      BY <2>1, StopKeeps
  <1>2. CASE /\ todo' = [todo EXCEPT ![r] = OldEvidence]
             /\ GoTo(r, "remove") /\ UNCHANGED <<failed, status, stoppedAt>>
    <2>1. pc[r] = "prepare" /\ "remove" \in Commands
          /\ UNCHANGED <<directories, options, failed, status, stoppedAt>>
      BY <1>2 DEF Commands
    <2>2. /\ pc' \in [Runs -> Commands] /\ pc'[r] = "remove" /\ r \in Runs /\ OneActive'
          /\ \A q \in Runs : q # r => pc'[q] = pc[q] /\ pc[q] \in {"start", "done", "stopped", "killed"}
          /\ \A w : EvidenceOf(w)' = EvidenceOf(w)
      BY <1>2, <2>1, RunGoesOn, Alone
    <2>3. todo' \in [Runs -> SUBSET Names] /\ \A n \in Names \ todo'[r] : evidence[n] = Absent
      BY <1>2, <2>2 DEF SerialInv, TypeOK, OldEvidence, Held
    <2>4. TypeOK' /\ Recorded'
      BY <2>1, <2>2, <2>3 DEF SerialInv, TypeOK, Recorded, options
    <2>5. StagingOwned'
      BY <2>1, <2>2 DEF SerialInv, StagingOwned
    <2>6. Moving' /\ SettledUnlessTorn'
      BY <2>1, <2>2, <2>3 DEF Moving, SettledUnlessTorn
    <2>7. WrittenBy'
      BY <2>1, <2>2 DEF SerialInv, WrittenBy
    <2>8. CheckStands' /\ SuccessMeansEvidence'
      BY <2>1, <2>2 DEF SerialInv, CheckStands, SuccessMeansEvidence, options
    <2> QED
      BY <2>2, <2>4, <2>5, <2>6, <2>7, <2>8 DEF SerialInv
  <1> QED
    BY <1>1, <1>2

\* RemoveOne preserves the serial invariant.
LEMMA RemoveOneKeeps ==
    ASSUME SerialInv, NEW r \in Active, RemoveOne(r)
    PROVE  SerialInv'
  <1>1. /\ pc[r] = "remove"
        /\ UNCHANGED <<staging, stagingExists, pc, options, failed, status, stoppedAt>>
    BY DEF RemoveOne
  <1>2. /\ r \in Runs
        /\ \A q \in Runs : q # r => pc[q] \in {"start", "done", "stopped", "killed"}
        /\ \A w : EvidenceOf(w)' = EvidenceOf(w)
    BY <1>1, Alone DEF EvidenceOf, options
  <1>3. PICK n \in todo[r] : /\ evidence' = [evidence EXCEPT ![n] = Absent]
                             /\ todo' = [todo EXCEPT ![r] = @ \ {n}]
    BY DEF RemoveOne
  <1>4. /\ n \in Names /\ todo' \in [Runs -> SUBSET Names] /\ todo'[r] = todo[r] \ {n}
        /\ \A m \in Names : evidence'[m] = IF m = n THEN Absent ELSE evidence[m]
        /\ evidence' \in [Names -> Runs \cup {Earlier, Absent}]
    BY <1>2, <1>3 DEF SerialInv, TypeOK
  <1>5. TypeOK'
    BY <1>1, <1>4 DEF SerialInv, TypeOK
  <1>6. OneActive' /\ Recorded' /\ StagingOwned'
    BY <1>1, <1>2 DEF SerialInv, OneActive, Active, Recorded, StagingOwned, options
  <1>7. Moving'
    BY <1>1, <1>2, <1>4 DEF SerialInv, Moving
  <1>8. WrittenBy'
    BY <1>1, <1>4, WritersAssumption DEF SerialInv, WrittenBy
  <1>9. SettledUnlessTorn' /\ SuccessMeansEvidence'
    BY <1>1, <1>2 DEF SettledUnlessTorn, SuccessMeansEvidence
  <1>10. CheckStands'
    <2>1. evidence = Empty => evidence' = Empty
      BY <1>3 DEF Empty
    <2> QED
      BY <1>1, <2>1 DEF SerialInv, CheckStands, options
  <1> QED
    BY <1>5, <1>6, <1>7, <1>8, <1>9, <1>10 DEF SerialInv

\* ListStaged preserves the serial invariant.
LEMMA ListStagedKeeps ==
    ASSUME SerialInv, NEW r \in Active, ListStaged(r)
    PROVE  SerialInv'
  <1>1. /\ pc[r] = "remove" /\ GoTo(r, "move") /\ "move" \in Commands
        /\ todo' = [todo EXCEPT ![r] = {n \in Names : staging[n] # Absent}] /\ todo[r] = {}
        /\ UNCHANGED <<evidence, staging, stagingExists, options, failed, status, stoppedAt>>
    BY DEF ListStaged, Held, directories, Commands
  <1>2. /\ pc' \in [Runs -> Commands] /\ pc'[r] = "move" /\ r \in Runs /\ OneActive'
        /\ \A q \in Runs : q # r => pc'[q] = pc[q] /\ pc[q] \in {"start", "done", "stopped", "killed"}
        /\ \A w : EvidenceOf(w)' = EvidenceOf(w)
    BY <1>1, RunGoesOn, Alone
  <1>3. evidence = Empty /\ staging = EvidenceOf(r) /\ ~failed[r] /\ stoppedAt[r] = "nowhere"
    BY <1>1, <1>2 DEF SerialInv, TypeOK, Empty, Moving, StagingOwned, Recorded
  <1>4. todo' \in [Runs -> SUBSET Names] /\ todo'[r] = {n \in Names : staging[n] # Absent}
    BY <1>1, <1>2 DEF SerialInv, TypeOK
  <1>5. TypeOK' /\ Recorded'
    BY <1>1, <1>2, <1>4 DEF SerialInv, TypeOK, Recorded, options
  <1>6. StagingOwned'
    BY <1>1, <1>2 DEF SerialInv, StagingOwned
  <1>7. Moving'
    BY <1>1, <1>2, <1>3, <1>4 DEF Moving, Empty
  <1>8. WrittenBy' /\ SettledUnlessTorn'
    BY <1>1, <1>2, <1>3, WritersAssumption DEF WrittenBy, SettledUnlessTorn, Empty
  <1>9. CheckStands' /\ SuccessMeansEvidence'
    BY <1>1, <1>2 DEF CheckStands, SuccessMeansEvidence
  <1> QED
    BY <1>2, <1>5, <1>6, <1>7, <1>8, <1>9 DEF SerialInv

\* MoveOne preserves the serial invariant.
LEMMA MoveOneKeeps ==
    ASSUME SerialInv, NEW r \in Active, MoveOne(r)
    PROVE  SerialInv'
  <1>1. /\ pc[r] = "move"
        /\ UNCHANGED <<stagingExists, pc, options, failed, status, stoppedAt>>
    BY DEF MoveOne
  <1>2. /\ r \in Runs
        /\ \A q \in Runs : q # r => pc[q] \in {"start", "done", "stopped", "killed"}
        /\ \A w : EvidenceOf(w)' = EvidenceOf(w)
    BY <1>1, Alone DEF EvidenceOf, options
  <1>3. ~failed[r] /\ stoppedAt[r] = "nowhere"
    BY <1>1, <1>2 DEF SerialInv, StagingOwned, Recorded
  <1>4. PICK n \in todo[r] :
           /\ todo' = [todo EXCEPT ![r] = @ \ {n}]
           /\ IF staging[n] = Absent
              THEN UNCHANGED <<evidence, staging>>
              ELSE /\ evidence' = [evidence EXCEPT ![n] = staging[n]]
                   /\ staging' = [staging EXCEPT ![n] = Absent]
    BY DEF MoveOne
  <1>5. /\ n \in Names /\ staging[n] = EvidenceOf(r)[n] /\ evidence[n] = Absent
        /\ EvidenceOf(r)[n] \in {r, Absent}
        /\ todo' \in [Runs -> SUBSET Names] /\ todo'[r] = todo[r] \ {n}
    BY <1>1, <1>2, <1>4, EvidenceOfRun DEF SerialInv, TypeOK, Moving, Recorded
  <1>6. /\ evidence' = [evidence EXCEPT ![n] = EvidenceOf(r)[n]]
        /\ staging' = [staging EXCEPT ![n] = Absent]
    BY <1>4, <1>5 DEF SerialInv, TypeOK
  <1>7. TypeOK'
    BY <1>1, <1>2, <1>5, <1>6 DEF SerialInv, TypeOK
  <1>8. OneActive' /\ Recorded'
    BY <1>1 DEF SerialInv, OneActive, Active, Recorded, options
  <1>9. StagingOwned'
    BY <1>1, <1>2 DEF SerialInv, StagingOwned
  <1>10. Moving'
    <2>1. ASSUME NEW m \in Names
          PROVE  IF m \in todo'[r] THEN staging'[m] = EvidenceOf(r)[m] /\ evidence'[m] = Absent
                                   ELSE staging'[m] = Absent /\ evidence'[m] = EvidenceOf(r)[m]
      BY <1>1, <1>2, <1>5, <1>6 DEF SerialInv, TypeOK, Moving
    <2> QED
      BY <1>1, <1>2, <2>1 DEF Moving
  <1>11. WrittenBy'
    BY <1>1, <1>2, <1>3, <1>5, <1>6, WritersAssumption DEF SerialInv, TypeOK, WrittenBy
  <1>12. SettledUnlessTorn' /\ CheckStands' /\ SuccessMeansEvidence'
    BY <1>1, <1>2 DEF SettledUnlessTorn, CheckStands, SuccessMeansEvidence
  <1> QED
    BY <1>7, <1>8, <1>9, <1>10, <1>11, <1>12 DEF SerialInv

\* A run that has moved everything leaves all of its evidence, and passes.
LEMMA PassedKeeps ==
    ASSUME SerialInv, NEW r \in Active, Passed(r)
    PROVE  SerialInv'
  <1>1. /\ pc[r] = "move" /\ todo[r] = {} /\ GoTo(r, "trap") /\ "trap" \in Commands
        /\ status' = [status EXCEPT ![r] = 0]
        /\ UNCHANGED <<directories, options, failed, todo, stoppedAt>>
    BY DEF Passed, Leave, Commands
  <1>2. /\ pc' \in [Runs -> Commands] /\ pc'[r] = "trap" /\ r \in Runs /\ OneActive'
        /\ \A q \in Runs : q # r => pc'[q] = pc[q] /\ pc[q] \in {"start", "done", "stopped", "killed"}
        /\ \A w : EvidenceOf(w)' = EvidenceOf(w)
    BY <1>1, RunGoesOn, Alone
  <1>3. evidence = EvidenceOf(r)
    BY <1>1, <1>2, EvidenceOfRun DEF SerialInv, TypeOK, Moving, EvidenceOf
  <1>4. TypeOK' /\ Recorded'
    BY <1>1, <1>2 DEF SerialInv, TypeOK, Recorded, options, directories
  <1>5. StagingOwned' /\ Moving' /\ WrittenBy'
    BY <1>1, <1>2 DEF SerialInv, StagingOwned, Moving, WrittenBy, directories
  <1>6. SettledUnlessTorn'
    BY <1>1, <1>2, <1>3 DEF SettledUnlessTorn, Settled, directories
  <1>7. CheckStands' /\ SuccessMeansEvidence'
    BY <1>1, <1>2, <1>3 DEF CheckStands, SuccessMeansEvidence, directories
  <1> QED
    BY <1>2, <1>4, <1>5, <1>6, <1>7 DEF SerialInv

\* The exit trap preserves the serial invariant.
LEMMA TrapKeepsInv ==
    ASSUME SerialInv, NEW r \in Active, Trap(r)
    PROVE  SerialInv'
  <1>1. /\ pc[r] = "trap" /\ r \in Runs /\ {"trap", "done"} \subseteq Commands
        /\ UNCHANGED <<evidence, options, failed, todo, status, stoppedAt>>
    BY Alone DEF Trap, outcome, Commands
  <1>2. PICK next \in {"trap", "done"} :
           /\ GoTo(r, next)
           /\ next = "done" => staging' = Empty /\ ~stagingExists'
           /\ staging' \in [Names -> Runs \cup {Absent}] /\ stagingExists' \in BOOLEAN
    <2>1. CASE UNCHANGED <<stagingExists, pc>> /\ \E n \in Held(staging) :
                  staging' = [staging EXCEPT ![n] = Absent]
      BY <1>1, <2>1 DEF GoTo, SerialInv, TypeOK
    <2>2. CASE staging = Empty /\ stagingExists' = FALSE /\ GoTo(r, "done") /\ UNCHANGED staging
      BY <2>2 DEF SerialInv, TypeOK
    <2> QED
      BY <2>1, <2>2 DEF Trap
  <1>3. /\ pc' \in [Runs -> Commands] /\ pc'[r] = next /\ OneActive'
        /\ \A q \in Runs : q # r => pc'[q] = pc[q] /\ pc[q] \in {"start", "done", "stopped", "killed"}
        /\ \A w : EvidenceOf(w)' = EvidenceOf(w)
    BY <1>1, <1>2, RunGoesOn, Alone
  <1>4. TypeOK' /\ Recorded'
    BY <1>1, <1>2, <1>3 DEF SerialInv, TypeOK, Recorded, options
  <1>5. StagingOwned' /\ Moving' /\ WrittenBy'
    BY <1>1, <1>2, <1>3 DEF SerialInv, StagingOwned, Moving, WrittenBy
  <1>6. SettledUnlessTorn'
    BY <1>1, <1>3 DEF SerialInv, SettledUnlessTorn, Settled, Torn
  <1>7. CheckStands' /\ SuccessMeansEvidence'
    BY <1>1, <1>3 DEF SerialInv, CheckStands, SuccessMeansEvidence, options
  <1> QED
    BY <1>3, <1>4, <1>5, <1>6, <1>7 DEF SerialInv

\* Interrupt preserves the serial invariant.
LEMMA InterruptKeeps ==
    ASSUME SerialInv, NEW r \in Active, Interrupt(r) \/ MoveFails(r)
    PROVE  SerialInv'
  <1>1. PICK next : Stops(r, next)
    BY DEF Interrupt, MoveFails, Stops, DieStatus
  <1> QED
    BY <1>1, StopKeeps

\* Every step of a run preserves the serial invariant.
LEMMA StepKeeps ==
    ASSUME MaxActive = 1, SerialInv, NEW r \in Runs, Step(r)
    PROVE  SerialInv'
  <1>1. CASE CheckEnvironment(r)
    BY <1>1, CheckEnvironmentKeeps
  <1>2. CASE ~CheckEnvironment(r)
    <2>1. r \in Active
      BY <1>2 DEF Step, Active, CheckEvidence, ClearStaging, MakeStaging, SetTrap, RunTests,
         RunBenchmark, WriteReport, Decide, PrepareEvidence, RemoveOne, ListStaged, MoveOne,
         MoveFails, Passed, Trap
    <2> QED
      BY <1>2, <2>1, CheckEvidenceKeeps, ClearStagingKeeps, MakeStagingKeeps, RunTestsKeeps,
         RunBenchmarkKeeps, WriteReportKeeps, DecideKeeps, PrepareEvidenceKeeps, RemoveOneKeeps,
         ListStagedKeeps, MoveOneKeeps, PassedKeeps, TrapKeepsInv, InterruptKeeps DEF Step
  <1> QED
    BY <1>1, <1>2

\* Every step preserves the serial invariant while one run at a time is active.
LEMMA SerialNext == MaxActive = 1 /\ SerialInv /\ [Next]_vars => SerialInv'
  <1> SUFFICES ASSUME MaxActive = 1, SerialInv, [Next]_vars PROVE SerialInv'
    OBVIOUS
  <1>1. ASSUME NEW r \in Runs, Step(r) \/ Interrupt(r) \/ Kill(r) PROVE SerialInv'
    BY <1>1, StepKeeps, InterruptKeeps, KillKeeps DEF Interrupt
  <1>2. CASE UNCHANGED vars
    BY <1>2 DEF vars, SerialInv, TypeOK, OneActive, Active, Recorded, StagingOwned, Moving,
       WrittenBy, SettledUnlessTorn, Settled, Torn, EvidenceOf, CheckStands, SuccessMeansEvidence
  <1> QED
    BY <1>1, <1>2 DEF Next, AllEnded

\* What the directories hold at every command of the script, with no two runs
\* under way at once: the inductive invariant of the results below.
THEOREM SerialInvariant ==
    ASSUME MaxActive = 1
    PROVE  Spec => []SerialInv
  BY SerialInit, SerialNext, PTL DEF Spec

\* The two directories.  With the runs of the script one after the other,
\* whatever interrupts, kills or fails them: the one holds the evidence of one
\* run entirely unless one was stopped while removing or moving, and every file
\* in it is from a run that passed its stages; the other is not left behind,
\* but by a run that was killed, or interrupted where no trap removes it.
THEOREM EvidenceIsSound ==
    ASSUME MaxActive = 1
    PROVE  Spec => []EvidenceInv
  <1>1. SerialInv => EvidenceInv
    <2> SUFFICES ASSUME SerialInv PROVE EvidenceInv
      OBVIOUS
    <2>1. EvidenceWhole
      BY DEF SerialInv, SettledUnlessTorn, Settled, EvidenceWhole, Promoting
    <2>2. EvidenceFromPassingRun
      BY DEF SerialInv, WrittenBy, EvidenceFromPassingRun
    <2>3. StagingRemoved
      BY DEF SerialInv, StagingOwned, StagingRemoved, Active, TypeOK, Commands
    <2> QED
      BY <2>1, <2>2, <2>3 DEF SerialInv, EvidenceInv
  <1> QED
    BY SerialInvariant, <1>1, PTL

\* A run that says it passed has left its evidence, all of it and no other.
THEOREM PassedRunsLeaveEvidence ==
    ASSUME MaxActive = 1
    PROVE  Spec => []SuccessMeansEvidence
  <1>1. SerialInv => SuccessMeansEvidence
    BY DEF SerialInv
  <1> QED
    BY SerialInvariant, <1>1, PTL

\* The steps that touch the evidence directory, and when they do.
LEMMA EvidenceReplaced ==
    ASSUME MaxActive = 1, SerialInv, [Next]_vars, NEW n \in Names,
           evidence'[n] # evidence[n], evidence[n] # Absent
    PROVE  \E r \in Promoting : force[r]
  <1>1. PICK r \in Runs : Step(r) \/ Interrupt(r) \/ Kill(r)
    BY DEF Next, AllEnded, vars
  <1>2. RemoveOne(r) \/ MoveOne(r)
    BY <1>1 DEF Step, Interrupt, Kill, CheckEnvironment, CheckEvidence, ClearStaging, MakeStaging,
       SetTrap, RunTests, RunBenchmark, WriteReport, Decide, PrepareEvidence, ListStaged, MoveFails, Passed, Trap, directories
  <1>3. CASE RemoveOne(r)
    <2>1. pc[r] = "remove" /\ n \in Names /\ evidence # Empty
      BY <1>3 DEF RemoveOne, Empty
    <2>2. force[r]
      BY <2>1 DEF SerialInv, CheckStands
    <2> QED
      BY <2>1, <2>2 DEF Promoting
  <1>4. CASE MoveOne(r)
    <2>1. pc[r] = "move" /\ n \in todo[r]
      BY <1>4 DEF MoveOne, SerialInv, TypeOK
    <2>2. evidence[n] = Absent
      BY <2>1 DEF SerialInv, Moving
    <2> QED
      BY <2>2
  <1> QED
    BY <1>2, <1>3, <1>4

\* Evidence that is there is removed or replaced only by a run told --force.
THEOREM EvidenceKeptWithoutForce ==
    ASSUME MaxActive = 1
    PROVE  Spec => KeptWithoutForce
  <1> DEFINE Kept == \A n \in Names :
                        evidence[n] \in {Earlier} \cup {r \in Runs : r \notin Active}
                            /\ evidence'[n] # evidence[n]
                            => \E r \in Promoting : force[r]
  <1>1. SerialInv /\ [Next]_vars => Kept
    <2> SUFFICES ASSUME SerialInv, [Next]_vars, NEW n \in Names,
                        evidence[n] \in {Earlier} \cup {r \in Runs : r \notin Active},
                        evidence'[n] # evidence[n]
                 PROVE  \E r \in Promoting : force[r]
      OBVIOUS
    <2>1. evidence[n] # Absent
      BY WritersAssumption DEF Earlier, Absent
    <2> QED
      BY <2>1, EvidenceReplaced
  <1>2. SerialInv /\ [Next]_vars => [Kept]_vars
    BY <1>1
  <1> QED
    BY SerialInvariant, <1>2, PTL DEF Spec, KeptWithoutForce
=============================================================================
