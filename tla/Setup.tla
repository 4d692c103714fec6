------------------------------- MODULE Setup --------------------------------
(***************************************************************************)
(* scripts/setup_parabix.sh: it clones Parabix, applies the milestone      *)
(* patch to the pinned commit, configures and builds utf16validate.  It is *)
(* run again over whatever an earlier run, a developer or the end of the   *)
(* process in the middle of a command has left.                            *)
(*                                                                         *)
(* An action is one command of the script, or one thing a developer does   *)
(* between runs.  Of a tree of files three things matter: which version of *)
(* the patch is in it, which edits, inside the files of the patch or apart *)
(* from them, and whether a git command was stopped while writing it.      *)
(***************************************************************************)
EXTENDS Integers

CONSTANTS
    Versions,     \* versions of the patch, from 1 on
    MaxSetups,    \* bounds the runs of the script
    MaxChanges    \* bounds what is done between them

ASSUME SetupBoundsAssumption == Versions \in Nat \ {0} /\ MaxSetups \in Nat /\ MaxChanges \in Nat

Edits == {"inside", "apart"}

\* A tree: the patch in it (0: none), the edits, and whether it was torn.
Tree(patch, edits, torn) == [patch |-> patch, edits |-> edits, torn |-> torn]
Clean == Tree(0, {}, FALSE)
Trees == [patch : 0..Versions, edits : SUBSET Edits, torn : BOOLEAN]

NoBinary == [head |-> "none", tree |-> Clean]

VARIABLES
    version,      \* the version of the patch in this repository
    cloned,       \* $PARABIX_DIR/.git is there
    has,          \* the pinned commit is among its objects
    head,         \* what HEAD is: "none", the remote's "tip", "pinned", "own"
    own,          \* the tree of the developer's own commit
    tree,         \* the working tree
    bin,          \* the binary, as what it was built from
    spc,          \* the command the script is about to execute
    result,       \* how the last run of it ended
    setups, changes

checkout == <<cloned, has, head, own, tree>>
setupVars == <<version, checkout, bin, spc, result, setups, changes>>

-----------------------------------------------------------------------------
SetupInit ==
    /\ version = 1
    /\ cloned = FALSE /\ has = FALSE /\ head = "none" /\ own = Clean /\ tree = Clean
    /\ bin = NoBinary
    /\ spc = "idle" /\ result = "none" /\ setups = 0 /\ changes = 0

\* git status --porcelain and git apply --reverse --check.
Committed == IF head = "own" THEN own ELSE Clean
DirtyMutant == tree.edits # {}
DirtyPatchOnlyMutant == tree.patch # 0
Dirty == tree # Committed
PatchReversesMutant == tree.patch = version /\ ~tree.torn
PatchReverses == tree.patch = version /\ "inside" \notin tree.edits /\ ~tree.torn

Goes(next) == spc' = next /\ UNCHANGED result
Ends(how) == spc' = "idle" /\ result' = how

\* The required programs, the patch and LLVM are looked for first.
BeginSetup ==
    /\ spc = "idle" /\ setups < MaxSetups
    /\ setups' = setups + 1
    /\ \/ spc' = "clone" /\ result' = "running"
       \/ Ends("failed")
    /\ UNCHANGED <<version, checkout, bin, changes>>

\* A clone that fails takes away what it has made.
CloneOrReuse ==
    /\ spc = "clone"
    /\ \/ cloned /\ Goes("fetch") /\ UNCHANGED checkout
       \/ /\ ~cloned
          /\ cloned' = TRUE /\ has' \in BOOLEAN /\ head' = "tip" /\ tree' = Clean
          /\ Goes("fetch") /\ UNCHANGED own
       \/ ~cloned /\ Ends("failed") /\ UNCHANGED checkout
    /\ UNCHANGED <<version, bin, setups, changes>>

\* git fetch || true, if the commit is missing; without it the script gives up.
FetchPinned ==
    /\ spc = "fetch"
    /\ has' \in (IF has THEN {TRUE} ELSE BOOLEAN)
    /\ IF has' THEN Goes("inspect") ELSE Ends("failed")
    /\ UNCHANGED <<version, cloned, head, own, tree, bin, setups, changes>>

\* An applied patch is left alone, at the pinned commit; anything else that is
\* not committed is refused; only then is the tree written.
Inspect ==
    /\ spc = "inspect"
    /\ CASE PatchReverses /\ head = "pinned" -> Goes("configure")
         [] PatchReverses /\ head # "pinned" -> Ends("refused")
         [] ~PatchReverses /\ Dirty -> Ends("refused")
         [] ~PatchReverses /\ ~Dirty ->
                Goes(IF head = "pinned" THEN "apply" ELSE "checkout")
    /\ UNCHANGED <<version, checkout, bin, setups, changes>>

CheckoutPinned ==
    /\ spc = "checkout"
    /\ \/ head' = "pinned" /\ tree' = Clean /\ Goes("apply")
       \/ UNCHANGED <<head, tree>> /\ Ends("failed")
    /\ UNCHANGED <<version, cloned, has, own, bin, setups, changes>>

\* git apply --check, then git apply: the patch is made for the pinned tree.
ApplyPatch ==
    /\ spc = "apply"
    /\ IF tree = Clean THEN tree' = Tree(version, {}, FALSE) /\ Goes("configure")
                       ELSE UNCHANGED tree /\ Ends("failed")
    /\ UNCHANGED <<version, cloned, has, head, own, bin, setups, changes>>

Configure ==
    /\ spc = "configure"
    /\ \/ Goes("build")
       \/ Ends("failed")
    /\ UNCHANGED <<version, checkout, bin, setups, changes>>

\* cmake --build: a build that fails leaves the binary of an earlier one.
AfterFailedBuild == Ends("failed")
BuildResult == [head |-> head, tree |-> tree]
Build ==
    /\ spc = "build"
    /\ \/ bin' = BuildResult /\ Goes("verify")
       \/ UNCHANGED bin /\ AfterFailedBuild
    /\ UNCHANGED <<version, checkout, setups, changes>>

\* [ -x "$BIN" ]
VerifyBinary ==
    /\ spc = "verify"
    /\ Ends(IF bin # NoBinary THEN "ok" ELSE "failed")
    /\ UNCHANGED <<version, checkout, bin, setups, changes>>

\* The process ends inside a command, or set -e ends it because one failed half
\* way: a clone with no commits yet or with half
\* a tree, a tree half checked out or half patched, a binary not linked.
StopSetup ==
    /\ spc # "idle"
    /\ Ends("killed")
    /\ \/ UNCHANGED <<checkout, bin>>
       \/ /\ spc = "clone" /\ ~cloned
          /\ cloned' = TRUE /\ UNCHANGED <<own, bin>>
          /\ \/ has' = FALSE /\ UNCHANGED <<head, tree>>
             \/ has' \in BOOLEAN /\ head' = "tip" /\ tree' = Tree(0, {}, TRUE)
       \/ /\ spc \in {"checkout", "apply"}
          /\ tree' = [tree EXCEPT !.torn = TRUE]
          /\ UNCHANGED <<cloned, has, head, own, bin>>
       \/ /\ spc = "build" /\ bin' = NoBinary
          /\ UNCHANGED checkout
    /\ UNCHANGED <<version, setups, changes>>

SetupStep ==
    \/ BeginSetup \/ CloneOrReuse \/ FetchPinned \/ Inspect \/ CheckoutPinned
    \/ ApplyPatch \/ Configure \/ Build \/ VerifyBinary \/ StopSetup

-----------------------------------------------------------------------------
(* Between runs of the script.                                             *)

Change ==
    /\ spc = "idle" /\ changes < MaxChanges
    /\ changes' = changes + 1
    /\ result' = "changed"
    /\ UNCHANGED <<spc, setups>>

\* Work in the checkout, committed or not.
EditTree ==
    /\ Change /\ head # "none"
    /\ \E e \in Edits \ tree.edits : tree' = [tree EXCEPT !.edits = @ \cup {e}]
    /\ UNCHANGED <<version, cloned, has, head, own, bin>>

Commit ==
    /\ Change /\ head # "none" /\ Dirty /\ ~tree.torn
    /\ head' = "own" /\ own' = tree
    /\ UNCHANGED <<version, cloned, has, tree, bin>>

\* The way out of a refusal: clean the checkout, or remove it and the build.
Discard ==
    /\ Change /\ head # "none"
    /\ tree' = Committed
    /\ UNCHANGED <<version, cloned, has, head, own, bin>>

Remove ==
    /\ Change /\ cloned
    /\ cloned' = FALSE /\ has' = FALSE /\ head' = "none"
    /\ own' = Clean /\ tree' = Clean /\ bin' = NoBinary
    /\ UNCHANGED version

\* git pull in this repository brings another patch.
UpdatePatch ==
    /\ Change /\ version < Versions
    /\ version' = version + 1
    /\ UNCHANGED <<checkout, bin>>

\* cmake --build by hand.
BuildByHand ==
    /\ Change /\ head # "none" /\ tree.patch # 0 /\ ~tree.torn
    /\ bin' = BuildResult
    /\ UNCHANGED <<version, checkout>>

ChangeStep ==
    EditTree \/ Commit \/ Discard \/ Remove \/ UpdatePatch \/ BuildByHand

SetupSpec == SetupInit /\ [][SetupStep \/ ChangeStep]_setupVars

-----------------------------------------------------------------------------
SetupTypeOK ==
    /\ version \in 1..Versions
    /\ cloned \in BOOLEAN /\ has \in BOOLEAN
    /\ head \in {"none", "tip", "pinned", "own"}
    /\ own \in Trees /\ tree \in Trees
    /\ bin \in [head : {"none", "tip", "pinned", "own"}, tree : Trees]
    /\ spc \in {"idle", "clone", "fetch", "inspect", "checkout", "apply",
                "configure", "build", "verify"}
    /\ result \in {"none", "running", "ok", "refused", "failed", "killed", "changed"}

\* "one-command reproducible setup": whatever earlier runs and their ends have
\* left, a set-up that succeeds leaves the pinned commit with the patch of this
\* repository, its files as the patch makes them, and a binary built from that
\* tree.
SuccessMeansPinned ==
    result = "ok" =>
        /\ head = "pinned" /\ PatchReverses
        /\ bin = [head |-> "pinned", tree |-> tree]

\* What the script is about to write holds nothing that is not committed, and
\* the patch is only ever applied to the clean pinned tree.
WritesClean ==
    /\ spc \in {"checkout", "apply"} => ~Dirty
    /\ spc = "apply" => head = "pinned" /\ tree = Clean
    /\ spc \in {"configure", "build", "verify"} => head = "pinned" /\ PatchReverses

\* A set-up is refused only for a reason a developer or a kill has given: an
\* edit, a commit, another version of the patch, or a torn tree.  Run again
\* over what a run of its own has left, it is not.
RefusedWithCause ==
    result = "refused" =>
        \/ tree.edits # {} \/ tree.torn
        \/ tree.patch \notin {0, version}
        \/ head = "own"

SetupInv == SetupTypeOK /\ SuccessMeansPinned /\ WritesClean /\ RefusedWithCause

\* "never runs a destructive git reset", "so your work is never destroyed": no
\* step of the script, killed or not, takes an edit out of the working tree
\* unless it is in the developer's commit, loses that commit, or writes a tree
\* that already holds the patch at the pinned commit.
WorkKept ==
    [][SetupStep =>
        /\ \A e \in tree.edits : e \in tree'.edits \/ (head = "own" /\ e \in own.edits)
        /\ own' = own
        /\ head = "pinned" /\ PatchReverses => UNCHANGED <<head, tree>>]_setupVars
=============================================================================
