-------------------------- MODULE DatasetWorkflow --------------------------
(***************************************************************************)
(* scripts/generate_error_density_datasets.py: what main() does to the     *)
(* directory of datasets and its manifest, over several runs that select   *)
(* different datasets and may fail, be interrupted or be killed anywhere.  *)
(* How one dataset is made is module ErrorDensity.                         *)
(*                                                                         *)
(* A cell is a size and a density; it has a file for each encoding.  Of a  *)
(* file there matter how many code units it has, how many errors the three *)
(* validators report of it (an odd last byte is one), and the seed that it *)
(* was made with.  Runs do not overlap, and nobody else touches the        *)
(* directory during a run.                                                 *)
(***************************************************************************)
EXTENDS Integers, FiniteSets, Sequences

CONSTANTS
    Sizes,      \* in code units
    Densities,  \* in whole per cent of the code units
    Lengths,    \* bounds how long a file is after an edit by hand
    Seeds,
    None,       \* no file, no row, nothing built
    MaxRuns,    \* bounds the invocations
    MaxTouches  \* bounds how often a file is edited or deleted by hand

ASSUME CellsAssumption ==
    /\ Sizes \subseteq Nat /\ Densities \subseteq 0..100
    /\ IsFiniteSet(Sizes \X Densities) /\ Sizes \X Densities # {}
ASSUME LengthsAssumption == Lengths \subseteq Nat

Cells == Sizes \X Densities
Encodings == {"utf16le", "utf16be"}
Datasets == Cells \X Encodings

\* What is in a file; a row of the manifest says the same of it.
Contents == [units : Nat, errors : Nat, seed : Seeds]

ASSUME NoneAssumption == None \notin Seeds /\ None \notin Contents

VARIABLES
    disk,       \* the file under each dataset's name
    manifest,   \* each dataset's row of manifest.csv
    temp,       \* the temporary file of the run that is active, or was killed
    last,       \* what happened to the directory last
    runs, touches,
    pc, run,    \* the active run and its arguments
    at,         \* the dataset it is at
    built,      \* the stream and the target made for the current cell
    rows,       \* the rows of the manifest so far
    owed,       \* what a run that did not complete may have left without a row
    edited      \* files changed by hand and not generated since

files == <<disk, manifest, temp, last>>
bounds == <<runs, touches>>
memory == <<at, built, rows>>
local == <<run, memory>>
ghosts == <<owed, edited>>
vars == <<files, bounds, pc, local, ghosts>>

NoRows == [d \in Datasets |-> None]
Present == {d \in Datasets : disk[d] # None}
Listed == {d \in Datasets : manifest[d] # None}

\* Orders in which some of S may be given on the command line.
Orders(S) ==
    UNION {{s \in [1..n -> S] : \A i, j \in 1..n : s[i] = s[j] => i = j}
               : n \in 1..Cardinality(S)}
SeqSet(s) == {s[i] : i \in DOMAIN s}
Selected == SeqSet(run.cells) \X SeqSet(run.encodings)

Cell == run.cells[at[1]]
Current == <<Cell, run.encodings[at[2]]>>

NoRun == [seed |-> None, overwrite |-> FALSE, cells |-> <<>>, encodings |-> <<>>]

Init ==
    /\ disk = [d \in Datasets |-> None] /\ manifest = NoRows
    /\ temp = None /\ last = "none"
    /\ runs = 0 /\ touches = 0
    /\ pc = "idle" /\ run = NoRun /\ at = <<1, 1>>
    /\ built = None /\ rows = NoRows
    /\ owed = {} /\ edited = {}

Start ==
    /\ pc = "idle" /\ runs < MaxRuns
    /\ run' \in [seed : Seeds, overwrite : BOOLEAN,
                 cells : Orders(Cells), encodings : Orders(Encodings)]
    /\ pc' = "dataset" /\ last' = "running" /\ temp' = None
    /\ runs' = runs + 1
    /\ UNCHANGED <<disk, manifest, touches, memory, ghosts>>

MemoryGone == at' = <<1, 1>> /\ built' = None /\ rows' = NoRows

-----------------------------------------------------------------------------
\* Half an error more is one.
TargetErrorCount(units, density) == (2 * units * density + 100) \div 200

\* The stream is built once for a cell, for all its encodings.
BuiltAfterMutant(sameCell) == built
BuiltAfter(sameCell) == IF sameCell THEN built ELSE None

\* A row is made for the dataset at hand, and the loops go on.
AddRow(data, errors) ==
    rows' = [rows EXCEPT ![Current] =
                [units |-> data.units, errors |-> errors, seed |-> run.seed]]

Advance ==
    LET sameCell == at[2] < Len(run.encodings)
    IN  /\ at' = IF sameCell THEN <<at[1], at[2] + 1>> ELSE <<at[1] + 1, 1>>
        /\ built' = BuiltAfter(sameCell)
        /\ pc' = IF sameCell \/ at[1] < Len(run.cells) THEN "dataset" ELSE "merge"

KeptMutant == disk[Current] # None
Kept == disk[Current] # None /\ ~run.overwrite

\* An existing file is verified again, against the target of its own length:
\* that it is as long as its name says is not asked.
Expected(data) == TargetErrorCount(data.units, Cell[2])

KeepExisting ==
    /\ pc = "dataset" /\ Kept
    /\ disk[Current].errors = Expected(disk[Current])
    /\ AddRow(disk[Current], disk[Current].errors)
    /\ Advance
    /\ UNCHANGED <<files, bounds, run, ghosts>>

\* build_dataset.  That it reaches its target is not taken for granted here.
Build ==
    /\ pc = "dataset" /\ ~Kept /\ built = None
    /\ \E errors \in 0..Cell[1] :
          built' = [data |-> [units |-> Cell[1], errors |-> errors, seed |-> run.seed],
                    target |-> TargetErrorCount(Cell[1], Cell[2])]
    /\ UNCHANGED <<files, bounds, pc, run, at, rows, ghosts>>

\* mkstemp makes an empty file before the try begins that removes it.
MakeTemp ==
    /\ pc = "dataset" /\ ~Kept /\ built # None
    /\ temp' = [units |-> 0, errors |-> 0, seed |-> run.seed]
    /\ pc' = "try"
    /\ UNCHANGED <<disk, manifest, last, bounds, local, ghosts>>

WriteTemp ==
    /\ pc = "try"
    /\ temp' = built.data
    /\ pc' = "verify"
    /\ UNCHANGED <<disk, manifest, last, bounds, local, ghosts>>

\* The target verified against is the one that came with the units.
Replace ==
    /\ pc = "verify" /\ temp.errors = built.target
    /\ disk' = [disk EXCEPT ![Current] = temp]
    /\ temp' = None
    /\ edited' = edited \ {Current}
    /\ AddRow(built.data, built.target)
    /\ Advance
    /\ UNCHANGED <<manifest, last, bounds, run, owed>>

-----------------------------------------------------------------------------
\* Rows of other datasets stay, if their file is still there.
MergedMutant(old) == rows
Merged(old) ==
    [d \in Datasets |-> IF rows[d] # None THEN rows[d]
                        ELSE IF d \in Present THEN old[d] ELSE None]

\* The old manifest is read, then truncated by opening it for writing.
MergeManifest ==
    /\ pc = "merge"
    /\ rows' = Merged(manifest)
    /\ manifest' = NoRows
    /\ pc' = "write"
    /\ UNCHANGED <<disk, temp, last, bounds, run, at, built, ghosts>>

WriteManifest ==
    /\ pc = "write"
    /\ manifest' = rows
    /\ last' = "ok" /\ pc' = "idle"
    /\ owed' = owed \ Selected
    /\ MemoryGone
    /\ UNCHANGED <<disk, temp, bounds, run, edited>>

-----------------------------------------------------------------------------
\* However a run stops early, its rows are lost; while it writes them, only
\* some reach the manifest.  A row cut short counts as lost.
StopsEarly ==
    /\ pc # "idle" /\ pc' = "idle" /\ MemoryGone
    /\ IF pc = "write"
       THEN /\ \E written \in SUBSET Datasets :
                  manifest' = [d \in Datasets |-> IF d \in written THEN rows[d] ELSE None]
            /\ owed' = Datasets
       ELSE UNCHANGED manifest /\ owed' = owed \cup Selected
    /\ UNCHANGED <<disk, bounds, run, edited>>

\* A dataset that disagrees, a validator that fails, an interruption: the
\* exception passes the finally clause that removes the temporary file.
Fails == pc # "try" /\ StopsEarly /\ temp' = None /\ last' = "failed"

\* An interruption between mkstemp and the try, or in its finally clause.
Interrupted ==
    /\ pc \in {"try", "verify"}
    /\ StopsEarly /\ last' = "interrupted" /\ UNCHANGED temp

Killed == StopsEarly /\ last' = "killed" /\ UNCHANGED temp

\* Between runs files are deleted, or edited to any length and any errors.
Edited(data, n, errors) == [data EXCEPT !.units = n, !.errors = errors]
Touch ==
    /\ pc = "idle" /\ touches < MaxTouches
    /\ \E d \in Present :
          \/ disk' = [disk EXCEPT ![d] = None] /\ edited' = edited \ {d}
          \/ \E n \in Lengths : \E errors \in 0..n+1 :
                /\ disk' = [disk EXCEPT ![d] = Edited(disk[d], n, errors)]
                /\ edited' = edited \cup {d}
    /\ touches' = touches + 1 /\ last' = "touched"
    /\ UNCHANGED <<manifest, temp, runs, pc, local, owed>>

Step ==
    \/ Start \/ KeepExisting \/ Build \/ MakeTemp \/ WriteTemp \/ Replace
    \/ MergeManifest \/ WriteManifest \/ Fails \/ Interrupted \/ Killed \/ Touch

\* The directory is left as it is.
Rest == pc = "idle" /\ UNCHANGED vars

Next == Step \/ Rest

Spec == Init /\ [][Next]_vars
-----------------------------------------------------------------------------
TypeOK ==
    /\ disk \in [Datasets -> Contents \cup {None}]
    /\ manifest \in [Datasets -> Contents \cup {None}]
    /\ rows \in [Datasets -> Contents \cup {None}]
    /\ temp \in Contents \cup {None}
    /\ built # None => built \in [data : Contents, target : Nat]
    /\ last \in {"none", "running", "ok", "failed", "interrupted", "killed", "touched"}
    /\ pc \in {"idle", "dataset", "try", "verify", "merge", "write"}
    /\ owed \subseteq Datasets /\ edited \subseteq Present

\* The file has the length and the errors that the dataset's name promises.
AsNamed(d) ==
    /\ disk[d].units = d[1][1]
    /\ disk[d].errors = TargetErrorCount(d[1][1], d[1][2])

\* "a failing dataset is never left behind": whatever stops a run, a file
\* under a dataset's name that was not edited since is that dataset.
VerifiedOnDisk == \A d \in Present \ edited : AsNamed(d)

\* After a run that completed, all it selected is there and has the errors
\* that its density asks of its length.
SelectedVerified ==
    last = "ok" =>
        \A d \in Selected :
            d \in Present /\ disk[d].errors = TargetErrorCount(disk[d].units, d[1][2])

\* A run that completes or fails removes its temporary file: one that is left
\* comes from a kill, or from an interruption where nothing removes it.
TempRemoved == pc = "idle" /\ temp # None => last \in {"interrupted", "killed", "touched"}

DatasetsInv == TypeOK /\ VerifiedOnDisk /\ SelectedVerified /\ TempRemoved

\* The row tells the length and the errors of the file it names.
RowTells(d) == manifest[d].units = disk[d].units /\ manifest[d].errors = disk[d].errors

\* "A narrow run keeps the rows of datasets still on disk": a file without a
\* row is one that a run left behind when it stopped, and no run has selected
\* since.  A row tells what is in its file, unless the file was edited, or a
\* run that stopped owes it a row; after a run that completed every row has a
\* file, and those of all it selected tell what is in theirs.
ManifestDescribes ==
    pc = "idle" =>
        /\ Present \subseteq Listed \cup owed
        /\ \A d \in (Present \cap Listed) \ (edited \cup owed) : RowTells(d)
        /\ last = "ok" => /\ Listed \subseteq Present
                          /\ \A d \in Selected : d \in Listed /\ RowTells(d)

\* "The LE and BE files of a pair hold the same code units": a run that
\* regenerates both leaves them so, made with the seed their rows tell.
PairsAgree ==
    last = "ok" /\ run.overwrite =>
        \A d \in Selected :
            /\ manifest[d].seed = disk[d].seed
            /\ \A e \in Selected : d[1] = e[1] => disk[d] = disk[e]
=============================================================================
