-------------------------- MODULE GeneratorProofs --------------------------
(***************************************************************************)
(* The generator of the error-density datasets, in two parts that share no *)
(* name: what lies under the name of a dataset, whatever stops which run   *)
(* (DatasetWorkflow), and how a stream gets its errors (ErrorDensity).     *)
(***************************************************************************)
EXTENDS DatasetWorkflow, ErrorDensity, FiniteSetTheorems, TLAPS

-----------------------------------------------------------------------------
(* Part 1: the datasets.  Whatever was selected, in any number of runs     *)
(* over any set of cells and seeds: what lies under the name of a dataset  *)
(* has been verified, a completed run vouches for all that it selected,    *)
(* and the manifest describes the files.                                   *)

\* The file of dataset d is there, with the errors its density asks of its
\* length; at the end of a run this is so of every dataset selected.
Right(d) == d \in Present /\ disk[d].errors = TargetErrorCount(disk[d].units, d[1][2])
SelectedRight == \A d \in Selected : Right(d)

\* What the command line may have asked of the run.
RunType ==
    /\ run.cells \in Seq(Cells) /\ Len(run.cells) >= 1
    /\ run.encodings \in Seq(Encodings) /\ Len(run.encodings) >= 1
    /\ run.seed \in Seeds

\* The loops are within their sequences, and have left right datasets behind.
Passed(i, j) == i < at[1] \/ (i = at[1] /\ j < at[2])
AtInRange == at \in (1..Len(run.cells)) \X (1..Len(run.encodings))
PassedRight ==
    \A i \in 1..Len(run.cells), j \in 1..Len(run.encodings) :
        Passed(i, j) => Right(<<run.cells[i], run.encodings[j]>>)

\* What has been built is as long as the cell asks, and so is its target.
BuiltFor ==
    built.data.units = Cell[1] /\ built.target = TargetErrorCount(Cell[1], Cell[2])

RunInv ==
    /\ pc = "idle" => at = <<1, 1>> /\ built = None /\ rows = NoRows
    /\ pc # "idle" => RunType /\ last = "running"
    /\ pc \in {"dataset", "try", "verify"} =>
          AtInRange /\ PassedRight /\ (built # None => BuiltFor)
    /\ pc \in {"try", "verify"} => built # None
    /\ pc = "verify" => temp = built.data
    /\ pc \in {"dataset", "merge", "write"} => temp = None
    /\ pc \in {"merge", "write"} => SelectedRight

\* The inductive invariant of the datasets.
IInv == DatasetsInv /\ RunInv

-----------------------------------------------------------------------------
\* What may be given on the command line is a sequence that is not empty.
LEMMA OrdersAreSequences ==
    ASSUME NEW S, NEW s \in Orders(S)
    PROVE  s \in Seq(S) /\ Len(s) >= 1
<1>1. PICK n \in 1..Cardinality(S) : s \in [1..n -> S]
  BY DEF Orders
<1>2. n \in Nat /\ n >= 1
  BY <1>1
<1>3. s \in Seq(S) /\ Len(s) = n
  BY <1>1, <1>2
<1>4. QED  BY <1>2, <1>3

\* The dataset a run is at is one of those it selected.
LEMMA CurrentIsDataset ==
    ASSUME RunType, AtInRange
    PROVE  Cell \in Cells /\ Current \in Datasets /\ Current[1] = Cell
<1>1. run.cells[at[1]] \in Cells /\ run.encodings[at[2]] \in Encodings
  BY DEF RunType, AtInRange
<1>2. QED  BY <1>1 DEF Cell, Current, Datasets

\* When the dataset at hand is right and no other became wrong, the loops may
\* go on: to the next encoding, to the next cell, or to the manifest.
LEMMA AdvancePasses ==
    ASSUME RunType, AtInRange, PassedRight, Advance, UNCHANGED run,
           \A d \in Datasets : Right(d) \/ d = Current => Right(d)'
    PROVE  /\ pc' \in {"dataset", "merge"}
           /\ pc' = "dataset" =>
                 AtInRange' /\ PassedRight' /\ (built' # None => built' = built /\ Cell' = Cell)
           /\ pc' = "merge" => SelectedRight'
<1> DEFINE n == Len(run.cells)
           k == Len(run.encodings)
<1>1. n \in Nat /\ k \in Nat /\ at[1] \in 1..n /\ at[2] \in 1..k /\ n' = n /\ k' = k
  BY DEF RunType, AtInRange
<1>2. \A i \in 1..n, j \in 1..k : <<run.cells[i], run.encodings[j]>> \in Datasets
  BY DEF RunType, Datasets
<1>3. \A i \in 1..n, j \in 1..k :
         Passed(i, j) \/ (i = at[1] /\ j = at[2]) => Right(<<run.cells[i], run.encodings[j]>>)'
  BY <1>1, <1>2 DEF PassedRight, Current, Cell
<1>4. CASE at[2] < k
  <2>1. at' = <<at[1], at[2] + 1>> /\ pc' = "dataset"
    BY <1>4 DEF Advance
  <2>2. AtInRange' /\ Cell' = Cell
    BY <1>1, <1>4, <2>1 DEF AtInRange, Cell
  <2>3. \A i \in 1..n, j \in 1..k : Passed(i, j)' => Passed(i, j) \/ (i = at[1] /\ j = at[2])
    BY <1>1, <2>1 DEF Passed
  <2>4. PassedRight'
    BY <1>3, <2>3 DEF PassedRight
  <2>5. built' = built
    BY <1>4 DEF Advance, BuiltAfter
  <2>6. QED  BY <2>1, <2>2, <2>4, <2>5
<1>5. CASE ~(at[2] < k)
  <2>1. at' = <<at[1] + 1, 1>> /\ built' = None
    BY <1>5 DEF Advance, BuiltAfter
  <2>2. at[2] = k
    BY <1>1, <1>5
  <2>3. \A i \in 1..n, j \in 1..k : Passed(i, j)' => Passed(i, j) \/ (i = at[1] /\ j = at[2])
    BY <1>1, <2>1, <2>2 DEF Passed
  <2>4. PassedRight'
    BY <1>3, <2>3 DEF PassedRight
  <2>5. CASE at[1] < n
    <3>1. pc' = "dataset"
      BY <1>5, <2>5 DEF Advance
    <3>2. AtInRange'
      BY <1>1, <2>1, <2>5 DEF AtInRange, RunType
    <3>3. QED  BY <2>1, <2>4, <3>1, <3>2
  <2>6. CASE ~(at[1] < n)
    <3>1. pc' = "merge"
      BY <1>5, <2>6 DEF Advance
    <3>2. \A i \in 1..n, j \in 1..k : Passed(i, j)'
      BY <1>1, <2>1, <2>6 DEF Passed
    <3>3. \A i \in 1..n, j \in 1..k : Right(<<run.cells[i], run.encodings[j]>>)'
      BY <1>1, <2>4, <3>2 DEF PassedRight
    <3>4. SelectedRight'
      BY <1>1, <3>3 DEF SelectedRight, Selected, SeqSet, RunType
    <3>5. QED  BY <3>1, <3>4
  <2>7. QED  BY <2>5, <2>6
<1>6. QED  BY <1>4, <1>5

\* What was built is kept or forgotten.
LEMMA AdvanceTypes ==
    ASSUME Advance
    PROVE  built' # None => built' = built
  BY DEF Advance, BuiltAfter

\* A row is added for the dataset at hand; the others stay.
LEMMA RowAdded ==
    ASSUME NEW data \in Contents, NEW errors \in Nat,
           rows \in [Datasets -> Contents \cup {None}], Current \in Datasets, run.seed \in Seeds
    PROVE  LET added == [rows EXCEPT ![Current] =
                           [units |-> data.units, errors |-> errors, seed |-> run.seed]]
           IN  /\ added \in [Datasets -> Contents \cup {None}]
               /\ added[Current] \in Contents /\ added[Current] # None
               /\ added[Current].units = data.units /\ added[Current].errors = errors
               /\ added[Current].seed = run.seed
               /\ \A d \in Datasets : d # Current => added[d] = rows[d]
<1>1. [units |-> data.units, errors |-> errors, seed |-> run.seed] \in Contents
  BY DEF Contents
<1>2. [units |-> data.units, errors |-> errors, seed |-> run.seed] # None
  BY <1>1, NoneAssumption
<1>3. QED  BY <1>1, <1>2

\* A target is a number.
LEMMA TargetIsNat ==
    ASSUME NEW c \in Cells
    PROVE  c[1] \in Nat /\ TargetErrorCount(c[1], c[2]) \in Nat
<1>1. c[1] \in Nat /\ c[2] \in Nat
  <2>1. c[1] \in Sizes /\ c[2] \in Densities
    BY DEF Cells
  <2>2. c[1] \in Nat /\ c[2] \in 0..100
    BY <2>1, CellsAssumption
  <2>3. QED  BY <2>2
<1>2. c[1] * c[2] \in Nat
  BY <1>1
<1> DEFINE x == c[1] * c[2]
<1>3. 2 * c[1] * c[2] = 2 * x
  BY <1>1
<1>4. TargetErrorCount(c[1], c[2]) = (2 * x + 100) \div 200
  BY <1>3 DEF TargetErrorCount
<1> HIDE DEF x
<1>5. x \in Nat
  BY <1>2 DEF x
<1>6. (2 * x + 100) \div 200 \in Nat
  BY <1>5
<1>7. QED  BY <1>1, <1>4, <1>6

-----------------------------------------------------------------------------
\* The initial states satisfy the workflow's inductive invariant.
LEMMA InitIInv == Init => IInv
<1> SUFFICES ASSUME Init PROVE IInv
  OBVIOUS
<1> USE DEF Init
<1>1. Present = {}
  BY DEF Present
<1>2. TypeOK
  BY <1>1 DEF TypeOK, NoRows
<1>3. QED
  BY <1>1, <1>2 DEF IInv, DatasetsInv, RunInv, VerifiedOnDisk, SelectedVerified, TempRemoved

\* Start preserves the workflow's inductive invariant.
LEMMA StartIInv ==
    ASSUME IInv, Start
    PROVE  IInv'
<1> USE DEF IInv, DatasetsInv, Start, memory, ghosts
<1>1. Present' = Present
  BY DEF Present
<1>2. TypeOK'
  BY <1>1 DEF TypeOK
<1>3. VerifiedOnDisk'
  BY <1>1 DEF VerifiedOnDisk, AsNamed
<1>4. SelectedVerified' /\ TempRemoved'
  BY DEF SelectedVerified, TempRemoved
<1>5. run'.cells \in Orders(Cells) /\ run'.encodings \in Orders(Encodings) /\ run'.seed \in Seeds
  OBVIOUS
<1>6. RunType'
  BY <1>5, OrdersAreSequences DEF RunType
<1>7. at' = <<1, 1>> /\ built' = None /\ temp' = None
  BY DEF RunInv
<1>8. AtInRange'
  BY <1>6, <1>7 DEF AtInRange, RunType
<1>9. PassedRight'
  BY <1>6, <1>7 DEF PassedRight, Passed, RunType
<1>10. RunInv'
  BY <1>6, <1>7, <1>8, <1>9 DEF RunInv
<1>11. QED  BY <1>2, <1>3, <1>4, <1>10

\* KeepExisting preserves the workflow's inductive invariant.
LEMMA KeepExistingIInv ==
    ASSUME IInv, KeepExisting
    PROVE  IInv'
<1> USE DEF IInv, DatasetsInv, KeepExisting, files, ghosts, bounds
<1>1. RunType /\ AtInRange /\ PassedRight /\ last = "running" /\ temp = None
  BY DEF RunInv
<1>2. Current \in Datasets /\ Current[1] = Cell
  BY <1>1, CurrentIsDataset
<1>3. Present' = Present /\ disk' = disk /\ edited' = edited /\ last' = last /\ temp' = temp
  BY DEF Present
<1>4. \A d \in Datasets : Right(d) \/ d = Current => Right(d)'
  BY <1>2, <1>3 DEF Right, Kept, Present, Expected
<1>5. /\ pc' \in {"dataset", "merge"}
      /\ pc' = "dataset" =>
            AtInRange' /\ PassedRight' /\ (built' # None => built' = built /\ Cell' = Cell)
      /\ pc' = "merge" => SelectedRight'
  BY <1>1, <1>4, AdvancePasses
<1>6. TypeOK'
  <2>1. disk[Current] \in Contents
    BY <1>2 DEF Kept, TypeOK
  <2>2. disk[Current].errors \in Nat /\ run.seed \in Seeds
    BY <1>1, <2>1 DEF Contents, RunType
  <2>3. rows' \in [Datasets -> Contents \cup {None}]
    BY <1>2, <2>1, <2>2, RowAdded DEF AddRow, TypeOK
  <2>4. QED  BY <1>3, <1>5, <2>3, AdvanceTypes DEF TypeOK
<1>7. VerifiedOnDisk' /\ SelectedVerified' /\ TempRemoved'
  BY <1>1, <1>3, <1>5 DEF VerifiedOnDisk, SelectedVerified, TempRemoved, AsNamed
<1>8. RunInv'
  BY <1>1, <1>3, <1>5 DEF RunInv, RunType, BuiltFor
<1>9. QED  BY <1>6, <1>7, <1>8

\* Build preserves the workflow's inductive invariant.
LEMMA BuildIInv ==
    ASSUME IInv, Build
    PROVE  IInv'
<1> USE DEF IInv, DatasetsInv, Build, files, ghosts, bounds
<1>1. RunType /\ AtInRange /\ PassedRight /\ last = "running" /\ temp = None
  BY DEF RunInv
<1>2. Cell \in Cells /\ run.seed \in Seeds
  BY <1>1, CurrentIsDataset DEF RunType
<1>3. Present' = Present /\ Cell' = Cell
  BY DEF Present, Cell
<1>4. built' \in [data : Contents, target : Nat] /\ BuiltFor'
  BY <1>2, <1>3, TargetIsNat DEF Contents, BuiltFor
<1>5. TypeOK'
  BY <1>3, <1>4 DEF TypeOK
<1>6. VerifiedOnDisk' /\ SelectedVerified' /\ TempRemoved'
  BY <1>1, <1>3 DEF VerifiedOnDisk, SelectedVerified, TempRemoved, AsNamed
<1>7. AtInRange' /\ PassedRight' /\ RunType'
  BY <1>1, <1>3 DEF AtInRange, PassedRight, RunType, Passed, Right
<1>8. RunInv'
  BY <1>1, <1>3, <1>4, <1>7 DEF RunInv
<1>9. QED  BY <1>5, <1>6, <1>8

\* MakeTemp preserves the workflow's inductive invariant.
LEMMA MakeTempIInv ==
    ASSUME IInv, MakeTemp
    PROVE  IInv'
<1> USE DEF IInv, DatasetsInv, MakeTemp, ghosts, bounds, local, memory
<1>1. RunType /\ AtInRange /\ PassedRight /\ last = "running" /\ BuiltFor
  BY DEF RunInv
<1>2. Present' = Present /\ Cell' = Cell
  BY DEF Present, Cell
<1>3. TypeOK'
  <2>1. temp' \in Contents
    BY <1>1 DEF Contents, RunType
  <2>2. QED  BY <1>2, <2>1 DEF TypeOK
<1>4. VerifiedOnDisk' /\ SelectedVerified' /\ TempRemoved'
  BY <1>1, <1>2 DEF VerifiedOnDisk, SelectedVerified, TempRemoved, AsNamed
<1>5. AtInRange' /\ PassedRight' /\ RunType' /\ BuiltFor'
  BY <1>1, <1>2 DEF AtInRange, PassedRight, RunType, Passed, Right, BuiltFor
<1>6. RunInv'
  BY <1>1, <1>2, <1>5 DEF RunInv
<1>7. QED  BY <1>3, <1>4, <1>6

\* WriteTemp preserves the workflow's inductive invariant.
LEMMA WriteTempIInv ==
    ASSUME IInv, WriteTemp
    PROVE  IInv'
<1> USE DEF IInv, DatasetsInv, WriteTemp, ghosts, bounds, local, memory
<1>1. RunType /\ AtInRange /\ PassedRight /\ last = "running" /\ built # None /\ BuiltFor
  BY DEF RunInv
<1>2. Present' = Present /\ Cell' = Cell
  BY DEF Present, Cell
<1>3. TypeOK'
  BY <1>1, <1>2 DEF TypeOK
<1>4. VerifiedOnDisk' /\ SelectedVerified' /\ TempRemoved'
  BY <1>1, <1>2 DEF VerifiedOnDisk, SelectedVerified, TempRemoved, AsNamed
<1>5. AtInRange' /\ PassedRight' /\ RunType' /\ BuiltFor'
  BY <1>1, <1>2 DEF AtInRange, PassedRight, RunType, Passed, Right, BuiltFor
<1>6. RunInv'
  BY <1>1, <1>2, <1>5 DEF RunInv
<1>7. QED  BY <1>3, <1>4, <1>6

\* Replace preserves the workflow's inductive invariant.
LEMMA ReplaceIInv ==
    ASSUME IInv, Replace
    PROVE  IInv'
<1> USE DEF IInv, DatasetsInv, Replace, bounds
<1>1. RunType /\ AtInRange /\ PassedRight /\ last = "running"
  BY DEF RunInv
<1>2. Current \in Datasets /\ Current[1] = Cell
  BY <1>1, CurrentIsDataset
<1>3. /\ temp \in Contents /\ temp # None /\ temp = built.data /\ built.target \in Nat
      /\ temp.units = Cell[1] /\ temp.errors = TargetErrorCount(Cell[1], Cell[2])
  BY NoneAssumption DEF RunInv, TypeOK, BuiltFor
<1>4. /\ disk'[Current] = temp
      /\ \A d \in Datasets : d # Current => disk'[d] = disk[d]
  BY <1>2 DEF TypeOK
<1>5. Present' = Present \cup {Current}
  BY <1>2, <1>3, <1>4 DEF Present
<1>6. \A d \in Datasets : Right(d) \/ d = Current => Right(d)'
  BY <1>2, <1>3, <1>4, <1>5 DEF Right
<1>7. /\ pc' \in {"dataset", "merge"}
      /\ pc' = "dataset" =>
            AtInRange' /\ PassedRight' /\ (built' # None => built' = built /\ Cell' = Cell)
      /\ pc' = "merge" => SelectedRight'
  BY <1>1, <1>6, AdvancePasses
<1>8. TypeOK'
  <2>1. disk' \in [Datasets -> Contents \cup {None}]
    BY <1>3 DEF TypeOK
  <2>2. edited' \subseteq Present'
    BY <1>5 DEF TypeOK
  <2>3. rows' \in [Datasets -> Contents \cup {None}]
    BY <1>1, <1>2, <1>3, RowAdded DEF AddRow, TypeOK, RunType
  <2>4. QED  BY <1>1, <1>7, <2>1, <2>2, <2>3, AdvanceTypes DEF TypeOK
<1>9. VerifiedOnDisk'
  BY <1>2, <1>3, <1>4, <1>5 DEF VerifiedOnDisk, AsNamed, Present
<1>10. SelectedVerified' /\ TempRemoved'
  BY <1>1, <1>7 DEF SelectedVerified, TempRemoved
<1>11. RunInv'
  <2>1. built' # None => BuiltFor'
    <3>1. pc = "verify" /\ built # None /\ BuiltFor
      BY DEF RunInv
    <3>2. QED  BY <1>7, <3>1, AdvanceTypes DEF BuiltFor, Advance, BuiltAfter, Cell
  <2>2. QED  BY <1>1, <1>7, <2>1 DEF RunInv, RunType
<1>12. QED  BY <1>8, <1>9, <1>10, <1>11

\* MergeManifest preserves the workflow's inductive invariant.
LEMMA MergeManifestIInv ==
    ASSUME IInv, MergeManifest
    PROVE  IInv'
<1> USE DEF IInv, DatasetsInv, MergeManifest, bounds, ghosts
<1>1. RunType /\ SelectedRight /\ last = "running" /\ temp = None
  BY DEF RunInv
<1>2. Present' = Present
  BY DEF Present
<1>3. TypeOK'
  BY <1>2 DEF TypeOK, Merged, NoRows
<1>4. VerifiedOnDisk' /\ SelectedVerified' /\ TempRemoved'
  BY <1>1, <1>2 DEF VerifiedOnDisk, SelectedVerified, TempRemoved, AsNamed
<1>5. RunType' /\ SelectedRight'
  BY <1>1, <1>2 DEF RunType, SelectedRight, Selected, SeqSet, Right
<1>6. RunInv'
  BY <1>1, <1>5 DEF RunInv
<1>7. QED  BY <1>3, <1>4, <1>6

\* WriteManifest preserves the workflow's inductive invariant.
LEMMA WriteManifestIInv ==
    ASSUME IInv, WriteManifest
    PROVE  IInv'
<1> USE DEF IInv, DatasetsInv, WriteManifest, MemoryGone, bounds
<1>1. SelectedRight /\ temp = None
  BY DEF RunInv
<1>2. Present' = Present /\ Selected' = Selected
  BY DEF Present, Selected
<1>3. TypeOK'
  BY <1>2 DEF TypeOK, NoRows
<1>4. VerifiedOnDisk' /\ TempRemoved'
  BY <1>1, <1>2 DEF VerifiedOnDisk, TempRemoved, AsNamed
<1>5. SelectedVerified'
  BY <1>1, <1>2 DEF SelectedVerified, SelectedRight, Right
<1>6. RunInv'
  BY <1>1 DEF RunInv
<1>7. QED  BY <1>3, <1>4, <1>5, <1>6

\* A run that stops early changes no dataset.
LEMMA StopsEarlyIInv ==
    ASSUME IInv, StopsEarly,
           \/ temp' = None /\ last' = "failed"
           \/ temp' = temp /\ last' \in {"interrupted", "killed"}
    PROVE  IInv'
<1> USE DEF IInv, DatasetsInv, StopsEarly, MemoryGone, bounds
<1>1. RunType
  BY DEF RunInv
<1>2. Present' = Present
  BY DEF Present
<1>3. manifest' \in [Datasets -> Contents \cup {None}]
  BY DEF TypeOK
<1>4. owed' \subseteq Datasets
  <2>1. Selected \subseteq Datasets
    BY <1>1 DEF RunType, Selected, SeqSet, Datasets
  <2>2. QED  BY <2>1 DEF TypeOK
<1>5. TypeOK'
  BY <1>2, <1>3, <1>4 DEF TypeOK, NoRows
<1>6. VerifiedOnDisk' /\ SelectedVerified' /\ TempRemoved'
  BY <1>2 DEF VerifiedOnDisk, SelectedVerified, TempRemoved, AsNamed
<1>7. RunInv'
  BY DEF RunInv
<1>8. QED  BY <1>5, <1>6, <1>7

\* Touch preserves the workflow's inductive invariant.
LEMMA TouchIInv ==
    ASSUME IInv, Touch
    PROVE  IInv'
<1> USE DEF IInv, DatasetsInv, Touch, local, memory
<1>1. PICK d \in Present :
         \/ disk' = [disk EXCEPT ![d] = None] /\ edited' = edited \ {d}
         \/ \E n \in Lengths : \E errors \in 0..n+1 :
               /\ disk' = [disk EXCEPT ![d] = Edited(disk[d], n, errors)]
               /\ edited' = edited \cup {d}
  OBVIOUS
<1>2. d \in Datasets /\ disk[d] \in Contents
  BY DEF Present, TypeOK
<1>3. \A e \in Datasets : e # d => disk'[e] = disk[e]
  BY <1>1 DEF TypeOK
<1>4. disk' \in [Datasets -> Contents \cup {None}]
      /\ edited' \subseteq Present' /\ Present' \ edited' \subseteq Present \ edited
      /\ d \notin Present' \ edited'
  <2>1. CASE disk' = [disk EXCEPT ![d] = None] /\ edited' = edited \ {d}
    BY <1>2, <1>3, <2>1 DEF Present, TypeOK
  <2>2. CASE \E n \in Lengths : \E errors \in 0..n+1 :
               /\ disk' = [disk EXCEPT ![d] = Edited(disk[d], n, errors)]
               /\ edited' = edited \cup {d}
    <3>1. PICK n \in Lengths : \E errors \in 0..n+1 :
               /\ disk' = [disk EXCEPT ![d] = Edited(disk[d], n, errors)]
               /\ edited' = edited \cup {d}
      BY <2>2
    <3>2. PICK errors \in 0..n+1 :
               /\ disk' = [disk EXCEPT ![d] = Edited(disk[d], n, errors)]
               /\ edited' = edited \cup {d}
      BY <3>1
    <3>3. n \in Nat /\ errors \in Nat
      BY LengthsAssumption
    <3>4. Edited(disk[d], n, errors) \in Contents
      BY <1>2, <3>3 DEF Edited, Contents
    <3>5. disk'[d] \in Contents
      BY <1>2, <3>2, <3>4 DEF TypeOK
    <3>6. disk' \in [Datasets -> Contents \cup {None}]
      BY <3>2, <3>4 DEF TypeOK
    <3>7. QED  BY <1>2, <1>3, <3>2, <3>5, <3>6, NoneAssumption DEF Present, TypeOK
  <2>3. QED  BY <1>1, <2>1, <2>2
<1>5. disk' \in [Datasets -> Contents \cup {None}] /\ edited' \subseteq Present'
  BY <1>4
<1>6. TypeOK'
  BY <1>5 DEF TypeOK
<1>7. VerifiedOnDisk'
  BY <1>3, <1>4 DEF VerifiedOnDisk, Present, AsNamed
<1>8. SelectedVerified' /\ TempRemoved' /\ RunInv'
  BY DEF SelectedVerified, TempRemoved, RunInv
<1>9. QED  BY <1>6, <1>7, <1>8

\* Stuttering preserves the workflow's inductive invariant.
LEMMA StutterIInv ==
    ASSUME IInv, UNCHANGED vars
    PROVE  IInv'
<1> USE DEF IInv, DatasetsInv, vars, files, bounds, local, memory, ghosts
<1>1. Present' = Present /\ Selected' = Selected /\ Cell' = Cell
  BY DEF Present, Selected, Cell
<1>2. TypeOK'
  BY <1>1 DEF TypeOK
<1>3. VerifiedOnDisk' /\ SelectedVerified' /\ TempRemoved'
  BY <1>1 DEF VerifiedOnDisk, SelectedVerified, TempRemoved, AsNamed
<1>4. RunType' = RunType /\ AtInRange' = AtInRange /\ PassedRight' = PassedRight
      /\ SelectedRight' = SelectedRight /\ BuiltFor' = BuiltFor
  BY <1>1 DEF RunType, AtInRange, PassedRight, SelectedRight, Passed, Right, BuiltFor
<1>5. RunInv'
  BY <1>1, <1>4 DEF RunInv
<1>6. QED  BY <1>2, <1>3, <1>5

\* Every step preserves the workflow's inductive invariant.
LEMMA NextIInv == IInv /\ [Next]_vars => IInv'
<1> SUFFICES ASSUME IInv, [Next]_vars PROVE IInv'
  OBVIOUS
<1>1. CASE Start          BY <1>1, StartIInv
<1>2. CASE KeepExisting   BY <1>2, KeepExistingIInv
<1>3. CASE Build          BY <1>3, BuildIInv
<1>4. CASE WriteTemp      BY <1>4, WriteTempIInv
<1>5. CASE Replace        BY <1>5, ReplaceIInv
<1>6. CASE MergeManifest  BY <1>6, MergeManifestIInv
<1>7. CASE WriteManifest  BY <1>7, WriteManifestIInv
<1>8. CASE Fails          BY <1>8, StopsEarlyIInv DEF Fails
<1>9. CASE Killed         BY <1>9, StopsEarlyIInv DEF Killed
<1>10. CASE Touch         BY <1>10, TouchIInv
<1>11. CASE MakeTemp      BY <1>11, MakeTempIInv
<1>12. CASE Interrupted   BY <1>12, StopsEarlyIInv DEF Interrupted
<1>13. CASE UNCHANGED vars  BY <1>13, StutterIInv
<1>14. QED
  BY <1>1, <1>2, <1>3, <1>4, <1>5, <1>6, <1>7, <1>8, <1>9, <1>10, <1>11, <1>12, <1>13
  DEF Next, Step, Rest

-----------------------------------------------------------------------------
\* A file under a dataset's name that was not changed by hand is that dataset,
\* as long as it should be and with the errors it should have, whatever stopped
\* the runs; all that a completed run selected is there, edited or not, and has
\* the errors that its density asks of the length it has.
THEOREM DatasetsVerified == Spec => []DatasetsInv
<1>1. IInv => DatasetsInv
  BY DEF IInv
<1>2. QED  BY <1>1, InitIInv, NextIInv, PTL DEF Spec
-----------------------------------------------------------------------------
(* What the manifest says of the files.                                    *)

\* No cell and no encoding is selected twice; the loops go through all pairs.
Distinct(s) == \A i, j \in DOMAIN s : s[i] = s[j] => i = j
At(i, j) == <<run.cells[i], run.encodings[j]>>
Indices == (1..Len(run.cells)) \X (1..Len(run.encodings))

\* The datasets the run has made a row of the manifest for.
HasRow == {d \in Datasets : rows[d] # None}

\* Two selected datasets of a cell hold the same, made with the seed of the
\* run, which is in their rows.
Made(d) == rows[d].seed = run.seed /\ disk[d].seed = run.seed
Matched ==
    \A d \in Selected : Made(d) /\ \A e \in Selected : d[1] = e[1] => disk[d] = disk[e]

\* Of a run that regenerates: what is behind has been made from units built in
\* this run, and the current cell's from those that it still holds.
PassedMade ==
    /\ built # None => built.data.seed = run.seed
    /\ \A p \in Indices :
          Passed(p[1], p[2]) =>
              /\ Made(At(p[1], p[2]))
              /\ p[1] = at[1] => built # None /\ disk[At(p[1], p[2])] = built.data
              /\ \A j \in 1..Len(run.encodings) :
                    Passed(p[1], j) => disk[At(p[1], p[2])] = disk[At(p[1], j)]

\* What the run knows of the length and the errors of a file.
Known(d) == rows[d].units = disk[d].units /\ rows[d].errors = disk[d].errors

\* The rows made in this run are true of the files, and so are the old ones of
\* other datasets, but for what was edited or is owed.
RowsTell ==
    /\ \A d \in HasRow : Known(d)
    /\ \A d \in (Present \cap Listed) \ (edited \cup owed \cup Selected) : RowTells(d)

\* Every file has a row, is owed one, or belongs to this run, which has made a
\* row for each dataset behind it and for no other.
LoopBooks ==
    /\ Present \subseteq Listed \cup owed \cup Selected
    /\ HasRow \subseteq Selected
    /\ \A p \in Indices : Passed(p[1], p[2]) => At(p[1], p[2]) \in HasRow
    /\ run.overwrite => PassedMade

\* The inductive invariant of the manifest.
BookInv ==
    /\ ManifestDescribes /\ PairsAgree
    /\ pc # "idle" => Distinct(run.cells) /\ Distinct(run.encodings)
    /\ pc \in {"dataset", "try", "verify"} => LoopBooks
    /\ pc \in {"dataset", "try", "verify", "merge"} => RowsTell
    /\ pc = "merge" =>
          /\ Present \subseteq Listed \cup owed \cup Selected
          /\ HasRow = Selected
    /\ pc = "write" =>
          /\ Present \subseteq HasRow \cup owed
          /\ HasRow \subseteq Present /\ Selected \subseteq HasRow
          /\ \A d \in HasRow : d \in Selected \/ d \notin edited \cup owed => Known(d)
    /\ pc \in {"merge", "write"} /\ run.overwrite => Matched
\* An order in which to build the datasets names none of them twice.
LEMMA OrdersAreDistinct ==
    ASSUME NEW S, NEW s \in Orders(S)
    PROVE  Distinct(s)
<1>1. PICK n \in 1..Cardinality(S) :
         s \in {t \in [1..n -> S] : \A i, j \in 1..n : t[i] = t[j] => i = j}
  BY DEF Orders
<1>2. QED  BY <1>1 DEF Distinct

\* The selected datasets are those at the indices of the two loops, each once.
LEMMA SelectedAt ==
    ASSUME RunType, Distinct(run.cells), Distinct(run.encodings)
    PROVE  /\ \A p \in Indices : At(p[1], p[2]) \in Selected /\ At(p[1], p[2]) \in Datasets
           /\ \A d \in Selected : \E p \in Indices : d = At(p[1], p[2])
           /\ \A p, q \in Indices : At(p[1], p[2]) = At(q[1], q[2]) => p[1] = q[1] /\ p[2] = q[2]
           /\ \A p, q \in Indices : At(p[1], p[2])[1] = At(q[1], q[2])[1] => p[1] = q[1]
<1>1. DOMAIN run.cells = 1..Len(run.cells) /\ DOMAIN run.encodings = 1..Len(run.encodings)
  BY DEF RunType
<1>2. \A p \in Indices : At(p[1], p[2]) \in Selected /\ At(p[1], p[2]) \in Datasets
  BY <1>1 DEF Indices, At, Selected, SeqSet, Datasets, RunType
<1>3. ASSUME NEW d \in Selected PROVE \E p \in Indices : d = At(p[1], p[2])
  <2>1. PICK i \in 1..Len(run.cells), j \in 1..Len(run.encodings) :
           d = <<run.cells[i], run.encodings[j]>>
    BY <1>1 DEF Selected, SeqSet
  <2>2. <<i, j>> \in Indices /\ d = At(<<i, j>>[1], <<i, j>>[2])
    BY <2>1 DEF Indices, At
  <2>3. QED  BY <2>2
<1>4. \A p, q \in Indices : At(p[1], p[2])[1] = At(q[1], q[2])[1] => p[1] = q[1]
  BY <1>1 DEF Indices, At, Distinct
<1>5. \A p, q \in Indices : At(p[1], p[2])[2] = At(q[1], q[2])[2] => p[2] = q[2]
  BY <1>1 DEF Indices, At, Distinct
<1>6. QED  BY <1>2, <1>3, <1>4, <1>5

\* The dataset at hand is added to the books; the loops go on or are through.
LEMMA AdvanceBooks ==
    ASSUME TypeOK, RunType, AtInRange, Distinct(run.cells), Distinct(run.encodings), LoopBooks,
           Advance, UNCHANGED <<run, manifest, owed>>,
           RowsTell, edited' \in {edited, edited \ {Current}},
           rows' \in [Datasets -> Contents \cup {None}], rows'[Current] \in Contents,
           rows'[Current].seed = run.seed,
           rows'[Current].units = disk'[Current].units,
           rows'[Current].errors = disk'[Current].errors,
           \A d \in Datasets : d # Current => rows'[d] = rows[d],
           \/ ~run.overwrite /\ Current \in Present /\ UNCHANGED disk
           \/ /\ built # None /\ built.data \in Contents
              /\ disk' = [disk EXCEPT ![Current] = built.data]
    PROVE  /\ pc' = "dataset" => LoopBooks'
           /\ RowsTell'
           /\ pc' = "merge" => /\ Present' \subseteq Listed' \cup owed' \cup Selected'
                               /\ HasRow' = Selected' /\ (run.overwrite => Matched')
<1> DEFINE Behind(p) == Passed(p[1], p[2]) \/ (p[1] = at[1] /\ p[2] = at[2])
           n == Len(run.cells)
           k == Len(run.encodings)
           MadeNow(d) == rows'[d].seed = run.seed /\ disk'[d].seed = run.seed
<1>1. /\ n \in Nat /\ k \in Nat /\ at[1] \in 1..n /\ at[2] \in 1..k
      /\ at \in Indices /\ Current = At(at[1], at[2])
      /\ Current \in Datasets /\ Current \in Selected
  BY SelectedAt DEF RunType, AtInRange, Current, At, Cell, Indices
<1>2. /\ Selected' = Selected /\ Indices' = Indices /\ Listed' = Listed
      /\ \A i, j : At(i, j)' = At(i, j)
  BY DEF Selected, Indices, Listed, At
<1>3. Present' \subseteq Listed' \cup owed' \cup Selected'
  <2>1. \A d \in Datasets : d # Current => disk'[d] = disk[d]
    BY DEF TypeOK
  <2>2. QED  BY <1>1, <1>2, <2>1 DEF LoopBooks, Present
<1>4. /\ rows'[Current].seed = run.seed /\ rows'[Current] # None
      /\ \A d \in Datasets : d # Current => rows'[d] = rows[d]
  BY NoneAssumption
<1>5. HasRow' = HasRow \cup {Current}
  BY <1>1, <1>4 DEF HasRow
<1>6. HasRow' \subseteq Selected' /\ \A p \in Indices : Behind(p) => At(p[1], p[2]) \in HasRow'
  BY <1>1, <1>2, <1>5 DEF LoopBooks
<1>11. RowsTell'
  <2>1. \A d \in Datasets : d # Current => disk'[d] = disk[d]
    BY DEF TypeOK
  <2>2. \A d \in HasRow' : Known(d)'
    BY <1>4, <1>5, <2>1 DEF RowsTell, Known, HasRow
  <2>3. \A d \in (Present' \cap Listed) \ (edited' \cup owed \cup Selected) :
           d \in (Present \cap Listed) \ (edited \cup owed \cup Selected) /\ disk'[d] = disk[d]
    BY <1>1, <2>1 DEF Present
  <2>4. QED  BY <1>2, <2>2, <2>3 DEF RowsTell, RowTells
<1>7. ASSUME run.overwrite
      PROVE  /\ built # None /\ built.data.seed = run.seed
             /\ \A p \in Indices :
                   Behind(p) =>
                      /\ MadeNow(At(p[1], p[2]))
                      /\ p[1] = at[1] => disk'[At(p[1], p[2])] = built.data
                      /\ \A q \in Indices : Behind(q) /\ q[1] = p[1] =>
                            disk'[At(p[1], p[2])] = disk'[At(q[1], q[2])]
  <2>1. built.data \in Contents /\ built # None /\ disk' = [disk EXCEPT ![Current] = built.data]
        /\ PassedMade /\ built.data.seed = run.seed
    BY <1>7, NoneAssumption DEF LoopBooks, PassedMade
  <2>2. disk'[Current] = built.data /\ \A d \in Datasets : d # Current => disk'[d] = disk[d]
    BY <1>1, <2>1 DEF TypeOK
  <2>3. ASSUME NEW p \in Indices, Passed(p[1], p[2])
        PROVE  /\ At(p[1], p[2]) \in Datasets /\ At(p[1], p[2]) # Current
               /\ Made(At(p[1], p[2])) /\ MadeNow(At(p[1], p[2]))
               /\ disk'[At(p[1], p[2])] = disk[At(p[1], p[2])]
               /\ p[1] = at[1] => disk'[At(p[1], p[2])] = built.data
    <3>1. At(p[1], p[2]) \in Datasets /\ At(p[1], p[2]) # Current
      BY <1>1, <2>3, SelectedAt DEF Passed
    <3>2. Made(At(p[1], p[2])) /\ (p[1] = at[1] => disk[At(p[1], p[2])] = built.data)
      BY <2>1, <2>3 DEF PassedMade
    <3>3. QED  BY <1>4, <2>2, <3>1, <3>2 DEF Made
  <2>4. MadeNow(Current)
    BY <1>4, <2>1, <2>2 DEF Made
  <2>5. ASSUME NEW p \in Indices, NEW q \in Indices, Behind(p), Behind(q), q[1] = p[1]
        PROVE  disk'[At(p[1], p[2])] = disk'[At(q[1], q[2])]
    <3>1. CASE Passed(p[1], p[2]) /\ Passed(q[1], q[2])
      <4>1. q[2] \in 1..k
        BY DEF Indices
      <4>2. disk[At(p[1], p[2])] = disk[At(q[1], q[2])]
        BY <2>1, <2>5, <3>1, <4>1 DEF PassedMade
      <4>3. QED  BY <2>3, <3>1, <4>2
    <3>2. CASE p[1] = at[1]
      <4>1. disk'[At(p[1], p[2])] = built.data /\ disk'[At(q[1], q[2])] = built.data
        BY <1>1, <2>2, <2>3, <2>5, <3>2
      <4>2. QED  BY <4>1
    <3>3. QED  BY <2>5, <3>1, <3>2
  <2>6. QED  BY <1>1, <2>1, <2>2, <2>3, <2>4, <2>5
<1>8. CASE at[2] < k
  <2>1. at' = <<at[1], at[2] + 1>> /\ pc' = "dataset" /\ built' = built
    BY <1>8 DEF Advance, BuiltAfter
  <2>2. \A p \in Indices : Passed(p[1], p[2])' <=> Behind(p)
    BY <1>1, <2>1 DEF Passed, Indices
  <2>3. run.overwrite => PassedMade'
    <3>1. SUFFICES ASSUME run.overwrite PROVE PassedMade'
      OBVIOUS
    <3>2. ASSUME NEW p \in Indices, Passed(p[1], p[2])', NEW j \in 1..k, Passed(p[1], j)'
          PROVE  disk'[At(p[1], p[2])] = disk'[At(p[1], j)]
      <4>1. <<p[1], j>> \in Indices /\ <<p[1], j>>[1] = p[1] /\ <<p[1], j>>[2] = j
        BY DEF Indices
      <4>2. Behind(p) /\ Behind(<<p[1], j>>)
        BY <2>2, <3>2, <4>1
      <4>3. QED  BY <1>7, <3>1, <4>1, <4>2
    <3>3. QED  BY <1>2, <1>7, <2>1, <2>2, <3>1, <3>2 DEF PassedMade, Made
  <2>4. LoopBooks'
    BY <1>2, <1>3, <1>6, <2>2, <2>3 DEF LoopBooks
  <2>5. QED  BY <1>11, <2>1, <2>4
<1>9. CASE ~(at[2] < k)
  <2>1. at' = <<at[1] + 1, 1>> /\ built' = None /\ at[2] = k
    BY <1>1, <1>9 DEF Advance, BuiltAfter
  <2>2. \A p \in Indices : (Passed(p[1], p[2])' <=> Behind(p)) /\ (Behind(p) <=> p[1] <= at[1])
    BY <1>1, <2>1 DEF Passed, Indices
  <2>3. CASE at[1] < n
    <3>1. pc' = "dataset"
      BY <1>9, <2>3 DEF Advance
    <3>2. run.overwrite => PassedMade'
      <4>1. SUFFICES ASSUME run.overwrite PROVE PassedMade'
        OBVIOUS
      <4>2. ASSUME NEW p \in Indices, Passed(p[1], p[2])', NEW j \in 1..k, Passed(p[1], j)'
            PROVE  disk'[At(p[1], p[2])] = disk'[At(p[1], j)]
        <5>1. <<p[1], j>> \in Indices /\ <<p[1], j>>[1] = p[1] /\ <<p[1], j>>[2] = j
          BY DEF Indices
        <5>2. Behind(p) /\ Behind(<<p[1], j>>)
          BY <2>2, <4>2, <5>1
        <5>3. QED  BY <1>7, <4>1, <5>1, <5>2
      <4>3. \A p \in Indices : Passed(p[1], p[2])' => p[1] # at'[1]
        BY <1>1, <2>1, <2>2 DEF Indices
      <4>4. QED  BY <1>2, <1>7, <2>1, <2>2, <4>1, <4>2, <4>3 DEF PassedMade, Made
    <3>3. LoopBooks'
      BY <1>2, <1>3, <1>6, <2>2, <3>2 DEF LoopBooks
    <3>4. QED  BY <1>11, <3>1, <3>3
  <2>4. CASE ~(at[1] < n)
    <3>1. pc' = "merge"
      BY <1>9, <2>4 DEF Advance
    <3>2. \A p \in Indices : Behind(p)
      BY <1>1, <2>2, <2>4 DEF Indices
    <3>3. HasRow' = Selected'
      <4>1. ASSUME NEW d \in Selected PROVE d \in HasRow'
        <5>1. PICK p \in Indices : d = At(p[1], p[2])
          BY SelectedAt
        <5>2. QED  BY <1>6, <3>2, <5>1
      <4>2. QED  BY <1>2, <1>6, <4>1
    <3>4. ASSUME run.overwrite PROVE Matched'
      <4>1. SUFFICES ASSUME NEW d \in Selected
                     PROVE  MadeNow(d) /\ \A e \in Selected : d[1] = e[1] => disk'[d] = disk'[e]
        BY <1>2 DEF Matched, Made
      <4>2. PICK p \in Indices : d = At(p[1], p[2])
        BY SelectedAt
      <4>3. ASSUME NEW e \in Selected, d[1] = e[1] PROVE disk'[d] = disk'[e]
        <5>1. PICK q \in Indices : e = At(q[1], q[2])
          BY SelectedAt
        <5>2. q[1] = p[1]
          BY <4>2, <4>3, <5>1, SelectedAt
        <5>3. QED  BY <1>7, <3>2, <3>4, <4>2, <5>1, <5>2
      <4>4. QED  BY <1>7, <3>2, <3>4, <4>2, <4>3
    <3>5. QED  BY <1>3, <1>11, <3>1, <3>3, <3>4
  <2>5. QED  BY <2>3, <2>4
<1>10. QED  BY <1>8, <1>9, <1>11

\* The initial states satisfy what the manifest's books say.
LEMMA InitBooks == Init => BookInv
<1> SUFFICES ASSUME Init PROVE BookInv
  OBVIOUS
<1>1. Present = {} /\ Listed = {}
  BY DEF Init, Present, Listed, NoRows
<1>2. QED  BY <1>1 DEF Init, BookInv, ManifestDescribes, PairsAgree

\* Start preserves what the manifest's books say.
LEMMA StartBooks ==
    ASSUME IInv, BookInv, Start
    PROVE  BookInv'
<1> USE DEF IInv, DatasetsInv, Start, memory, ghosts
<1>1. run'.cells \in Orders(Cells) /\ run'.encodings \in Orders(Encodings) /\ run'.seed \in Seeds
  OBVIOUS
<1>2. RunType' /\ Distinct(run'.cells) /\ Distinct(run'.encodings)
  BY <1>1, OrdersAreSequences, OrdersAreDistinct DEF RunType
<1>3. Present' = Present /\ Listed' = Listed /\ Present \subseteq Listed \cup owed
      /\ \A d \in (Present \cap Listed) \ (edited \cup owed) : RowTells(d)
  BY DEF Present, Listed, BookInv, ManifestDescribes
<1>4. at' = <<1, 1>> /\ built' = None /\ rows' = NoRows
  BY DEF RunInv
<1>5. HasRow' = {}
  BY <1>4 DEF HasRow, NoRows
<1>6. \A p \in Indices' : ~Passed(p[1], p[2])'
  BY <1>2, <1>4 DEF Passed, Indices, RunType
<1>7. LoopBooks'
  BY <1>3, <1>4, <1>5, <1>6 DEF LoopBooks, PassedMade
<1>9. RowsTell'
  BY <1>3, <1>5 DEF RowsTell, RowTells
<1>8. QED  BY <1>2, <1>7, <1>9 DEF BookInv, ManifestDescribes, PairsAgree

\* KeepExisting preserves what the manifest's books say.
LEMMA KeepExistingBooks ==
    ASSUME IInv, BookInv, KeepExisting
    PROVE  BookInv'
<1> USE DEF IInv, DatasetsInv, KeepExisting, files, ghosts, bounds
<1>1. /\ TypeOK /\ RunType /\ AtInRange /\ PassedRight /\ last = "running" /\ LoopBooks
      /\ Distinct(run.cells) /\ Distinct(run.encodings) /\ RowsTell
  BY DEF RunInv, BookInv
<1>2. ~run.overwrite /\ Current \in Present
  BY <1>1, CurrentIsDataset DEF Kept, Present
<1>3. pc' \in {"dataset", "merge"}
  BY DEF Advance
<1>6. disk[Current] \in Contents /\ disk[Current].errors \in Nat
  BY <1>1, <1>2 DEF Present, Contents, TypeOK
<1>7. /\ rows' \in [Datasets -> Contents \cup {None}] /\ rows'[Current] \in Contents
      /\ rows'[Current].seed = run.seed
      /\ rows'[Current].units = disk'[Current].units
      /\ rows'[Current].errors = disk'[Current].errors
      /\ \A d \in Datasets : d # Current => rows'[d] = rows[d]
  <2>1. run.seed \in Seeds /\ Current \in Datasets
    BY <1>1, CurrentIsDataset DEF RunType
  <2>2. QED  BY <1>1, <1>6, <2>1, RowAdded DEF AddRow, TypeOK
<1>4. /\ pc' = "dataset" => LoopBooks'
      /\ RowsTell'
      /\ pc' = "merge" => Present' \subseteq Listed' \cup owed' \cup Selected' /\ HasRow' = Selected'
  BY <1>1, <1>2, <1>7, AdvanceBooks
<1>5. QED  BY <1>1, <1>2, <1>3, <1>4 DEF BookInv, ManifestDescribes, PairsAgree

\* Replace preserves what the manifest's books say.
LEMMA ReplaceBooks ==
    ASSUME IInv, BookInv, Replace
    PROVE  BookInv'
<1> USE DEF IInv, DatasetsInv, Replace, bounds
<1>1. /\ TypeOK /\ RunType /\ AtInRange /\ PassedRight /\ last = "running" /\ LoopBooks
      /\ Distinct(run.cells) /\ Distinct(run.encodings) /\ RowsTell
      /\ temp = built.data /\ built # None
  BY DEF RunInv, BookInv
<1>2. /\ built.data \in Contents /\ disk' = [disk EXCEPT ![Current] = built.data]
      /\ built.target \in Nat
  BY <1>1 DEF TypeOK
<1>3. pc' \in {"dataset", "merge"}
  BY DEF Advance
<1>4. /\ rows' \in [Datasets -> Contents \cup {None}] /\ rows'[Current] \in Contents
      /\ rows'[Current].seed = run.seed
      /\ rows'[Current].units = disk'[Current].units
      /\ rows'[Current].errors = disk'[Current].errors
      /\ \A d \in Datasets : d # Current => rows'[d] = rows[d]
  <2>1. run.seed \in Seeds /\ Current \in Datasets
    BY <1>1, CurrentIsDataset DEF RunType
  <2>2. disk'[Current] = built.data /\ built.data.errors = built.target
    BY <1>1, <1>2, <2>1 DEF TypeOK
  <2>3. QED  BY <1>1, <1>2, <2>1, <2>2, RowAdded DEF AddRow, TypeOK
<1>5. /\ pc' = "dataset" => LoopBooks'
      /\ RowsTell'
      /\ pc' = "merge" => /\ Present' \subseteq Listed' \cup owed' \cup Selected'
                          /\ HasRow' = Selected' /\ (run.overwrite => Matched')
  BY <1>1, <1>2, <1>4, AdvanceBooks
<1>6. QED  BY <1>1, <1>3, <1>5 DEF BookInv, ManifestDescribes, PairsAgree

\* What is built is not yet in any book.
LEMMA BuildBooks ==
    ASSUME IInv, BookInv, Build \/ MakeTemp \/ WriteTemp
    PROVE  BookInv'
<1> USE DEF IInv, DatasetsInv, Build, MakeTemp, WriteTemp, files, ghosts, bounds, local, memory
<1>1. LoopBooks /\ RowsTell /\ last = "running" /\ pc' \in {"dataset", "try", "verify"}
  BY DEF RunInv, BookInv
<1>2. /\ Present' = Present /\ Listed' = Listed /\ Selected' = Selected /\ HasRow' = HasRow
      /\ Indices' = Indices /\ (\A i, j : At(i, j)' = At(i, j) /\ Passed(i, j)' = Passed(i, j))
      /\ UNCHANGED <<disk, manifest, owed, edited, run, rows, at, last>>
  BY DEF Present, Listed, Selected, HasRow, Indices, At, Passed
<1>3. built' = built \/ (built = None /\ built'.data.seed = run.seed)
  OBVIOUS
<1>4. run.overwrite => PassedMade'
  BY <1>1, <1>2, <1>3 DEF LoopBooks, PassedMade, Made
<1>5. LoopBooks'
  BY <1>1, <1>2, <1>4 DEF LoopBooks
<1>7. RowsTell'
  BY <1>1, <1>2 DEF RowsTell, Known, RowTells
<1>6. QED  BY <1>1, <1>2, <1>5, <1>7 DEF BookInv, ManifestDescribes, PairsAgree

\* MergeManifest preserves what the manifest's books say.
LEMMA MergeManifestBooks ==
    ASSUME IInv, BookInv, MergeManifest
    PROVE  BookInv'
<1> USE DEF IInv, DatasetsInv, MergeManifest, bounds, ghosts
<1>1. /\ SelectedRight /\ last = "running" /\ Selected \subseteq Datasets
      /\ Present \subseteq Listed \cup owed \cup Selected /\ HasRow = Selected
      /\ (run.overwrite => Matched) /\ RowsTell
  <2>1. SelectedRight /\ last = "running" /\ RunType
    BY DEF RunInv
  <2>2. Selected \subseteq Datasets
    BY <2>1 DEF RunType, Selected, SeqSet, Datasets
  <2>3. QED  BY <2>1, <2>2 DEF BookInv
<1>2. Present' = Present /\ Selected' = Selected
  BY DEF Present, Selected
<1>3. \A d \in Datasets :
         rows'[d] = IF rows[d] # None THEN rows[d] ELSE IF d \in Present THEN manifest[d] ELSE None
  BY DEF Merged
<1>4. HasRow' = Selected \cup (Present \cap Listed)
  BY <1>1, <1>3 DEF HasRow, Listed, Present
<1>5. Selected \subseteq Present
  BY <1>1 DEF SelectedRight, Right
<1>6. run.overwrite => Matched'
  <2>1. \A d \in Selected : rows'[d] = rows[d]
    BY <1>1, <1>3 DEF HasRow
  <2>2. QED  BY <1>1, <1>2, <2>1 DEF Matched, Made
<1>8. ASSUME NEW d \in HasRow', d \in Selected \/ d \notin edited \cup owed
      PROVE  Known(d)'
  <2>1. CASE d \in Selected
    BY <1>1, <1>3, <2>1 DEF RowsTell, Known, HasRow
  <2>2. CASE d \notin Selected
    BY <1>1, <1>3, <1>4, <1>8, <2>2 DEF RowsTell, Known, RowTells, HasRow
  <2>3. QED  BY <2>1, <2>2
<1>7. QED  BY <1>1, <1>2, <1>4, <1>5, <1>6, <1>8 DEF BookInv, ManifestDescribes, PairsAgree

\* With the manifest written, what the books say is what the manifest says.
LEMMA WriteManifestBooks ==
    ASSUME IInv, BookInv, WriteManifest
    PROVE  BookInv'
<1> USE DEF IInv, DatasetsInv, WriteManifest, MemoryGone, bounds
<1>1. /\ Present \subseteq HasRow \cup owed /\ HasRow \subseteq Present
      /\ Selected \subseteq HasRow /\ (run.overwrite => Matched)
      /\ \A d \in HasRow : d \in Selected \/ d \notin edited \cup owed => Known(d)
  BY DEF BookInv
<1>2. Present' = Present /\ Listed' = HasRow /\ Selected' = Selected
  BY DEF Present, Listed, HasRow, Selected
<1>3. ManifestDescribes'
  BY <1>1, <1>2 DEF ManifestDescribes, RowTells, Known
<1>4. PairsAgree'
  BY <1>1, <1>2 DEF PairsAgree, Matched, Made
<1>5. QED  BY <1>3, <1>4 DEF BookInv

\* A generation that stops early, failed or killed, leaves the books true.
LEMMA StopsEarlyBooks ==
    ASSUME IInv, BookInv, StopsEarly, last' \in {"failed", "interrupted", "killed"}
    PROVE  BookInv'
<1> USE DEF StopsEarly
<1>1. Present' = Present /\ Present \subseteq Datasets
  BY DEF Present
<1>2. Present' \subseteq Listed' \cup owed'
  <2>1. CASE pc = "write"
    BY <1>1, <2>1
  <2>2. CASE pc # "write"
    <3>1. pc \in {"dataset", "try", "verify", "merge"}
      BY <2>2 DEF IInv, DatasetsInv, TypeOK
    <3>2. Present \subseteq Listed \cup owed \cup Selected
      BY <3>1 DEF BookInv, LoopBooks
    <3>3. Listed' = Listed
      BY <2>2 DEF Listed
    <3>4. QED  BY <1>1, <2>2, <3>2, <3>3
  <2>3. QED  BY <2>1, <2>2
<1>3. \A d \in (Present' \cap Listed') \ (edited' \cup owed') : RowTells(d)'
  <2>1. CASE pc = "write"
    BY <1>1, <2>1
  <2>2. CASE pc # "write"
    <3>1. RowsTell
      BY <2>2 DEF BookInv, IInv, DatasetsInv, TypeOK
    <3>2. Listed' = Listed
      BY <2>2 DEF Listed
    <3>3. QED  BY <1>1, <2>2, <3>1, <3>2 DEF RowsTell, RowTells
  <2>3. QED  BY <2>1, <2>2
<1>4. QED  BY <1>2, <1>3 DEF BookInv, ManifestDescribes, PairsAgree

\* Touch preserves what the manifest's books say.
LEMMA TouchBooks ==
    ASSUME IInv, BookInv, Touch
    PROVE  BookInv'
<1> USE DEF Touch, local
<1>1. /\ Present' \subseteq Present /\ Listed' = Listed
      /\ \A d \in Present' \ edited' : d \notin edited /\ disk'[d] = disk[d]
  BY DEF Present, Listed, IInv, DatasetsInv, TypeOK
<1>2. ManifestDescribes'
  BY <1>1 DEF BookInv, ManifestDescribes, RowTells
<1>3. QED  BY <1>2 DEF BookInv, PairsAgree

\* Stuttering preserves what the manifest's books say.
LEMMA StutterBooks ==
    ASSUME BookInv, UNCHANGED vars
    PROVE  BookInv'
<1> USE DEF vars, files, bounds, local, memory, ghosts
<1>1. /\ Present' = Present /\ Listed' = Listed /\ Selected' = Selected /\ HasRow' = HasRow
      /\ Indices' = Indices /\ (\A i, j : At(i, j)' = At(i, j) /\ Passed(i, j)' = Passed(i, j))
      /\ \A d : Made(d)' = Made(d) /\ Known(d)' = Known(d) /\ RowTells(d)' = RowTells(d)
  BY DEF Present, Listed, Selected, HasRow, Indices, At, Passed, Made, Known, RowTells
<1>2. ManifestDescribes' = ManifestDescribes /\ PairsAgree' = PairsAgree /\ Matched' = Matched
  BY <1>1 DEF ManifestDescribes, PairsAgree, Matched
<1>3. LoopBooks' = LoopBooks
  <2>1. PassedMade' = PassedMade
    BY <1>1 DEF PassedMade
  <2>2. QED  BY <1>1, <2>1 DEF LoopBooks
<1>5. RowsTell' = RowsTell
  BY <1>1 DEF RowsTell
<1>4. QED  BY <1>1, <1>2, <1>3, <1>5 DEF BookInv

\* Every step preserves what the manifest's books say.
LEMMA NextBooks == IInv /\ BookInv /\ [Next]_vars => BookInv'
<1> SUFFICES ASSUME IInv, BookInv, [Next]_vars PROVE BookInv'
  OBVIOUS
<1>1. CASE Start          BY <1>1, StartBooks
<1>2. CASE KeepExisting   BY <1>2, KeepExistingBooks
<1>3. CASE Build \/ MakeTemp \/ WriteTemp  BY <1>3, BuildBooks
<1>4. CASE Replace        BY <1>4, ReplaceBooks
<1>5. CASE MergeManifest  BY <1>5, MergeManifestBooks
<1>6. CASE WriteManifest  BY <1>6, WriteManifestBooks
<1>7. CASE Fails \/ Interrupted \/ Killed
  BY <1>7, StopsEarlyBooks DEF Fails, Interrupted, Killed
<1>8. CASE Touch          BY <1>8, TouchBooks
<1>9. CASE UNCHANGED vars  BY <1>9, StutterBooks
<1>10. QED
  BY <1>1, <1>2, <1>3, <1>4, <1>5, <1>6, <1>7, <1>8, <1>9 DEF Next, Step, Rest

\* The inductive invariant of the manifest, beside that of the files.
LEMMA BooksKept == Spec => [](IInv /\ BookInv)
  BY InitIInv, NextIInv, InitBooks, NextBooks, PTL DEF Spec

\* Between runs a file without a row in manifest.csv is one that a run left
\* when it stopped and no run has selected since.  A row tells the length and
\* the errors of its file, but for files edited since or owed a row; after a
\* run that completed every row has its file, and those of all it selected
\* tell what is in theirs, edited or not.  Of the seed this says nothing.
THEOREM ManifestIsTrue == Spec => []ManifestDescribes
<1>1. BookInv => ManifestDescribes
  BY DEF BookInv
<1>2. QED  BY <1>1, BooksKept, PTL

\* A completed run that regenerates leaves the little-endian and big-endian
\* files of a cell with the same code units, of the seed in their rows.
THEOREM EncodingsAgree == Spec => []PairsAgree
<1>1. BookInv => PairsAgree
  BY DEF BookInv
<1>2. QED  BY <1>1, BooksKept, PTL

-----------------------------------------------------------------------------
(* Part 2: the streams with an exact number of errors.                     *)

\* The places of a sequence of patterns, as many as the errors they add.
ErrorPlaces(patterns, n) == UNION {{i} \X (1..Len(patterns[i])) : i \in 1..n}

\* Where one pattern ends; between them there is a unit of the stream.
Ends(set) == {k \in set : k + 1 \notin set}

\* The types of the generator of streams.
DensityType ==
    /\ total \in Nat /\ target \in Nat
    /\ stage \in {"choosing", "placing", "done", "index_error", "runtime_error"}
    /\ code_units \in [Positions -> Classes]
    /\ pair_member \subseteq Positions /\ used \subseteq Positions
    /\ chosen \in Seq(Patterns) /\ remaining \in 0..target
    /\ index \in 0..Len(chosen)

\* Errors chosen and errors placed, pattern by pattern.
Counted ==
    /\ Cardinality(ErrorPlaces(chosen, Len(chosen))) + remaining = target
    /\ Cardinality(used) = Cardinality(ErrorPlaces(chosen, index))
    /\ Cardinality(Ends(used)) = index
    /\ stage = "choosing" => used = {} /\ index = 0
    /\ stage # "choosing" => remaining = 0
    /\ stage = "done" => index = Len(chosen)

\* No error is the first unit or the last, so each has both neighbours.
Off == 0 \notin used /\ total - 1 \notin used

\* With a slot of five units for each pattern, those placed are in their own.
WithinSlots ==
    /\ RoomSuffices
    /\ stage # "choosing" /\ total >= 5 * Len(chosen) /\ Len(chosen) > 0 =>
          \A k \in used : k + 2 <= SlotStart(index)

\* The inductive invariant of the streams.
DInv ==
    /\ DensityType /\ OnlyPatternsIllFormed /\ PairsWhole /\ Off
    /\ Counted /\ WithinSlots

-----------------------------------------------------------------------------
\* Between units that are not surrogates every unit of a pattern is ill-formed.
LEMMA PatternFacts ==
    ASSUME NEW p \in Patterns
    PROVE  /\ Len(p) \in 1..3
           /\ \A i \in 1..Len(p) : p[i] \in {"high", "low"}
           /\ \A i \in 1..Len(p) : p[i] = "low" /\ i > 1 => p[i - 1] # "high"
           /\ \A i \in 1..Len(p) : p[i] = "high" /\ i < Len(p) => p[i + 1] # "low"
<1>1. CASE p = <<"high">>  BY <1>1
<1>2. CASE p = <<"low">>  BY <1>2
<1>3. CASE p = <<"low", "high">>  BY <1>3
<1>4. CASE p = <<"high", "high">>  BY <1>4
<1>5. CASE p = <<"low", "low">>  BY <1>5
<1>6. CASE p = <<"low", "low", "high">>  BY <1>6
<1>7. QED  BY <1>1, <1>2, <1>3, <1>4, <1>5, <1>6 DEF Patterns

\* One pattern placed at c, as PlacePattern does it.
PlacedAt(c) ==
    /\ Fits(c)
    /\ LET flat == Flattened(c - 1, c + Width)
       IN  /\ code_units' = [k \in Positions |->
                            IF k \in Own(c) THEN Body[k - c + 1]
                            ELSE IF k \in flat THEN "plain" ELSE code_units[k]]
           /\ pair_member' = pair_member \ (flat \cup Own(c))
           /\ used' = used \cup Own(c)

\* What a placement is known to satisfy.
LEMMA PlacedFacts ==
    ASSUME DensityType, index < Len(chosen), NEW c \in Positions, Fits(c)
    PROVE  /\ total \in Nat /\ index + 1 \in 1..Len(chosen)
           /\ Body \in Patterns /\ Width \in 1..3
           /\ c \in Nat /\ 1 <= c /\ c + Width <= total - 1
           /\ Own(c) \subseteq Positions /\ Own(c) = c..c+Width-1
           /\ Own(c) \cap used = {} /\ c - 1 \notin used /\ c + Width \notin used
           /\ \A k \in Own(c) : k - c + 1 \in 1..Len(Body)
<1>1. total \in Nat /\ index + 1 \in 1..Len(chosen) /\ c \in Nat
  BY DEF DensityType, Positions
<1>2. Body \in Patterns
  BY <1>1 DEF DensityType, Body
<1>3. Width \in 1..3 /\ Width = Len(Body)
  BY <1>2, PatternFacts DEF Width
<1>4. 1 <= c /\ c + Width <= total - 1
  BY DEF Fits
<1>5. Own(c) \subseteq Positions /\ Own(c) = c..c+Width-1
  BY <1>1, <1>3, <1>4 DEF Own, Positions
<1>6. \A k \in Own(c) : k - c + 1 \in 1..Len(Body)
  BY <1>1, <1>3, <1>5
<1>7. QED  BY <1>1, <1>2, <1>3, <1>4, <1>5, <1>6 DEF Fits


\* What _flatten_pairs clears, seen from a unit it leaves alone: that unit is
\* outside the window or plain already, and so is its partner.
LEMMA SparedUnits ==
    ASSUME DensityType, OnlyPatternsIllFormed, PairsWhole,
           index < Len(chosen), NEW c \in Positions, PlacedAt(c),
           NEW k \in Positions, k \notin used',
           k \notin Flattened(c - 1, c + Width), code_units[k] # "plain"
    PROVE  /\ code_units'[k] = code_units[k] /\ k \in pair_member' /\ Partner(k) \in pair_member'
           /\ Partner(k) \in Positions
           /\ code_units'[Partner(k)] = code_units[Partner(k)]
           /\ code_units[k] = "high" => Partner(k) = k + 1 /\ code_units[k + 1] = "low"
           /\ code_units[k] = "low" => Partner(k) = k - 1 /\ code_units[k - 1] = "high"
<1> DEFINE W == Width
           flat == Flattened(c - 1, c + W)
           touched == ((c - 1 .. c + W) \cap pair_member) \ used
           own == Own(c)
           q == Partner(k)
<1>1. Fits(c) /\ used' = used \cup own /\ pair_member' = pair_member \ (flat \cup own)
  BY DEF PlacedAt
<1>2. /\ total \in Nat /\ W \in 1..3 /\ c \in Nat /\ 1 <= c /\ c + W <= total - 1
      /\ own = c..c+W-1 /\ own \subseteq Positions
      /\ own \cap used = {} /\ c - 1 \notin used /\ c + W \notin used
  BY <1>1, PlacedFacts
<1>3. /\ k \notin used /\ k \notin own /\ k \notin flat
      /\ k \in Positions \ used /\ k \in Int
      /\ code_units[k] \in {"high", "low"}
  BY <1>1 DEF DensityType, Classes, Positions
<1>4. flat = touched \cup (({Partner(t) : t \in touched} \cap Positions) \ used)
  BY DEF Flattened
<1>5. k \in pair_member /\ q \in pair_member
  BY <1>3 DEF PairsWhole
<1>6. q \in Positions /\ k \notin touched
  BY <1>3, <1>4, <1>5 DEF DensityType
<1>7. k \notin IllFormedUnits
  BY <1>3 DEF OnlyPatternsIllFormed
<1>8. /\ code_units[k] = "high" => q = k + 1 /\ code_units[k + 1] = "low"
      /\ code_units[k] = "low" => q = k - 1 /\ code_units[k - 1] = "high"
  <2>1. code_units[k] = "high" => q = k + 1
    BY DEF Partner
  <2>2. code_units[k] = "low" => q = k - 1
    BY DEF Partner
  <2>3. code_units[k] = "high" => IsLow(k + 1)
    BY <1>7 DEF IllFormedUnits, IsHigh
  <2>4. code_units[k] = "low" => IsHigh(k - 1)
    BY <1>7 DEF IllFormedUnits, IsLow
  <2>5. QED  BY <2>1, <2>2, <2>3, <2>4 DEF IsLow, IsHigh
<1>9. Partner(q) = k
  BY <1>3, <1>8 DEF Partner
<1>10. q \notin used
  <2>1. CASE code_units[k] = "high"
    <3>1. q = k + 1 /\ q \in Positions /\ code_units[q] = "low" /\ code_units[q - 1] = "high"
          /\ q - 1 \in Positions
      BY <1>3, <1>6, <1>8, <2>1
    <3>2. q \notin IllFormedUnits
      BY <3>1 DEF IllFormedUnits, IsLow, IsHigh
    <3>3. QED  BY <3>2 DEF OnlyPatternsIllFormed
  <2>2. CASE code_units[k] = "low"
    <3>1. q = k - 1 /\ q \in Positions /\ code_units[q] = "high" /\ code_units[q + 1] = "low"
          /\ q + 1 \in Positions
      BY <1>3, <1>6, <1>8, <2>2
    <3>2. q \notin IllFormedUnits
      BY <3>1 DEF IllFormedUnits, IsLow, IsHigh
    <3>3. QED  BY <3>2 DEF OnlyPatternsIllFormed
  <2>3. QED  BY <1>3, <2>1, <2>2
<1>11. q \notin touched
  <2>1. SUFFICES ASSUME q \in touched PROVE FALSE
    OBVIOUS
  <2>2. k \in {Partner(t) : t \in touched}
    BY <1>9, <2>1
  <2>3. QED  BY <1>3, <1>4, <2>2
<1>12. q \notin flat
  <2>1. SUFFICES ASSUME NEW t \in touched, q = Partner(t) PROVE FALSE
    BY <1>4, <1>11
  <2>2. /\ t \in pair_member /\ t \notin used /\ t \in Positions /\ t \in Int /\ t # k
        /\ code_units[t] \in {"high", "low"}
    BY <1>6, <2>1 DEF PairsWhole, DensityType, Classes, Positions
  <2>3. t \notin IllFormedUnits
    BY <2>2 DEF OnlyPatternsIllFormed
  <2>4. /\ code_units[t] = "high" => q = t + 1 /\ code_units[t + 1] = "low"
        /\ code_units[t] = "low" => q = t - 1 /\ code_units[t - 1] = "high"
    BY <2>1, <2>2, <2>3 DEF IllFormedUnits, IsLow, IsHigh, Partner
  <2>5. QED  BY <1>3, <1>8, <2>2, <2>4
<1>13. q \notin own
  <2>1. SUFFICES ASSUME q \in own PROVE FALSE
    OBVIOUS
  <2>2. k \in c - 1 .. c + W
    BY <1>2, <1>3, <1>8, <2>1
  <2>3. QED  BY <1>3, <1>5, <1>6, <2>2
<1>14. code_units' = [i \in Positions |->
                     IF i \in own THEN Body[i - c + 1]
                     ELSE IF i \in flat THEN "plain" ELSE code_units[i]]
  BY DEF PlacedAt
<1>15. code_units'[k] = code_units[k] /\ code_units'[q] = code_units[q]
  BY <1>3, <1>6, <1>12, <1>13, <1>14
<1> HIDE DEF flat, own, q, touched
<1>16. k \in pair_member' /\ q \in pair_member'
  BY <1>1, <1>3, <1>5, <1>12, <1>13
<1>17. QED  BY <1>6, <1>8, <1>15, <1>16 DEF q

\* The units next to a pattern are plain once it has been placed.
LEMMA NeighboursPlain ==
    ASSUME DensityType, PairsWhole,
           index < Len(chosen), NEW c \in Positions, PlacedAt(c)
    PROVE  code_units'[c - 1] = "plain" /\ code_units'[c + Width] = "plain"
<1> DEFINE W == Width
           flat == Flattened(c - 1, c + W)
           own == Own(c)
<1>1. /\ total \in Nat /\ W \in 1..3 /\ c \in Nat /\ 1 <= c /\ c + W <= total - 1
      /\ own = c..c+W-1 /\ c - 1 \notin used /\ c + W \notin used
  BY PlacedFacts DEF PlacedAt
<1>2. code_units' = [i \in Positions |->
                     IF i \in own THEN Body[i - c + 1]
                     ELSE IF i \in flat THEN "plain" ELSE code_units[i]]
  BY DEF PlacedAt
<1>3. ASSUME NEW n \in {c - 1, c + W} PROVE code_units'[n] = "plain"
  <2>1. n \in Positions /\ n \notin own /\ n \notin used /\ n \in c - 1 .. c + W
    BY <1>1 DEF Positions
  <2>2. n \in pair_member => n \in flat
    BY <2>1 DEF Flattened
  <2>3. n \notin pair_member => code_units[n] = "plain"
    BY <2>1 DEF PairsWhole
  <2>4. code_units'[n] = IF n \in flat THEN "plain" ELSE code_units[n]
    BY <1>2, <2>1
  <2>5. QED  BY <2>2, <2>3, <2>4
<1>4. QED  BY <1>3

-----------------------------------------------------------------------------
\* After a placement the types are as before.
LEMMA PlacedType ==
    ASSUME DensityType, index < Len(chosen), NEW c \in Positions, PlacedAt(c)
    PROVE  /\ code_units' \in [Positions -> Classes]
           /\ pair_member' \subseteq Positions /\ used' \subseteq Positions
<1>1. /\ Body \in Patterns /\ Own(c) \subseteq Positions
      /\ \A k \in Own(c) : k - c + 1 \in 1..Len(Body)
  BY PlacedFacts DEF PlacedAt
<1>2. \A k \in Own(c) : Body[k - c + 1] \in Classes
  BY <1>1, PatternFacts DEF Classes
<1>3. QED  BY <1>1, <1>2 DEF PlacedAt, DensityType, Classes

\* After a placement the units of patterns, old and new, are the ill-formed
\* ones, and no others.
LEMMA PlacedIllFormed ==
    ASSUME DensityType, OnlyPatternsIllFormed, PairsWhole,
           index < Len(chosen), NEW c \in Positions, PlacedAt(c), total' = total
    PROVE  OnlyPatternsIllFormed'
<1> DEFINE W == Width
           flat == Flattened(c - 1, c + W)
           own == Own(c)
           Bad(k) == \/ /\ code_units'[k] = "low"
                        /\ ~(k - 1 \in Positions /\ code_units'[k - 1] = "high")
                     \/ /\ code_units'[k] = "high"
                        /\ ~(k + 1 \in Positions /\ code_units'[k + 1] = "low")
<1>1. IllFormedUnits' = {k \in Positions : Bad(k)}
  BY DEF IllFormedUnits, IsLow, IsHigh, Positions
<1>2. /\ total \in Nat /\ W \in 1..3 /\ W = Len(Body) /\ c \in Nat /\ 1 <= c /\ c + W <= total - 1
      /\ own = c..c+W-1 /\ own \subseteq Positions /\ own \cap used = {}
      /\ c - 1 \notin used /\ c + W \notin used /\ Body \in Patterns
  BY PlacedFacts DEF PlacedAt, Width
<1>3. code_units' = [i \in Positions |->
                     IF i \in own THEN Body[i - c + 1]
                     ELSE IF i \in flat THEN "plain" ELSE code_units[i]]
      /\ used' = used \cup own
  BY DEF PlacedAt
<1>4. code_units'[c - 1] = "plain" /\ code_units'[c + W] = "plain"
  BY NeighboursPlain
<1>5. ASSUME NEW k \in own PROVE Bad(k)
  <2>1. k \in Positions /\ code_units'[k] = Body[k - c + 1] /\ k - c + 1 \in 1..Len(Body)
        /\ k \in Int
    BY <1>2, <1>3
  <2>2. k > c => k - 1 \in own /\ k - 1 \in Positions /\ code_units'[k - 1] = Body[(k - c + 1) - 1]
    BY <1>2, <1>3, <2>1
  <2>3. k < c + W - 1 => k + 1 \in own /\ k + 1 \in Positions /\ code_units'[k + 1] = Body[(k - c + 1) + 1]
    BY <1>2, <1>3, <2>1
  <2>4. k = c \/ (k > c /\ k - c + 1 > 1)
    BY <1>2, <2>1
  <2>5. k = c + W - 1 \/ (k < c + W - 1 /\ k - c + 1 < Len(Body))
    BY <1>2, <2>1
  <2>6. CASE code_units'[k] = "low"
    <3>1. code_units'[k - 1] # "high"
      BY <1>2, <1>4, <2>1, <2>2, <2>4, <2>6, PatternFacts
    <3>2. QED  BY <2>6, <3>1
  <2>7. CASE code_units'[k] = "high"
    <3>1. code_units'[k + 1] # "low"
      <4>1. CASE k = c + W - 1
        <5>1. k + 1 = c + W
          BY <1>2, <4>1
        <5>2. QED  BY <1>4, <5>1
      <4>2. CASE k < c + W - 1 /\ k - c + 1 < Len(Body)
        BY <1>2, <2>1, <2>3, <2>7, <4>2, PatternFacts
      <4>3. QED  BY <2>5, <4>1, <4>2
    <3>2. QED  BY <2>7, <3>1
  <2>8. QED  BY <1>2, <2>1, <2>6, <2>7, PatternFacts
<1>6. ASSUME NEW k \in used PROVE Bad(k)
  <2>1. k \in Positions /\ k \in Int /\ k \notin own /\ k \notin flat /\ k \in IllFormedUnits
    BY <1>2 DEF DensityType, Positions, OnlyPatternsIllFormed, Flattened
  <2>2. code_units'[k] = code_units[k]
    BY <1>3, <2>1
  <2>3. k - 1 \notin own /\ k + 1 \notin own
    BY <1>2, <2>1
  <2>4. k - 1 \in Positions => code_units'[k - 1] \in {"plain", code_units[k - 1]}
    BY <1>3, <2>3
  <2>5. k + 1 \in Positions => code_units'[k + 1] \in {"plain", code_units[k + 1]}
    BY <1>3, <2>3
  <2>6. QED  BY <2>1, <2>2, <2>4, <2>5 DEF IllFormedUnits, IsLow, IsHigh
<1>7. ASSUME NEW k \in Positions, k \notin used' PROVE ~Bad(k)
  <2>1. CASE code_units'[k] = "plain"
    BY <2>1
  <2>2. CASE code_units'[k] # "plain"
    <3>1. k \notin own /\ k \notin flat /\ code_units'[k] = code_units[k]
      BY <1>3, <1>7, <2>2
    <3>2. /\ code_units[k] = "high" =>
               k + 1 \in Positions /\ code_units'[k + 1] = "low"
          /\ code_units[k] = "low" =>
               k - 1 \in Positions /\ code_units'[k - 1] = "high"
      BY <1>3, <1>7, <2>2, <3>1, SparedUnits
    <3>3. QED  BY <3>1, <3>2
  <2>3. QED  BY <2>1, <2>2
<1> HIDE DEF Bad
<1>8. {k \in Positions : Bad(k)} = used'
  <2>1. used' \subseteq Positions
    BY PlacedType
  <2>2. QED  BY <1>3, <1>5, <1>6, <1>7, <2>1
<1>9. QED  BY <1>1, <1>8 DEF OnlyPatternsIllFormed

\* After a placement the pairs outside patterns are still whole.
LEMMA PlacedPairsWhole ==
    ASSUME DensityType, OnlyPatternsIllFormed, PairsWhole,
           index < Len(chosen), NEW c \in Positions, PlacedAt(c), total' = total
    PROVE  PairsWhole'
<1> DEFINE flat == Flattened(c - 1, c + Width)
           own == Own(c)
<1>1. /\ used' = used \cup own /\ pair_member' = pair_member \ (flat \cup own)
      /\ code_units' = [i \in Positions |->
                     IF i \in own THEN Body[i - c + 1]
                     ELSE IF i \in flat THEN "plain" ELSE code_units[i]]
  BY DEF PlacedAt
<1>2. SUFFICES ASSUME NEW k \in Positions, k \notin used'
               PROVE  /\ k \in pair_member' <=> code_units'[k] # "plain"
                      /\ k \in pair_member' =>
                           (IF code_units'[k] = "high" THEN k + 1 ELSE k - 1) \in pair_member'
  BY DEF PairsWhole, Positions, Partner
<1>3. k \notin used /\ k \notin own
  BY <1>1, <1>2
<1>4. CASE k \in flat
  BY <1>1, <1>3, <1>4
<1>5. CASE k \notin flat
  <2>1. code_units'[k] = code_units[k] /\ (k \in pair_member' <=> k \in pair_member)
    BY <1>1, <1>3, <1>5
  <2>2. k \in pair_member <=> code_units[k] # "plain"
    BY <1>3 DEF PairsWhole
  <2>3. k \in pair_member => Partner(k) \in pair_member'
    BY <1>2, <1>5, <2>2, SparedUnits
  <2>4. QED  BY <2>1, <2>2, <2>3 DEF Partner
<1>6. QED  BY <1>4, <1>5

-----------------------------------------------------------------------------
\* Intervals have the size one expects.
LEMMA IntervalSize ==
    ASSUME NEW a \in Int, NEW n \in Nat
    PROVE  IsFiniteSet(a..a+n-1) /\ Cardinality(a..a+n-1) = n
<1>1. a + n - 1 \in Int /\ (IF a > a + n - 1 THEN 0 ELSE (a + n - 1) - a + 1) = n
  OBVIOUS
<1>2. /\ IsFiniteSet(a..a+n-1)
      /\ Cardinality(a..a+n-1) = IF a > a + n - 1 THEN 0 ELSE (a + n - 1) - a + 1
  BY <1>1, FS_Interval
<1>3. QED  BY <1>1, <1>2

\* As many positions as the number that ends them.
LEMMA UpToSize ==
    ASSUME NEW n \in Nat
    PROVE  IsFiniteSet(1..n) /\ Cardinality(1..n) = n
<1>1. 1 + n - 1 = n /\ 1 \in Int
  OBVIOUS
<1>2. IsFiniteSet(1..1+n-1) /\ Cardinality(1..1+n-1) = n
  BY <1>1, IntervalSize
<1>3. QED  BY <1>1, <1>2

\* Each pattern more adds the places of its errors.
LEMMA CellsStep ==
    ASSUME NEW s \in Seq(Patterns), NEW n \in Nat, n < Len(s)
    PROVE  /\ IsFiniteSet(ErrorPlaces(s, n)) /\ Cardinality(ErrorPlaces(s, n)) \in Nat
           /\ Cardinality(ErrorPlaces(s, n + 1)) = Cardinality(ErrorPlaces(s, n)) + Len(s[n + 1])
<1> DEFINE new == {n + 1} \X (1..Len(s[n + 1]))
<1>1. \A i \in 1..n+1 : s[i] \in Patterns /\ Len(s[i]) \in 1..3
  BY PatternFacts
<1>2. ErrorPlaces(s, n) \subseteq (1..n) \X (1..3)
  <2>1. ASSUME NEW i \in 1..n PROVE {i} \X (1..Len(s[i])) \subseteq (1..n) \X (1..3)
    <3>1. PICK w \in 1..3 : w = Len(s[i])
      <4>1. i \in 1..n+1
        OBVIOUS
      <4>2. QED  BY <1>1, <4>1
    <3>2. 1..w \subseteq 1..3
      OBVIOUS
    <3>3. QED  BY <3>1, <3>2
  <2>2. QED  BY <2>1 DEF ErrorPlaces
<1>3. IsFiniteSet((1..n) \X (1..3))
  <2>1. IsFiniteSet(1..n) /\ IsFiniteSet(1..3)
    <3>1. 3 \in Nat
      OBVIOUS
    <3>2. QED  BY <3>1, UpToSize
  <2>2. QED  BY <2>1, FS_Product
<1>4. IsFiniteSet(ErrorPlaces(s, n)) /\ Cardinality(ErrorPlaces(s, n)) \in Nat
  BY <1>2, <1>3, FS_Subset, FS_CardinalityType
<1>5. ErrorPlaces(s, n + 1) = ErrorPlaces(s, n) \cup new
  <2>1. 1..n+1 = (1..n) \cup {n + 1}
    OBVIOUS
  <2>2. QED  BY <2>1 DEF ErrorPlaces
<1>6. ErrorPlaces(s, n) \cap new = {}
  BY <1>2
<1>7. IsFiniteSet(new) /\ Cardinality(new) = Len(s[n + 1])
  <2>1. Len(s[n + 1]) \in 1..3
    BY <1>1
  <2>2. IsFiniteSet(1..Len(s[n + 1])) /\ Cardinality(1..Len(s[n + 1])) = Len(s[n + 1])
    <3>1. PICK w \in 1..3 : w = Len(s[n + 1])
      BY <2>1
    <3>2. IsFiniteSet(1..w) /\ Cardinality(1..w) = w
      <4>1. w \in Nat
        OBVIOUS
      <4>2. QED  BY <4>1, UpToSize
    <3>3. QED  BY <3>1, <3>2
  <2>3. IsFiniteSet({n + 1}) /\ Cardinality({n + 1}) = 1
    BY FS_Singleton
  <2>4. /\ IsFiniteSet({n + 1} \X (1..Len(s[n + 1])))
        /\ Cardinality({n + 1} \X (1..Len(s[n + 1]))) =
              Cardinality({n + 1}) * Cardinality(1..Len(s[n + 1]))
    BY <2>2, <2>3, FS_Product
  <2>5. PICK w \in 1..3 : w = Len(s[n + 1])
    BY <2>1
  <2>6. QED  BY <2>2, <2>3, <2>4, <2>5
<1> HIDE DEF new
<1>8. Cardinality(ErrorPlaces(s, n) \cup new) =
        Cardinality(ErrorPlaces(s, n)) + Cardinality(new) - Cardinality({})
  BY <1>4, <1>6, <1>7, FS_Union
<1>9. Len(s[n + 1]) \in Nat
  BY <1>1
<1>10. Cardinality({}) = 0
  BY FS_EmptySet
<1>11. Cardinality(ErrorPlaces(s, n + 1)) = Cardinality(ErrorPlaces(s, n)) + Len(s[n + 1])
  <2>1. PICK x \in Nat : x = Cardinality(ErrorPlaces(s, n))
    BY <1>4
  <2>2. PICK w \in Nat : w = Len(s[n + 1])
    BY <1>9
  <2>3. Cardinality(ErrorPlaces(s, n + 1)) = x + w - 0
    BY <1>5, <1>7, <1>8, <1>10, <2>1, <2>2
  <2>4. QED  BY <2>1, <2>2, <2>3
<1>12. QED  BY <1>4, <1>11

\* Choosing one pattern more leaves the earlier ones where they are.
LEMMA CellsAppend ==
    ASSUME NEW s \in Seq(Patterns), NEW p \in Patterns
    PROVE  /\ Append(s, p) \in Seq(Patterns) /\ Len(Append(s, p)) = Len(s) + 1
           /\ Cardinality(ErrorPlaces(Append(s, p), Len(s) + 1)) =
                Cardinality(ErrorPlaces(s, Len(s))) + Len(p)
<1> DEFINE t == Append(s, p)
<1>1. t \in Seq(Patterns) /\ Len(t) = Len(s) + 1 /\ Len(s) \in Nat /\ t[Len(s) + 1] = p
  OBVIOUS
<1>2. \A i \in 1..Len(s) : t[i] = s[i]
  OBVIOUS
<1>3. ErrorPlaces(t, Len(s)) = ErrorPlaces(s, Len(s))
  BY <1>2 DEF ErrorPlaces
<1> HIDE DEF t
<1>4. Cardinality(ErrorPlaces(t, Len(s) + 1)) = Cardinality(ErrorPlaces(t, Len(s))) + Len(t[Len(s) + 1])
  BY <1>1, CellsStep
<1>5. QED  BY <1>1, <1>3, <1>4 DEF t

\* However many patterns, their places can be counted.
LEMMA CellsTotal ==
    ASSUME NEW s \in Seq(Patterns)
    PROVE  Cardinality(ErrorPlaces(s, Len(s))) \in Nat
<1>1. CASE Len(s) = 0
  <2>1. ErrorPlaces(s, Len(s)) = {}
    BY <1>1 DEF ErrorPlaces
  <2>2. QED  BY <2>1, FS_EmptySet
<1>2. CASE Len(s) # 0
  <2>1. Len(s) - 1 \in Nat /\ Len(s) - 1 < Len(s) /\ (Len(s) - 1) + 1 = Len(s)
    BY <1>2
  <2>2. Len(s[Len(s)]) \in Nat
    <3>1. s[Len(s)] \in Patterns
      BY <1>2
    <3>2. QED  BY <3>1, PatternFacts
  <2>3. /\ Cardinality(ErrorPlaces(s, Len(s) - 1)) \in Nat
        /\ Cardinality(ErrorPlaces(s, Len(s))) = Cardinality(ErrorPlaces(s, Len(s) - 1)) + Len(s[Len(s)])
    BY <2>1, CellsStep
  <2>4. QED  BY <2>2, <2>3
<1>3. QED  BY <1>1, <1>2

\* Before the first pattern nothing is placed.
LEMMA NoCells ==
    ASSUME NEW s
    PROVE  Cardinality(ErrorPlaces(s, 0)) = 0
<1>1. ErrorPlaces(s, 0) = {}
  BY DEF ErrorPlaces
<1>2. QED  BY <1>1, FS_EmptySet

\* A pattern placed away from the others has an end of its own.
LEMMA EndsStep ==
    ASSUME NEW n \in Nat, NEW S \in SUBSET (0..n), NEW c \in Nat, NEW w \in Nat \ {0},
           (c..c+w-1) \cap S = {}, c - 1 \notin S, c + w \notin S
    PROVE  /\ IsFiniteSet(Ends(S)) /\ Cardinality(Ends(S)) \in Nat
           /\ Cardinality(Ends(S \cup (c..c+w-1))) = Cardinality(Ends(S)) + 1
           /\ Cardinality(S \cup (c..c+w-1)) = Cardinality(S) + w
           /\ Cardinality(S) \in Nat
<1> DEFINE own == c..c+w-1
<1>1. IsFiniteSet(S) /\ IsFiniteSet(own) /\ Cardinality(own) = w
  <2>1. IsFiniteSet(0..n)
    BY FS_Interval
  <2>2. IsFiniteSet(c..c+w-1) /\ Cardinality(c..c+w-1) = w
    <3>1. c \in Int /\ w \in Nat
      OBVIOUS
    <3>2. QED  BY <3>1, IntervalSize
  <2>3. QED  BY <2>1, <2>2, FS_Subset
<1>2. Ends(S) \subseteq S
  BY DEF Ends
<1>3. IsFiniteSet(Ends(S)) /\ Cardinality(Ends(S)) \in Nat /\ Cardinality(S) \in Nat
  BY <1>1, <1>2, FS_Subset, FS_CardinalityType
<1>4. Ends(S \cup own) = Ends(S) \cup {c + w - 1}
  <2>1. \A k \in S : k + 1 \notin own
    OBVIOUS
  <2>2. \A k \in own : k + 1 \in S \cup own <=> k # c + w - 1
    OBVIOUS
  <2>3. c + w - 1 \in own
    OBVIOUS
  <2> HIDE DEF own
  <2>4. QED  BY <2>1, <2>2, <2>3 DEF Ends
<1>5. c + w - 1 \notin Ends(S)
  BY <1>2
<1>6. Cardinality(Ends(S) \cup {c + w - 1}) = Cardinality(Ends(S)) + 1
  BY <1>3, <1>5, FS_AddElement
<1>7. Cardinality(S \cup own) = Cardinality(S) + w
  <2>1. S \cap own = {}
    OBVIOUS
  <2>2. Cardinality(S \cup own) = Cardinality(S) + Cardinality(own) - Cardinality(S \cap own)
    BY <1>1, FS_Union
  <2>3. Cardinality({}) = 0
    BY FS_EmptySet
  <2>4. PICK x \in Nat : x = Cardinality(S)
    BY <1>3
  <2>5. Cardinality(S \cup own) = x + w - 0
    BY <1>1, <2>1, <2>2, <2>3, <2>4
  <2>6. QED  BY <2>4, <2>5
<1>8. QED  BY <1>3, <1>4, <1>6, <1>7

-----------------------------------------------------------------------------
\* Where a stream has five units for each of n patterns, so has every slot.
LEMMA SlotWidth ==
    ASSUME NEW t \in Nat, NEW n \in Nat \ {0}, NEW i \in Nat, i < n, t >= 5 * n
    PROVE  /\ (i * t) \div n \in Nat /\ ((i + 1) * t) \div n \in Nat
           /\ ((i + 1) * t) \div n >= (i * t) \div n + 5
           /\ ((i + 1) * t) \div n <= t
<1> DEFINE a == (i * t) \div n
           b == ((i + 1) * t) \div n
<1>1. i * t \in Nat /\ (i + 1) * t = i * t + t /\ (i + 1) * t \in Nat
  OBVIOUS
<1>2. a \in Nat /\ a * n <= i * t
  <2>1. PICK x \in Nat : x = i * t
    BY <1>1
  <2>2. x \div n \in Nat /\ (x \div n) * n <= x
    OBVIOUS
  <2>3. QED  BY <2>1, <2>2
<1>3. b \in Nat /\ b * n <= i * t + t /\ i * t + t < b * n + n
  <2>1. PICK y \in Nat : y = i * t + t
    BY <1>1
  <2>2. y \div n \in Nat /\ (y \div n) * n <= y /\ y < (y \div n) * n + n
    OBVIOUS
  <2>3. QED  BY <1>1, <2>1, <2>2
<1> HIDE DEF a, b
<1>4. (a + 5) * n = a * n + 5 * n /\ (b + 1) * n = b * n + n
  BY <1>2, <1>3
<1>5. (a + 5) * n < (b + 1) * n
  BY <1>1, <1>2, <1>3, <1>4
<1>6. a + 5 < b + 1
  <2>1. a + 5 >= b + 1 => (a + 5) * n >= (b + 1) * n
    BY <1>2, <1>3
  <2>2. QED  BY <1>2, <1>3, <1>5, <2>1
<1>7. i * t + t <= n * t
  <2>1. i + 1 <= n => (i + 1) * t <= n * t
    OBVIOUS
  <2>2. QED  BY <1>1, <2>1
<1>8. b <= t
  <2>1. b > t => b * n >= (t + 1) * n
    BY <1>3
  <2>2. (t + 1) * n = n * t + n
    OBVIOUS
  <2>3. b * n <= n * t
    BY <1>1, <1>3, <1>7
  <2>4. n * t \in Nat /\ b * n \in Nat
    BY <1>3
  <2>5. QED  BY <1>3, <2>1, <2>2, <2>3, <2>4
<1>9. QED  BY <1>2, <1>3, <1>6, <1>8 DEF a, b

-----------------------------------------------------------------------------
\* A stream as build_valid_units makes it, with nothing chosen or placed yet.
LEMMA DensityStarts == DensityInit => DInv
<1> SUFFICES ASSUME DensityInit PROVE DInv
  OBVIOUS
<1>1. PICK pairs \in SUBSET (0..total-2) :
          /\ \A k \in pairs : k + 1 \notin pairs
          /\ code_units = [k \in Positions |-> CASE k \in pairs -> "high"
                                              [] k - 1 \in pairs -> "low"
                                              [] OTHER -> "plain"]
          /\ pair_member = pairs \cup {k + 1 : k \in pairs}
  BY DEF DensityInit
<1>2. /\ stage = "choosing" /\ used = {} /\ chosen = <<>> /\ remaining = target /\ index = 0
      /\ total \in Nat /\ target \in Nat
  BY DEF DensityInit
<1>3. /\ \A k \in pairs : k \in Positions /\ k + 1 \in Positions /\ k \in Int
      /\ \A k \in Positions : k \in Int
      /\ Positions = 0..total-1
  BY <1>2 DEF Positions
<1>4. /\ \A k \in Positions : k \in pairs => code_units[k] = "high"
      /\ \A k \in Positions : k \notin pairs /\ k - 1 \in pairs => code_units[k] = "low"
      /\ \A k \in Positions : k \notin pairs /\ k - 1 \notin pairs => code_units[k] = "plain"
  BY <1>1
<1>5. \A k \in Positions : k - 1 \in pairs => k \notin pairs /\ code_units[k] = "low"
  BY <1>1, <1>3, <1>4
<1>6. pair_member = {k \in Positions : k \in pairs \/ k - 1 \in pairs}
  <2>1. \A k \in pairs : (k + 1) - 1 = k
    BY <1>3
  <2>2. \A k \in Positions : k - 1 \in pairs => k = (k - 1) + 1
    BY <1>3
  <2>3. QED  BY <1>1, <1>3, <2>1, <2>2
<1>7. DensityType
  <2>1. code_units \in [Positions -> Classes]
    BY <1>1 DEF Classes
  <2>2. pair_member \subseteq Positions /\ used \subseteq Positions
    BY <1>2, <1>6
  <2>3. chosen \in Seq(Patterns) /\ remaining \in 0..target /\ index \in 0..Len(chosen)
    BY <1>2
  <2>4. QED  BY <1>2, <2>1, <2>2, <2>3 DEF DensityType
<1>8. OnlyPatternsIllFormed
  <2>1. ASSUME NEW k \in Positions PROVE k \notin IllFormedUnits
    <3>1. k \in Int /\ k + 1 - 1 = k
      BY <1>3
    <3>2. CASE k \in pairs
      BY <1>3, <1>4, <1>5, <3>1, <3>2 DEF IllFormedUnits, IsHigh, IsLow
    <3>3. CASE k - 1 \in pairs
      BY <1>3, <1>4, <1>5, <3>1, <3>3 DEF IllFormedUnits, IsHigh, IsLow
    <3>4. CASE k \notin pairs /\ k - 1 \notin pairs
      BY <1>4, <3>4 DEF IllFormedUnits, IsHigh, IsLow
    <3>5. QED  BY <3>2, <3>3, <3>4
  <2>2. IllFormedUnits \subseteq Positions
    BY DEF IllFormedUnits
  <2>3. QED  BY <1>2, <2>1, <2>2 DEF OnlyPatternsIllFormed
<1>9. PairsWhole
  <2>1. SUFFICES ASSUME NEW k \in Positions
                 PROVE  /\ k \in pair_member <=> code_units[k] # "plain"
                        /\ k \in pair_member => Partner(k) \in pair_member
    BY DEF PairsWhole
  <2>2. k \in Int /\ k + 1 - 1 = k
    BY <1>3
  <2>3. CASE k \in pairs
    BY <1>3, <1>4, <1>6, <2>2, <2>3 DEF Partner
  <2>4. CASE k - 1 \in pairs
    BY <1>3, <1>5, <1>6, <2>2, <2>4 DEF Partner
  <2>5. CASE k \notin pairs /\ k - 1 \notin pairs
    BY <1>4, <1>6, <2>1, <2>5
  <2>6. QED  BY <2>3, <2>4, <2>5
<1>10. Counted
  <2>1. Ends(used) = {} /\ Len(chosen) = 0
    BY <1>2 DEF Ends
  <2>2. Cardinality({}) = 0
    BY FS_EmptySet
  <2>3. Cardinality(ErrorPlaces(chosen, 0)) = 0
    BY NoCells
  <2>4. QED  BY <1>2, <2>1, <2>2, <2>3 DEF Counted
<1>11. Off /\ WithinSlots
  BY <1>2 DEF Off, WithinSlots, RoomSuffices
<1>12. QED  BY <1>7, <1>8, <1>9, <1>10, <1>11 DEF DInv

\* What does not touch the stream keeps what is said of it.
LEMMA StreamStays ==
    ASSUME DInv, UNCHANGED <<total, target, code_units, pair_member, used, index>>
    PROVE  /\ OnlyPatternsIllFormed' /\ PairsWhole' /\ Off'
           /\ Positions' = Positions /\ Classes' = Classes /\ Patterns' = Patterns
           /\ Ends(used)' = Ends(used)
  BY DEF DInv, OnlyPatternsIllFormed, PairsWhole, Off, IllFormedUnits, IsHigh,
         IsLow, Partner, Positions, Classes, Patterns, Ends

\* ChoosePattern preserves the invariant of the stream.
LEMMA ChoosePatternKeeps == DInv /\ ChoosePattern => DInv'
<1> SUFFICES ASSUME DInv, ChoosePattern PROVE DInv'
  OBVIOUS
<1>1. PICK p \in Usable : chosen' = Append(chosen, p) /\ remaining' = remaining - Len(p)
  BY DEF ChoosePattern
<1>2. /\ stage = "choosing" /\ stage' = stage
      /\ UNCHANGED <<total, target, code_units, pair_member, used, index>>
  BY DEF ChoosePattern, stream
<1>3. p \in Patterns /\ Len(p) \in 1..3 /\ Len(p) <= remaining
  BY PatternFacts DEF Usable
<1>4. /\ total \in Nat /\ target \in Nat /\ chosen \in Seq(Patterns) /\ remaining \in 0..target
      /\ index \in 0..Len(chosen) /\ used = {} /\ index = 0
      /\ Cardinality(ErrorPlaces(chosen, Len(chosen))) + remaining = target
      /\ Cardinality(used) = Cardinality(ErrorPlaces(chosen, index)) /\ Cardinality(Ends(used)) = index
  BY <1>2 DEF DInv, DensityType, Counted
<1>5. /\ chosen' \in Seq(Patterns) /\ Len(chosen') = Len(chosen) + 1
      /\ Cardinality(ErrorPlaces(chosen', Len(chosen'))) = Cardinality(ErrorPlaces(chosen, Len(chosen))) + Len(p)
  BY <1>1, <1>3, <1>4, CellsAppend
<1>6. DensityType'
  <2>1. remaining' \in 0..target
    BY <1>1, <1>3, <1>4
  <2>2. index' \in 0..Len(chosen')
    BY <1>2, <1>4, <1>5
  <2>3. QED  BY <1>2, <1>5, <2>1, <2>2, StreamStays DEF DInv, DensityType
<1>7. Counted'
  <2>1. Cardinality(ErrorPlaces(chosen, Len(chosen))) \in Int
    BY <1>4, CellsTotal
  <2>2. Cardinality(ErrorPlaces(chosen', Len(chosen'))) + remaining' = target
    BY <1>1, <1>3, <1>4, <1>5, <2>1
  <2>3. Cardinality(ErrorPlaces(chosen', 0)) = 0 /\ Cardinality(ErrorPlaces(chosen, 0)) = 0
    BY NoCells
  <2>4. QED  BY <1>2, <1>4, <2>2, <2>3, StreamStays DEF Counted, ErrorPlaces, Ends
<1>8. WithinSlots'
  BY <1>2 DEF WithinSlots, RoomSuffices
<1>9. QED  BY <1>2, <1>6, <1>7, <1>8, StreamStays DEF DInv

\* StartPlacing preserves the invariant of the stream.
LEMMA StartPlacingKeeps == DInv /\ StartPlacing => DInv'
<1> SUFFICES ASSUME DInv, StartPlacing PROVE DInv'
  OBVIOUS
<1>1. /\ stage = "choosing" /\ remaining <= 0 /\ stage' = "placing" /\ UNCHANGED <<chosen, remaining>>
      /\ UNCHANGED <<total, target, code_units, pair_member, used, index>>
  BY DEF StartPlacing, stream, choice
<1>2. DensityType'
  BY <1>1, StreamStays DEF DInv, DensityType
<1>3. used = {} /\ index = 0 /\ remaining = 0
  BY <1>1 DEF DInv, Counted, DensityType
<1>4. Counted'
  BY <1>1, <1>3 DEF DInv, Counted, ErrorPlaces, Ends
<1>5. WithinSlots'
  BY <1>1, <1>3 DEF WithinSlots, RoomSuffices
<1>6. QED  BY <1>1, <1>2, <1>4, <1>5, StreamStays DEF DInv

\* In a stream with room every wanted start is a place where the pattern fits,
\* inside its slot.
LEMMA RoomToFit ==
    ASSUME DInv, index < Len(chosen), stage = "placing", total >= 5 * Len(chosen),
           NEW start \in WantedStarts
    PROVE  /\ ~IndexError(start) /\ start \in Positions /\ Fits(start)
           /\ start + Width + 1 <= SlotStart(index + 1)
           /\ SlotStart(index) \in Nat /\ SlotStart(index + 1) \in Nat
           /\ SlotStart(index) <= start
<1> DEFINE low == SlotStart(index)
           next == SlotStart(index + 1)
           W == Width
<1>1. /\ total \in Nat /\ index \in Nat /\ Len(chosen) \in Nat \ {0} /\ index + 1 \in 1..Len(chosen)
      /\ used \subseteq Positions
  BY DEF DInv, DensityType
<1>2. W \in 1..3
  <2>1. Body \in Patterns
    BY <1>1 DEF DInv, DensityType, Body
  <2>2. QED  BY <2>1, PatternFacts DEF Width
<1>3. low \in Nat /\ next \in Nat /\ next >= low + 5 /\ next <= total
  BY <1>1, SlotWidth DEF SlotStart
<1>4. \A k \in used : k + 2 <= low
  BY <1>1 DEF DInv, WithinSlots
<1> HIDE DEF low, next, W
<1>5. start \in IF next - W - 1 <= low + 1 THEN {low + 1} ELSE low+1..next - W - 1
  BY DEF WantedStarts, low, next, W
<1>6. start \in Nat /\ low + 1 <= start /\ start + W + 1 <= next
  BY <1>2, <1>3, <1>5
<1>7. start \in Positions /\ 1 <= start /\ start + W <= total - 1
  BY <1>1, <1>2, <1>3, <1>6 DEF Positions
<1>8. \A k \in used : k < start - 1
  BY <1>1, <1>3, <1>4, <1>6 DEF Positions
<1>9. Own(start) \cap used = {} /\ start - 1 \notin used /\ start + W \notin used
  BY <1>1, <1>2, <1>6, <1>8 DEF Own, Positions, W
<1>10. ~IndexError(start)
  BY <1>1, <1>2, <1>7 DEF IndexError, W, Positions
<1>11. QED  BY <1>3, <1>6, <1>7, <1>9, <1>10 DEF Fits, low, next, W

\* Where the wanted start fits, the search takes it.
LEMMA FirstFitIsStart ==
    ASSUME NEW start \in Positions, Fits(start), NEW c \in FirstFits(start), total \in Nat
    PROVE  c = start
<1>1. c \in Int /\ start \in Int /\ Rank(c, start) <= Rank(start, start)
  BY DEF FirstFits, Positions
<1>2. QED  BY <1>1 DEF Rank

\* PlacePattern preserves the invariant of the stream: this is where inject
\* earns its promise.
LEMMA PlacePatternKeeps == DInv /\ PlacePattern => DInv'
<1> SUFFICES ASSUME DInv, PlacePattern PROVE DInv'
  OBVIOUS
<1>1. /\ stage = "placing" /\ index < Len(chosen) /\ index' = index + 1
      /\ UNCHANGED <<stage, total, target, chosen, remaining>>
  BY DEF PlacePattern, choice
<1>2. PICK start \in WantedStarts :
          /\ ~IndexError(start)
          /\ \E c \in FirstFits(start) : PlacedAt(c)
  BY DEF PlacePattern, PlacedAt, FirstFits
<1>3. PICK c \in FirstFits(start) : PlacedAt(c)
  BY <1>2
<1>4. c \in Positions /\ Fits(c)
  BY DEF FirstFits
<1>5. DensityType /\ OnlyPatternsIllFormed /\ PairsWhole
  BY DEF DInv
<1>6. /\ total \in Nat /\ index + 1 \in 1..Len(chosen) /\ index \in Nat
      /\ Body \in Patterns /\ Width \in 1..3 /\ Width = Len(chosen[index + 1])
      /\ c \in Nat /\ 1 <= c /\ c + Width <= total - 1
      /\ Own(c) = c..c+Width-1
      /\ Own(c) \cap used = {} /\ c - 1 \notin used /\ c + Width \notin used
      /\ used' = used \cup Own(c)
  BY <1>1, <1>3, <1>4, <1>5, PlacedFacts DEF PlacedAt, Width, Body, DensityType
<1>7. DensityType'
  <2>1. Positions' = Positions /\ Classes' = Classes /\ Patterns' = Patterns
    BY <1>1 DEF Positions, Classes, Patterns
  <2>2. /\ code_units' \in [Positions -> Classes] /\ pair_member' \subseteq Positions
        /\ used' \subseteq Positions
    BY <1>1, <1>3, <1>4, <1>5, PlacedType
  <2>3. index' \in 0..Len(chosen)
    BY <1>1, <1>6
  <2>4. QED  BY <1>1, <1>5, <2>1, <2>2, <2>3 DEF DensityType
<1>8. OnlyPatternsIllFormed'
  BY <1>1, <1>3, <1>4, <1>5, PlacedIllFormed
<1>9. PairsWhole'
  BY <1>1, <1>3, <1>4, <1>5, PlacedPairsWhole
<1>10. Off'
  BY <1>1, <1>6 DEF DInv, Off
<1>11. Counted'
  <2> DEFINE own == c..c+Width-1
  <2>1. used \in SUBSET (0..total) /\ Width \in Nat \ {0}
    <3>1. used \subseteq 0..total-1
      BY <1>5 DEF DensityType, Positions
    <3>2. total \in Nat /\ Width \in 1..3
      BY <1>6
    <3>3. 0..total-1 \subseteq 0..total
      BY <3>2
    <3>4. Width \in Nat \ {0}
      BY <3>2
    <3>5. QED  BY <3>1, <3>3, <3>4
  <2>2. /\ Cardinality(Ends(used \cup own)) = Cardinality(Ends(used)) + 1
        /\ Cardinality(used \cup own) = Cardinality(used) + Width
    <3>1. (c..c+Width-1) \cap used = {} /\ c - 1 \notin used /\ c + Width \notin used
      BY <1>6
    <3>2. total \in Nat /\ c \in Nat
      BY <1>6
    <3>3. QED  BY <2>1, <3>1, <3>2, EndsStep
  <2>3. Cardinality(ErrorPlaces(chosen, index + 1)) = Cardinality(ErrorPlaces(chosen, index)) + Width
    BY <1>1, <1>5, <1>6, CellsStep DEF DensityType
  <2>4. /\ Cardinality(ErrorPlaces(chosen, Len(chosen))) + remaining = target
        /\ Cardinality(used) = Cardinality(ErrorPlaces(chosen, index))
        /\ Cardinality(Ends(used)) = index /\ remaining = 0
    BY <1>1 DEF DInv, Counted
  <2>5. used' = used \cup own
    BY <1>6
  <2> HIDE DEF own
  <2>6. /\ Cardinality(used') = Cardinality(ErrorPlaces(chosen, index'))
        /\ Cardinality(Ends(used')) = index'
    BY <1>1, <2>2, <2>3, <2>4, <2>5
  <2>7. QED  BY <1>1, <2>4, <2>6 DEF Counted, ErrorPlaces, Ends
<1>12. WithinSlots'
  <2>1. RoomSuffices'
    BY <1>1 DEF RoomSuffices
  <2>2. SUFFICES ASSUME total >= 5 * Len(chosen), NEW k \in used'
                 PROVE  k + 2 <= SlotStart(index + 1)
    BY <1>1, <2>1 DEF WithinSlots, SlotStart
  <2>3. /\ start \in Positions /\ Fits(start)
        /\ start + Width + 1 <= SlotStart(index + 1)
        /\ SlotStart(index) \in Nat /\ SlotStart(index + 1) \in Nat
        /\ SlotStart(index) <= start
    BY <1>1, <2>2, RoomToFit
  <2>4. c = start
    BY <1>3, <1>6, <2>3, FirstFitIsStart
  <2>5. CASE k \in used
    <3>1. k + 2 <= SlotStart(index)
      BY <1>1, <1>6, <2>2, <2>5 DEF DInv, WithinSlots
    <3>2. k \in Int
      BY <1>5, <2>5 DEF DensityType, Positions
    <3>3. start \in Nat
      BY <1>6, <2>4
    <3>4. PICK w \in 1..3 : w = Width
      BY <1>6
    <3>5. start + w + 1 <= SlotStart(index + 1)
      BY <2>3, <3>4
    <3>6. QED  BY <2>3, <3>1, <3>2, <3>3, <3>4, <3>5
  <2>6. CASE k \in Own(c)
    BY <1>6, <2>3, <2>4, <2>6
  <2>7. QED  BY <1>6, <2>2, <2>5, <2>6
<1>13. QED  BY <1>7, <1>8, <1>9, <1>10, <1>11, <1>12 DEF DInv

\* Both ways in which inject gives up preserve the invariant: they are taken in
\* dense streams only.
LEMMA GivingUpKeeps == DInv /\ (RunsOffTheEnd \/ NothingFits) => DInv'
<1> SUFFICES ASSUME DInv, RunsOffTheEnd \/ NothingFits PROVE DInv'
  OBVIOUS
<1>1. /\ stage = "placing" /\ index < Len(chosen) /\ stage' \in {"index_error", "runtime_error"}
      /\ UNCHANGED <<total, target, code_units, pair_member, used, index, chosen, remaining>>
      /\ \E start \in WantedStarts : IndexError(start) \/ FirstFits(start) = {}
  BY DEF RunsOffTheEnd, NothingFits, stream, choice
<1>2. DensityType'
  BY <1>1, StreamStays DEF DInv, DensityType
<1>3. Counted'
  BY <1>1 DEF DInv, Counted, ErrorPlaces, Ends
<1>4. total < 5 * Len(chosen)
  <2>1. SUFFICES ASSUME total >= 5 * Len(chosen) PROVE FALSE
    BY DEF DInv, DensityType
  <2>2. PICK start \in WantedStarts : IndexError(start) \/ FirstFits(start) = {}
    BY <1>1
  <2>3. ~IndexError(start) /\ start \in Positions /\ Fits(start) /\ total \in Nat
    BY <1>1, <2>1, RoomToFit DEF DInv, DensityType
  <2>4. start \in FirstFits(start)
    <3>1. \A d \in Positions : Rank(start, start) <= Rank(d, start)
      BY <2>3 DEF Rank, Positions
    <3>2. QED  BY <2>3, <3>1 DEF FirstFits
  <2>5. QED  BY <2>2, <2>3, <2>4
<1>5. WithinSlots'
  BY <1>1, <1>4 DEF DInv, DensityType, WithinSlots, RoomSuffices
<1>6. QED  BY <1>1, <1>2, <1>3, <1>5, StreamStays DEF DInv

\* AllPlaced preserves the invariant of the stream.
LEMMA AllPlacedKeeps == DInv /\ AllPlaced => DInv'
<1> SUFFICES ASSUME DInv, AllPlaced PROVE DInv'
  OBVIOUS
<1>1. /\ stage = "placing" /\ index = Len(chosen) /\ stage' = "done"
      /\ UNCHANGED <<total, target, code_units, pair_member, used, index, chosen, remaining>>
  BY DEF AllPlaced, stream, choice
<1>2. DensityType'
  BY <1>1, StreamStays DEF DInv, DensityType
<1>3. Counted'
  BY <1>1 DEF DInv, Counted, ErrorPlaces, Ends
<1>4. WithinSlots'
  BY <1>1 DEF DInv, WithinSlots, RoomSuffices, SlotStart
<1>5. QED  BY <1>1, <1>2, <1>3, <1>4, StreamStays DEF DInv

\* Stuttering preserves the invariant of the stream.
LEMMA DensityRests == DInv /\ UNCHANGED densityVars => DInv'
<1> SUFFICES ASSUME DInv, UNCHANGED densityVars PROVE DInv'
  OBVIOUS
<1>1. UNCHANGED <<stage, total, target, code_units, pair_member, used, index, chosen, remaining>>
  BY DEF densityVars, stream, choice
<1>2. DensityType'
  BY <1>1, StreamStays DEF DInv, DensityType
<1>3. Counted'
  BY <1>1 DEF DInv, Counted, ErrorPlaces, Ends
<1>4. WithinSlots'
  BY <1>1 DEF DInv, WithinSlots, RoomSuffices, SlotStart
<1>5. QED  BY <1>1, <1>2, <1>3, <1>4, StreamStays DEF DInv

\* Every step of choosing and placing preserves the invariant of the stream.
LEMMA DensityKeeps == DInv /\ [DensityNext]_(densityVars) => DInv'
<1> SUFFICES ASSUME DInv, [DensityNext]_(densityVars) PROVE DInv'
  OBVIOUS
<1>1. CASE ChoosePattern  BY <1>1, ChoosePatternKeeps
<1>2. CASE StartPlacing   BY <1>2, StartPlacingKeeps
<1>3. CASE PlacePattern   BY <1>3, PlacePatternKeeps
<1>4. CASE RunsOffTheEnd  BY <1>4, GivingUpKeeps
<1>5. CASE NothingFits    BY <1>5, GivingUpKeeps
<1>6. CASE AllPlaced      BY <1>6, AllPlacedKeeps
<1>7. CASE UNCHANGED densityVars BY <1>7, DensityRests
<1>8. QED  BY <1>1, <1>2, <1>3, <1>4, <1>5, <1>6, <1>7 DEF DensityNext, DensityStep, Ended

\* Every state of the density generator satisfies its invariant.
LEMMA DensityInvariant == DensitySpec => []DInv
  BY DensityStarts, DensityKeeps, PTL DEF DensitySpec

\* StreamInv for every length, target and stream: at every placement the
\* ill-formed units are exactly those of the patterns, pairs outside them are
\* whole, and one unit at least is kept between patterns and at both ends.
THEOREM StreamIsExact == DensitySpec => []StreamInv
<1>1. ASSUME DInv PROVE StreamInv
  <2>1. DensityTypeOK
    BY <1>1 DEF DInv, DensityType, DensityTypeOK
  <2>2. Guarded
    BY <1>1 DEF DInv, Off, Counted, Ends, Guarded
  <2>4. QED  BY <1>1, <2>1, <2>2 DEF DInv, StreamInv
<1>2. QED  BY <1>1, DensityInvariant, PTL

\* TargetReached for every length and target: a stream that is done has as many
\* ill-formed units as were asked for, and inject never gives up where every
\* pattern has five units of its own.
THEOREM TargetIsReached == DensitySpec => []TargetReached
<1>1. ASSUME DInv PROVE TargetReached
  <2>2. stage = "done" => Cardinality(used) = target
    <3>1. SUFFICES ASSUME stage = "done" PROVE Cardinality(used) = target
      OBVIOUS
    <3>2. /\ Cardinality(ErrorPlaces(chosen, Len(chosen))) + remaining = target /\ remaining = 0
          /\ Cardinality(used) = Cardinality(ErrorPlaces(chosen, Len(chosen)))
      BY <1>1, <3>1 DEF DInv, Counted
    <3>3. Cardinality(ErrorPlaces(chosen, Len(chosen))) \in Nat
      BY <1>1, CellsTotal DEF DInv, DensityType
    <3>4. QED  BY <3>2, <3>3
  <2>3. QED
    BY <1>1, <2>2 DEF DInv, WithinSlots, OnlyPatternsIllFormed, TargetReached
<1>2. QED  BY <1>1, DensityInvariant, PTL
=============================================================================
