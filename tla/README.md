# A verification of the UTF-16 validator

This directory holds TLA+ specifications of the program in this repository: a
UTF-16 validator and repairer built as Parabix kernels, the scripts that make
datasets for it and measure it, and the scripts that set it up and publish the
evidence. The specifications are checked with TLC on small instances. Most of their
safety properties are proved with TLAPS as well, for all values of the constants: those
of the kernels and their consumers, of the reference decoder and the fuzz suite, of the
host driver, of the bit-stream prototypes, of benchmark campaigns, of the density
generator and its datasets, of the corpus generator and of both scripts.
`PROJECT.json` maps every definition to the source lines it models. In this text `patch` is
`patches/utf16-simd-milestone.patch`, which holds all kernels and `main()`.

## 1. Inventory

| Part | Where | State it keeps | Operations | Talks to |
|---|---|---|---|---|
| Error rule | patch 589-601, `scripts/utf16_oracle.py` | none | what makes a code unit ill-formed, in either byte order | every part |
| SIMD counting kernel | patch 380-580 | `pendingHigh`, `errAccum`, output scalar | one call for each segment: pack loop, scalar tail, end of input | the pipeline, which cuts the input and overwrites the scalar |
| Scalar counting kernel | patch 200-330 | pending flag, accumulator, output scalar | one call for each segment | the same |
| Error marks kernel | patch 585-945 | the same, and the marks stream | packs, blocks, partial block, odd byte; reads two bytes ahead | its consumer, through a reused buffer |
| Consumers | patch 948-1310 | marks consumed | linear printer, two-level scan, repair | the marks kernel; standard output |
| Host driver | patch 1380-1910 | descriptors, temporary file, JSON document | open, stat, run, redirect, read back, emit | the kernels; the operating system |
| Reference oracle | `scripts/utf16_oracle.py` | none between calls | find, repair, encode | the tests and generators |
| Fuzz suite | `scripts/test_utf16_oracle_fuzz.py` | a case and what failed of it | diagnose, run, compare, classify | oracle and program |
| Bit-stream prototypes | `benchmarks/llmask_generation.h`, `maskhl_aggregation.h`, `prototype_error_position_scan.cpp` | LLmasks, maskHL | three levels, several strategies each | one another |
| Input generators | `scripts/generate_error_density_datasets.py`, `benchmarks/generate_utf16_benchmark.py` | datasets and `manifest.csv` | build, inject, verify, replace, merge | validator and oracle; the benchmark reads the manifest |
| Corpus generator | `scripts/generate_multilingual_corpus.py` | payloads, metadata, the output directory | grow, encode, verify, write, check | a validator of its own (`llmask_reference.py`); the test of the corpus |
| Benchmark harness | `benchmarks/benchmark_utf16_pipeline.py` | gate results, rows, result files | gate, time, write | the validator, simdutf |
| Set-up | `scripts/setup_parabix.sh` | the Parabix checkout, the binary | clone, fetch, inspect, check out, patch, configure, build | git, cmake; the developer, who works in the same checkout |
| Reproduction workflow | `scripts/reproduce_research.sh` | evidence and staging directories | stages, promotion, EXIT trap | harness, generators, tests; the binary of the set-up |
| Parabix runtime | a submodule, empty here | segments, buffers, look-ahead | calls kernels | all kernels |
| `setup_clausecker_lemire.sh`, reports and charts, other tests, simdutf baseline | `scripts/`, `benchmarks/`, `external/` | | | not modelled, see section 8 |

What is hard, and the property each part owes:

- **Boundaries.** A pair may straddle a lane, a pack, a block, a segment or the
  hand-over from the vector loop to the scalar tail; the input may end after a
  high surrogate, after half a unit, or just before either. Each kernel must
  find exactly the ill-formed units, wherever the input is cut, and read nothing
  outside what it was given.
- **A buffer that is never cleared.** Marks are shown to a consumer while more
  are written; what is shown must have been written, must be right and must not
  change.
- **Two processes.** Producer and consumer are scheduled by the pipeline;
  positions and repaired bytes must be the same for every interleaving, and both
  must come to an end.
- **Failing system calls** while standard output leads to a temporary file: one
  document at most, descriptors given back, a status that agrees.
- **Stops half way.** Campaign, both generators, set-up and reproduction may fail,
  be interrupted or be killed between any two steps and be run again.
- **A checkout shared with a developer.** The set-up must tell its own applied patch
  from the developer's work, whatever earlier runs have left, and lose neither.
- **A tolerated defect.** The fuzz suite accepts one wrong answer of the scan; it must
  accept that one and no other.
- **Verdicts used later.** The gate's verdict is used in another loop; the
  summary of the LLmasks decides what is not looked at; a dataset verified under
  a temporary name is trusted under its own.

The full list, line by line, is under "hazards" in `PROJECT.json`.

## 2. Plan and order of work

1. Error rule and abstract validator; the two counting kernels against it (done,
   with proofs, the safety part of the refinement included).
2. Marks kernel; its three consumers interleaved with it (done, with proofs).
3. Host driver with every system call failing (done, with proofs).
4. Oracle; reproduction workflow; campaign; density generator; its files and manifest;
   prototypes (done, with proofs).
5. Oracle composed with the program, as the fuzz suite runs them; set-up, alone and
   composed with the reproduction; corpus generator (done, with proofs).
6. Still to model: `generate_utf16_benchmark.py` and the older benchmark drivers;
   the gate's self-test; P4 to P7 of the fuzz suite, which run the program on its own
   output.

## 3. Modules

```
UTF16Input -- ValidatorSpec                     what is ill-formed; what a validator promises
   |      \-- PositionReport                    what a scanner of positions promises
   |-- BytePacks -- SIMDValidator               packs of bytes; counting kernel
   |          \---- ErrorMarks -- MarkPipeline  marks kernel; with its consumers
   |-- Oracle ------------------------\-------- OracleFuzz   both, compared by the suite
   |-- ScalarValidator
   |-- MaskScan                                 prototypes: LLmask, maskHL, scan
   \-- MCInput -- MC*                           small inputs for TLC
Setup, Reproduce -- ResearchWorkflow            the two scripts and the binary they share
HostDriver   Campaign   ErrorDensity   DatasetWorkflow   Corpus
UTF16Lemmas -- SIMDValidatorProofs, ScalarValidatorProofs
          \-- PipelineProofs                   marks kernel, consumers, oracle, suite
UTF16Lemmas, MaskScan, Campaign -- BenchmarkProofs
ErrorDensity, DatasetWorkflow -- GeneratorProofs
HostDriver, Corpus -- TextProofs
Setup, Reproduce, ResearchWorkflow -- WorkflowProofs
```

**UTF16Input** is the input (`size`, `data`, byte order `HB`) and `IllFormed`: a low
surrogate without a high one before it, a high one without a low one after it.
`MismatchBefore` is the rule the counting kernels use instead: places where "low
here" and "high just before" disagree, end of input included. That there are as
many mismatches as ill-formed units is not obvious (they are not the same
places); it is a lemma, see section 6.

**BytePacks** gives the geometry of packs and the one-lane carry. A SIMD register is
the set of its lanes that hold 0xFF.

**SIMDValidator** and **ScalarValidator**: one action is one basic block of the
generated code, one iteration when it is a loop; `pc` names the block. `Invoke`
is the pipeline handing over a segment: whole strides while more may follow,
anything, also nothing, at the end. **ValidatorSpec** is the abstract validator:
the published count never decreases, never exceeds the errors of the input and
ends exact. Both kernels are checked to implement it (`Refines`).

**ErrorMarks** adds the marks buffer with stale contents, the look-ahead, the
partial block and the slot that an odd byte may expose. It too refines
ValidatorSpec. **MarkPipeline** composes it with one of the consumers
(`ErrorMarkPositionKernel`, the two-level scan, `UTF16RepairKernel` with
`StdOutKernel`) as two processes. The bit loop inside a word is one step.

**HostDriver** is `main()` and `utf16validate()`: each action is one system call
with the code up to the next, and any may fail. Output is a sequence of pieces
(units, incomplete byte, U+FFFD, positions, a line, a document).

**Oracle** is the reference decoder, which consumes pairs whole. **OracleFuzz** is a
case of the fuzz suite: `analyze` runs on the input first, then MarkPipeline on the same
bytes, and `Problems` is what `check_case` would report of the two, with
`classify_scan_tail_defect` as `KnownDefect`. It takes one consumer in a behaviour; the
counting kernels are compared with `IllFormed` by runs of their own. **MaskScan** holds
every generator, aggregator and scanner of the prototypes; a behaviour picks one
of each. **PositionReport** is the abstract report they implement, liveness
included. The prototypes read UTF-16LE only, so `HB` is 1 there.

**Campaign** is `main()` of the benchmark: gate, shuffled timing, four result files
written in order. What a tool answers is free, right or wrong; a time is not
modelled. **ErrorDensity** is how a stream gets an exact number of ill-formed units:
choose patterns, place each in its slot, flatten the pairs it touches. Everything
random is a free choice. **DatasetWorkflow** is the same script's `main()` over
several invocations: keep or build, write to a temporary file, verify, replace,
then merge and rewrite the manifest. A file is its length, the errors in it and the seed it
was made with; between runs files are deleted by hand, or edited to any length and any
errors. A file that is kept is verified as the code does it, against the errors that its
own length calls for. **Corpus** is the corpus generator over several
invocations: text is a sequence of planes, a unit its class and the byte order it is
stored in, a digest the content itself; what the seeded generator draws for a name and a
seed is any sequence, but always the same one (`draws`).

**Setup** is the set-up script: one action is one command; a tree is the version of the
patch in it, the edits (inside the files of the patch, or apart from them) and
whether a git command was cut short while writing it. Between runs a developer may edit,
commit, discard, remove the checkout, build by hand, or get another version of the patch.
**Reproduce** is the other shell script: staging, stages, promotion, the EXIT trap.
Directories are emptied and filled file by file; a stage that fails may have written some
of its files. A signal may come anywhere, also before the trap is set and while it runs.
**ResearchWorkflow** runs both: `used` records, for each reproduction, the
binary it found and how the set-up before it had ended.

**MCInput**, **MCSIMDValidator**, **MCScalarValidator**, **MCErrorMarks**,
**MCMarkPipeline**, **MCOracleFuzz**, **MCMaskScan** and **MCCorpus** choose the small
inputs TLC starts from, **MCResearchWorkflow** its symmetry; the other modules are
checked as they are. **UTF16Lemmas**, **SIMDValidatorProofs**,
**ScalarValidatorProofs**, **PipelineProofs**, **TextProofs**,
**BenchmarkProofs**, **GeneratorProofs** and **WorkflowProofs** hold the proofs.
BenchmarkProofs is about the two parts that live in `benchmarks/`, the prototypes and the
campaign, GeneratorProofs about the two halves of the density generator: making a stream
and keeping its files, TextProofs about the two parts that join pieces to a text, the host driver
and the corpus, which share no state but need the same lemmas on joined sequences.

### What is assumed of the Parabix runtime

It is not in the repository; these come from how the kernels use it. Segments
that are not final are whole strides (counting kernels) or whole blocks with two
bytes of look-ahead (marks kernel). Look-ahead past the end reads zeroes, except
that the odd byte is really there. Buffer slots keep what they held. An odd
final segment may show one mark more than it has units. A consumer is called
once more after its producer has finished. The two-level scan walks whole
strides. The producer never overwrites marks not yet consumed.

### What is assumed of git, cmake and the developer

The patch is made for the pinned commit and applies nowhere else; `build/` is ignored by
Parabix's own `.gitignore`, so that a build is not a modification; a clone that fails
removes what it made, one that is killed does not; nobody edits the checkout while a
script runs.

## 4. Runs

| Run | Module | What it shows |
|---|---|---|
| `simd_small` | MCSIMDValidator | count, accumulator, bounds and refinement, for every cut of every input |
| `scalar_small` | MCScalarValidator | count, accumulator and refinement of the 16-bit kernel |
| `marks_small` | MCErrorMarks | marks are exact, within bounds, written before shown, stable once shown, and are what is counted |
| `fuzz_small` | MCOracleFuzz | the decoder agrees with the local rule; printers lose and repeat nothing; the repaired text is well-formed and the oracle's; what the suite may report; everything ends |
| `marks_phantom` | MCMarkPipeline | a violation: see section 7 |
| `host_small` | HostDriver | documents, descriptors, exit status and repaired text under failing calls; termination |
| `workflow_small` | MCResearchWorkflow | a set-up keeps work and, if it succeeds, is right; evidence is one passing run's, whole, kept without `--force`, and traceable to its patch; staging is removed |
| `maskscan_small` | MCMaskScan | all strategies report the same, right positions and stay in the padding |
| `campaign_small` | Campaign | nothing wrong is timed; only the documented symptom excludes the scan; rows are complete |
| `density_small` | ErrorDensity | the target is met exactly; when placing may fail |
| `datasets_small` | DatasetWorkflow | what a run leaves under a dataset's name is that dataset, and what it keeps has the errors its length calls for; what the manifest may miss; pairs agree |
| `corpus_small` | MCCorpus | datasets are their text, in both byte orders; a whole manifest is true; `--check` is exact |

Composite invariants (`MarksInv`, `DecoderInv`, `DocumentInv`, `EvidenceInv`,
`MasksInv`, `ResultsInv`, `StreamInv`, `TargetReached`, `DatasetsInv`, `SetupInv`,
`CorpusInv`, `PrintedExact`) are conjunctions of a type
invariant and named parts; the parts carry their own comments.

### Bounds, and why they suffice

- **Bytes.** A kernel tells three kinds of unit apart. `simd_small` and
  `scalar_small` use high bytes 215, 219, 220 and 224: the values on both sides
  of each end that matters for `& 0xFC` (216-219 high, 220-223 low; 219/220 is
  the border between them). Low bytes are 219 or 220, so that a kernel reading
  the wrong byte sees surrogates. The other runs use one value of each class.
- **Lengths.** A pack is 2 units and a stride 1 pack in `simd_small`, up to 11
  bytes: two whole packs, a tail of one unit and an odd byte, in every cut into
  up to three segments. Scalar: 9 bytes, strides of 2 units. Marks: packs of 2,
  blocks of 4 units, 11 bytes: a whole block of two packs, a partial one and an
  odd byte. `fuzz_small`: blocks of 2 units, scan strides of 2 blocks,
  10 bytes: three calls, a partial stride, and inputs that end with a stride.
- **Stale slots** are all zero or all one at the start: a stale bit matters
  only where it is read, slot by slot.
- **maskscan_small**: packs of 2, LLmasks of 4 units, maskHL of 2 LLmasks, 19
  bytes: a whole region, a partial one and a partial LLmask. Inputs vary freely
  in a window of three units anywhere, over a background that is clean or all
  ill-formed, because a unit's verdict depends on its neighbours only.
- **host_small**: two files, which is what shows a descriptor that is not given
  back. All options, any call failing, several in one run.
- **workflow_small**: two reproductions and two set-ups, one script at a time
  (`MaxActive` 1), with or without evidence of an earlier reproduction, each killed,
  interrupted or with a failing move; two versions of the patch and one change by the
  developer. Two are what it takes for one to find what another has left, with a change
  between. The benchmark and the report have one file each, enough for evidence that is
  partly old, partly written or partly moved. The properties of the set-up are proved for
  any number of runs, versions and changes.
- **corpus_small**: an empty fixture, a dataset of one paragraph and one whose two
  paragraphs differ in length and plane; targets of 4 units for fixtures and 0 or 5 for
  benchmarks, so that growth stops at once, on the target and beyond it; two seeds, two
  runs and one change by hand, enough for any profile over any other.
- **campaign_small**: two datasets, one gated and one ungated operation, 0 or 2
  iterations, one warm-up; inputs of two units and a scan that prints up to 3 positions,
  enough for a missing or repeated one and for a right answer with an extra one, inside
  the input or beyond its end.
- **density_small**: streams of up to 10 units, up to 5 errors: several patterns
  side by side, dense enough for placing to fail. Slot borders are divisions in
  floating point in the code and whole numbers here; they agree for streams this
  short (the first that differs has 15 units), the code's rounding beyond that is
  not modelled.
- **datasets_small**: streams of 2 and of 4 units with half of them ill-formed, in both
  encodings; two seeds, two runs, one edit or deletion between them. An edit makes a file
  0, 2 or 4 units long with any number of errors, one more for an odd byte: an empty file,
  which has the errors it should, and either size under the other's name.

### Fairness

Safety runs assume none. A kernel, the host program and a prototype are each one
sequential process that runs once called, hence weak fairness of `Next`
(`Refines`, `Exits`). In the pipeline both kernels are scheduled as long as they
can run: weak fairness of `Produce` and of `Consume` (`Completes`). For the
scripts nothing is claimed to happen eventually, since they may be killed.
The modules of scripts (`Setup`, `Reproduce`, `ResearchWorkflow`, `Campaign`,
`ErrorDensity`, `DatasetWorkflow`, `Corpus`) therefore have no fairness. In
`OracleFuzz`, `analyze` is a loop that ends: weak fairness of `Diagnose` as well.

## 5. What the properties leave open

These are the places where a property carries a condition because without it
the code does something else.

- **Two-level scan.** It walks whole strides although only part may be
  accessible, and prints stale marks beyond the end, as the repository's README
  says. `ScanSound` states what holds: nothing missing, nothing twice, ascending.
  `SuiteAgrees` says when the suite lets such a mismatch pass: always when an even input
  ends with a stride (the test is of the code units, 4096 of them to a stride). For an
  input that ends elsewhere the suite would report one, and stale marks beyond
  it are possible there too, since what a buffer held is free here.
- **JSON whose standard output cannot be restored** (patch 1710-1717): the error
  document goes to the temporary file and nothing appears. `OneDocument` makes
  that exception.
- **`HonestDocument`** assumes that `fstat` succeeded and no read fell short
  (a short read is not noticed), and that `--print-positions` and
  `--scan-error-marks` come with `--emit-error-marks`, as the help text asks.
  Without it `--json` reports `"positions": []` though none were looked for
  (patch 1773), against the comment at patch 1488.
- **`RepairWritesText`** assumes that no call fails: results of `dup`, `dup2` and
  `write` are ignored when an odd input is repaired, and when `tmpfile` fails the
  incomplete byte reaches standard output (patch 1804), against
  `docs/utf16_repair.md`, line 72.
- **Promotion** is not atomic: old evidence is removed before the new files are
  moved one by one (`reproduce_research.sh` 553-557). A run stopped there, or a
  failing move, may leave neither the old evidence nor all of the new, against the comment
  at 177-178 ("a failed run therefore never replaces evidence that a previous successful run
  left behind"). `EvidenceWhole` excludes runs stopped while promoting; of those,
  `EvidenceFromPassingRun` still says that what is in place comes from runs that passed
  every stage. Runs that overlap share the staging
  directory and check for evidence long before removing it; `MaxActive = 2`
  loses the evidence, and the script has no lock. Staging stays behind after a kill, after a
  signal between `mkdir` and the trap (182-184), and after a second one while the trap
  removes it (183); `StagingRemoved` excepts these. The removals themselves (`rm`) are
  taken to succeed.
- **Set-up.** The repository's README (217-219) says the script stops if it finds
  unexpected local modifications. With the patch applied at the pinned commit it goes
  on, whatever else was edited apart from the patch; nothing is lost, and
  `SuccessMeansPinned` therefore speaks of the patch's own files. An older version of the
  patch counts as local modification, so the way to a new one is to clean the checkout.
- **Origin of the binary.** `reproduce_research.sh` asks whether there is a binary, not
  what it was built from. `EvidenceTraceable` claims that it is the recorded patch only when the
  last set-up succeeded and nothing was changed since. After a failed build, a new
  patch or a build by hand the evidence may come from another binary.
- **Corpus.** Nothing is removed when a corpus is written, so that both profiles in one
  directory leave files no manifest names; `--check` reports them (`CheckExact`). A run
  that is stopped leaves the old manifest beside new files: `ManifestVouches` excepts
  what that run had opened.
- **Campaign.** Operations of simdutf are timed without a gate. A failing gate
  stops the whole run rather than one path. `_aggregate.csv` is overwritten
  without `--overwrite` because it is not among the files checked.
  `OldResultsKept` is about those that are. Stopped while writing with
  `--overwrite`, old and new files stand side by side.
- **Density generator.** In dense streams the guard of the first candidate is
  read past the end and `IndexError` appears in place of the documented
  `RuntimeError`. `RoomSuffices`, a part of `TargetReached`: with slots of five units or more neither occurs.
- **Datasets.** A kept file is verified against its own length
  (`generate_error_density_datasets.py` 487), so that `SelectedVerified` says of what a run
  selected only that its errors are those its length calls for: a dataset emptied by hand has
  none, should have none, is kept and gets a row, against the repository's README (846-847:
  existing datasets are "re-verified, so a stale or hand-edited file is caught rather than
  silently reused"). `VerifiedOnDisk`, that it is
  what its name promises, is about files not edited since they were generated. A kept file
  gets a row with this run's seed even if another made it; a row therefore tells the length
  and the errors of its file (`RowTells`) and not its seed. And a pair of which one half was
  kept may hold different units (README line 832 says the halves always agree). `PairsAgree`
  claims this for what a run with `--overwrite` selected. The manifest is rewritten in place: a run
  stopped there loses rows, also of datasets it did not select; `owed` keeps
  track. A temporary file stays after a kill, and after an interruption between `mkstemp` and
  the `try` or inside the `finally` (`TempRemoved`). Densities are whole per cents here and
  runs do not overlap. A selection that names a value twice, refused
  arguments and a missing binary, which change nothing, are left out.

## 6. Proofs

TLAPS checks, for every value of the constants that satisfies the named
assumptions (`BytesAssumption`, `PackAssumption`, `StrideAssumption`, ...):

| Module | Theorems |
|---|---|
| SIMDValidatorProofs | `TypeCorrect`, `CountIsExact`, `AccumulatorIsExact`, `ReadsStayInBounds`, `ImplementsValidator` |
| ScalarValidatorProofs | `CountIsExact`, `AccumulatorIsExact`, `ReadsStayInBounds`, `ImplementsValidator` |
| PipelineProofs, marks kernel | `MarksCorrect`, `ShownMarksAreWritten`, `ShownMarksAreStable`, `ImplementsValidator` |
| PipelineProofs, the rest | `PrintersAreExact`, `RepairIsSound`, `DecoderIsExact`, `SuiteFindsAgreement` |
| TextProofs, host driver | `OneDocumentWhateverFails`, `DocumentsAreHonest`, `RepairedTextIsWhole` |
| TextProofs, corpus | `CorpusIsItsText`, `ManifestsVouch`, `CheckIsExact` |
| BenchmarkProofs, prototypes | `MasksAreExact`, `ScansReport` |
| BenchmarkProofs, campaign | `TimedPathsAreRight`, `ScanIsExcludedExactly`, `ResultsAreSound`, `OldResultsAreKept` |
| GeneratorProofs, streams | `StreamIsExact`, `TargetIsReached` |
| GeneratorProofs, files | `DatasetsVerified`, `ManifestIsTrue`, `EncodingsAgree` |
| WorkflowProofs | `SetupIsSound`, `SetupKeepsWork`, `EvidenceIsTraceable`; with `MaxActive = 1`: `EvidenceIsSound`, `PassedRunsLeaveEvidence`, `EvidenceKeptWithoutForce` |

That is any input of any length in either byte order, any pack width, block and stride,
any cut into segments and any stale buffer, any interleaving of producer and consumer;
any width of LLmask and maskHL, and any of the strategies; any stream and any target;
any number of files, datasets, cells, seeds, runs and edits, any table of texts, and any
faults.

`MaxActive = 1` says that runs of `reproduce_research.sh` do not overlap. It is needed:
two that overlap lose evidence (section 5). `EvidenceIsTraceable` does without it.

*The counting kernels.* `CountExact` speaks of the end only. The inductive
invariant `IInv` adds the types, `Geometry` (segments lie inside the input, only the
final one is odd, each loop stays within its range) and `AccumExact`:
accumulator plus what the running loop has counted is the number of mismatches
before the cursor, and the carry, wherever it is at the time (a scalar, a lane of a
vector, a flag of the tail), says whether the unit before the cursor is high. One
lemma per basic block shows that it is kept. `PackCountsMismatches` says that a
pack's population count is the number of mismatches among its units, from the lane
geometry and the carry; the lemmas of **UTF16Lemmas** add them up
(`MismatchesStep`, `MismatchesSplit`). At the end `MismatchesCountIllFormed`
turns mismatches into errors by a bijection: a mismatch at a low surrogate stands
for that unit, any other for the high surrogate just before it.
`ReadsStayInBounds` follows from `Geometry`.

*Implementing the abstract validator.* `ImplementsValidator` says `Spec =>
Abstract!SafetySpec`: each basic block is a step of ValidatorSpec or leaves what is
published alone. That the published count never exceeds the errors of the input follows
from `AccumExact` and the bijection above. ValidatorSpec's fairness is not part of
it; it stays with the property `Refines` of the runs.

*The marks kernel.* Its inductive invariant has the same shape; in place of a sum it says
that the marks up to the cursor are the ill-formed units there and that the count is how
many (`MarksExact`, `CountIsPopcount`), and that every slot already published is written
(`ShownMarksWritten`). The hard step is a block: the verdict on its last unit rests
on the two bytes of look-ahead (`LookaheadIsNextLow`), so that `SegmentGranted`, what
the pipeline promises about them, is part of `Geometry`. The kernel writes past what it has
published only, hence `ShownMarksAreStable`.

*Producer and consumer.* `PipelineInv` adds to the kernel's invariant what holds
between the two: the consumer is never ahead of what was produced, and the last of its
calls covers the rest (`Extent`); what is printed is ascending, right as far as the
consumer has come, and beyond the input only stale (`PrintInv`); the repaired bytes are
those of the input, replaced where ill-formed (`RepairInv`). `ProducerMoves` is the
non-interference: a step of the producer changes no mark the consumer may read. An
ascending sequence is determined by its range (`IncreasingUnique`), and so the printed
sequence is the expected one.

*The decoder and the suite.* `DecodeInv` says that what the decoder has found is what
the local rule finds before its index; `PairScans` is the step that consumes two
units, neither of which can be ill-formed. `SuiteFindsAgreement` compares what both
invariants say of the same input.

*The host driver.* Nothing in `DocumentInv` or `RepairWritesText` mentions where
descriptor 1 leads while calls fail, and everything depends on it. Inductive is `IInv`: which
descriptors are open before each call (`OpenFds`); that descriptor 1 and its copy lead
where they should as long as neither `dup` nor `dup2` has failed (`Leads`); that what is
in the temporary file or the buffer is what the pipeline wrote (`CapturedOutput`); what is
known of the file (`Learned`); that a JSON run which has not ended has written nothing
(`OneFile`); and that the repaired text of the files so far stands on standard output
(`TextSoFar`). Each of the 17 calls keeps each of the ten conjuncts.

*Induction over data.* The induction rules of the library take a predicate, which these
provers cannot instantiate. `LeastNatural` and `InductionOnNat` say the same of a set of
numbers and follow from two theorems of the library without such a parameter (the strict
inclusion of finite sets is well-founded, and a well-founded relation has minimal
elements). They are in UTF16Lemmas; TextProofs, which is not about an input, has them
for itself, and `InductionOnSeq` from them. What `FlattenSeq` gives is proved by it
(`FlattenNext`: one sequence more is joined at the end), and so is that every finite set of
numbers can be listed in ascending order.

*The prototypes.* `MaskScanInv` says what is stored so far: each LLmask passed by a
generator holds exactly the ill-formed units of its range (`Exact`), the one in progress
those before the cursor (`ExactBefore`), and each word of an aggregator has a bit for each
of its LLmasks that is not empty (`DirtyBefore`). The hard steps are the generators'. The
verdict on the last unit of a pack rests on the next pack, that on the first on the one
before, and what is carried from group to group must be whether the last unit was a high
surrogate; where the groups end the scalar tail goes on from the same carry. The fused
generator adds that its word holds the LLmasks since the last region, also when the tail
ends in the middle of one.

`ScansReport` says `MaskScanSpec => Report!ReportSafety`, the safety part of `Refines`. Its
invariant adds `PendingInv`: the ill-formed units not yet reported are those of the LLmask
that is held, those of the LLmasks the word that is held still names, and all beyond; the
first lie before the second and these before the third (`HeldFirst`). So what a scanner
reports next is the least one left, which is the one step `PositionReport` allows. The
fairness of `Refines` stays with the run.

*The density generator.* Two facts carry each other: the ill-formed units are those of the
patterns (`OnlyPatternsIllFormed`) and every other surrogate has its whole pair
(`PairsWhole`). A placement changes the verdict of its own units and could change that of
their neighbours; `_flatten_pairs` makes both neighbours plain, together with the half of
their pairs outside (`SparedUnits`, `PlacedIllFormed`). Inductive with them is how many:
errors chosen and left make up the target, the units in use are as many as the errors of the
patterns placed, and there is an end of a run of such units for each of them (`Counted`).
For `RoomSuffices`, with five units to a slot, what is placed so far ends two units before
the next slot begins (`WithinSlots`), so that the wanted start always fits and is taken.

*The corpus.* `EncodeFacts` says by induction over the text what an encoding is: well-formed,
of the size that was measured, and such that the text can be had back from it; so nothing is
ever refused. `EncodingIsUnique` is the converse, by induction over the content, whose last
units are taken off one code point at a time: a well-formed content in one byte order is the
encoding of its own code points. `CheckExact` needs it, for a comparison of bytes is to tell
whether a text is there. A text that grows is fixed by the draws of its name and seed
(`OneText`), and stays what it is when more is drawn (`TextsKept`); this is why files of an
earlier run can be compared with what a later one would write. `CorpusIInv` says what has
been drawn (`GrowInv`), built (`BuiltInv`) and written (`WriteInv`) so far, and that a whole
manifest was right when it was written and is true of all files neither opened nor altered
since (`ManifestInv`). That last part is kept by the step that writes the manifest because
every payload has been written before it (`OrderFacts`).

*A campaign.* `CInv` says how far the gate is and that all before has passed, that what
is behind in the loops of timing has left its rows and what is ahead none (the operations
come in any order), and which files are written. `ScanInv` says that before its scan is checked
a dataset has neither passed it nor been excused from it; the rest of
`ScanIsExcludedExactly` is that `Classify` accepts the one symptom.

*The dataset workflow.* That a file under its name was verified is inductive only
together with what the active run knows: its position in its loops, that the
datasets behind it are right, that the units in memory belong to the cell at hand,
and that the temporary file holds those units (`RunInv`). `AdvancePasses` is the step
of the two nested loops; stopping early changes no dataset, which is why nothing
further is needed for kills. `ManifestIsTrue` and `EncodingsAgree` need the books as well:
which datasets have a row, which lie on the disk and which are owed by a run that stopped, at
each point of the loops and while merging, and that the rows made so far tell the length and
the errors of their files (`BookInv`). So `ManifestIsTrue` is about what rows say as well as
which there are: a row tells its file's contents unless the file was edited or a run that
stopped owes it a row, and of what a completed run selected it does so always.

*The set-up.* `SetupInv` needs four facts more to be inductive: at a commit of the
remote's branch there is no patch (`Unpatched`; a tree the patch can be taken back from,
elsewhere than at the pinned commit, is then the developer's commit, which is what makes
that refusal have a cause), what is about to be verified was just built (`JustBuilt`),
a run has no result until it ends (`Idle`), and before there is a clone there is
nothing in it (`Unmade`). For `SetupKeepsWork` each step that writes the tree is shown to
meet a tree that is all committed.

*The origin of evidence.* `EvidenceTraceable` is about files in place; inductive is that
every run that is under way, or has anything staged or in place, has found what is
claimed (`TraceInv`). A run that starts learns it from `SetupInv`; `ContinueWrites` says
that a run under way writes only its own name or moves what was staged already.

*The evidence directory.* With one run at a time, `SerialInv` says whose the files in
staging are (`StagingOwned`), how far removal and promotion have come (`Moving`), that a file in
place was written by a run that passed (`WrittenBy`), that without a stop while moving the
directory is one run's (`SettledUnlessTorn`), and that the early check for evidence still
stands when the run promotes (`CheckStands`), the part that fails when runs overlap.
These results are about `Reproduce` by itself; the set-up shares neither directory with it.

Only model-checked:

- Liveness: `Completes`, `Exits`, and the fairness in `Refines`. Out of the prover's reach.
- The finding below, a counterexample.

## 7. Finding

`marks_phantom` checks what a comment says of the partial block, that "a consumer
that reads whole blocks never sees a phantom marker" (patch 843). The slot an odd
byte may expose is zeroed only when the final segment has no whole unit. When that
segment is a whole number of blocks and the odd byte, there is no partial block
either, the slot keeps what was there, and the linear printer may print a position
that does not exist. `ShownMarksWritten` and `LinearExact`, a part of `PrintedExact`, state what does hold:
every mark of a real code unit is right.

## 8. Not modelled

- `setup_clausecker_lemire.sh` (git and a compiler for simdutf, no patch and no
  local work to keep) and the probe for a compiler that links.
- Reports, charts and thread-scaling analysis: arithmetic on CSV files.
- The test suites but one case of the fuzz suite; its generation of cases, and P4 to P7,
  which run the program on its own output or compare two encodings of one text. The
  oracle's self-test and command line run `analyze` once and print.
- The simdutf baseline: a command line around a library that is not here.
- `generate_utf16_benchmark.py` and the older benchmark drivers: planned.
- The corpus generator's texts themselves, and its summary.
- Parabix's multi-threaded scheduler and object cache: not in the repository.

## 9. Running

```
tlc -config simd_small.cfg MCSIMDValidator.tla      # any run: see section 4
tlapm SIMDValidatorProofs.tla                       # and the other proof modules
```
