------------------------------- MODULE Corpus -------------------------------
(***************************************************************************)
(* scripts/generate_multilingual_corpus.py: how the text of each dataset   *)
(* is put together, encoded in both byte orders and checked, and how the   *)
(* files and the manifest that describes them are written or compared with *)
(* a directory, over several runs with different arguments that may fail   *)
(* or be killed anywhere.                                                  *)
(*                                                                         *)
(* Of a code point only the plane matters, of a code unit only its class   *)
(* and the byte order it is stored in.  A digest stands for the content it *)
(* is taken of.  Runs do not overlap, and nobody else touches the          *)
(* directory during a run.                                                 *)
(***************************************************************************)
EXTENDS Integers, FiniteSets, SequencesExt

CONSTANTS
    Table,          \* the datasets: [name, exact, paragraphs], in table order
    Sorted,         \* their names in the order in which files are written
    Seeds,
    FixtureTarget,  \* code units a grown fixture has at least
    BenchTargets,   \* what --size-mib may ask for
    Manifest, Stray, Hidden,    \* other names in the directory
    None, Torn, Edited,         \* no file; a manifest cut short; altered by hand
    MaxRuns,        \* bounds the invocations
    MaxTouches      \* bounds how often the directory is changed by hand

Encodings == <<"utf16le", "utf16be">>

Names == {Table[i].name : i \in DOMAIN Table}
SpecOf(n) == CHOOSE s \in Range(Table) : s.name = n
Exacts == {n \in Names : SpecOf(n).exact}

Planes == {"bmp", "supp"}
Specs == [name : Names, exact : BOOLEAN, paragraphs : Seq(Seq(Planes)) \ {<<>>}]

\* No name stands in the table twice, and all of them are sorted.
ASSUME TableAssumption ==
    /\ Table \in Seq(Specs) /\ Sorted \in Seq(Names) /\ Range(Sorted) = Names
    /\ \A a, b \in DOMAIN Table : Table[a].name = Table[b].name => a = b

ASSUME TargetsAssumption == FixtureTarget \in Nat /\ BenchTargets \subseteq Nat

Payloads == Names \X Range(Encodings)
Files == Payloads \cup {Manifest, Stray, Hidden}

\* What a payload holds: code units, each with the byte order it is stored in.
Contents == Seq({"high", "low", "bmp"} \X Range(Encodings))
Manifests == [profile : {"fixtures", "bench"}, seed : Seeds, target : Nat,
              datasets : SUBSET [dataset : Names, seed : Seeds \cup {None},
                                 counts : [code_points : Nat, surrogate_pairs : Nat,
                                           code_units : Nat],
                                 digests : [Range(Encodings) -> Contents]]]

\* The names are different ones, and no file, or one that was cut short or
\* edited, is not what a run writes.
ASSUME NamesAssumption ==
    /\ {Manifest, Stray, Hidden} \cap Payloads = {} /\ Manifest \notin {Stray, Hidden}
    /\ \A mark \in {None, Torn, Edited} : mark \notin Contents /\ mark \notin Manifests

VARIABLES
    disk,       \* what lies under each name in the output directory
    last,       \* what happened to the directory last
    problems,   \* what --check has reported
    draws,      \* the paragraphs the generator of a name and seed has drawn
    runs, touches,
    stage, run, \* the active run and its arguments
    at,         \* the dataset it builds, or the file it writes
    drawn,      \* paragraphs drawn for this dataset
    units,      \* code units of its text so far
    text,       \* its text, as planes
    payloads,   \* the contents built so far
    metas,      \* their metadata
    suspect     \* files a run that stopped, or somebody, may have changed

directory == <<disk, last, problems, suspect>>
bounds == <<runs, touches>>
growth == <<drawn, units, text>>
built == <<payloads, metas>>
corpusVars == <<directory, bounds, draws, stage, run, at, growth, built>>

-----------------------------------------------------------------------------
(* Text and its encodings.                                                 *)

Newline == <<"bmp">>

Supplementary(t) == Cardinality({i \in DOMAIN t : t[i] = "supp"})

CodeUnitLength(t) == Len(t) + Supplementary(t)

\* "\n".join
Joined(parts) ==
    FlattenSeq([i \in DOMAIN parts |-> IF i = 1 THEN parts[i] ELSE Newline \o parts[i]])

\* A supplementary code point is a pair, and every unit is stored in the byte
\* order the codec of the suffix stands for.
Codec(suffix) == suffix
Encode(t, suffix) ==
    FlattenSeq([i \in DOMAIN t |->
        IF t[i] = "supp" THEN <<<<"high", Codec(suffix)>>, <<"low", Codec(suffix)>>>>
                         ELSE <<<<"bmp", Codec(suffix)>>>>])

\* llmask_reference.llmasks: the ill-formed units, by the unit before or after.
Class(content, k) == IF k \in DOMAIN content THEN content[k][1] ELSE "outside"
ErrorBits(content) ==
    {k \in DOMAIN content :
        \/ Class(content, k) = "low" /\ Class(content, k - 1) # "high"
        \/ Class(content, k) = "high" /\ Class(content, k + 1) # "low"}

\* measure, and what build_dataset adds: the seed, and for each file its size
\* and digest.
Measure(t) ==
    [code_points |-> Len(t), surrogate_pairs |-> Supplementary(t),
     code_units |-> Len(t) + Supplementary(t)]

-----------------------------------------------------------------------------
NothingBuilt == [f \in Payloads |-> None]
NoRun == [profile |-> "fixtures", seed |-> None, target |-> 0, check |-> FALSE]

CorpusInit ==
    /\ disk = [f \in Files |-> None] /\ last = "none"
    /\ problems = {} /\ suspect = {}
    /\ draws = [k \in (Names \ Exacts) \X Seeds |-> <<>>]
    /\ runs = 0 /\ touches = 0
    /\ stage = "idle" /\ run = NoRun /\ at = 1
    /\ drawn = 0 /\ units = 0 /\ text = <<>>
    /\ payloads = NothingBuilt /\ metas = {}

\* main: the profile settles the target; both may be sent to one directory.
Start ==
    /\ stage = "idle" /\ runs < MaxRuns
    /\ \E seed \in Seeds, check \in BOOLEAN :
          \/ run' = [profile |-> "fixtures", seed |-> seed, target |-> FixtureTarget,
                     check |-> check]
          \/ \E t \in BenchTargets :
                run' = [profile |-> "bench", seed |-> seed, target |-> t, check |-> check]
    /\ stage' = "build" /\ runs' = runs + 1
    /\ last' = "running" /\ problems' = {}
    /\ UNCHANGED <<disk, suspect, touches, draws, at, growth, built>>

Current == Table[at]

\* Degenerate sizes are fixtures, not benchmarks.
Skips(spec) == run.profile = "bench" /\ spec.exact

SkipExact ==
    /\ stage = "build" /\ at <= Len(Table) /\ Skips(Current)
    /\ at' = at + 1
    /\ UNCHANGED <<directory, bounds, draws, stage, run, growth, built>>

\* build_text of an exact dataset: verbatim.
TakeExact ==
    /\ stage = "build" /\ at <= Len(Table) /\ ~Skips(Current) /\ Current.exact
    /\ text' = Joined(Current.paragraphs)
    /\ stage' = "encode"
    /\ UNCHANGED <<directory, bounds, draws, run, at, drawn, units, built>>

\* build_text of any other: a generator of its own, nothing drawn yet.
FreshMutant == drawn
Fresh == 0

BeginGrown ==
    /\ stage = "build" /\ at <= Len(Table) /\ ~Skips(Current) /\ ~Current.exact
    /\ drawn' = Fresh /\ units' = 0 /\ text' = <<>>
    /\ stage' = "grow"
    /\ UNCHANGED <<directory, bounds, draws, run, at, built>>

Stream == <<Current.name, run.seed>>

\* The paragraphs drawn for a name and seed are any, and always the same.
DrawnMay(p) == drawn < Len(draws[Stream]) => p = draws[Stream][drawn + 1]

DrawParagraph ==
    /\ stage = "grow" /\ units < run.target
    /\ \E p \in DOMAIN Current.paragraphs :
          /\ DrawnMay(p)
          /\ draws' = IF drawn < Len(draws[Stream]) THEN draws
                      ELSE [draws EXCEPT ![Stream] = Append(@, p)]
          /\ units' = units + CodeUnitLength(Current.paragraphs[p]) + 1
          /\ text' = IF drawn = 0 THEN Current.paragraphs[p]
                                  ELSE text \o Newline \o Current.paragraphs[p]
    /\ drawn' = drawn + 1
    /\ UNCHANGED <<directory, bounds, stage, run, at, built>>

GrownEnough ==
    /\ stage = "grow" /\ units >= run.target
    /\ text' = text \o Newline
    /\ stage' = "encode"
    /\ UNCHANGED <<directory, bounds, draws, run, at, drawn, units, built>>

\* verify_wellformed, and the comparison with what measure has counted.
Accepted(content) ==
    ErrorBits(content) = {} /\ Len(content) = Measure(text).code_units

MetaSeed == IF Current.exact THEN None ELSE run.seed

\* build_dataset: the text in both encodings, each checked before it is kept.
EncodeDataset ==
    /\ stage = "encode"
    /\ LET content(f) == Encode(text, f[2])
           mine == {Current.name} \X Range(Encodings)
       IN  IF \A f \in mine : Accepted(content(f))
           THEN /\ payloads' = [f \in Payloads |-> IF f \in mine THEN content(f)
                                                                 ELSE payloads[f]]
                /\ metas' = metas \cup
                     {[dataset |-> Current.name, seed |-> MetaSeed,
                       counts |-> Measure(text),
                       digests |-> [s \in Range(Encodings) |-> Encode(text, s)]]}
                /\ stage' = "build" /\ at' = at + 1
           ELSE stage' = "refused" /\ UNCHANGED <<at, built>>
    /\ UNCHANGED <<directory, bounds, draws, run, growth>>

\* build_corpus has made every dataset of the profile.
ManifestBytes ==
    [profile |-> run.profile, seed |-> run.seed, target |-> run.target,
     datasets |-> metas]

Expected == {f \in Payloads : payloads[f] # None} \cup {Manifest}
ExpectedContent(f) == IF f = Manifest THEN ManifestBytes ELSE payloads[f]

AllBuilt ==
    /\ stage = "build" /\ at > Len(Table)
    /\ stage' = IF run.check THEN "check" ELSE "write"
    /\ at' = 1
    /\ UNCHANGED <<directory, bounds, draws, run, growth, built>>

-----------------------------------------------------------------------------
(* write_corpus: the payloads in the order of their names, big-endian      *)
(* before little-endian, and the manifest last.  Nothing is removed.       *)

FilesOf(n) == IF <<n, "utf16be">> \in Expected
              THEN <<<<n, "utf16be">>, <<n, "utf16le">>>> ELSE <<>>
PayloadOrder == FlattenSeq([i \in DOMAIN Sorted |-> FilesOf(Sorted[i])])
WriteOrderMutant == <<Manifest>> \o PayloadOrder
WriteOrder == PayloadOrder \o <<Manifest>>

Forget == at' = 1 /\ drawn' = 0 /\ units' = 0 /\ text' = <<>>
          /\ payloads' = NothingBuilt /\ metas' = {}

Opened(n) == {WriteOrder[i] : i \in 1..n}

WriteFile ==
    /\ stage = "write" /\ at <= Len(WriteOrder)
    /\ disk' = [disk EXCEPT ![WriteOrder[at]] = ExpectedContent(WriteOrder[at])]
    /\ at' = at + 1
    /\ UNCHANGED <<last, problems, suspect, bounds, draws, stage, run, growth, built>>

Written ==
    /\ stage = "write" /\ at > Len(WriteOrder)
    /\ last' = "wrote" /\ stage' = "idle"
    /\ suspect' = suspect \ Expected
    /\ Forget
    /\ UNCHANGED <<disk, problems, bounds, draws, run>>

\* check_corpus: every expected file, then every other name in the directory.
Missing == {f \in Expected : disk[f] = None}
Differing == {f \in Expected \ Missing : disk[f] # ExpectedContent(f)}
UnexpectedMutant == {}
Unexpected == {f \in Files \ (Expected \cup {Hidden}) : disk[f] # None}

CheckDirectory ==
    /\ stage = "check"
    /\ problems' = ({"missing"} \X Missing) \cup ({"differs"} \X Differing)
                       \cup ({"unexpected"} \X Unexpected)
    /\ last' = "checked" /\ stage' = "idle"
    /\ Forget
    /\ UNCHANGED <<disk, suspect, bounds, draws, run>>

-----------------------------------------------------------------------------
\* Opening a file empties it; a run stopped there leaves a beginning of it.
Beginnings(f) ==
    IF f = Manifest THEN {Torn}
    ELSE {SubSeq(payloads[f], 1, n) : n \in 0..Len(payloads[f]) - 1} \cup {<<>>}

\* An OSError, an interruption, or the end of the process.
Stops ==
    /\ stage \notin {"idle", "refused"}
    /\ \/ /\ UNCHANGED disk
          /\ suspect' = suspect \cup (IF stage = "write" THEN Opened(at - 1) ELSE {})
       \/ /\ stage = "write" /\ at <= Len(WriteOrder)
          /\ \E b \in Beginnings(WriteOrder[at]) : disk' = [disk EXCEPT ![WriteOrder[at]] = b]
          /\ suspect' = suspect \cup Opened(at)
    /\ last' = "stopped" /\ stage' = "idle"
    /\ Forget
    /\ UNCHANGED <<problems, bounds, draws, run>>

\* Between runs a file is deleted or edited, or one of another name appears.
Touch ==
    /\ stage = "idle" /\ touches < MaxTouches
    /\ \E f \in Files : \/ disk[f] # None /\ disk' = [disk EXCEPT ![f] = None]
                        \/ disk' = [disk EXCEPT ![f] = Edited]
    /\ suspect' = suspect \cup {f \in Files : disk'[f] # disk[f]}
    /\ touches' = touches + 1 /\ last' = "touched" /\ problems' = {}
    /\ UNCHANGED <<runs, draws, stage, run, at, growth, built>>

Step ==
    \/ Start \/ SkipExact \/ TakeExact \/ BeginGrown \/ DrawParagraph \/ GrownEnough
    \/ EncodeDataset \/ AllBuilt \/ WriteFile \/ Written \/ CheckDirectory \/ Stops \/ Touch

\* The directory is left as it is.
Rest == stage = "idle" /\ UNCHANGED corpusVars

CorpusNext == Step \/ Rest

CorpusSpec == CorpusInit /\ [][CorpusNext]_corpusVars
-----------------------------------------------------------------------------
\* What the files should be, from the arguments and the draws alone.
Chosen == {n \in Names : run.profile = "fixtures" \/ n \notin Exacts}

FirstDraws(n, k) ==
    [i \in 1..k |-> SpecOf(n).paragraphs[draws[<<n, run.seed>>][i]]]
GrownText(n, k) == Joined(FirstDraws(n, k)) \o Newline

\* The shortest text of whole paragraphs that reaches the target.
Reaches(n, k) ==
    \/ run.target = 0
    \/ k > 0 /\ CodeUnitLength(GrownText(n, k)) >= run.target
TextOf(n) ==
    IF n \in Exacts THEN Joined(SpecOf(n).paragraphs)
    ELSE GrownText(n, CHOOSE k \in 0..Len(draws[<<n, run.seed>>]) :
                          /\ Reaches(n, k)
                          /\ \A j \in 0..k-1 : ~Reaches(n, j))

\* The code points of a content, a pair for the plane of its high surrogate,
\* whatever order its units are stored in.
CodePoints(content) ==
    FlattenSeq([k \in DOMAIN content |->
        IF content[k][1] = "low" THEN <<>>
        ELSE <<IF content[k][1] = "high" THEN "supp" ELSE "bmp">>])
StoredIn(content, suffix) == \A k \in DOMAIN content : content[k][2] = suffix

\* A file holds the code points of a text, in the byte order of its name.
Holds(content, n, suffix) ==
    /\ StoredIn(content, suffix)
    /\ ErrorBits(content) = {}
    /\ CodePoints(content) = TextOf(n)

CorpusTypeOK ==
    /\ DOMAIN disk = Files
    /\ last \in {"none", "running", "wrote", "checked", "stopped", "touched"}
    /\ problems \subseteq {"missing", "differs", "unexpected"} \X Files
    /\ suspect \subseteq Files
    /\ stage \in {"idle", "build", "grow", "encode", "refused", "write", "check"}
    /\ drawn \in Nat /\ units \in Nat
    /\ DOMAIN payloads = Payloads

\* "a dataset's bytes depend only on its own source text, seed and target
\* size": what is built is that text in both byte orders, well-formed, and
\* nothing is ever refused; it reaches the target by its last paragraph.
BuiltExact ==
    /\ stage # "refused"
    /\ stage \in {"write", "check"} =>
          /\ Expected = (Chosen \X Range(Encodings)) \cup {Manifest}
          /\ \A n \in Chosen, s \in Range(Encodings) : Holds(payloads[<<n, s>>], n, s)
          /\ \A n \in Chosen \ Exacts, s \in Range(Encodings) :
                /\ Len(payloads[<<n, s>>]) >= run.target
                /\ \/ run.target = 0
                   \/ \E p \in Range(SpecOf(n).paragraphs) :
                         Len(payloads[<<n, s>>]) < run.target + CodeUnitLength(p) + 1

CorpusInv == CorpusTypeOK /\ BuiltExact

\* What a manifest says of its datasets is true of a directory.
Describes(m, f) ==
    \A d \in m.datasets : f[1] = d.dataset =>
        /\ disk[f] = d.digests[f[2]]
        /\ Len(disk[f]) = d.counts.code_units
        /\ Cardinality({k \in DOMAIN disk[f] : disk[f][k][1] = "high"}) =
              d.counts.surrogate_pairs

\* The manifest is written last: whatever stops a run, a manifest that is
\* whole describes every payload that no later run has opened and nobody has
\* edited; and after a run that completed it is that run's, with no exception.
ManifestVouches ==
    /\ disk[Manifest] \notin {None, Torn, Edited} =>
          \A f \in Payloads \ (suspect \cup (IF stage = "write" THEN Opened(at - 1) ELSE {})) :
              Describes(disk[Manifest], f)
    /\ last = "wrote" =>
          /\ disk[Manifest].seed = run.seed /\ disk[Manifest].target = run.target
          /\ {d.dataset : d \in disk[Manifest].datasets} = Chosen
          /\ \A f \in Chosen \X Range(Encodings) :
                Holds(disk[f], f[1], f[2]) /\ Describes(disk[Manifest], f)

\* --check finds nothing if and only if the directory holds exactly the files
\* a run with these arguments writes, whole: a run stopped half way, an edit,
\* a file left by another profile or seed is always reported.
CheckExact ==
    last = "checked" =>
        (problems = {} <=>
            /\ \A f \in Files \ {Hidden} :
                  disk[f] # None <=> (f = Manifest \/ f \in Chosen \X Range(Encodings))
            /\ \A f \in Chosen \X Range(Encodings) :
                  disk[f] # Edited /\ Holds(disk[f], f[1], f[2])
            /\ disk[Manifest] \notin {Torn, Edited}
            /\ <<disk[Manifest].profile, disk[Manifest].seed, disk[Manifest].target>>
                  = <<run.profile, run.seed, run.target>>)
=============================================================================
