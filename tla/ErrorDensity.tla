---------------------------- MODULE ErrorDensity ----------------------------
(***************************************************************************)
(* scripts/generate_error_density_datasets.py: how a well-formed stream is *)
(* turned into one with an exact number of ill-formed code units.  First   *)
(* choose_patterns picks patterns whose errors add up to the target, then  *)
(* inject writes them into the stream one by one.                          *)
(*                                                                         *)
(* Of a code unit only its class matters: plain, high or low.  What the    *)
(* random generator decides is chosen freely.                              *)
(***************************************************************************)
EXTENDS Integers, FiniteSets, Sequences

CONSTANTS
    MaxUnits,   \* the longest stream considered
    MaxTarget   \* the largest number of errors asked for

ASSUME MaxUnitsAssumption == MaxUnits \in Nat
ASSUME MaxTargetAssumption == MaxTarget \in Nat

VARIABLES
    stage,        \* choosing, placing, done, or how inject was left
    total,        \* length of the stream
    target,       \* ill-formed units asked for
    code_units,   \* the stream
    pair_member,  \* the units that are half of a surrogate pair
    used,         \* the units that belong to a pattern already placed
    chosen,       \* the patterns, as sequences of classes
    remaining,    \* errors still to be chosen
    index         \* patterns placed so far

stream == <<code_units, pair_member, used>>
choice == <<chosen, remaining>>
densityVars == <<stage, total, target, stream, choice, index>>

Positions == 0..total-1

-----------------------------------------------------------------------------
\* Next to plain units each of these adds as many errors as it has units.
Patterns ==
    {<<"high">>, <<"low">>, <<"low", "high">>, <<"high", "high">>, <<"low", "low">>,
     <<"low", "low", "high">>}

\* build_valid_units: any stream of plain units and whole surrogate pairs.
DensityInit ==
    /\ stage = "choosing"
    /\ total \in 0..MaxUnits
    /\ target \in 0..(IF total < MaxTarget THEN total ELSE MaxTarget)
    /\ \E pairs \in SUBSET (0..total-2) :
          /\ \A k \in pairs : k + 1 \notin pairs
          /\ code_units = [k \in Positions |-> CASE k \in pairs -> "high"
                                                 [] k - 1 \in pairs -> "low"
                                                 [] OTHER -> "plain"]
          /\ pair_member = pairs \cup {k + 1 : k \in pairs}
    /\ used = {}
    /\ chosen = <<>> /\ remaining = target /\ index = 0

\* Any pattern that does not overshoot may be next.  The shuffle that follows
\* adds no order that was not possible already.
UsableMutant == Patterns
Usable == {p \in Patterns : Len(p) <= remaining}

ChoosePattern ==
    /\ stage = "choosing" /\ remaining > 0
    /\ \E p \in Usable : /\ chosen' = Append(chosen, p)
                        /\ remaining' = remaining - Len(p)
    /\ UNCHANGED <<stage, total, target, stream, index>>

StartPlacing ==
    /\ stage = "choosing" /\ remaining <= 0
    /\ stage' = "placing"
    /\ UNCHANGED <<total, target, stream, choice, index>>

-----------------------------------------------------------------------------
Body == chosen[index + 1]
Width == Len(Body)

\* Where the pattern would like to be: inside its slot of total/n units.  The
\* code divides in floating point, which for streams this short is exact.
SlotStart(i) == (i * total) \div Len(chosen)
WantedStarts ==
    LET low == SlotStart(index)
        high == SlotStart(index + 1) - Width - 1
    IN  IF high <= low + 1 THEN {low + 1} ELSE low+1..high

Own(c) == c..c+Width-1

\* The pattern's own units are free, and no neighbour belongs to a pattern.
Fits(c) ==
    /\ 1 <= c /\ c + Width <= total - 1
    /\ Own(c) \cap used = {}
    /\ c - 1 \notin used /\ c + Width \notin used

\* The wanted start is tried without a look at the end of the stream.
IndexError(c) ==
    /\ c + Width > total - 1
    /\ Own(c) \cap used = {}
    /\ Own(c) \subseteq Positions => c - 1 \notin used

\* Candidates spiral outwards from the start, right before left.
Rank(c, start) == IF c > start THEN 2 * (c - start) - 1 ELSE 2 * (start - c)
FirstFits(start) ==
    {c \in Positions : Fits(c) /\ \A d \in Positions :
                                     Fits(d) => Rank(c, start) <= Rank(d, start)}

\* _flatten_pairs: every pair that touches the window becomes plain, also the
\* half outside it.
Partner(k) == IF code_units[k] = "high" THEN k + 1 ELSE k - 1
FlattenedMutant(first, last) == ((first..last) \cap pair_member) \ used
Flattened(first, last) ==
    LET touched == ((first..last) \cap pair_member) \ used
    IN  touched \cup (({Partner(k) : k \in touched} \cap Positions) \ used)

PlacePattern ==
    /\ stage = "placing" /\ index < Len(chosen)
    /\ \E start \in WantedStarts :
          /\ ~IndexError(start)
          /\ \E c \in FirstFits(start) :
                LET flat == Flattened(c - 1, c + Width)
                IN  /\ code_units' = [k \in Positions |->
                                    IF k \in Own(c) THEN Body[k - c + 1]
                                    ELSE IF k \in flat THEN "plain" ELSE code_units[k]]
                    /\ pair_member' = pair_member \ (flat \cup Own(c))
                    /\ used' = used \cup Own(c)
    /\ index' = index + 1
    /\ UNCHANGED <<stage, total, target, choice>>

\* The look at the guard of the wanted start runs off the stream.
RunsOffTheEnd ==
    /\ stage = "placing" /\ index < Len(chosen)
    /\ \E start \in WantedStarts : IndexError(start)
    /\ stage' = "index_error"
    /\ UNCHANGED <<total, target, stream, choice, index>>

NothingFits ==
    /\ stage = "placing" /\ index < Len(chosen)
    /\ \E start \in WantedStarts : ~IndexError(start) /\ FirstFits(start) = {}
    /\ stage' = "runtime_error"
    /\ UNCHANGED <<total, target, stream, choice, index>>

AllPlaced ==
    /\ stage = "placing" /\ index = Len(chosen)
    /\ stage' = "done"
    /\ UNCHANGED <<total, target, stream, choice, index>>

DensityStep ==
    \/ ChoosePattern \/ StartPlacing
    \/ PlacePattern \/ RunsOffTheEnd \/ NothingFits \/ AllPlaced

Ended == stage \in {"done", "index_error", "runtime_error"} /\ UNCHANGED densityVars

DensityNext == DensityStep \/ Ended

DensitySpec == DensityInit /\ [][DensityNext]_densityVars
-----------------------------------------------------------------------------
Classes == {"plain", "high", "low"}

DensityTypeOK ==
    /\ stage \in {"choosing", "placing", "done", "index_error", "runtime_error"}
    /\ code_units \in [Positions -> Classes]
    /\ pair_member \subseteq Positions /\ used \subseteq Positions
    /\ chosen \in Seq(Patterns) /\ remaining \in 0..target
    /\ index \in 0..Len(chosen)

IsHigh(k) == k \in Positions /\ code_units[k] = "high"
IsLow(k) == k \in Positions /\ code_units[k] = "low"

IllFormedUnits ==
    {k \in Positions : (IsLow(k) /\ ~IsHigh(k - 1)) \/ (IsHigh(k) /\ ~IsLow(k + 1))}

\* After every placement the ill-formed units are exactly those of patterns:
\* none was mended by its neighbours, and no pair broken to place another.
OnlyPatternsIllFormed == IllFormedUnits = used

\* The pairs that are left are whole, and every surrogate outside a pattern
\* belongs to one: what _flatten_pairs relies on to find a partner.
PairsWhole ==
    \A k \in Positions \ used :
        /\ k \in pair_member <=> code_units[k] # "plain"
        /\ k \in pair_member => Partner(k) \in pair_member

\* Patterns keep one unit between them and off both ends of the stream.
Guarded ==
    /\ 0 \notin used /\ total - 1 \notin used
    /\ stage = "done" => Cardinality({k \in used : k + 1 \notin used}) = Len(chosen)

\* The invariant of the stream: inject keeps all of this at every placement.
StreamInv == DensityTypeOK /\ OnlyPatternsIllFormed /\ PairsWhole /\ Guarded

\* Where every pattern has a slot of five units, each stays within its own and
\* none fails: the error and the exception are for dense streams only.
RoomSuffices ==
    stage \in {"index_error", "runtime_error"} => total < 5 * Len(chosen)

\* The stream ends with as many ill-formed units as were asked for, or with an
\* error that its density explains.
TargetReached ==
    /\ stage = "done" => Cardinality(IllFormedUnits) = target
    /\ RoomSuffices
=============================================================================
