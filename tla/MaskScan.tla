------------------------------ MODULE MaskScan ------------------------------
(***************************************************************************)
(* The bit-stream prototypes of benchmarks/: from bytes to LLmasks, one    *)
(* bit per code unit (llmask_generation.h), from LLmasks to maskHL, one    *)
(* bit per LLmask (maskhl_aggregation.h), and from both to the positions   *)
(* of the ill-formed units (prototype_error_position_scan.cpp).            *)
(*                                                                         *)
(* Each level has several strategies that are meant to agree.  A behaviour *)
(* generates the masks by one strategy, summarises them by one and scans   *)
(* by one; routine names the C++ function that is running, and its locals  *)
(* are cleared when it returns.  A uint64_t is the set of its one bits and *)
(* a vector register the set of the lanes that hold 0xFF.  The prototypes  *)
(* read UTF-16LE only, in a buffer padded with zeroes.                     *)
(***************************************************************************)
EXTENDS UTF16Input, Sequences, FiniteSetsExt

CONSTANTS
    UnitsPerPack,     \* code units in one vector (8)
    UnitsPerMask,     \* code units in one LLmask (64)
    MasksPerMaskHL    \* LLmasks in one maskHL word (64)

ASSUME UnitsPerPackAssumption == UnitsPerPack \in Nat \ {0}
ASSUME UnitsPerMaskAssumption ==
    UnitsPerMask \in Nat \ {0} /\ UnitsPerMask % (2 * UnitsPerPack) = 0
ASSUME MasksPerMaskHLAssumption == MasksPerMaskHL \in Nat \ {0}

VARIABLES
    routine,   \* the function that is running
    k,         \* index of a code unit
    g,         \* index of an LLmask
    j,         \* index of a maskHL word
    prevHigh,  \* lanes of high surrogates in the previous pack
    pend,      \* the previous code unit was a high surrogate
    m,         \* an LLmask being filled or emptied
    h,         \* a maskHL word being filled or emptied
    masks,     \* the LLmasks
    hl,        \* the maskHL words
    out        \* the positions written so far

indices == <<k, g, j>>
carries == <<prevHigh, pend>>
words == <<m, h>>
arrays == <<masks, hl>>
maskScanVars == <<input, routine, indices, carries, words, arrays, out>>

-----------------------------------------------------------------------------
BytesPerPack == 2 * UnitsPerPack
PacksPerMask == UnitsPerMask \div UnitsPerPack
PadBytes == 2 * BytesPerPack
Lanes == 0..BytesPerPack-1
OddLanes == {2 * u + 1 : u \in 0..UnitsPerPack-1}

FullGroups == Units \div UnitsPerMask
NMasks == (Units + UnitsPerMask - 1) \div UnitsPerMask
NRegions == (NMasks + MasksPerMaskHL - 1) \div MasksPerMaskHL

\* A byte of the padded buffer, and what it says of a unit it ends.
PaddedByte(i) == IF i < size THEN data[i] ELSE 0
HighAt(u) == IsHi8(PaddedByte(2 * u + 1))
LowAt(u) == IsLo8(PaddedByte(2 * u + 1))

\* The place of a unit's bit in its LLmask and of an LLmask's in its maskHL.
BitOf(u) == u % UnitsPerMask
SlotOf(w) == w % MasksPerMaskHL
RegionOf(w) == w \div MasksPerMaskHL

\* The verdict of the scalar loops on unit u.
Bad(u) == (LowAt(u) /\ ~pend) \/ (HighAt(u) /\ ~LowAt(u + 1))

\* classify_pack, for pack q of the buffer: both neighbours of a unit are two
\* lanes away, in the pack before for the first unit and in the pack after
\* for the last.  Low bytes are classified too, and dropped at the end.
HiLanes(q) == {pos \in Lanes : IsHi8(PaddedByte(q * BytesPerPack + pos))}
LoLanes(q) == {pos \in Lanes : IsLo8(PaddedByte(q * BytesPerPack + pos))}

PrevHighLanes(q, before) ==
    {pos \in Lanes : IF pos >= 2 THEN pos - 2 \in HiLanes(q)
                                 ELSE BytesPerPack - 2 + pos \in before}
NextLowLanesMutant(q) == {pos \in Lanes : pos + 2 \in LoLanes(q)}
NextLowLanes(q) ==
    {pos \in Lanes : IF pos < BytesPerPack - 2 THEN pos + 2 \in LoLanes(q)
                     ELSE pos + 2 - BytesPerPack \in LoLanes(q + 1)}
BadLanes(q, before) ==
    OddLanes \cap ((LoLanes(q) \ PrevHighLanes(q, before))
                      \cup (HiLanes(q) \ NextLowLanes(q)))

\* The packs of a group hand their high surrogates on to the next.
HighBefore(q) == IF q % PacksPerMask = 0 THEN prevHigh ELSE HiLanes(q - 1)

\* signmask and compress_odd_bits: one bit for each odd lane of a pack.
CompressOddBits(lanes) == {(pos - 1) \div 2 : pos \in lanes \cap OddLanes}
SignmaskBits(grp) ==
    UNION {LET q == grp * PacksPerMask + p
           IN  {p * UnitsPerPack + u : u \in CompressOddBits(BadLanes(q, HighBefore(q)))}
             : p \in 0..PacksPerMask-1}

\* The odd lanes of two packs are packed into one vector of dense markers,
\* and weights and OR-folds make one bit of each lane.
Dense(lanes0, lanes1) ==
    {i \in 0..2*UnitsPerPack-1 :
        IF i < UnitsPerPack THEN 2 * i + 1 \in lanes0
                            ELSE 2 * (i - UnitsPerPack) + 1 \in lanes1}
PackReduceBits(grp) ==
    UNION {LET q == grp * PacksPerMask + 2 * chunk
           IN  {chunk * 2 * UnitsPerPack + i :
                   i \in Dense(BadLanes(q, HighBefore(q)),
                               BadLanes(q + 1, HighBefore(q + 1)))}
             : chunk \in 0..(PacksPerMask \div 2)-1}

GroupBits(grp) == IF routine = "signmask" THEN SignmaskBits(grp) ELSE PackReduceBits(grp)

Generators == {"scalar", "signmask", "pack_reduce", "fused"}
Aggregators == {"separate_pass", "any64"}
Scanners == {"two_level", "one_level", "linear"}

\* A function returns: its locals are gone, and one of `next' runs.
ReturnTo(next) ==
    /\ routine' \in next
    /\ k' = 0 /\ g' = 0 /\ j' = 0
    /\ prevHigh' = {} /\ pend' = FALSE /\ m' = {} /\ h' = {}
    /\ UNCHANGED <<input, out>>

MaskInit ==
    /\ routine \in Generators
    /\ k = 0 /\ g = 0 /\ j = 0
    /\ prevHigh = {} /\ pend = FALSE /\ m = {} /\ h = {}
    /\ masks = [w \in 0..NMasks-1 |-> {}]
    /\ hl = [r \in 0..NRegions-1 |-> {}]
    /\ out = <<>>

MaskScanInit == InputInit /\ HB = 1 /\ MaskInit

-----------------------------------------------------------------------------
(***************************************************************************)
(* Generation.                                                             *)
(***************************************************************************)
WithBit(u) == IF Bad(u) THEN m \cup {BitOf(u)} ELSE m

ScalarUnit ==
    /\ routine = "scalar" /\ k < Units
    /\ IF BitOf(k) = UnitsPerMask - 1
       THEN masks' = [masks EXCEPT ![k \div UnitsPerMask] = WithBit(k)] /\ m' = {}
       ELSE m' = WithBit(k) /\ UNCHANGED masks
    /\ pend' = HighAt(k)
    /\ k' = k + 1
    /\ UNCHANGED <<input, routine, g, j, prevHigh, h, hl, out>>

ScalarReturn ==
    /\ routine = "scalar" /\ k = Units
    /\ masks' = IF Units % UnitsPerMask # 0 THEN [masks EXCEPT ![NMasks - 1] = m]
                                            ELSE masks
    /\ UNCHANGED hl
    /\ ReturnTo(Aggregators)

VectorGroup ==
    /\ routine \in {"signmask", "pack_reduce"} /\ g < FullGroups
    /\ masks' = [masks EXCEPT ![g] = GroupBits(g)]
    /\ prevHigh' = HiLanes((g + 1) * PacksPerMask - 1)
    /\ g' = g + 1
    /\ UNCHANGED <<input, routine, k, j, pend, words, hl, out>>

\* The fused generator takes the maskHL bit while the LLmask is at hand, and
\* stores a word when it has its last bit.
FusedGroup ==
    /\ routine = "fused" /\ g < FullGroups
    /\ LET bits == GroupBits(g)
           word == IF bits # {} THEN h \cup {SlotOf(g)} ELSE h
       IN  /\ masks' = [masks EXCEPT ![g] = bits]
           /\ IF SlotOf(g) = MasksPerMaskHL - 1
              THEN hl' = [hl EXCEPT ![RegionOf(g)] = word] /\ h' = {}
              ELSE h' = word /\ UNCHANGED hl
    /\ prevHigh' = HiLanes((g + 1) * PacksPerMask - 1)
    /\ g' = g + 1
    /\ UNCHANGED <<input, routine, k, j, pend, m, out>>

\* llmask_tail continues with scalar code where the last whole group ended.
StartTail ==
    /\ routine \in {"signmask", "pack_reduce", "fused"} /\ g = FullGroups
    /\ k' = FullGroups * UnitsPerMask
    /\ pend' = (BytesPerPack - 1 \in prevHigh)
    /\ routine' = IF routine = "fused" THEN "fused_tail" ELSE "tail"
    /\ UNCHANGED <<input, g, j, prevHigh, words, arrays, out>>

TailUnit ==
    /\ routine \in {"tail", "fused_tail"} /\ k < Units
    /\ m' = WithBit(k)
    /\ pend' = HighAt(k)
    /\ k' = k + 1
    /\ UNCHANGED <<input, routine, g, j, prevHigh, h, arrays, out>>

WithTail == IF FullGroups * UnitsPerMask < Units
            THEN [masks EXCEPT ![NMasks - 1] = m] ELSE masks

TailReturn ==
    /\ routine = "tail" /\ k = Units
    /\ masks' = WithTail
    /\ UNCHANGED hl
    /\ ReturnTo(Aggregators)

\* The last word is stored here unless whole groups have filled it: also when
\* a partial LLmask has its last bit.
Unflushed(region) == FullGroups < MasksPerMaskHL * (region + 1)

FusedReturn ==
    /\ routine = "fused_tail" /\ k = Units
    /\ masks' = WithTail
    /\ LET word == IF NMasks > FullGroups /\ masks'[FullGroups] # {}
                   THEN h \cup {SlotOf(FullGroups)} ELSE h
           region == NRegions - 1
       IN  hl' = IF NMasks # 0 /\ Unflushed(region)
                 THEN [hl EXCEPT ![region] = word] ELSE hl
    /\ ReturnTo(Scanners)

(***************************************************************************)
(* Aggregation, a region at a time.                                        *)
(***************************************************************************)
RegionLen == LET left == NMasks - j * MasksPerMaskHL
             IN  IF left < MasksPerMaskHL THEN left ELSE MasksPerMaskHL
Dirty(w) == masks[j * MasksPerMaskHL + w] # {}

SeparatePass == {w \in 0..RegionLen-1 : Dirty(w)}

\* simd_any(64) on two LLmasks at a time, then the odd last one.
VectorAny64 ==
    {w \in 0..2*(RegionLen \div 2)-1 : Dirty(w)}
        \cup {w \in {RegionLen - 1} : RegionLen % 2 = 1 /\ Dirty(w)}

AggregateRegion ==
    /\ routine \in Aggregators /\ j < NRegions
    /\ hl' = [hl EXCEPT ![j] = IF routine = "any64" THEN VectorAny64 ELSE SeparatePass]
    /\ j' = j + 1
    /\ UNCHANGED <<input, routine, k, g, carries, words, masks, out>>

AggregateReturn ==
    /\ routine \in Aggregators /\ j = NRegions
    /\ UNCHANGED arrays
    /\ ReturnTo(Scanners)

(***************************************************************************)
(* The scans.  ctz finds the lowest bit and x & (x - 1) clears it.         *)
(***************************************************************************)
ResetLowestBit(x) == x \ {Min(x)}

\* The outer loop of scan_two_level: a clean region is skipped in one step.
ScanRegion ==
    /\ routine = "two_level" /\ m = {} /\ h = {} /\ j < NRegions
    /\ h' = hl[j]
    /\ j' = j + 1
    /\ UNCHANGED <<input, routine, k, g, carries, m, arrays, out>>

DirtyMaskMutant == (j - 1) * MasksPerMaskHL + Max(h)
DirtyMask == (j - 1) * MasksPerMaskHL + Min(h)

ScanDirtyMask ==
    /\ routine = "two_level" /\ m = {} /\ h # {}
    /\ g' = DirtyMask
    /\ m' = masks[DirtyMask]
    /\ h' = ResetLowestBit(h)
    /\ UNCHANGED <<input, routine, k, j, carries, arrays, out>>

\* scan_one_level visits every LLmask; here j is the next one.
ScanMask ==
    /\ routine = "one_level" /\ m = {} /\ j < NMasks
    /\ g' = j
    /\ m' = masks[j]
    /\ j' = j + 1
    /\ UNCHANGED <<input, routine, k, carries, h, arrays, out>>

EmitPosition ==
    /\ routine \in {"two_level", "one_level"} /\ m # {}
    /\ out' = Append(out, g * UnitsPerMask + Min(m))
    /\ m' = ResetLowestBit(m)
    /\ UNCHANGED <<input, routine, indices, carries, h, arrays>>

\* scan_linear tests every bit.
TestBit ==
    /\ routine = "linear" /\ k < NMasks * UnitsPerMask
    /\ out' = IF BitOf(k) \in masks[k \div UnitsPerMask] THEN Append(out, k) ELSE out
    /\ k' = k + 1
    /\ UNCHANGED <<input, routine, g, j, carries, words, arrays>>

ScanReturn ==
    /\ \/ routine = "two_level" /\ m = {} /\ h = {} /\ j = NRegions
       \/ routine = "one_level" /\ m = {} /\ j = NMasks
       \/ routine = "linear" /\ k = NMasks * UnitsPerMask
    /\ UNCHANGED arrays
    /\ ReturnTo({"finished"})

Generate == ScalarUnit \/ ScalarReturn \/ VectorGroup \/ FusedGroup \/ StartTail
            \/ TailUnit \/ TailReturn \/ FusedReturn
Aggregate == AggregateRegion \/ AggregateReturn
Scan == ScanRegion \/ ScanDirtyMask \/ ScanMask \/ EmitPosition \/ TestBit \/ ScanReturn

\* The positions have been handed over; nothing is left to do.
Terminated == routine = "finished" /\ UNCHANGED maskScanVars

MaskScanNext == Generate \/ Aggregate \/ Scan \/ Terminated

MaskScanSpec ==
    MaskScanInit /\ [][MaskScanNext]_maskScanVars /\ WF_maskScanVars(MaskScanNext)

-----------------------------------------------------------------------------
Bits == 0..UnitsPerMask-1
Slots == 0..MasksPerMaskHL-1

MaskScanTypeOK ==
    /\ routine \in Generators \cup {"tail", "fused_tail"} \cup Aggregators
             \cup Scanners \cup {"finished"}
    /\ k \in 0..NMasks*UnitsPerMask /\ g \in 0..NMasks /\ j \in 0..NMasks
    /\ prevHigh \subseteq Lanes /\ pend \in BOOLEAN
    /\ m \subseteq Bits /\ h \subseteq Slots
    /\ masks \in [0..NMasks-1 -> SUBSET Bits]
    /\ hl \in [0..NRegions-1 -> SUBSET Slots]

Generating == routine \in Generators \cup {"tail", "fused_tail"}
GeneratedUnits == IF routine = "scalar" \/ ~Generating THEN k ELSE g * UnitsPerMask

\* Every generator writes the masks of the reference, bit for bit: at every
\* moment those it has passed, whose verdicts reach into the group before and
\* the group after, and in the end all of them.
MasksExact ==
    LET bad == IllFormed
    IN  \A w \in DOMAIN masks :
            ~Generating \/ (w + 1) * UnitsPerMask <= GeneratedUnits
                => masks[w] = {i \in Bits : w * UnitsPerMask + i \in bad}

\* Once aggregated, by a second pass or on the way, a maskHL bit is set
\* exactly for the LLmasks that are not zero, and none beyond the last one.
SummaryExact ==
    routine \in Scanners \cup {"finished"} =>
        \A r \in DOMAIN hl :
            hl[r] = {w \in Slots : LET i == r * MasksPerMaskHL + w
                                   IN  i < NMasks /\ masks[i] # {}}

\* No loop reads past the padding: a vector loop loads one pack beyond its
\* group, a scalar loop one unit beyond its own.
ReadsInPadding ==
    /\ routine \in {"signmask", "pack_reduce", "fused"} /\ g < FullGroups =>
          2 * (g + 1) * UnitsPerMask + BytesPerPack <= size + PadBytes
    /\ routine \in {"scalar", "tail", "fused_tail"} /\ k < Units =>
          2 * k + 3 < size + PadBytes

\* The invariant of the generators and the aggregators.
MasksInv == MaskScanTypeOK /\ MasksExact /\ SummaryExact /\ ReadsInPadding

\* Each scan reports what it should, as the code behind the linear printer
\* and the reference script do: every ill-formed position, in order, once.
Report == INSTANCE PositionReport WITH reported <- (routine = "finished")
Refines == Report!ReportSpec
=============================================================================
