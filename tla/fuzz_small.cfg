SPECIFICATION MCSpec
CONSTANTS
    Bytes = {65, 216, 220}
    LowBytes = {65}
    MaxBytes = 10
    UnitsPerPack = 2
    PacksPerBlock = 1
    MarkSlots = 8
    ScanStrideBlocks = 2
INVARIANTS PrintedExact RepairSound DecoderInv SuiteAgrees
PROPERTY Completes
