SPECIFICATION MCSpec
CONSTANTS
    Bytes = {65, 216, 220}
    LowBytes = {65}
    MaxBytes = 7
    UnitsPerPack = 2
    PacksPerBlock = 1
    MarkSlots = 4
    ScanStrideBlocks = 2
INVARIANT NoPhantomMark
