SPECIFICATION MCSpec
CONSTANTS
    Bytes = {65, 216, 220}
    LowBytes = {216, 220}
    MaxBytes = 11
    UnitsPerPack = 2
    PacksPerBlock = 2
    MarkSlots = 8
INVARIANTS MarksInv ShownMarksWritten
PROPERTIES ShownMarksStable Refines
