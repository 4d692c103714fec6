SPECIFICATION MCSpec
CONSTANTS
    Bytes = {65, 216, 220}
    LowByteValue = 216
    Window = 3
    MaxBytes = 19
    UnitsPerPack = 2
    UnitsPerMask = 4
    MasksPerMaskHL = 2
INVARIANT MasksInv
PROPERTY Refines
