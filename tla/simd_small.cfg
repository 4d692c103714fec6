SPECIFICATION MCSpec
CONSTANTS
    Bytes = {215, 219, 220, 224}
    LowBytes = {219, 220}
    MaxBytes = 11
    UnitsPerPack = 2
    PacksPerStride = 1
INVARIANTS CountExact ReadsInBounds AccumExact
PROPERTY Refines
