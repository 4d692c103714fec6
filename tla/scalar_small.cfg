SPECIFICATION MCSpec
CONSTANTS
    Bytes = {215, 219, 220, 224}
    LowBytes = {219, 220}
    MaxBytes = 9
    StrideUnits = 2
INVARIANTS CountExact AccumExact
PROPERTY Refines
