SPECIFICATION DensitySpec
CONSTANTS
    MaxUnits = 10
    MaxTarget = 5
INVARIANTS StreamInv TargetReached
