SPECIFICATION Spec
CONSTANTS
    Datasets = 2
    Operations = {"locate_scan", "simdutf_repair"}
    IterationCounts = {0, 2}
    Warmups = 1
    CodeUnits = 2
    MaxPositions = 3
INVARIANTS TimedOnlyIfRight ExclusionExact 
PROPERTY OldResultsKept
