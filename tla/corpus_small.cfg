SPECIFICATION CorpusSpec
CONSTANTS
    Table <- MCTable
    Sorted <- MCSorted
    Seeds = {s1, s2}
    FixtureTarget = 4
    BenchTargets = {0, 5}
    Manifest = Manifest
    Stray = Stray
    Hidden = Hidden
    None = None
    Torn = Torn
    Edited = Edited
    MaxRuns = 2
    MaxTouches = 1
SYMMETRY SeedSymmetry
INVARIANTS CorpusInv ManifestVouches CheckExact
