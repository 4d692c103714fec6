SPECIFICATION Spec
CONSTANTS
    Sizes = {2, 4}
    Densities = {50}
    Lengths = {0, 2, 4}
    Seeds = {s1, s2}
    None = None
    MaxRuns = 2
    MaxTouches = 1
INVARIANTS DatasetsInv ManifestDescribes PairsAgree
