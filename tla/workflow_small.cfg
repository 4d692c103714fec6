SPECIFICATION WorkflowSpec
CONSTANTS
    Runs = {r1, r2}
    MaxActive = 1
    Faults = {"kill", "interrupt", "move"}
    Versions = 2
    MaxSetups = 2
    MaxChanges = 1
SYMMETRY RunSymmetry
INVARIANTS EvidenceInv SuccessMeansEvidence SetupInv EvidenceTraceable
PROPERTIES KeptWithoutForce WorkKept
