SPECIFICATION FairSpec
CONSTANT MaxFiles = 2
INVARIANTS DocumentInv HonestDocument RepairWritesText
PROPERTY Exits
