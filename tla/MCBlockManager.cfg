SPECIFICATION FairSpec
CONSTANTS
    Block <- MCBlock
    Round <- MCRound
    Ancestors <- MCAncestors
    GcDepth = 1
    MaxBatch = 2
INVARIANTS
    AssertionsHold
    CausallyComplete
    MapsAreExact
PROPERTY
    SuspendedIsReleased
