SPECIFICATION FairSpec
CONSTANTS
    BatchSize = 2
    BatchesAhead = 2
    ParallelFetches = 2
    LagMultiplier = 1
    MaxCommit = 5
INVARIANTS
    NoGapReachesCore
    RangesPartition
    SyncerIsBounded
    NoStrandedRange
PROPERTIES
    CatchesUp
