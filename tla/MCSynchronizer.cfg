SPECIFICATION FairSpec
CONSTANTS
    good = good
    bad1 = bad1
    bad2 = bad2
    Peer = {good, bad1, bad2}
    Good = {good}
    Ref = {1, 2}
    MaxAuthorities = 2
    Concurrency = 1
    MaxRetries = 2
    MaxBlocksPerSync = 1
    MaxCommands = 2
INVARIANTS
    LocksAreGuards
    
PROPERTIES
    MissingBlocksArrive
