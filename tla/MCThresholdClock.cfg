SPECIFICATION Spec
CONSTANTS
    MaxRound = 3
    CachedRounds = 2
    Authority <- MCAuthority
    Quorum <- MCQuorum
INVARIANTS
    ClockIsExact
    QuorumBehindClock
