SPECIFICATION Spec
CONSTANTS
    MaxRound = 4
    CachedRounds = 2
    Authority <- SingleAuthority
    Quorum <- SingleQuorum
INVARIANTS
    ClockIsExact
