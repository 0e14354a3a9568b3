SPECIFICATION Spec
CONSTANTS
    A = A
    B = B
    C = C
    D = D
    Rejecters = {{}, {D}, {C, D}, {B, C, D}, {A, C}}
    RestartRejecters = {{C, D}}
    Skip = Skip
    Undecided = Undecided
    MaxRound = 6
    GcDepth = 2
    MaxAhead = 1
    MaxReceived = 3
    own_index = B
    Authority <- MCAuthority
    Honest <- MCHonest
    Quorum <- MCQuorum
    Stake <- MCStake
    Digest <- MCDigest
    TransactionIndex <- MCTransactionIndex
    Dags <- MCDags
    Leader <- MCLeader
INVARIANTS
    
    FastPathIsFinal
    VotesAreThere
    NothingIsHeldBack
CHECK_DEADLOCK FALSE
