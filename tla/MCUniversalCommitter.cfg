SPECIFICATION Spec
CONSTANTS
    A = A
    B = B
    C = C
    D = D
    Skip = Skip
    Undecided = Undecided
    v1 = v1
    NoPass = NoPass
    MaxGcRound = 1
    MaxRound = 6
    Authority <- MCAuthority
    Honest <- MCHonest
    Quorum <- MCQuorum
    Digest <- MCDigest
    Validator <- MCValidator
    Schedule <- MCSchedule
    Leader <- MCLeader
    Dags <- MCDags
INVARIANTS
    Agreement
    
