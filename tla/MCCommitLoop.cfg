SPECIFICATION Spec
CONSTANTS
    n1 = n1
    n2 = n2
    Node = {n1, n2}
    NumCommitsPerSchedule = 2
    MaxRound = 6
    Decides <- MCDecides
SYMMETRY Symmetry
INVARIANTS
    LogFollowsSchedule
    ScheduleAssertions
PROPERTIES
    ImplementsReplicatedLog
