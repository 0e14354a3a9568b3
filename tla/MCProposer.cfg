SPECIFICATION FairSpec
CONSTANTS
    c1 = c1
    c2 = c2
    Content = {c1, c2}
    MaxRound = 3
    MaxCrashes = 2
INVARIANTS
    NoEquivocation
PROPERTIES
    EventuallyProposes
