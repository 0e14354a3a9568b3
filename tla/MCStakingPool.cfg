SPECIFICATION Spec
CONSTANTS
    Amount = {3}
    Reward = {2}
    Bonus = {0, 1}
    MaxEpoch = 3
    MaxStaked = 6
    MaxSafeModes = 1
    None = None
INVARIANTS BooksMatchCustody TokensCoverClaims NothingAborts
CHECK_DEADLOCK FALSE
