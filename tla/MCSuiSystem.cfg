SPECIFICATION FairSpec
CONSTANTS
    a = a  b = b  c = c  d = d  None = None
    TOTAL_VOTING_POWER = 10000
    QUORUM_THRESHOLD = 6667
    MAX_VOTING_POWER = 6667
    BASIS_POINT_DENOMINATOR = 10000
    DAILY_REWARD_RATE = 100
    VALIDATOR_BONUS_RATE = 50
    PHASE_LENGTH = 2
    reward_slashing_rate = 10000
    storage_fund_reinvest_rate = 500
    low_stake_grace_period = 1
    min_validator_count = 1
    max_validator_count = 3
    stake_subsidy_start_epoch = 1
    stake_subsidy_period_length = 2
    stake_subsidy_decrease_rate = 1000
    CatchUpCounter = 1
    FirstSafeModeEpoch = 2
    Validator = {a, b, c, d}
    Active <- McActive
    Candidates = {b, d}
    Stakes <- McStakes
    GasSummary <- McGas
    FullEpoch = {TRUE}
    Subsidy <- McSubsidy
    Amount = {200}
    RequestsAbout = {c}
    Rates = {2000}
    MaxReports = 1
    MaxRequests = 1
    MaxEpoch = 2
    LastEpoch = 4
    RequestEpochs = 2
INVARIANTS SetIsConsistent BooksAreExact PowersAreFair  PriceIsOfTheCommittee
PROPERTIES LeaversAsked 
CHECK_DEADLOCK FALSE
