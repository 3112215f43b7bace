CONSTANTS
    KEY_BUF_SIZE = 4
    MaxCodes = 6
SPECIFICATION KeySpec
INVARIANTS NoSplit EmptyWhenAsleep CountNotAbove
PROPERTIES EarliestFirstLap
CHECK_DEADLOCK FALSE
