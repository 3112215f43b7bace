CONSTANTS
    KEY_BUF_SIZE = 3
    MaxCodes = 4
SPECIFICATION KeySpec
PROPERTIES TakesEarliest
CHECK_DEADLOCK FALSE
