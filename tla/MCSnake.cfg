CONSTANTS
    WIDTH = 3
    HEIGHT = 2
    MEM_LIMIT = 12
    CELLS = 19
    DISP_LIMIT = 0
    VALID = 2
    NTimers = 2
    MaxMoves = 5
    MaxKeys = 3
SPECIFICATION Spec
INVARIANTS TypeOK NoTrace StaysTicking ScreenIsPicture
CHECK_DEADLOCK FALSE
