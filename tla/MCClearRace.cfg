CONSTANTS
    WIDTH = 4
    HEIGHT = 2
    MEM_LIMIT = 16
    CELLS = 80
    DISP_LIMIT = 4
    TTY_BUFFER_NUM = 6
    MARGIN = 3
    SPACE = "_"
    NUL = "0"
    Word <- MCWord
    Title <- MCTitle
    Listing <- MCListing
    Program <- MCClear
    MaxKeys = 6
    KeysAt <- MCKeys
    Hasty = 3
    NoKey = "none"
SPECIFICATION Spec
INVARIANTS ScreenOnRow
CHECK_DEADLOCK FALSE
