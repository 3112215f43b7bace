CONSTANTS
    SECTOR_SIZE <- MCSector
    MaxCount = 2
    Slow = FALSE
    NoCall = NoCall
    NoAsk = NoAsk
    Junk <- MCJunk
    InfoText <- MCInfo
    Medium <- MCMedium
    Memory <- MCMemory
    NDIRECT = 2
    DIRET_BUF_SIZE = 8
    MM_BLOCK_SIZE = 28
    MaxEntries = 6
    MaxListed = 3
    Names <- MCNames
    Requests = {"root", "open"}
    OtherCalls = {}
SPECIFICATION Spec
INVARIANTS ListShowsDirectory
CHECK_DEADLOCK FALSE
