CONSTANTS
    SECTOR_SIZE <- MCSector
    MaxCount = 2
    Slow = TRUE
    NoCall = NoCall
    NoAsk = NoAsk
    Junk <- MCJunk
    InfoText <- MCInfo
    Medium <- MCMedium
    Memory <- MCMemory
    NDIRECT = 2
    DIRET_BUF_SIZE = 8
    MM_BLOCK_SIZE = 28
    MaxEntries = 6
    MaxListed = 3
    Names <- MCNames
    Requests <- MCAll
    OtherCalls <- MCOther
SPECIFICATION Spec
INVARIANTS InterruptMeansSector ReadDelivers
PROPERTIES KeepsToBuffer OpensNamed Answered
CHECK_DEADLOCK FALSE
