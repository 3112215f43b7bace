CONSTANTS
    INPUT = INPUT
    FS = FS
    MM = MM
    TTY = TTY
    u1 = u1
    u2 = u2
    EmptyTask = EmptyTask
    ReadyTail = ReadyTail
    PauseTail = PauseTail
    WaitTail = WaitTail
    Null = Null
    ANY = ANY
    NO_TASK = NO_TASK
    Procs <- MCProcs
    Priority <- MCPriority
    Slots <- MCSlots
    Boot <- MCBoot
    Script <- MCRunExit
    Bytes = 3
    PerByte = 2
SPECIFICATION Spec
INVARIANTS BlockedAreWaiting ChildLives
PROPERTIES BlocksAccounted RunAnswered
CHECK_DEADLOCK FALSE
