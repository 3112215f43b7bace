CONSTANTS
    p1 = p1
    p2 = p2
    p3 = p3
    Procs <- MCProcs
    Priority <- MCPriority
    Boot <- MCBoot
    MaxOverrun = 1
    EmptyTask = EmptyTask
    ReadyTail = ReadyTail
    PauseTail = PauseTail
    WaitTail = WaitTail
    Null = Null
    FreePauseHead = TRUE
SPECIFICATION Spec
PROPERTY FreedIsUnlinked
