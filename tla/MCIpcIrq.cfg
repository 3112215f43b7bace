CONSTANTS
    p1 = p1
    p2 = p2
    p3 = p3
    Procs <- MCProcs
    Priority <- MCPriority
    TaskTable <- MCBoot
    Notified = {p1, p2}
    EmptyTask = EmptyTask
    ReadyTail = ReadyTail
    PauseTail = PauseTail
    WaitTail = WaitTail
    Null = Null
    ANY = ANY
    INTERRUPT = INTERRUPT
    NO_TASK = NO_TASK
SPECIFICATION IrqSpec
INVARIANTS HarmlessElsewhere
CHECK_DEADLOCK FALSE
