CONSTANTS
    p1 = p1
    p2 = p2
    p3 = p3
    KEYBOARD = KEYBOARD
    DISK = DISK
    CLOCK = CLOCK
    ANY = ANY
    INTERRUPT = INTERRUPT
    NO_TASK = NO_TASK
    NoProc = NoProc
    Procs <- MCProcs
    Priority <- MCPriority
    Boot <- MCBoot
    Bodies = {hello}
    IrqLines <- MCIrqLines
    NTimers = 0
    MaxTime = 1
    MaxOverrun = 0
    WildWalk = {"clean", "endless"}
SPECIFICATION SafeSpec
INVARIANTS SendersListed
CHECK_DEADLOCK FALSE
