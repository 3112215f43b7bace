CONSTANTS
    p1 = p1
    p2 = p2
    KEYBOARD = KEYBOARD
    CLOCK = CLOCK
    ANY = ANY
    INTERRUPT = INTERRUPT
    NO_TASK = NO_TASK
    NoProc = NoProc
    Procs <- MCProcs
    Priority <- MCPriority
    Boot <- MCBoot
    Bodies = {hello}
    IrqLines <- MCIrqLines
    NTimers = 2
    MaxTime = 3
    MaxOverrun = 0
    WildWalk = {"clean"}
SPECIFICATION Spec
PROPERTIES TimersFire SleepEnds
CHECK_DEADLOCK FALSE
