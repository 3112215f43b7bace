CONSTANTS
    p1 = p1
    p2 = p2
    p3 = p3
    Procs <- MCProcs
    Priority <- MCPriority
    Boot <- MCBoot
    MaxOverrun = 2
SPECIFICATION Spec
INVARIANTS TypeOK Partition NoIdleWhileRunnable FullSliceAhead
PROPERTIES NoOvertaking NoStarvation
