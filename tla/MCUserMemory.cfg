\* One program at a time; the shell allocates while none is loading.
CONSTANTS
    p1 = p1
    p2 = p2
    Procs <- TwoProcs
    VPages <- MCVPages
    Region <- MCRegion
    StackPages <- MCStack
    Images <- InsideImages
    NFrames = 8
    LEVELS = 2
    MAX_ALLOCATIONS_PER_PROC = 4
    MaxLive = 1
    ShellWaits = TRUE
SPECIFICATION Spec
INVARIANTS
    RunsOnOwnPages
    BitmapExact
\* A kernel exception, or memory that is used up, stops the machine.
CHECK_DEADLOCK FALSE
