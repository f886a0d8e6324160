\* The shell, and three slots for processes that share two stacks.
CONSTANTS
    MAX_PROCESSES = 4
    MAX_ALLOCATIONS_PER_PROC = 1
    MaxPid = 4
    s1 = s1
    s2 = s2
    Stacks <- MCStacks
SPECIFICATION FairSpec
INVARIANTS
    IInv
    RunsInitialised
    RunsOnOwnStack
    NoStackLost
    SharedStackExclusive
PROPERTIES
    ImplementsDispatcher
    NoStarvation
    DeadStackReaped
    CreateCompletes
