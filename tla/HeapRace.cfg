\* One page pair of heap, split into a few blocks.
CONSTANTS
    HEADER = 2
    HEAP_ALIGN = 2
    PMM_PAGE_SIZE = 8
    HEAP_START = 8
    Requests = {1, 4}
    MaxPages = 3
SPECIFICATION RaceSpec
INVARIANT HandedOutIsUsed
CHECK_DEADLOCK FALSE
