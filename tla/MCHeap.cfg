CONSTANTS
    HEADER = 2
    HEAP_ALIGN = 2
    PMM_PAGE_SIZE = 8
    HEAP_START = 8
    Requests = {1, 4, 8}
    MaxPages = 4
SPECIFICATION Spec
INVARIANTS
    NoOverlap
    AddressOrdered
    Coalesced
PROPERTIES
    GrowthSuffices
    ImplementsAllocator
