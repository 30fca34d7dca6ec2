SPECIFICATION Spec
CONSTANTS
    POOL_COUNT = 2
    BlockCount <- MCBlockCount
    Clients = {stress}
    MaxHeld = 2
    Pattern = pattern
    NTests = 2
    Monitor = monitor
    NULL = NULL
    HEAP = HEAP
INVARIANTS
    NoSharedBlock
    FreeListComplete
PROPERTIES
    ImplementsAllocator
CHECK_DEADLOCK FALSE
