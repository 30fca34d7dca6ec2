SPECIFICATION Spec
CONSTANTS
    STATIC_BUFFER_COUNT = 3
    NBuffers = 2
    sizes <- MCsizes
    pool_counts <- MCpool_counts
    Requests <- MCRequests
    Aligned <- MCAligned
    Patterns <- MCPatterns
    Benchmark <- MCBenchmark
    POINTER = 4
    HeapAddresses <- MCHeapAddresses
    BadSize = 15
    GoodSize = 16
    Threshold = 1
    Word = 8
    MaxDemos = 2
    NULL = NULL
    HEAP = HEAP
INVARIANTS
    LedTellsUse
    AlignedInside
    TemplateListsWhole
    SavingLedIsWrapped
PROPERTY
    ImplementsAllocator
