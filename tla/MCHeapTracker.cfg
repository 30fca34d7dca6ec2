SPECIFICATION TrackerSpec
CONSTANTS
    a1 = a1
    a2 = a2
    a3 = a3
    Callers <- MCCallers
    Kind <- MCKind
    Calls <- MCCalls
    Size <- MCSize
    Addresses <- MCAddresses
    MAX_ALLOCATIONS = 2
    MaxMissed = 2
    NIL = NIL
SYMMETRY MCSymmetry
INVARIANTS
    TableMatchesHeap
    NothingForgotten
