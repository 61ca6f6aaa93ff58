\* A memory that grows to the end of the address space, where its size wraps
\* to 0, in a build with overflow checks.
CONSTANTS
    N_ORDERS = 2
    U32 = 64
    OverflowChecks = TRUE
    HeapBases <- MCHeapBases
    MemSizes <- MCMemSizes
    Sizes <- MCSizes
    GuestWords <- MCGuestWords
SPECIFICATION Spec
INVARIANTS  ChunksDisjoint FreeListUsable NoChunkLost
PROPERTIES ImplementsHeap
