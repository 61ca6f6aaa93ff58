\* All strategies and builds; the memory can grow to the whole address space.
SPECIFICATION Spec
CONSTANTS
    Setups <- MCSetups
    U32Pages = 4
    MaxPages = 4
    InitPages = 2
    HeapPage = 1
    Segments <- MCSegments
    FloatInit <- MCWhole
    GuestFloats <- MCGuestFloats
    StartWrites = {}
INVARIANTS
    HostStateBracket
    
PROPERTIES
    ResetMemory
    
