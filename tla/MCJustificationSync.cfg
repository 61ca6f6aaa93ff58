CONSTANTS
    g = g
    a1 = a1
    a2 = a2
    a3 = a3
    a4 = a4
    b2 = b2
    p1 = p1
    p2 = p2
    Genesis = g
    Blocks <- MCBlocks
    Number <- MCNumber
    Ancestors <- MCAncestors
    Peers = {p1, p2}
    Full = {p1}
    MaxDisconnects = 1
    MaxRestarts = 1
    Setups <- MCSetups
SPECIFICATION Spec

    
PROPERTIES
    CatchesUp
CHECK_DEADLOCK FALSE
