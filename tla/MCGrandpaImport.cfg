CONSTANTS
    g = g
    a1 = a1
    a2 = a2
    a3 = a3
    a4 = a4
    a5 = a5
    b2 = b2
    b3 = b3
    Genesis = g
    Blocks <- MCBlocks
    Number <- MCNumber
    Ancestors <- MCAncestors
    Setups <- MCSetups
SPECIFICATION Spec
INVARIANTS
    SetFollowsChain
    NoChangeLost
    InSync
    ChangesExact
    VoterFollows
CHECK_DEADLOCK FALSE
