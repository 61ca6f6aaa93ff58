\* Two runtimes, a tidy and a wild one: two thunks, three blocks, three guests
\* inside each other.
CONSTANTS
    t1 = t1
    t2 = t2
    Thunks = {t1, t2}
    Runtimes <- MCRuntimes
    Messages = {m1, m2}
    Blocks = {b1, b2, b3}
    MaxDepth = 3
    MaxInstances = 2
    MaxMemories = 2
    None = None
SYMMETRY Symmetry
SPECIFICATION Spec
INVARIANTS StoreBracket ThunkOfInstance ArgsBalanced 
PROPERTIES ThunkContained
