\* Every queue with forks of two shapes; some states are pinned.  The chain of
\* blocks ends, so the import thread may stop.
CONSTANTS
    g = g
    a1 = a1
    b1 = b1
    a2 = a2
    b2 = b2
    c2 = c2
    a3 = a3
    x = x
    Nobody = Nobody
    Blocks <- MCBlocks
    Root = g
    Parent <- MCParent
    Trie <- MCTrie
    MaxPerLevel = 2
    Setups <- MCSetups
SPECIFICATION Spec
INVARIANTS
    StatesReadable
    PinnedReadable
    CrashSafe
    ValuesExact
    NoPanic
    NoGarbage
    NoBlockMissing
CHECK_DEADLOCK FALSE
