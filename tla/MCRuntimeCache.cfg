\* Two threads and three runtimes share a cache of two: evictions of runtimes
\* that are in use, rebuilds, failures.
SPECIFICATION Spec
CONSTANTS
    Threads = {t1, t2}
    Ids = {h1, h2, h3}
    Runtimes = {r1, r2, r3, r4}
    Insts = {i1, i2, i3, i4}
    CacheSize = 2
    MaxInstances = 1
    None = None
SYMMETRY Symmetry
INVARIANTS
    RightRuntime
    InstancesExclusive
    CacheHoldsMostRecent
PROPERTIES
    ImplementsService
