\* Three threads compete for a pool of two instances, and every call is served.
\* The one runtime is built once, and at most three instances exist at a time.
SPECIFICATION FairSpec
CONSTANTS
    Threads = {t1, t2, t3}
    Ids = {h1}
    Runtimes = {r1}
    Insts = {i1, i2, i3}
    CacheSize = 1
    MaxInstances = 2
    None = None
PROPERTIES
    Served
