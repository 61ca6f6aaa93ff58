--------------------------- MODULE MCRuntimeCache ---------------------------
(***************************************************************************)
(* Instances of RuntimeCache for TLC.  A runtime is referred to by an      *)
(* entry of the cache or by a thread, so CacheSize + |Threads| names are   *)
(* enough for a free one always to exist when a runtime is created.        *)
(***************************************************************************)
EXTENDS RuntimeCache, TLC

\* Threads, runtimes and instances are interchangeable.
Symmetry ==
    Permutations(Threads) \cup Permutations(Runtimes) \cup Permutations(Insts)
=============================================================================
