--------------------------- MODULE ExecutorProofs ---------------------------
(***************************************************************************)
(* Proofs about the executor: the cache of runtimes and the pools of their *)
(* instances (RuntimeCache), for any number of threads, runtimes, instances*)
(* and slots, and the tasks that a call spawns (RuntimeSpawn), for any     *)
(* number of tasks, threads and handles.                                   *)
(***************************************************************************)
EXTENDS RuntimeCache, RuntimeSpawn, TLAPS

\* Most steps are first-order; those that need arithmetic, or sequences, say so.
USE Zenon

\* Only a runtime that the cache or a thread refers to has instances.
PoolsReferenced ==
    \A r \in Runtimes, k \in Slots :
        pool[r][k] # None => \/ \E i \in Ids : cached[i] = r
                             \/ \E t \in Threads : rt[t] = r

\* The inductive invariant.  None of its parts is inductive alone: an instance
\* is exclusive because the slot of a closure is locked and empty, the guards
\* of slots match the threads because a runtime that a thread refers to is
\* never built again, and an instance is of the right runtime because the
\* entries of the cache are.
IInv ==
    /\ TypeOK
    /\ ThreadState
    /\ GuardsMatch
    /\ BuiltOnce
    /\ RuntimesTrue
    /\ RightRuntime
    /\ InstancesExclusive
    /\ SlotVacant
    /\ PoolsReferenced

\* The invariant holds in the initial state.
LEMMA InitInv == Init => IInv
  BY SMT, CacheAssumption DEF Init, IInv, TypeOK, ThreadState, GuardsMatch, BuiltOnce,
     RuntimesTrue, RightRuntime, InstancesExclusive, SlotVacant, PoolsReferenced,
     EmptyPool, Slots

-----------------------------------------------------------------------------
(* What dropping the last reference to a runtime does.                     *)

\* The pools of runtimes that are still referred to stay as they are, the
\* others become empty.
LEMMA SweptFacts ==
    ASSUME NEW p \in [Runtimes -> [Slots -> Insts \cup {None}]],
           NEW c \in [Ids -> Runtimes \cup {None}],
           NEW x \in [Threads -> Runtimes \cup {None}]
    PROVE  /\ Swept(p, c, x) \in [Runtimes -> [Slots -> Insts \cup {None}]]
           /\ \A r \in Runtimes, k \in Slots :
                 /\ Swept(p, c, x)[r][k] \in {p[r][k], None}
                 /\ Swept(p, c, x)[r][k] # None =>
                       (\E i \in Ids : c[i] = r) \/ (\E t \in Threads : x[t] = r)
<1>1. \A r : r \in Referenced(c, x)
                <=> (\E i \in Ids : c[i] = r) \/ (\E t \in Threads : x[t] = r)
  BY DEF Referenced
<1>2. ASSUME NEW r \in Runtimes, NEW k \in Slots
      PROVE  /\ Swept(p, c, x)[r][k] \in {p[r][k], None}
             /\ Swept(p, c, x)[r][k] # None => r \in Referenced(c, x)
  BY DEF Swept, EmptyPool
<1>3. Swept(p, c, x) \in [Runtimes -> [Slots -> Insts \cup {None}]]
  BY DEF Swept, EmptyPool
<1> QED  BY <1>1, <1>2, <1>3

\* An instance that a slot or a thread holds survives, any other is dropped.
LEMMA SurvivorsFacts ==
    ASSUME TypeOK,
           NEW p \in [Runtimes -> [Slots -> Insts \cup {None}]],
           NEW s \in [Threads -> Insts \cup {None}]
    PROVE  /\ Survivors(p, s) \in [Insts -> Ids \cup {None}]
           /\ \A r \in Runtimes, k \in Slots :
                 p[r][k] # None => Survivors(p, s)[p[r][k]] = madeFor[p[r][k]]
           /\ \A t \in Threads :
                 s[t] # None => Survivors(p, s)[s[t]] = madeFor[s[t]]
           /\ \A i \in Insts :
                 /\ Survivors(p, s)[i] \in {madeFor[i], None}
                 /\ (/\ \A r \in Runtimes, k \in Slots : p[r][k] # i
                     /\ \A t \in Threads : s[t] # i) => Survivors(p, s)[i] = None
<1>1. \A r \in Runtimes, k \in Slots : p[r][k] \in Alive(p, s)
  BY SMT DEF Alive
<1>2. \A t \in Threads : s[t] \in Alive(p, s)
  BY SMT DEF Alive
<1>3. Survivors(p, s) \in [Insts -> Ids \cup {None}]
  BY DEF Survivors, TypeOK
<1>4. \A i \in Insts : Survivors(p, s)[i] \in {madeFor[i], None}
  BY DEF Survivors
<1>5. \A i \in Insts : i \in Alive(p, s) => Survivors(p, s)[i] = madeFor[i]
  BY DEF Survivors
<1>6. ASSUME NEW i \in Insts,
             \A r \in Runtimes, k \in Slots : p[r][k] # i,
             \A t \in Threads : s[t] # i
      PROVE  Survivors(p, s)[i] = None
  <2>1. i \notin Alive(p, s)  BY SMT, <1>6 DEF Alive
  <2> QED  BY <2>1 DEF Survivors
<1> QED  BY SMT, <1>1, <1>2, <1>3, <1>4, <1>5, <1>6

-----------------------------------------------------------------------------
(* Every action preserves the invariant.                                   *)

\* The name of a new instance is nowhere in use.
LEMMA FreshUnused ==
    ASSUME IInv, NEW i \in Insts, madeFor[i] = None
    PROVE  /\ \A u \in Threads : inst[u] # i
           /\ \A r \in Runtimes, k \in Slots : pool[r][k] # i
<1>1. \A u \in Threads : inst[u] # i
  BY SMT, CacheAssumption DEF IInv, TypeOK, ThreadState, RightRuntime
<1>2. \A r \in Runtimes, k \in Slots : pool[r][k] # i
  <2> SUFFICES ASSUME NEW r \in Runtimes, NEW k \in Slots, pool[r][k] = i
               PROVE  FALSE
    OBVIOUS
  <2>1. pool[r][k] # None  BY CacheAssumption
  <2>2. builtFor[r] = None  BY <2>1 DEF IInv, RightRuntime
  <2>3. builtFor[r] # None
    <3>1. CASE \E j \in Ids : cached[j] = r
      BY <3>1, CacheAssumption DEF IInv, RuntimesTrue
    <3>2. CASE \E u \in Threads : rt[u] = r
      BY SMT, <3>2, CacheAssumption DEF IInv, RuntimesTrue, ThreadState, TypeOK
    <3> QED  BY <2>1, <3>1, <3>2 DEF IInv, PoolsReferenced
  <2> QED  BY <2>2, <2>3
<1> QED  BY <1>1, <1>2

\* A request.
LEMMA RequestInv ==
    ASSUME IInv, NEW t \in Threads, NEW i \in Ids, Request(t, i)
    PROVE  IInv'
<1>1. TypeOK'
  BY CacheAssumption DEF IInv, Request, cacheVars, TypeOK, ThreadState, Slots
<1>2. ThreadState'
  BY SMT, CacheAssumption DEF IInv, Request, cacheVars, TypeOK, ThreadState, Slots
<1>3. GuardsMatch'
  BY SMT, CacheAssumption DEF IInv, Request, cacheVars, TypeOK, ThreadState, Slots, GuardsMatch
<1>4. BuiltOnce'
  BY CacheAssumption DEF IInv, Request, cacheVars, TypeOK, ThreadState, Slots, BuiltOnce
<1>5. RuntimesTrue'
  BY CacheAssumption DEF IInv, Request, cacheVars, TypeOK, ThreadState, Slots, RuntimesTrue
<1>6. RightRuntime'
  BY ZenonT(30), CacheAssumption DEF IInv, Request, cacheVars, TypeOK, ThreadState, Slots, RightRuntime
<1>7. InstancesExclusive'
  BY SMT, CacheAssumption DEF IInv, Request, cacheVars, TypeOK, ThreadState, Slots, InstancesExclusive
<1>8. SlotVacant'
  BY CacheAssumption DEF IInv, Request, cacheVars, TypeOK, ThreadState, Slots, SlotVacant
<1>9. PoolsReferenced'
  BY DEF IInv, Request, cacheVars, PoolsReferenced
<1> QED  BY <1>1, <1>2, <1>3, <1>4, <1>5, <1>6, <1>7, <1>8, <1>9 DEF IInv

\* A runtime found in the cache.
LEMMA HitInv ==
    ASSUME IInv, NEW t \in Threads, Hit(t)
    PROVE  IInv'
<1>1. TypeOK'
  BY SMT, CacheAssumption DEF IInv, Hit, cacheVars, TypeOK, ThreadState, Slots
<1>2. ThreadState'
  BY SMT, CacheAssumption DEF IInv, Hit, cacheVars, TypeOK, ThreadState, Slots
<1>3. GuardsMatch'
  BY SMT, CacheAssumption DEF IInv, Hit, cacheVars, TypeOK, ThreadState, Slots, GuardsMatch
<1>4. BuiltOnce'
  BY SMT, CacheAssumption DEF IInv, Hit, cacheVars, TypeOK, ThreadState, Slots, BuiltOnce
<1>5. RuntimesTrue'
  BY SMT, CacheAssumption DEF IInv, Hit, cacheVars, TypeOK, ThreadState, Slots, RuntimesTrue
<1>6. RightRuntime'
  BY CacheAssumption DEF IInv, Hit, cacheVars, TypeOK, ThreadState, Slots, RightRuntime
<1>7. InstancesExclusive'
  BY SMT, CacheAssumption DEF IInv, Hit, cacheVars, TypeOK, ThreadState, Slots, InstancesExclusive
<1>8. SlotVacant'
  BY SMT, CacheAssumption DEF IInv, Hit, cacheVars, TypeOK, ThreadState, Slots, SlotVacant
<1>9. PoolsReferenced'
  <2> SUFFICES ASSUME NEW r \in Runtimes, NEW k \in Slots, pool[r][k] # None
               PROVE  (\E i \in Ids : cached[i] = r) \/ (\E u \in Threads : rt'[u] = r)
    BY DEF Hit, PoolsReferenced
  <2>1. CASE \E i \in Ids : cached[i] = r
    BY <2>1
  <2>2. CASE \E u \in Threads : rt[u] = r
    <3>1. PICK u \in Threads : rt[u] = r  BY <2>2
    <3>2. rt[t] = None  BY DEF IInv, ThreadState, Hit
    <3>3. rt'[u] = r
      BY <3>1, <3>2, CacheAssumption DEF IInv, TypeOK, Hit
    <3> QED  BY <3>3
  <2> QED  BY <2>1, <2>2 DEF IInv, PoolsReferenced
<1> QED  BY <1>1, <1>2, <1>3, <1>4, <1>5, <1>6, <1>7, <1>8, <1>9 DEF IInv

\* A runtime not found.
LEMMA MissInv ==
    ASSUME IInv, NEW t \in Threads, Miss(t)
    PROVE  IInv'
<1>1. TypeOK'
  BY CacheAssumption DEF IInv, Miss, cacheVars, TypeOK, ThreadState, Slots
<1>2. ThreadState'
  BY SMT, CacheAssumption DEF IInv, Miss, cacheVars, TypeOK, ThreadState, Slots
<1>3. GuardsMatch'
  BY SMT, CacheAssumption DEF IInv, Miss, cacheVars, TypeOK, ThreadState, Slots, GuardsMatch
<1>4. BuiltOnce'
  BY SMT, CacheAssumption DEF IInv, Miss, cacheVars, TypeOK, ThreadState, Slots, BuiltOnce
<1>5. RuntimesTrue'
  BY CacheAssumption DEF IInv, Miss, cacheVars, TypeOK, ThreadState, Slots, RuntimesTrue
<1>6. RightRuntime'
  BY ZenonT(30), CacheAssumption DEF IInv, Miss, cacheVars, TypeOK, ThreadState, Slots, RightRuntime
<1>7. InstancesExclusive'
  BY SMT, CacheAssumption DEF IInv, Miss, cacheVars, TypeOK, ThreadState, Slots, InstancesExclusive
<1>8. SlotVacant'
  BY SMT, CacheAssumption DEF IInv, Miss, cacheVars, TypeOK, ThreadState, Slots, SlotVacant
<1>9. PoolsReferenced'
  BY DEF IInv, Miss, cacheVars, PoolsReferenced
<1> QED  BY <1>1, <1>2, <1>3, <1>4, <1>5, <1>6, <1>7, <1>8, <1>9 DEF IInv

\* A runtime that cannot be built.
LEMMA CreateErrInv ==
    ASSUME IInv, NEW t \in Threads, CreateErr(t)
    PROVE  IInv'
<1>1. TypeOK'
  BY CacheAssumption DEF IInv, CreateErr, cacheVars, TypeOK, ThreadState, Slots
<1>2. ThreadState'
  BY SMT, CacheAssumption DEF IInv, CreateErr, cacheVars, TypeOK, ThreadState, Slots
<1>3. GuardsMatch'
  BY SMT, CacheAssumption DEF IInv, CreateErr, cacheVars, TypeOK, ThreadState, Slots, GuardsMatch
<1>4. BuiltOnce'
  BY CacheAssumption DEF IInv, CreateErr, cacheVars, TypeOK, ThreadState, Slots, BuiltOnce
<1>5. RuntimesTrue'
  BY ZenonT(30), CacheAssumption DEF IInv, CreateErr, cacheVars, TypeOK, ThreadState, Slots, RuntimesTrue
<1>6. RightRuntime'
  BY CacheAssumption DEF IInv, CreateErr, cacheVars, TypeOK, ThreadState, Slots, RightRuntime
<1>7. InstancesExclusive'
  BY SMT, CacheAssumption DEF IInv, CreateErr, cacheVars, TypeOK, ThreadState, Slots, InstancesExclusive
<1>8. SlotVacant'
  BY CacheAssumption DEF IInv, CreateErr, cacheVars, TypeOK, ThreadState, Slots, SlotVacant
<1>9. PoolsReferenced'
  BY DEF IInv, CreateErr, cacheVars, PoolsReferenced
<1> QED  BY <1>1, <1>2, <1>3, <1>4, <1>5, <1>6, <1>7, <1>8, <1>9 DEF IInv

\* A locked slot.
LEMMA TryBusyInv ==
    ASSUME IInv, NEW t \in Threads, TryBusy(t)
    PROVE  IInv'
<1>1. TypeOK'
  BY SMT, CacheAssumption DEF IInv, TryBusy, cacheVars, TypeOK, ThreadState, Slots
<1>2. ThreadState'
  BY SMT, CacheAssumption DEF IInv, TryBusy, cacheVars, TypeOK, ThreadState, Slots
<1>3. GuardsMatch'
  BY SMT, CacheAssumption DEF IInv, TryBusy, cacheVars, TypeOK, ThreadState, Slots, GuardsMatch
<1>4. BuiltOnce'
  BY CacheAssumption DEF IInv, TryBusy, cacheVars, TypeOK, ThreadState, Slots, BuiltOnce
<1>5. RuntimesTrue'
  BY CacheAssumption DEF IInv, TryBusy, cacheVars, TypeOK, ThreadState, Slots, RuntimesTrue
<1>6. RightRuntime'
  BY CacheAssumption DEF IInv, TryBusy, cacheVars, TypeOK, ThreadState, Slots, RightRuntime
<1>7. InstancesExclusive'
  BY SMT, CacheAssumption DEF IInv, TryBusy, cacheVars, TypeOK, ThreadState, Slots, InstancesExclusive
<1>8. SlotVacant'
  BY CacheAssumption DEF IInv, TryBusy, cacheVars, TypeOK, ThreadState, Slots, SlotVacant
<1>9. PoolsReferenced'
  BY DEF IInv, TryBusy, cacheVars, PoolsReferenced
<1> QED  BY <1>1, <1>2, <1>3, <1>4, <1>5, <1>6, <1>7, <1>8, <1>9 DEF IInv

\* A free slot.
LEMMA TryFreeInv ==
    ASSUME IInv, NEW t \in Threads, TryFree(t)
    PROVE  IInv'
<1>1. TypeOK'
  BY ZenonT(30), CacheAssumption DEF IInv, TryFree, cacheVars, TypeOK, ThreadState, Slots
<1>2. ThreadState'
  BY SMT, CacheAssumption DEF IInv, TryFree, cacheVars, TypeOK, ThreadState, Slots
<1>3. GuardsMatch'
  BY SMT, CacheAssumption DEF IInv, TryFree, cacheVars, TypeOK, ThreadState, Slots, GuardsMatch
<1>4. BuiltOnce'
  BY DEF IInv, TryFree, cacheVars, TypeOK, ThreadState, Slots, BuiltOnce
<1>5. RuntimesTrue'
  BY CacheAssumption DEF IInv, TryFree, cacheVars, TypeOK, ThreadState, Slots, RuntimesTrue
<1>6. RightRuntime'
  BY CacheAssumption DEF IInv, TryFree, cacheVars, TypeOK, ThreadState, Slots, RightRuntime
<1>7. InstancesExclusive'
  BY SMT, CacheAssumption DEF IInv, TryFree, cacheVars, TypeOK, ThreadState, Slots, InstancesExclusive
<1>8. SlotVacant'
  BY ZenonT(30), CacheAssumption DEF IInv, TryFree, cacheVars, TypeOK, ThreadState, Slots, SlotVacant
<1>9. PoolsReferenced'
  BY DEF IInv, TryFree, cacheVars, PoolsReferenced
<1> QED  BY <1>1, <1>2, <1>3, <1>4, <1>5, <1>6, <1>7, <1>8, <1>9 DEF IInv

\* No slot left.
LEMMA TryNoneInv ==
    ASSUME IInv, NEW t \in Threads, TryNone(t)
    PROVE  IInv'
<1>1. TypeOK'
  BY SMT, CacheAssumption DEF IInv, TryNone, cacheVars, TypeOK, ThreadState, Slots
<1>2. ThreadState'
  BY SMT, CacheAssumption DEF IInv, TryNone, cacheVars, TypeOK, ThreadState, Slots
<1>3. GuardsMatch'
  BY SMT, CacheAssumption DEF IInv, TryNone, cacheVars, TypeOK, ThreadState, Slots, GuardsMatch
<1>4. BuiltOnce'
  BY CacheAssumption DEF IInv, TryNone, cacheVars, TypeOK, ThreadState, Slots, BuiltOnce
<1>5. RuntimesTrue'
  BY CacheAssumption DEF IInv, TryNone, cacheVars, TypeOK, ThreadState, Slots, RuntimesTrue
<1>6. RightRuntime'
  BY CacheAssumption DEF IInv, TryNone, cacheVars, TypeOK, ThreadState, Slots, RightRuntime
<1>7. InstancesExclusive'
  BY SMT, CacheAssumption DEF IInv, TryNone, cacheVars, TypeOK, ThreadState, Slots, InstancesExclusive
<1>8. SlotVacant'
  BY CacheAssumption DEF IInv, TryNone, cacheVars, TypeOK, ThreadState, Slots, SlotVacant
<1>9. PoolsReferenced'
  BY DEF IInv, TryNone, cacheVars, PoolsReferenced
<1> QED  BY <1>1, <1>2, <1>3, <1>4, <1>5, <1>6, <1>7, <1>8, <1>9 DEF IInv

\* An instance taken out of its slot.
LEMMA ReuseInv ==
    ASSUME IInv, NEW t \in Threads, Reuse(t)
    PROVE  IInv'
<1>1. TypeOK'
  BY SMT, CacheAssumption DEF IInv, Reuse, cacheVars, TypeOK, ThreadState, Slots
<1>2. ThreadState'
  BY SMT, CacheAssumption DEF IInv, Reuse, cacheVars, TypeOK, ThreadState, Slots
<1>3. GuardsMatch'
  BY SMT, CacheAssumption DEF IInv, Reuse, cacheVars, TypeOK, ThreadState, Slots, GuardsMatch
<1>4. BuiltOnce'
  BY CacheAssumption DEF IInv, Reuse, cacheVars, TypeOK, ThreadState, Slots, BuiltOnce
<1>5. RuntimesTrue'
  BY CacheAssumption DEF IInv, Reuse, cacheVars, TypeOK, ThreadState, Slots, RuntimesTrue
<1>6. RightRuntime'
  <2>1. \A r \in Runtimes, k \in Slots : pool'[r][k] \in {pool[r][k], None}
    BY SMT, CacheAssumption DEF IInv, Reuse, TypeOK, ThreadState
  <2>2. rt[t] \in Runtimes /\ at[t] \in Slots /\ pool[rt[t]][at[t]] # None
    BY SMT, CacheAssumption DEF IInv, Reuse, TypeOK, ThreadState
  <2>3. madeFor[pool[rt[t]][at[t]]] = id[t]
    BY <2>2, CacheAssumption DEF IInv, TypeOK, RightRuntime, RuntimesTrue
  <2>4. \A u \in Threads : inst'[u] # None => madeFor[inst'[u]] = id[u]
    BY <2>3 DEF IInv, Reuse, TypeOK, RightRuntime
  <2> QED  BY SMT, <2>1, <2>4 DEF IInv, Reuse, RightRuntime
<1>7. InstancesExclusive'
  BY SMT, CacheAssumption DEF IInv, Reuse, cacheVars, TypeOK, ThreadState, Slots, InstancesExclusive
<1>8. SlotVacant'
  BY SMT, CacheAssumption DEF IInv, Reuse, cacheVars, TypeOK, ThreadState, Slots, SlotVacant
<1>9. PoolsReferenced'
  BY DEF IInv, Reuse, cacheVars, TypeOK, PoolsReferenced
<1> QED  BY <1>1, <1>2, <1>3, <1>4, <1>5, <1>6, <1>7, <1>8, <1>9 DEF IInv

\* A new instance.
LEMMA NewInstanceInv ==
    ASSUME IInv, NEW t \in Threads, NEW i \in Insts, NewInstance(t, i)
    PROVE  IInv'
<1>a. /\ \A u \in Threads : inst[u] # i
      /\ \A r \in Runtimes, k \in Slots : pool[r][k] # i
  BY FreshUnused DEF NewInstance
<1>c. madeFor' = [madeFor EXCEPT ![i] = id[t]]
  BY CacheAssumption DEF IInv, NewInstance, ThreadState, RuntimesTrue
<1>1. TypeOK'
  BY SMT, CacheAssumption DEF IInv, NewInstance, cacheVars, TypeOK, ThreadState, Slots
<1>2. ThreadState'
  BY ZenonT(30), CacheAssumption DEF IInv, NewInstance, cacheVars, TypeOK, ThreadState, Slots
<1>3. GuardsMatch'
  BY SMT, CacheAssumption DEF IInv, NewInstance, cacheVars, TypeOK, ThreadState, Slots, GuardsMatch
<1>4. BuiltOnce'
  BY CacheAssumption DEF IInv, NewInstance, cacheVars, TypeOK, ThreadState, Slots, BuiltOnce
<1>5. RuntimesTrue'
  BY CacheAssumption DEF IInv, NewInstance, cacheVars, TypeOK, ThreadState, Slots, RuntimesTrue
<1>6. RightRuntime'
  BY SMT, <1>a, <1>c DEF IInv, NewInstance, TypeOK, RightRuntime
<1>7. InstancesExclusive'
  BY SMT, <1>a DEF IInv, NewInstance, TypeOK, InstancesExclusive
<1>8. SlotVacant'
  BY CacheAssumption DEF IInv, NewInstance, cacheVars, TypeOK, ThreadState, Slots, SlotVacant
<1>9. PoolsReferenced'
  BY DEF IInv, NewInstance, cacheVars, PoolsReferenced
<1> QED  BY <1>1, <1>2, <1>3, <1>4, <1>5, <1>6, <1>7, <1>8, <1>9 DEF IInv

\* A runtime that is built.
LEMMA CreateOkInv ==
    ASSUME IInv, NEW t \in Threads, NEW r \in Runtimes, CreateOk(t, r)
    PROVE  IInv'
<1>a. /\ pc[t] = "create" /\ id[t] \in Ids /\ rt[t] = None /\ lock = t
      /\ \A i \in Ids : cached[i] # r
      /\ \A u \in Threads : rt[u] # r
  BY SMT DEF IInv, TypeOK, ThreadState, CreateOk, Referenced
<1>b. /\ cached' \in [Ids -> Runtimes \cup {None}]
      /\ cached'[id[t]] = r
      /\ \A i \in Ids \ {id[t]} : cached'[i] \in {cached[i], None}
      /\ rt' \in [Threads -> Runtimes \cup {None}]
      /\ rt'[t] = r
      /\ \A u \in Threads \ {t} : rt'[u] = rt[u]
  <2> HIDE DEF Victims
  <2> QED  BY <1>a DEF IInv, TypeOK, CreateOk
<1>s. /\ pool' = Swept(pool, cached', rt')
      /\ madeFor' = Survivors(pool', inst)
      /\ pool \in [Runtimes -> [Slots -> Insts \cup {None}]]
      /\ UNCHANGED <<holder, id, inst, res>>
  BY DEF IInv, TypeOK, CreateOk
<1>c. pool' \in [Runtimes -> [Slots -> Insts \cup {None}]]
  BY <1>b, <1>s, SweptFacts
<1>d. \A x \in Runtimes, k \in Slots :
         /\ pool'[x][k] \in {pool[x][k], None}
         /\ pool'[x][k] # None => (\E i \in Ids : cached'[i] = x)
                                    \/ (\E u \in Threads : rt'[u] = x)
  BY SMT, <1>b, <1>s, SweptFacts
<1>e. \A k \in Slots : pool[r][k] = None
  BY <1>a DEF IInv, PoolsReferenced
<1>f. /\ madeFor' \in [Insts -> Ids \cup {None}]
      /\ \A x \in Runtimes, k \in Slots :
            pool'[x][k] # None => madeFor'[pool'[x][k]] = madeFor[pool'[x][k]]
      /\ \A u \in Threads : inst[u] # None => madeFor'[inst[u]] = madeFor[inst[u]]
  <2>1. inst \in [Threads -> Insts \cup {None}] /\ TypeOK  BY DEF IInv, TypeOK
  <2> QED  BY ZenonT(30), <1>c, <1>s, <2>1, SurvivorsFacts
<1>1. TypeOK'
  <2>1. /\ lock' = None
        /\ pc' = [pc EXCEPT ![t] = "scan"]
        /\ at' = [at EXCEPT ![t] = 1]
        /\ builtFor' = [builtFor EXCEPT ![r] = id[t]]
    BY DEF CreateOk
  <2> QED  BY SMT, <1>a, <1>b, <1>c, <1>f, <1>s, <2>1, CacheAssumption DEF IInv, TypeOK
<1>2. ThreadState'
  BY SMT, <1>a, <1>b, CacheAssumption DEF IInv, TypeOK, ThreadState, CreateOk, Slots
<1>3. GuardsMatch'
  BY SMT, <1>a, <1>b DEF IInv, TypeOK, GuardsMatch, CreateOk, Slots
<1>4. BuiltOnce'
  BY SMT, <1>a, <1>b DEF IInv, TypeOK, BuiltOnce, ThreadState, CreateOk
<1>5. RuntimesTrue'
  <2>1. /\ builtFor'[r] = id[t]
        /\ \A x \in Runtimes \ {r} : builtFor'[x] = builtFor[x]
        /\ id' = id
    BY DEF IInv, TypeOK, CreateOk
  <2>2. ASSUME NEW i \in Ids, cached'[i] # None
        PROVE  builtFor'[cached'[i]] = i
    <3>1. CASE i = id[t]  BY <1>b, <2>1, <3>1
    <3>2. CASE i # id[t]
      <4>1. cached'[i] = cached[i] /\ cached[i] # r /\ cached[i] \in Runtimes
        BY <1>a, <1>b, <2>2, <3>2 DEF IInv
      <4> QED  BY <4>1, <2>1, <2>2 DEF IInv, RuntimesTrue
    <3> QED  BY <3>1, <3>2
  <2>3. ASSUME NEW u \in Threads, rt'[u] # None
        PROVE  builtFor'[rt'[u]] = id'[u]
    <3>1. CASE u = t  BY <1>b, <2>1, <3>1
    <3>2. CASE u # t
      <4>1. rt'[u] = rt[u] /\ rt[u] # r /\ rt[u] \in Runtimes
        BY ZenonT(30), <1>a, <1>b, <2>3, <3>2 DEF IInv, TypeOK
      <4> QED  BY <4>1, <2>1, <2>3 DEF IInv, RuntimesTrue
    <3> QED  BY <3>1, <3>2
  <2> QED  BY <2>2, <2>3 DEF RuntimesTrue
<1>6. RightRuntime'
  <2>1. \A x \in Runtimes \ {r} : builtFor'[x] = builtFor[x]
    BY DEF IInv, TypeOK, CreateOk
  <2>2. ASSUME NEW x \in Runtimes, NEW k \in Slots, pool'[x][k] # None
        PROVE  madeFor'[pool'[x][k]] = builtFor'[x]
    BY SMT, <2>1, <2>2, <1>d, <1>e, <1>f DEF IInv, RightRuntime
  <2>3. ASSUME NEW u \in Threads, inst'[u] # None
        PROVE  madeFor'[inst'[u]] = id'[u]
    BY <2>3, <1>f DEF IInv, RightRuntime, CreateOk
  <2> QED  BY <2>2, <2>3 DEF RightRuntime
<1>7. InstancesExclusive'
  BY SMT, <1>d, <1>s DEF IInv, InstancesExclusive
<1>8. SlotVacant'
  <2> SUFFICES ASSUME NEW u \in Threads, pc'[u] = "run", at'[u] \in Slots
               PROVE  pool'[rt'[u]][at'[u]] = None
    BY DEF SlotVacant
  <2>1. u # t /\ pc[u] = "run" /\ at'[u] = at[u]
    BY DEF IInv, TypeOK, CreateOk
  <2>2. rt'[u] = rt[u] /\ rt[u] \in Runtimes
    BY <1>b, <2>1 DEF IInv, ThreadState
  <2> QED  BY <2>1, <2>2, <1>d DEF IInv, SlotVacant
<1>9. PoolsReferenced'
  BY <1>d DEF PoolsReferenced
<1> QED  BY <1>1, <1>2, <1>3, <1>4, <1>5, <1>6, <1>7, <1>8, <1>9 DEF IInv

\* The end of a call, whatever becomes of its instance.
LEMMA ReturnInv ==
    ASSUME IInv, NEW t \in Threads, NEW kept \in {inst[t], None},
           NEW x \in {"ok", "err"}, Return(t, kept, x),
           pc[t] = "run" \/ (pc[t] = "obtain" /\ kept = None)
    PROVE  IInv'
<1> DEFINE p == IF at[t] \in Slots THEN [pool EXCEPT ![rt[t]][at[t]] = kept] ELSE pool
<1>a. /\ rt[t] \in Runtimes /\ id[t] \in Ids /\ lock # t
      /\ kept \in Insts \cup {None}
      /\ at[t] \in Slots \cup {0}
  BY SMT, CacheAssumption DEF IInv, TypeOK, ThreadState
<1>b. /\ p \in [Runtimes -> [Slots -> Insts \cup {None}]]
      /\ \A r \in Runtimes, k \in Slots :
            p[r][k] = IF r = rt[t] /\ k = at[t] THEN kept ELSE pool[r][k]
  BY <1>a DEF IInv, TypeOK
<1>c. /\ rt' \in [Threads -> Runtimes \cup {None}]
      /\ rt'[t] = None
      /\ \A u \in Threads \ {t} : rt'[u] = rt[u]
      /\ inst' \in [Threads -> Insts \cup {None}]
      /\ inst'[t] = None
      /\ \A u \in Threads \ {t} : inst'[u] = inst[u]
      /\ pool' = Swept(p, cached, rt')
      /\ madeFor' = Survivors(pool', inst')
      /\ UNCHANGED <<cached, builtFor, lock>>
  BY DEF IInv, TypeOK, Return, cacheVars
<1> HIDE DEF p
<1>d. /\ pool' \in [Runtimes -> [Slots -> Insts \cup {None}]]
      /\ \A r \in Runtimes, k \in Slots :
           /\ pool'[r][k] \in {p[r][k], None}
           /\ pool'[r][k] # None => (\E i \in Ids : cached[i] = r)
                                      \/ (\E u \in Threads : rt'[u] = r)
  <2>1. cached \in [Ids -> Runtimes \cup {None}]  BY DEF IInv, TypeOK
  <2> QED  BY ZenonT(30), <1>b, <1>c, <2>1, SweptFacts
<1>e. /\ madeFor' \in [Insts -> Ids \cup {None}]
      /\ \A r \in Runtimes, k \in Slots :
            pool'[r][k] # None => madeFor'[pool'[r][k]] = madeFor[pool'[r][k]]
      /\ \A u \in Threads : inst'[u] # None => madeFor'[inst'[u]] = madeFor[inst'[u]]
  BY SMT, <1>c, <1>d, SurvivorsFacts DEF IInv
<1>f. /\ id' = [id EXCEPT ![t] = None]
      /\ at' = [at EXCEPT ![t] = 0]
      /\ pc' = [pc EXCEPT ![t] = "idle"]
      /\ res' = [res EXCEPT ![t] = x]
      /\ holder' = IF at[t] \in Slots
                     THEN [holder EXCEPT ![rt[t]][at[t]] = None] ELSE holder
  BY DEF Return
<1>1. TypeOK'
  <2>1. holder' \in [Runtimes -> [Slots -> Threads \cup {None}]]
    BY <1>a, <1>f DEF IInv, TypeOK
  <2> QED  BY SMT, <1>a, <1>c, <1>d, <1>e, <1>f, <2>1, CacheAssumption DEF IInv, TypeOK
<1>2. ThreadState'
  BY SMT, <1>a, <1>c, <1>f, CacheAssumption DEF IInv, TypeOK, ThreadState
<1>3. GuardsMatch'
  <2>1. /\ \A r \in Runtimes, k \in Slots :
             holder'[r][k] = IF r = rt[t] /\ k = at[t] THEN None ELSE holder[r][k]
    BY <1>a, <1>f DEF IInv, TypeOK
  <2>2. ASSUME NEW u \in Threads, NEW r \in Runtimes, NEW k \in Slots
        PROVE  holder'[r][k] = u <=> /\ pc'[u] \in {"obtain", "run"}
                                     /\ rt'[u] = r
                                     /\ at'[u] = k
    <3>1. CASE u = t
      BY SMT, <2>1, <3>1, <1>f, CacheAssumption DEF IInv, TypeOK, GuardsMatch
    <3>2. CASE u # t
      <4>1. ~(r = rt[t] /\ k = at[t] /\ rt[u] = r /\ at[u] = k
                /\ pc[u] \in {"obtain", "run"})
        BY SMT, <3>2 DEF IInv, GuardsMatch
      <4> QED  BY SMT, <4>1, <2>1, <3>2, <1>c, <1>f, CacheAssumption DEF IInv, TypeOK, GuardsMatch
    <3> QED  BY <3>1, <3>2
  <2> QED  BY <2>2 DEF GuardsMatch
<1>4. BuiltOnce'
  BY <1>c, <1>f DEF IInv, TypeOK, BuiltOnce
<1>5. RuntimesTrue'
  BY <1>c, <1>f DEF IInv, TypeOK, RuntimesTrue
<1>6. RightRuntime'
  <2>1. ASSUME NEW u \in Threads, inst'[u] # None
        PROVE  madeFor'[inst'[u]] = id'[u]
    <3>1. u # t /\ inst'[u] = inst[u]  BY <2>1, <1>c
    <3>2. madeFor[inst[u]] = id[u]  BY <2>1, <3>1 DEF IInv, RightRuntime
    <3>3. id'[u] = id[u]  BY <1>f, <3>1 DEF IInv, TypeOK
    <3> QED  BY <2>1, <3>1, <3>2, <3>3, <1>e
  <2>2. ASSUME NEW r \in Runtimes, NEW k \in Slots, pool'[r][k] # None
        PROVE  madeFor'[pool'[r][k]] = builtFor'[r]
    <3>1. p[r][k] # None /\ pool'[r][k] = p[r][k]  BY <2>2, <1>d
    <3>2. madeFor[p[r][k]] = builtFor[r]
      BY SMT, <3>1, <1>a, <1>b, CacheAssumption DEF IInv, RightRuntime, RuntimesTrue
    <3> QED  BY SMT, <2>2, <3>1, <3>2, <1>c, <1>e
  <2> QED  BY <2>1, <2>2 DEF RightRuntime
<1>7. InstancesExclusive'
  <2>1. \A r \in Runtimes, k \in Slots :
           pool'[r][k] \in {pool[r][k], None}
             \/ (pool'[r][k] = inst[t] /\ r = rt[t] /\ k = at[t])
    BY SMT, <1>b, <1>d
  <2>2. \A u, v \in Threads : inst'[u] = inst'[v] /\ inst'[u] # None => u = v
    BY SMT, <1>c DEF IInv, InstancesExclusive
  <2>a. /\ \A u, v \in Threads : inst[u] = inst[v] /\ inst[u] # None => u = v
        /\ \A u \in Threads, r \in Runtimes, k \in Slots : inst[u] # None => pool[r][k] # inst[u]
        /\ \A u \in Threads : inst'[u] = IF u = t THEN None ELSE inst[u]
    BY <1>c DEF IInv, InstancesExclusive, TypeOK
  <2>3. \A u \in Threads, r \in Runtimes, k \in Slots :
           inst'[u] # None => pool'[r][k] # inst'[u]
    <3> SUFFICES ASSUME NEW u \in Threads, NEW r \in Runtimes, NEW k \in Slots, inst'[u] # None
                 PROVE  pool'[r][k] # inst'[u]
      OBVIOUS
    <3>1. u # t /\ inst'[u] = inst[u] /\ inst[u] # inst[t] /\ inst[u] # None /\ pool[r][k] # inst[u]
      BY <2>a
    <3> QED  BY <2>1, <3>1
  <2>4. ASSUME NEW r \in Runtimes, NEW s \in Runtimes, NEW k \in Slots, NEW l \in Slots,
               pool'[r][k] = pool'[s][l], pool'[r][k] # None
        PROVE  r = s /\ k = l
    BY SMT, <2>1, <2>4 DEF IInv, InstancesExclusive
  <2> QED  BY SMT, <2>2, <2>3, <2>4 DEF InstancesExclusive
<1>8. SlotVacant'
  <2> SUFFICES ASSUME NEW u \in Threads, pc'[u] = "run", at'[u] \in Slots
               PROVE  pool'[rt'[u]][at'[u]] = None
    BY DEF SlotVacant
  <2>1. u # t /\ pc[u] = "run" /\ at'[u] = at[u] /\ rt'[u] = rt[u] /\ rt[u] \in Runtimes
    <3>1. DOMAIN pc = Threads /\ DOMAIN at = Threads  BY DEF IInv, TypeOK
    <3>2. u # t /\ pc[u] = "run" /\ at'[u] = at[u]  BY <1>f, <3>1
    <3>3. rt'[u] = rt[u]  BY <1>c, <3>2
    <3>4. rt[u] \in Runtimes  BY SMT, <3>2, CacheAssumption DEF IInv, TypeOK, ThreadState
    <3> QED  BY <3>2, <3>3, <3>4
  <2>2. ~(rt[u] = rt[t] /\ at[u] = at[t])
    BY SMT, <2>1, <1>a DEF IInv, GuardsMatch
  <2> QED  BY SMT, <2>1, <2>2, <1>b, <1>d DEF IInv, SlotVacant
<1>9. PoolsReferenced'
  BY ZenonT(30), <1>c, <1>d DEF PoolsReferenced
<1> QED  BY <1>1, <1>2, <1>3, <1>4, <1>5, <1>6, <1>7, <1>8, <1>9 DEF IInv

\* Every step preserves the invariant.
LEMMA NextInv == IInv /\ [Next]_vars => IInv'
<1> SUFFICES ASSUME IInv, [Next]_vars  PROVE IInv'
  OBVIOUS
<1>1. CASE UNCHANGED vars
  BY SMT, <1>1 DEF vars, cacheVars, IInv, TypeOK, ThreadState, GuardsMatch, BuiltOnce,
     RuntimesTrue, RightRuntime, InstancesExclusive, SlotVacant, PoolsReferenced
<1>2. ASSUME NEW t \in Threads, NEW i \in Ids, Request(t, i)  PROVE IInv'
  BY <1>2, RequestInv
<1>3. ASSUME NEW t \in Threads, Step(t)  PROVE IInv'
  <2>1. CASE Hit(t)  BY <2>1, HitInv
  <2>2. CASE Miss(t)  BY <2>2, MissInv
  <2>3. CASE \E r \in Runtimes : CreateOk(t, r)  BY <2>3, CreateOkInv
  <2>4. CASE CreateErr(t)  BY <2>4, CreateErrInv
  <2>5. CASE TryBusy(t)  BY <2>5, TryBusyInv
  <2>6. CASE TryFree(t)  BY <2>6, TryFreeInv
  <2>7. CASE TryNone(t)  BY <2>7, TryNoneInv
  <2>8. CASE Reuse(t)  BY <2>8, ReuseInv
  <2>9. CASE \E i \in Insts : NewInstance(t, i)  BY <2>9, NewInstanceInv
  <2>10. CASE NewInstanceErr(t)  BY <2>10, ReturnInv DEF NewInstanceErr
  <2>11. CASE FinishOk(t)  BY <2>11, ReturnInv DEF FinishOk
  <2>12. CASE FinishErr(t)  BY <2>12, ReturnInv DEF FinishErr
  <2> QED  BY <1>3, <2>1, <2>2, <2>3, <2>4, <2>5, <2>6, <2>7, <2>8, <2>9, <2>10,
              <2>11, <2>12 DEF Step
<1> QED  BY <1>1, <1>2, <1>3 DEF Next

\* The invariant holds in every reachable state.
THEOREM Invariance == Spec => []IInv
  BY InitInv, NextInv, PTL DEF Spec

\* Two concurrent calls never share an instance or a slot, a returning instance
\* overwrites no other, and a runtime is never built while it is cached.
THEOREM InstanceSafety ==
    Spec => [](GuardsMatch /\ InstancesExclusive /\ SlotVacant /\ BuiltOnce)
<1>1. IInv => GuardsMatch /\ InstancesExclusive /\ SlotVacant /\ BuiltOnce
  BY DEF IInv
<1> QED  BY <1>1, Invariance, PTL

\* A closure runs on an instance of the runtime that its caller asked for, and
\* runtimes are cached and used under the id they were built for.
THEOREM RuntimeSafety == Spec => [](RightRuntime /\ RuntimesTrue)
<1>1. IInv => RightRuntime /\ RuntimesTrue
  BY DEF IInv
<1> QED  BY <1>1, Invariance, PTL

-----------------------------------------------------------------------------
(* The cache implements the abstract service.                              *)

\* A call ends as the abstract service ends it.
LEMMA ReturnEnds ==
    ASSUME IInv, NEW t \in Threads, NEW kept \in {inst[t], None},
           NEW x \in {"ok", "err"}, Return(t, kept, x),
           pc[t] \in {"obtain", "run"}, x = "err" => kept = None
    PROVE  Service!End(t, x)
<1> DEFINE p == IF at[t] \in Slots THEN [pool EXCEPT ![rt[t]][at[t]] = kept] ELSE pool
<1>a. /\ rt[t] \in Runtimes /\ id[t] # None /\ kept \in Insts \cup {None}
      /\ at[t] \in Slots \cup {0}
  BY SMT, CacheAssumption DEF IInv, TypeOK, ThreadState
<1>b. /\ p \in [Runtimes -> [Slots -> Insts \cup {None}]]
      /\ \A r \in Runtimes, k \in Slots : p[r][k] \in {kept, pool[r][k]}
  BY <1>a DEF IInv, TypeOK
<1>c. /\ rt' \in [Threads -> Runtimes \cup {None}]
      /\ inst' \in [Threads -> Insts \cup {None}]
      /\ inst' = [inst EXCEPT ![t] = None]
      /\ id' = [id EXCEPT ![t] = None]
      /\ res' = [res EXCEPT ![t] = x]
      /\ pool' = Swept(p, cached, rt')
      /\ madeFor' = Survivors(pool', inst')
  BY DEF IInv, TypeOK, Return
<1> HIDE DEF p
<1>d. /\ pool' \in [Runtimes -> [Slots -> Insts \cup {None}]]
      /\ \A r \in Runtimes, k \in Slots : pool'[r][k] \in {p[r][k], None}
  <2>1. cached \in [Ids -> Runtimes \cup {None}]  BY DEF IInv, TypeOK
  <2> QED  BY <1>b, <1>c, <2>1, SweptFacts
<1>e. TypeOK /\ inst \in [Threads -> Insts \cup {None}]  BY DEF IInv, TypeOK
<1>f. /\ \A u \in Threads : inst'[u] # None => madeFor'[inst'[u]] = madeFor[inst'[u]]
      /\ \A i \in Insts :
            /\ madeFor'[i] \in {madeFor[i], None}
            /\ (/\ \A r \in Runtimes, k \in Slots : pool'[r][k] # i
                /\ \A u \in Threads : inst'[u] # i) => madeFor'[i] = None
  <2> DEFINE q == pool'
             s == inst'
  <2>1. /\ q \in [Runtimes -> [Slots -> Insts \cup {None}]]
        /\ s \in [Threads -> Insts \cup {None}]
        /\ madeFor' = Survivors(q, s)
    BY <1>c, <1>d
  <2> HIDE DEF q, s
  <2>2. /\ \A u \in Threads : s[u] # None => Survivors(q, s)[s[u]] = madeFor[s[u]]
        /\ \A i \in Insts :
              /\ Survivors(q, s)[i] \in {madeFor[i], None}
              /\ (/\ \A r \in Runtimes, k \in Slots : q[r][k] # i
                  /\ \A u \in Threads : s[u] # i) => Survivors(q, s)[i] = None
    BY ZenonT(30), <1>e, <2>1, SurvivorsFacts
  <2> QED  BY <2>1, <2>2 DEF q, s
<1>1. ASSUME x = "err", inst[t] # None  PROVE madeFor'[inst[t]] = None
  <2>1. inst[t] \in Insts  BY <1>1, <1>e
  <2>2. \A r \in Runtimes, k \in Slots : pool'[r][k] # inst[t]
    <3>1. kept = None  BY <1>1
    <3>2. \A r \in Runtimes, k \in Slots : pool[r][k] # inst[t]
      BY <1>1 DEF IInv, InstancesExclusive
    <3> QED  BY ZenonT(30), <1>1, <1>b, <1>d, <3>1, <3>2
  <2>3. \A u \in Threads : inst'[u] # inst[t]
    BY <1>1, <1>c, <1>e DEF IInv, InstancesExclusive
  <2> QED  BY <2>1, <2>2, <2>3, <1>f
<1>2. ASSUME NEW i \in Insts
      PROVE  \/ madeFor'[i] = madeFor[i]
             \/ madeFor'[i] = None /\ \A u \in Threads \ {t} : inst[u] # i
  <2>1. madeFor'[i] \in {madeFor[i], None}
    BY <1>f
  <2>2. \A u \in Threads : inst'[u] = i => madeFor'[i] = madeFor[i]
    BY <1>f, CacheAssumption
  <2> QED  BY <2>1, <2>2, <1>c, <1>e
<1> QED  BY <1>1, <1>2, <1>a, <1>c DEF Service!End

\* A closure starts as the abstract service starts it.
LEMMA ReuseBegins ==
    ASSUME IInv, NEW t \in Threads, Reuse(t)
    PROVE  \E i \in Insts : Service!Begin(t, i)
<1> DEFINE i == pool[rt[t]][at[t]]
<1>1. /\ rt[t] \in Runtimes /\ at[t] \in Slots /\ i # None /\ i \in Insts
      /\ id[t] # None /\ inst[t] = None
  BY SMT, CacheAssumption DEF IInv, Reuse, TypeOK, ThreadState
<1>2. madeFor[i] = id[t]
  BY <1>1, CacheAssumption DEF IInv, RightRuntime, RuntimesTrue
<1>3. \A u \in Threads : inst[u] # i
  BY <1>1 DEF IInv, InstancesExclusive
<1>4. /\ inst' = [inst EXCEPT ![t] = i]
      /\ UNCHANGED <<id, res, madeFor>>
  BY DEF Reuse
<1> HIDE DEF i
<1>5. madeFor' = [madeFor EXCEPT ![i] = id[t]]
  BY <1>1, <1>2, <1>4 DEF IInv, TypeOK
<1>6. Service!Begin(t, i)
  BY <1>1, <1>2, <1>3, <1>4, <1>5 DEF Service!Begin, Service!InUse
<1> QED  BY <1>1, <1>6

\* The same for a new instance.
LEMMA NewInstanceBegins ==
    ASSUME IInv, NEW t \in Threads, NEW i \in Insts, NewInstance(t, i)
    PROVE  Service!Begin(t, i)
<1>1. id[t] # None /\ inst[t] = None /\ builtFor[rt[t]] = id[t] /\ madeFor[i] = None
  BY DEF IInv, NewInstance, ThreadState, RuntimesTrue
<1>2. \A u \in Threads : inst[u] # i
  BY <1>1, FreshUnused
<1> QED  BY <1>1, <1>2 DEF NewInstance, Service!Begin, Service!InUse

\* Building a runtime may drop idle instances of the one it evicts.
LEMMA CreateForgets ==
    ASSUME IInv, NEW t \in Threads, NEW r \in Runtimes, CreateOk(t, r), IInv'
    PROVE  Service!Forget
<1>1. TypeOK /\ inst \in [Threads -> Insts \cup {None}]  BY DEF IInv, TypeOK
<1>2. /\ madeFor' = Survivors(pool', inst)
      /\ UNCHANGED <<inst, id, res>>
  BY DEF CreateOk
<1>3. pool' \in [Runtimes -> [Slots -> Insts \cup {None}]]
  BY DEF IInv, TypeOK
<1>4. ASSUME NEW i \in Insts
      PROVE  madeFor'[i] = madeFor[i]
               \/ (madeFor'[i] = None /\ \A u \in Threads : inst[u] # i)
  <2>1. madeFor'[i] \in {madeFor[i], None}
    BY <1>1, <1>2, <1>3, SurvivorsFacts
  <2>2. \A u \in Threads : inst[u] = i => madeFor'[i] = madeFor[i]
    BY SMT, <1>1, <1>2, <1>3, CacheAssumption, SurvivorsFacts
  <2> QED  BY <2>1, <2>2
<1> QED  BY <1>2, <1>4 DEF Service!Forget, Service!InUse

\* RuntimeCache::with_instance implements InstanceService: exclusive use of an
\* instance of the runtime asked for, and no instance survives a failed
\* closure, for any numbers of threads, cache entries and slots.
THEOREM Refinement == Spec => ImplementsService
<1>1. Init => Service!Init
  BY DEF Init, Service!Init
<1>2. ASSUME IInv, IInv', [Next]_vars
      PROVE  [Service!Next]_(Service!vars)
  <2>1. CASE UNCHANGED vars
    BY <2>1 DEF vars, Service!vars
  <2>2. ASSUME NEW t \in Threads, NEW i \in Ids, Request(t, i)
        PROVE  Service!Next
    <3>1. Service!Ask(t, i)
      BY <1>2, <2>2 DEF IInv, ThreadState, Request, Service!Ask
    <3> QED  BY <3>1 DEF Service!Next
  <2>3. ASSUME NEW t \in Threads, Step(t)
        PROVE  [Service!Next]_(Service!vars)
    <3>1. CASE Hit(t) \/ Miss(t) \/ TryBusy(t) \/ TryFree(t) \/ TryNone(t)
      BY <3>1 DEF Hit, Miss, TryBusy, TryFree, TryNone, Service!vars
    <3>2. CASE \E r \in Runtimes : CreateOk(t, r)
      BY <1>2, <3>2, CreateForgets DEF Service!Next
    <3>3. CASE CreateErr(t)
      <4>1. Service!End(t, "err")
        BY SMT, <1>2, <3>3, CacheAssumption
           DEF IInv, TypeOK, ThreadState, CreateErr, Service!End
      <4> QED  BY <4>1 DEF Service!Next, Service!Result
    <3>4. CASE Reuse(t)
      BY <1>2, <3>4, ReuseBegins DEF Service!Next
    <3>5. CASE \E i \in Insts : NewInstance(t, i)
      BY <1>2, <3>5, NewInstanceBegins DEF Service!Next
    <3>6. CASE NewInstanceErr(t) \/ FinishErr(t)
      <4>1. Service!End(t, "err")
        BY <1>2, <3>6, ReturnEnds DEF NewInstanceErr, FinishErr
      <4> QED  BY <4>1 DEF Service!Next, Service!Result
    <3>7. CASE FinishOk(t)
      <4>1. Service!End(t, "ok")
        BY <1>2, <3>7, ReturnEnds DEF FinishOk
      <4> QED  BY <4>1 DEF Service!Next, Service!Result
    <3> QED  BY <2>3, <3>1, <3>2, <3>3, <3>4, <3>5, <3>6, <3>7 DEF Step
  <2> QED  BY <1>2, <2>1, <2>2, <2>3 DEF Next
<1> QED  BY <1>1, <1>2, Invariance, PTL DEF Spec, ImplementsService, Service!Spec

-----------------------------------------------------------------------------
(* The tasks of a call: a join returns the output of the task its handle   *)
(* was given out for, and only of a task that ended well.                  *)

\* What a caller's map and its blocked join hold is what spawn_call put there.
MapInv ==
  \A c \in Callers :
    /\ \A h \in Handles : tasks[c][h] # NoTask => spawned[c][h] = tasks[c][h]
    /\ \A h \in Handles : h >= counter[c] => spawned[c][h] = NoTask
    /\ doing[c] = "joining" =>
         waits[c] \in Receipts /\ spawned[c][waits[c].handle] = waits[c].task

\* Only a caller that has ended has an outcome, and only a task that ended well
\* has sent an output.
OutcomeInv ==
  /\ \A c \in Callers : outcome[c] # "none" => doing[c] = "ended"
  /\ \A t \in Tasks : channel[t] = "sent" => outcome[t] = "ok"

\* What joins returned came from the right tasks, which ended well.
JoinedInv ==
  \A c \in Callers : \A r \in joined[c] :
    spawned[c][r.handle] = r.task /\ outcome[r.task] = "ok"

SpawnIInv == SpawnTypeOK /\ MapInv /\ OutcomeInv /\ JoinedInv

\* The inductive invariant holds when the node starts.
LEMMA SpawnInitInv == SpawnInit => SpawnIInv
<1> SUFFICES ASSUME SpawnInit PROVE SpawnIInv
  OBVIOUS
<1>0. NoTasks \in [Handles -> Tasks \cup {NoTask}]
  BY DEF NoTasks
<1>1. 0 \in 0 .. MaxHandles
  BY SMT, SpawnAssumption
<1>2. SpawnTypeOK
  BY <1>0, <1>1 DEF SpawnInit, SpawnTypeOK, Callers
<1>3. MapInv
  BY DEF SpawnInit, MapInv, NoTasks
<1>4. OutcomeInv
  BY DEF SpawnInit, OutcomeInv, Callers
<1>5. JoinedInv
  BY DEF SpawnInit, JoinedInv
<1> QED
  BY <1>2, <1>3, <1>4, <1>5 DEF SpawnIInv

\* A caller that starts with a RuntimeInstanceSpawn of its own knows no task.
LEMMA NewSpawnInv ==
  ASSUME SpawnIInv, NEW c \in Callers, NewSpawn(c),
         doing' = [doing EXCEPT ![c] = "running"],
         doing[c] \in {"ended", "queued"},
         c \in Tasks => outcome[c] = "none",
         outcome' = [outcome EXCEPT ![c] = "none"],
         UNCHANGED <<channel, waits>>
  PROVE  SpawnIInv'
<1> USE DEF SpawnIInv
<1>0. NoTasks \in [Handles -> Tasks \cup {NoTask}] /\ 0 \in 0 .. MaxHandles
  BY SMT, SpawnAssumption DEF NoTasks
<1>1. SpawnTypeOK'
  BY <1>0 DEF SpawnTypeOK, NewSpawn
<1>2. MapInv'
  BY ZenonT(30) DEF SpawnTypeOK, MapInv, NewSpawn, NoTasks
<1>3. OutcomeInv'
  BY SpawnAssumption DEF SpawnTypeOK, OutcomeInv, Callers
<1>4. ASSUME NEW d \in Callers, NEW r \in joined'[d]
      PROVE  spawned'[d][r.handle] = r.task /\ outcome'[r.task] = "ok"
  <2>1. d # c /\ r \in joined[d]
    BY <1>4 DEF NewSpawn, SpawnTypeOK
  <2>2. r \in Receipts /\ r.task \in Tasks
    BY SMT, <2>1 DEF SpawnTypeOK, Receipts
  <2>3. spawned[d][r.handle] = r.task /\ outcome[r.task] = "ok"
    BY <2>1 DEF JoinedInv
  <2>4. r.task # c
    BY <2>2, <2>3
  <2> QED
    BY <2>1, <2>2, <2>3, <2>4 DEF NewSpawn, SpawnTypeOK, Callers
<1> QED
  BY <1>1, <1>2, <1>3, <1>4 DEF JoinedInv

\* spawn_call gives out a handle nobody holds, for a task nobody knows.
LEMMA SpawnInv ==
  ASSUME SpawnIInv, NEW c \in Callers, NEW t \in Tasks, spawn_call(c, t)
  PROVE  SpawnIInv'
<1> USE DEF SpawnIInv
<1>0. /\ counter[c] \in Handles /\ counter[c] + 1 \in 0 .. MaxHandles
      /\ doing[t] = "ended" /\ doing[c] = "running" /\ c # t /\ t \in Callers /\ t # NoTask
      /\ spawned[c][counter[c]] = NoTask
  BY SMT, SpawnAssumption DEF spawn_call, MaySpawn, Fresh, SpawnTypeOK, Handles, Callers, MapInv
<1>1. SpawnTypeOK'
  BY <1>0 DEF SpawnTypeOK, spawn_call, Callers
<1>2. MapInv'
  <2> SUFFICES ASSUME NEW d \in Callers
               PROVE  /\ \A h \in Handles : tasks'[d][h] # NoTask => spawned'[d][h] = tasks'[d][h]
                      /\ \A h \in Handles : h >= counter'[d] => spawned'[d][h] = NoTask
                      /\ doing'[d] = "joining" =>
                           waits'[d] \in Receipts /\ spawned'[d][waits'[d].handle] = waits'[d].task
    BY DEF MapInv
  <2>1. \A h \in Handles : tasks'[d][h] # NoTask => spawned'[d][h] = tasks'[d][h]
    BY <1>0 DEF MapInv, SpawnTypeOK, spawn_call
  <2>2. \A h \in Handles : h >= counter'[d] => spawned'[d][h] = NoTask
    BY SMT, <1>0 DEF MapInv, SpawnTypeOK, spawn_call, Handles
  <2>3. doing'[d] = "joining" => d # c /\ doing[d] = "joining"
    BY <1>0 DEF SpawnTypeOK, spawn_call
  <2>4. d # c => spawned'[d] = spawned[d] /\ waits' = waits
    BY DEF SpawnTypeOK, spawn_call
  <2> QED
    BY <2>1, <2>2, <2>3, <2>4 DEF MapInv
<1>3. OutcomeInv'
  BY <1>0 DEF SpawnTypeOK, OutcomeInv, spawn_call, Callers
<1>4. ASSUME NEW d \in Callers, NEW r \in joined'[d]
      PROVE  spawned'[d][r.handle] = r.task /\ outcome'[r.task] = "ok"
  <2>1. r \in joined[d] /\ r.task \in Tasks /\ r.handle \in Handles
    BY SMT, <1>4 DEF spawn_call, SpawnTypeOK, Receipts
  <2>2. spawned[d][r.handle] = r.task /\ outcome[r.task] = "ok"
    BY <2>1 DEF JoinedInv
  <2>3. r.task # t
    BY <2>1, <2>2 DEF spawn_call, Fresh
  <2>4. outcome'[r.task] = "ok"
    BY <2>1, <2>2, <2>3 DEF spawn_call, SpawnTypeOK, Callers
  <2>5. d = c => r.handle # counter[c]
    BY <1>0, <2>1, <2>2, SpawnAssumption
  <2>6. spawned'[d][r.handle] = spawned[d][r.handle]
    BY <1>0, <2>1, <2>5 DEF spawn_call, SpawnTypeOK
  <2> QED
    BY <2>2, <2>4, <2>6
<1> QED
  BY <1>1, <1>2, <1>3, <1>4 DEF JoinedInv

\* A join that has to wait.
LEMMA JoinInv ==
  ASSUME SpawnIInv, NEW c \in Callers, NEW h \in Handles, join(c, h)
  PROVE  SpawnIInv'
<1> USE DEF SpawnIInv
<1>0. tasks[c][h] \in Tasks /\ spawned[c][h] = tasks[c][h]
  BY SMT DEF join, SpawnTypeOK, MapInv
<1>0a. [handle |-> h, task |-> tasks[c][h]] \in Receipts
  BY <1>0 DEF Receipts
<1>1. SpawnTypeOK'
  BY <1>0, <1>0a DEF SpawnTypeOK, join
<1>2. MapInv'
  <2> SUFFICES ASSUME NEW d \in Callers
               PROVE  /\ \A k \in Handles : tasks'[d][k] # NoTask => spawned'[d][k] = tasks'[d][k]
                      /\ \A k \in Handles : k >= counter'[d] => spawned'[d][k] = NoTask
                      /\ doing'[d] = "joining" =>
                           waits'[d] \in Receipts /\ spawned'[d][waits'[d].handle] = waits'[d].task
    BY DEF MapInv
  <2>1. \A k \in Handles : tasks'[d][k] # NoTask => spawned'[d][k] = tasks'[d][k]
    BY SMT DEF MapInv, SpawnTypeOK, join
  <2>2. \A k \in Handles : k >= counter'[d] => spawned'[d][k] = NoTask
    BY DEF MapInv, join
  <2>3. CASE d = c
    <3>1. waits'[d] = [handle |-> h, task |-> tasks[c][h]]
      BY <2>3 DEF join, SpawnTypeOK
    <3>2. waits'[d] \in Receipts
      BY <3>1, <1>0a
    <3> QED
      BY SMT, <2>1, <2>2, <2>3, <3>1, <3>2, <1>0 DEF join
  <2>4. CASE d # c
    BY <2>1, <2>2, <2>4 DEF join, SpawnTypeOK, MapInv
  <2> QED
    BY <2>3, <2>4
<1>3. OutcomeInv'
  BY DEF SpawnTypeOK, OutcomeInv, join
<1>4. JoinedInv'
  BY DEF JoinedInv, join
<1> QED
  BY <1>1, <1>2, <1>3, <1>4

\* A join that returns.
LEMMA ReceivedInv ==
  ASSUME SpawnIInv, NEW c \in Callers, Received(c)
  PROVE  SpawnIInv'
<1> USE DEF SpawnIInv
<1>0. /\ doing[c] = "joining" /\ waits[c] \in Receipts /\ waits[c].task \in Tasks
      /\ spawned[c][waits[c].handle] = waits[c].task
      /\ outcome[waits[c].task] = "ok"
  BY DEF Received, SpawnTypeOK, MapInv, OutcomeInv, Receipts
<1>1. SpawnTypeOK'
  BY <1>0 DEF SpawnTypeOK, Received
<1>2. MapInv'
  BY DEF MapInv, SpawnTypeOK, Received
<1>3. OutcomeInv'
  BY DEF SpawnTypeOK, OutcomeInv, Received
<1>4. JoinedInv'
  BY SMT, <1>0 DEF JoinedInv, Received, SpawnTypeOK
<1> QED
  BY <1>1, <1>2, <1>3, <1>4

\* A caller's execution that ends: only a running or joining one does, and
\* nobody has joined it yet.
LEMMA EndsInv ==
  ASSUME SpawnIInv, NEW c \in Callers, NEW result \in {"ok", "failed"}, Ends(c, result),
         doing[c] \in {"running", "joining"}
  PROVE  SpawnIInv'
<1> USE DEF SpawnIInv
<1>0. outcome[c] = "none" /\ NoTasks \in [Handles -> Tasks \cup {NoTask}]
  BY DEF OutcomeInv, SpawnTypeOK, NoTasks
<1>1. SpawnTypeOK'
  BY <1>0 DEF SpawnTypeOK, Ends, ChannelAfter, Callers
<1>2. MapInv'
  BY DEF MapInv, SpawnTypeOK, Ends, NoTasks
<1>3. OutcomeInv'
  BY SpawnAssumption DEF SpawnTypeOK, OutcomeInv, Ends, ChannelAfter, Callers
<1>4. ASSUME NEW d \in Callers, NEW r \in joined'[d]
      PROVE  spawned'[d][r.handle] = r.task /\ outcome'[r.task] = "ok"
  <2>1. r \in joined[d] /\ r.task \in Tasks
    BY SMT, <1>4 DEF Ends, SpawnTypeOK, Receipts
  <2>2. spawned[d][r.handle] = r.task /\ outcome[r.task] = "ok"
    BY <2>1 DEF JoinedInv
  <2> QED
    BY <1>0, <2>1, <2>2 DEF Ends, SpawnTypeOK, Callers
<1> QED
  BY <1>1, <1>2, <1>3, <1>4 DEF JoinedInv

\* Every step keeps the inductive invariant.
LEMMA SpawnNextInv == SpawnIInv /\ [SpawnNext]_spawnVars => SpawnIInv'
<1> SUFFICES ASSUME SpawnIInv, [SpawnNext]_spawnVars PROVE SpawnIInv'
  OBVIOUS
<1>1. CASE Call
  BY <1>1, NewSpawnInv, SpawnAssumption DEF Call, Callers
<1>2. ASSUME NEW c \in Callers, NEW t \in Tasks, spawn_call(c, t) PROVE SpawnIInv'
  BY <1>2, SpawnInv
<1>3. ASSUME NEW c \in Callers, NEW h \in Handles, join(c, h) PROVE SpawnIInv'
  BY <1>3, JoinInv
<1>4. ASSUME NEW c \in Callers, Received(c) PROVE SpawnIInv'
  BY <1>4, ReceivedInv
<1>5. ASSUME NEW c \in Callers,
             (\E h \in Handles : JoinUnknown(c, h)) \/ RecvFails(c) \/ Finish(c) \/ Fail(c)
      PROVE  SpawnIInv'
  <2>1. doing[c] \in {"running", "joining"} /\ \E result \in {"ok", "failed"} : Ends(c, result)
    BY <1>5 DEF JoinUnknown, RecvFails, Finish, Fail
  <2> QED
    BY <2>1, EndsInv
<1>6. ASSUME NEW t \in Tasks, StartTask(t) PROVE SpawnIInv'
  <2>1. t \in Callers /\ outcome[t] = "none"
    BY <1>6 DEF StartTask, Callers, SpawnIInv, OutcomeInv, SpawnTypeOK
  <2>2. outcome' = [outcome EXCEPT ![t] = "none"]
    BY <1>6, <2>1 DEF StartTask, SpawnIInv, SpawnTypeOK
  <2> QED
    BY <1>6, <2>1, <2>2, NewSpawnInv DEF StartTask
<1>7. CASE UNCHANGED spawnVars
  BY SMT, <1>7 DEF SpawnIInv, SpawnTypeOK, MapInv, OutcomeInv, JoinedInv, spawnVars
<1> QED
  BY <1>1, <1>2, <1>3, <1>4, <1>5, <1>6, <1>7 DEF SpawnNext

\* The inductive invariant holds in every state of every execution.
THEOREM SpawnInvariance == SpawnSpec => []SpawnIInv
BY SpawnInitInv, SpawnNextInv, PTL DEF SpawnSpec

\* A join returns the output of the task its handle was given out for.
THEOREM JoinSafety == SpawnSpec => []JoinsItsTask
<1>1. SpawnIInv => JoinsItsTask
  BY DEF SpawnIInv, JoinedInv, JoinsItsTask
<1> QED
  BY <1>1, SpawnInvariance, PTL

\* A caller that ends well has joined no task that failed.
THEOREM PanicSafety == SpawnSpec => []PanicsPropagate
<1>1. SpawnIInv => PanicsPropagate
  BY DEF SpawnIInv, JoinedInv, PanicsPropagate
<1> QED
  BY <1>1, SpawnInvariance, PTL

-----------------------------------------------------------------------------
(* The cached runtimes are the last used ones.                             *)

\* No id is twice in a sequence, and where an id is in it, one past its end if
\* it is not.
Distinct(s) == \A m, n \in 1 .. Len(s) : s[m] = s[n] => m = n
In(s, i) == \E n \in 1 .. Len(s) : s[n] = i
PlaceIn(s, i, p) == IF p = Len(s) + 1 THEN ~In(s, i) ELSE s[p] = i

\* Every id has a place.
LEMMA PlaceExists ==
    ASSUME NEW s \in Seq(Ids), NEW i \in Ids
    PROVE  \E p \in 1 .. Len(s) + 1 : PlaceIn(s, i, p)
  BY SMT DEF PlaceIn, In

\* Moving an id to the front shifts what was before it and nothing else.
LEMMA PromotedIs ==
    ASSUME NEW s \in Seq(Ids), NEW i \in Ids, Distinct(s),
           NEW p \in 1 .. Len(s) + 1, PlaceIn(s, i, p)
    PROVE  /\ Promoted(s, i) \in Seq(Ids)
           /\ Len(Promoted(s, i)) = IF p > Len(s) THEN p ELSE Len(s)
           /\ \A n \in 1 .. Len(Promoted(s, i)) :
                 Promoted(s, i)[n] = IF n = 1 THEN i ELSE IF n <= p THEN s[n - 1] ELSE s[n]
<1>1. CASE p = Len(s) + 1
  <2>1. Promoted(s, i) = <<i>> \o s
    BY SMT, <1>1 DEF Promoted, PlaceIn, In
  <2> QED  BY SMT, <1>1, <2>1
<1>2. CASE p # Len(s) + 1
  <2>1. p \in 1 .. Len(s) /\ s[p] = i
    BY SMT, <1>2 DEF PlaceIn
  <2>2. (CHOOSE m \in DOMAIN s : s[m] = i) = p
    <3>1. DOMAIN s = 1 .. Len(s)  BY SMT
    <3> QED  BY <2>1, <3>1 DEF Distinct
  <2>3. Promoted(s, i) = <<i>> \o (SubSeq(s, 1, p - 1) \o SubSeq(s, p + 1, Len(s)))
    <3>1. \E m \in DOMAIN s : s[m] = i  BY SMT, <2>1
    <3> QED  BY <2>2, <3>1 DEF Promoted
  <2> DEFINE a == SubSeq(s, 1, p - 1)
             b == SubSeq(s, p + 1, Len(s))
  <2>4. /\ a \in Seq(Ids) /\ Len(a) = p - 1 /\ \A n \in 1 .. p - 1 : a[n] = s[n]
        /\ b \in Seq(Ids) /\ Len(b) = Len(s) - p
        /\ \A n \in 1 .. Len(s) - p : b[n] = s[n + p]
    BY SMT, <2>1
  <2> HIDE DEF a, b
  <2>5. /\ a \o b \in Seq(Ids) /\ Len(a \o b) = Len(s) - 1
        /\ \A n \in 1 .. Len(s) - 1 : (a \o b)[n] = IF n < p THEN s[n] ELSE s[n + 1]
    <3>1. a \o b \in Seq(Ids) /\ Len(a \o b) = Len(s) - 1
      BY SMT, <2>1, <2>4
    <3>2. ASSUME NEW n \in 1 .. Len(s) - 1
          PROVE  (a \o b)[n] = IF n < p THEN s[n] ELSE s[n + 1]
      <4>1. (a \o b)[n] = IF n <= Len(a) THEN a[n] ELSE b[n - Len(a)]
        BY SMT, <2>1, <2>4
      <4>2. CASE n < p  BY SMT, <2>1, <2>4, <4>1, <4>2
      <4>3. CASE n >= p
        <5>1. n - Len(a) \in 1 .. Len(s) - p /\ (n - Len(a)) + p = n + 1 /\ ~(n <= Len(a))
          BY SMT, <2>1, <2>4, <4>3
        <5>2. b[n - Len(a)] = s[(n - Len(a)) + p]  BY <5>1, <2>4
        <5> QED  BY SMT, <4>1, <4>3, <5>1, <5>2
      <4>4. n < p \/ n >= p  BY SMT, <2>1
      <4> QED  BY <4>2, <4>3, <4>4
    <3> QED  BY <3>1, <3>2
  <2>6. Promoted(s, i) = <<i>> \o (a \o b)  BY <2>3 DEF a, b
  <2> DEFINE c == a \o b
  <2> HIDE DEF c
  <2>7. /\ Promoted(s, i) \in Seq(Ids) /\ Len(Promoted(s, i)) = Len(s)
        /\ \A n \in 1 .. Len(s) : Promoted(s, i)[n] = IF n = 1 THEN i ELSE c[n - 1]
    <3>1. /\ Promoted(s, i) = <<i>> \o c /\ c \in Seq(Ids) /\ Len(c) = Len(s) - 1
          /\ Len(s) \in Nat
      BY SMT, <2>5, <2>6 DEF c
    <3> QED  BY SMT, <3>1
  <2>8. \A n \in 1 .. Len(s) - 1 : c[n] = IF n < p THEN s[n] ELSE s[n + 1]
    BY <2>5 DEF c
  <2>9. ASSUME NEW n \in 1 .. Len(s), n # 1
        PROVE  c[n - 1] = IF n <= p THEN s[n - 1] ELSE s[n]
    <3>1. n - 1 \in 1 .. Len(s) - 1 /\ (n - 1) + 1 = n /\ (n - 1 < p <=> n <= p)
      BY SMT, <2>1, <2>9
    <3>2. c[n - 1] = IF n - 1 < p THEN s[n - 1] ELSE s[(n - 1) + 1]  BY <2>8, <3>1
    <3> QED  BY <3>1, <3>2
  <2>10. ~(p > Len(s))  BY SMT, <2>1
  <2> QED  BY <2>7, <2>9, <2>10
<1> QED  BY <1>1, <1>2

\* The cache lists a prefix of the ids by their last request.
Leads(o, r) ==
    /\ o \in Seq(Ids) /\ r \in Seq(Ids) /\ Distinct(r)
    /\ Len(o) = IF Len(r) < CacheSize THEN Len(r) ELSE CacheSize
    /\ \A n \in 1 .. Len(o) : o[n] = r[n]

\* No id is listed twice.
LEMMA LeadsDistinct ==
    ASSUME NEW o, NEW r, Leads(o, r)
    PROVE  Distinct(o) /\ o \in Seq(Ids) /\ r \in Seq(Ids) /\ Distinct(r) /\ Len(o) <= Len(r)
           /\ Len(o) \in Nat /\ Len(r) \in Nat
<1>1. o \in Seq(Ids) /\ r \in Seq(Ids) /\ Len(o) <= Len(r) /\ Len(o) \in Nat /\ Len(r) \in Nat
  BY SMT, CacheAssumption DEF Leads
<1>2. 1 .. Len(o) \subseteq 1 .. Len(r)  BY SMT, <1>1
<1> QED  BY <1>1, <1>2 DEF Leads, Distinct

\* Promotion keeps the ids of a sequence distinct.
LEMMA PromotedDistinct ==
    ASSUME NEW s \in Seq(Ids), NEW i \in Ids, Distinct(s)
    PROVE  Distinct(Promoted(s, i)) /\ Promoted(s, i) \in Seq(Ids)
<1>1. PICK p \in 1 .. Len(s) + 1 : PlaceIn(s, i, p)  BY PlaceExists
<1> DEFINE q == Promoted(s, i)
<1>2. /\ q \in Seq(Ids)
      /\ Len(q) = IF p > Len(s) THEN p ELSE Len(s)
      /\ \A n \in 1 .. Len(q) :
            q[n] = IF n = 1 THEN i ELSE IF n <= p THEN s[n - 1] ELSE s[n]
  BY ZenonT(30), <1>1, PromotedIs
<1> HIDE DEF q
<1>3. \A n \in 1 .. Len(s) : n # p => s[n] # i
  BY SMT, <1>1 DEF PlaceIn, In, Distinct
<1> DEFINE back(n) == IF n = 1 THEN p ELSE IF n <= p THEN n - 1 ELSE n
<1>4. ASSUME NEW m \in 1 .. Len(q), NEW n \in 1 .. Len(q), q[m] = q[n]
      PROVE  m = n
  <2>1. CASE m = 1 \/ n = 1
    <3>1. ASSUME NEW k \in 1 .. Len(q), k # 1  PROVE q[k] # i
      <4>1. /\ q[k] = s[back(k)] /\ back(k) \in 1 .. Len(s) /\ back(k) # p
        BY SMT, <1>2, <3>1
      <4> QED  BY <4>1, <1>3
    <3>2. \A k \in 1 .. Len(q) : k = 1 => q[k] = i  BY <1>2
    <3> QED  BY <2>1, <1>4, <3>1, <3>2
  <2>2. CASE m # 1 /\ n # 1
    <3>1. /\ q[m] = s[back(m)] /\ q[n] = s[back(n)]
          /\ back(m) \in 1 .. Len(s) /\ back(n) \in 1 .. Len(s)
      BY SMT, <1>2, <2>2
    <3>2. back(m) = back(n)  BY <3>1, <1>4 DEF Distinct
    <3> QED  BY SMT, <3>2, <2>2
  <2> QED  BY <2>1, <2>2
<1> QED  BY <1>2, <1>4 DEF q, Distinct

\* Using an id that is cached moves it to the front of both.
LEMMA HitLeads ==
    ASSUME NEW o, NEW r, Leads(o, r), NEW i \in Ids, In(o, i)
    PROVE  /\ Leads(Promoted(o, i), Promoted(r, i))
           /\ \A j : In(Promoted(o, i), j) <=> In(o, j)
<1>1. PICK p \in 1 .. Len(o) : o[p] = i  BY DEF In
<1> DEFINE a == Promoted(o, i)
           b == Promoted(r, i)
<1>2. /\ Distinct(o) /\ o \in Seq(Ids) /\ r \in Seq(Ids) /\ Distinct(r)
      /\ Len(o) \in Nat /\ Len(r) \in Nat /\ Len(o) <= Len(r)
  BY LeadsDistinct
<1>3. /\ p \in 1 .. Len(o) + 1 /\ p \in 1 .. Len(r) + 1 /\ p \in 1 .. Len(r)
      /\ p # Len(o) + 1 /\ p # Len(r) + 1 /\ ~(p > Len(o)) /\ ~(p > Len(r))
  BY SMT, <1>1, <1>2
<1>4. PlaceIn(o, i, p) /\ PlaceIn(r, i, p)
  BY <1>1, <1>3 DEF PlaceIn, Leads
<1>5. /\ a \in Seq(Ids) /\ Len(a) = Len(o)
      /\ \A n \in 1 .. Len(a) : a[n] = IF n = 1 THEN i ELSE IF n <= p THEN o[n - 1] ELSE o[n]
  BY <1>2, <1>3, <1>4, PromotedIs
<1>6. /\ b \in Seq(Ids) /\ Len(b) = Len(r)
      /\ \A n \in 1 .. Len(b) : b[n] = IF n = 1 THEN i ELSE IF n <= p THEN r[n - 1] ELSE r[n]
  BY <1>2, <1>3, <1>4, PromotedIs
<1>7. Distinct(b)  BY <1>2, PromotedDistinct
<1> HIDE DEF a, b
<1>8. ASSUME NEW n \in 1 .. Len(a)  PROVE a[n] = b[n]
  <2>1. n \in 1 .. Len(b) /\ n \in 1 .. Len(o) /\ (n # 1 => n - 1 \in 1 .. Len(o))
    BY SMT, <1>2, <1>5, <1>6
  <2>2. o[n] = r[n] /\ (n # 1 => o[n - 1] = r[n - 1])
    BY <2>1 DEF Leads
  <2> QED  BY <2>1, <2>2, <1>5, <1>6
<1>9. Leads(a, b)
  <2>1. Len(o) = IF Len(r) < CacheSize THEN Len(r) ELSE CacheSize  BY DEF Leads
  <2> QED  BY <1>5, <1>6, <1>7, <1>8, <2>1 DEF Leads
<1>10. ASSUME NEW j, In(a, j)  PROVE In(o, j)
  <2>1. PICK n \in 1 .. Len(a) : a[n] = j  BY <1>10 DEF In
  <2>2. n \in 1 .. Len(o) /\ (n # 1 => n - 1 \in 1 .. Len(o))  BY SMT, <1>2, <1>5
  <2> QED  BY <2>1, <2>2, <1>1, <1>5 DEF In
<1>11. ASSUME NEW j, In(o, j)  PROVE In(a, j)
  <2>1. PICK n \in 1 .. Len(o) : o[n] = j  BY <1>11 DEF In
  <2> DEFINE k == IF n = p THEN 1 ELSE IF n < p THEN n + 1 ELSE n
  <2>2. k \in 1 .. Len(a) /\ a[k] = j
    <3>1. CASE n = p
      <4>1. 1 \in 1 .. Len(a)  BY SMT, <1>1, <1>2, <1>5
      <4> QED  BY <3>1, <4>1, <1>1, <1>5, <2>1
    <3>2. CASE n < p
      <4>1. n + 1 \in 1 .. Len(a) /\ n + 1 # 1 /\ n + 1 <= p /\ (n + 1) - 1 = n /\ n # p
        BY SMT, <3>2, <1>1, <1>2, <1>5
      <4> QED  BY <3>2, <4>1, <1>5, <2>1
    <3>3. CASE n > p
      <4>1. n \in 1 .. Len(a) /\ n # 1 /\ ~(n <= p) /\ n # p /\ ~(n < p)
        BY SMT, <3>3, <1>1, <1>2, <1>5
      <4> QED  BY <3>3, <4>1, <1>5, <2>1
    <3>4. n = p \/ n < p \/ n > p  BY SMT, <1>2
    <3> QED  BY <3>1, <3>2, <3>3, <3>4
  <2> QED  BY <2>2 DEF In
<1> QED  BY <1>9, <1>10, <1>11 DEF a, b

\* The length to which a cache is cut before an id enters it.
Stays(o, k) == k = IF Len(o) >= CacheSize THEN Len(o) - 1 ELSE Len(o)

\* An id that enters the cache goes to the front of both, and the last one
\* leaves a full cache.
LEMMA EnterLeads ==
    ASSUME NEW o, NEW r, Leads(o, r), NEW i \in Ids, ~In(o, i),
           NEW k, Stays(o, k)
    PROVE  /\ Leads(Promoted(SubSeq(o, 1, k), i), Promoted(r, i))
           /\ \A j : In(Promoted(SubSeq(o, 1, k), i), j)
                      <=> j = i \/ (In(o, j) /\ j \notin {o[n] : n \in k + 1 .. Len(o)})
<1> DEFINE s == SubSeq(o, 1, k)
           a == Promoted(s, i)
           b == Promoted(r, i)
<1>1. /\ Distinct(o) /\ o \in Seq(Ids) /\ r \in Seq(Ids) /\ Distinct(r)
      /\ Len(o) \in Nat /\ Len(r) \in Nat /\ Len(o) <= Len(r)
  BY LeadsDistinct
<1>2. Len(o) = IF Len(r) < CacheSize THEN Len(r) ELSE CacheSize  BY DEF Leads
<1>a. k = IF Len(o) >= CacheSize THEN Len(o) - 1 ELSE Len(o)  BY DEF Stays
<1>3. k \in Nat /\ k <= Len(o)  BY SMT, <1>1, <1>2, <1>a, CacheAssumption
<1>4. s \in Seq(Ids) /\ Len(s) = k /\ \A n \in 1 .. k : s[n] = o[n]
  BY SMT, <1>1, <1>3
<1> HIDE DEF s
<1>5. 1 .. k \subseteq 1 .. Len(o)  BY SMT, <1>1, <1>3
<1>6. Distinct(s) /\ ~In(s, i)  BY <1>1, <1>4, <1>5 DEF Distinct, In
<1>7. k + 1 \in 1 .. Len(s) + 1 /\ PlaceIn(s, i, k + 1) /\ k + 1 > Len(s)
  <2>1. k + 1 \in 1 .. k + 1 /\ k + 1 > k  BY SMT, <1>3
  <2> QED  BY <2>1, <1>4, <1>6 DEF PlaceIn
<1>8. /\ a \in Seq(Ids) /\ Len(a) = k + 1
      /\ \A n \in 1 .. k + 1 : a[n] = IF n = 1 THEN i ELSE IF n <= k + 1 THEN s[n - 1] ELSE s[n]
  <2>1. /\ a \in Seq(Ids) /\ Len(a) = IF k + 1 > Len(s) THEN k + 1 ELSE Len(s)
        /\ \A n \in 1 .. Len(a) : a[n] = IF n = 1 THEN i ELSE IF n <= k + 1 THEN s[n - 1] ELSE s[n]
    <3> DEFINE p == k + 1
    <3>1. p \in 1 .. Len(s) + 1 /\ PlaceIn(s, i, p)  BY <1>7
    <3> HIDE DEF p
    <3>2. /\ a \in Seq(Ids) /\ Len(a) = IF p > Len(s) THEN p ELSE Len(s)
          /\ \A n \in 1 .. Len(a) : a[n] = IF n = 1 THEN i ELSE IF n <= p THEN s[n - 1] ELSE s[n]
      BY <1>4, <1>6, <3>1, PromotedIs
    <3> QED  BY <3>2 DEF p
  <2>2. Len(a) = k + 1  BY <2>1, <1>7
  <2> QED  BY <2>1, <2>2
<1>9. PICK p \in 1 .. Len(r) + 1 : PlaceIn(r, i, p)  BY <1>1, PlaceExists
<1>10. /\ b \in Seq(Ids) /\ Len(b) = IF p > Len(r) THEN p ELSE Len(r)
       /\ \A n \in 1 .. Len(b) : b[n] = IF n = 1 THEN i ELSE IF n <= p THEN r[n - 1] ELSE r[n]
  BY <1>1, <1>9, PromotedIs
<1>11. Distinct(b)  BY <1>1, PromotedDistinct
<1> HIDE DEF a, b
\* The id was not among those listed.
<1>12. p > Len(o)
  <2> SUFFICES ASSUME p <= Len(o)  PROVE FALSE  BY SMT, <1>1
  <2>1. p \in 1 .. Len(o) /\ p # Len(r) + 1  BY SMT, <1>1
  <2> QED  BY <2>1, <1>9 DEF PlaceIn, In, Leads
<1>13. Len(a) = IF Len(b) < CacheSize THEN Len(b) ELSE CacheSize
  <2>1. CASE Len(r) < CacheSize
    BY SMT, <2>1, <1>1, <1>2, <1>a, <1>8, <1>10, <1>12, CacheAssumption
  <2>2. CASE ~(Len(r) < CacheSize)
    BY SMT, <2>2, <1>1, <1>2, <1>a, <1>8, <1>10, <1>12, CacheAssumption
  <2> QED  BY <2>1, <2>2
<1>14. ASSUME NEW n \in 1 .. Len(a)  PROVE a[n] = b[n]
  <2>1. /\ n \in 1 .. k + 1 /\ n \in 1 .. Len(b) /\ n <= k + 1 /\ n <= p
        /\ n # 1 => n - 1 \in 1 .. k /\ n - 1 \in 1 .. Len(o)
    BY SMT, <1>1, <1>3, <1>8, <1>10, <1>12
  <2>2. n # 1 => s[n - 1] = r[n - 1]  BY <2>1, <1>4 DEF Leads
  <2> QED  BY <2>1, <2>2, <1>8, <1>10
<1>15. Leads(a, b)  BY <1>8, <1>10, <1>11, <1>13, <1>14 DEF Leads
<1>16. \A n \in 1 .. Len(o) : n \in 1 .. k \/ n \in k + 1 .. Len(o)  BY SMT, <1>1, <1>3
<1>17. \A n \in 1 .. k, m \in k + 1 .. Len(o) : n # m /\ m \in 1 .. Len(o)  BY SMT, <1>1, <1>3
<1>18. ASSUME NEW j, In(a, j)
       PROVE  j = i \/ (In(o, j) /\ j \notin {o[n] : n \in k + 1 .. Len(o)})
  <2>1. PICK n \in 1 .. k + 1 : a[n] = j  BY <1>8, <1>18 DEF In
  <2>2. n # 1 => n - 1 \in 1 .. k /\ n <= k + 1  BY SMT, <1>3
  <2>3. n # 1 => n - 1 \in 1 .. Len(o) /\ o[n - 1] = j
    BY <2>1, <2>2, <1>4, <1>5, <1>8
  <2>4. n = 1 => j = i  BY <2>1, <1>8
  <2> QED  BY <2>2, <2>3, <2>4, <1>1, <1>17 DEF In, Distinct
<1>19. ASSUME NEW j, j = i \/ (In(o, j) /\ j \notin {o[n] : n \in k + 1 .. Len(o)})
       PROVE  In(a, j)
  <2>1. CASE j = i
    <3>1. 1 \in 1 .. k + 1  BY SMT, <1>3
    <3> QED  BY <2>1, <3>1, <1>8 DEF In
  <2>2. CASE In(o, j) /\ j \notin {o[n] : n \in k + 1 .. Len(o)}
    <3>1. PICK n \in 1 .. k : o[n] = j  BY <2>2, <1>16 DEF In
    <3>2. n + 1 \in 1 .. k + 1 /\ n + 1 # 1 /\ n + 1 <= k + 1 /\ (n + 1) - 1 = n
      BY SMT, <1>3
    <3>3. a[n + 1] = s[(n + 1) - 1]  BY <3>2, <1>8
    <3> QED  BY <3>1, <3>2, <3>3, <1>4, <1>8 DEF In
  <2> QED  BY <1>19, <2>1, <2>2
<1> QED  BY <1>15, <1>18, <1>19 DEF a, b, s

\* What the cache holds: the front of the ids by their last request.
OrderInv ==
    /\ Leads(order, recent)
    /\ \A i \in Ids : cached[i] # None <=> In(order, i)

\* An empty cache holds the front of an empty list.
LEMMA InitOrder == Init => OrderInv
<1> SUFFICES ASSUME Init  PROVE OrderInv
  OBVIOUS
<1>1. order \in Seq(Ids) /\ Len(order) = 0 /\ 1 .. 0 = {} /\ 0 < CacheSize
  BY SMT, CacheAssumption DEF Init
<1>2. order = <<>> /\ recent = <<>> /\ \A i \in Ids : cached[i] = None  BY DEF Init
<1>3. Distinct(order) /\ \A i : ~In(order, i)  BY <1>1 DEF Distinct, In
<1>4. Leads(order, order)  BY <1>1, <1>3 DEF Leads
<1> QED  BY <1>2, <1>3, <1>4 DEF OrderInv

\* A hit is a use.
LEMMA HitOrder ==
    ASSUME IInv, OrderInv, NEW t \in Threads, Hit(t)
    PROVE  OrderInv'
<1>1. /\ id[t] \in Ids /\ cached' = cached /\ cached[id[t]] # None
      /\ order' = Promoted(order, id[t]) /\ recent' = Promoted(recent, id[t])
  <2>1. id[t] \in Ids
    <3>1. pc[t] # "idle"  BY DEF Hit
    <3>2. id[t] # None  BY <3>1 DEF IInv, ThreadState
    <3> QED  BY <3>2 DEF IInv, TypeOK
  <2> QED  BY <2>1 DEF Hit
<1>2. In(order, id[t])  BY <1>1 DEF OrderInv
<1>3. /\ Leads(order', recent')
      /\ \A j : In(order', j) <=> In(order, j)
  BY <1>1, <1>2, HitLeads DEF OrderInv
<1> QED  BY <1>1, <1>3 DEF OrderInv

\* A runtime that was built enters the cache, where it was not: nobody else
\* built it meanwhile.
LEMMA CreateOkOrder ==
    ASSUME IInv, OrderInv, NEW t \in Threads, NEW r \in Runtimes, CreateOk(t, r)
    PROVE  OrderInv'
<1>1. /\ id[t] \in Ids /\ cached[id[t]] = None
      /\ order' = Promoted(SubSeq(order, 1, Staying), id[t])
      /\ recent' = Promoted(recent, id[t])
      /\ cached' = [i \in Ids |-> IF i = id[t] THEN r ELSE IF i \in Victims THEN None
                                  ELSE cached[i]]
  <2>1. id[t] \in Ids /\ cached[id[t]] = None
    <3>1. pc[t] = "create" /\ pc[t] # "idle"  BY DEF CreateOk
    <3>2. id[t] # None  BY <3>1 DEF IInv, ThreadState
    <3> QED  BY <3>1, <3>2 DEF IInv, TypeOK, BuiltOnce
  <2> QED  BY <2>1 DEF CreateOk
<1>2. ~In(order, id[t])  BY <1>1 DEF OrderInv
<1>3. Leads(order, recent)  BY DEF OrderInv
<1>4. Stays(order, Staying)  BY DEF Staying, Stays
<1>5. /\ Leads(order', recent')
      /\ \A j : In(order', j)
                 <=> j = id[t] \/ (In(order, j) /\ j \notin {order[n] : n \in Staying + 1 .. Len(order)})
  <2> DEFINE k == Staying
             o == order
             r1 == recent
             i == id[t]
  <2> HIDE DEF k, o, r1, i
  <2>1. /\ Stays(o, k)
        /\ i \in Ids /\ Leads(o, r1) /\ ~In(o, i)
    BY <1>1, <1>2, <1>3, <1>4 DEF k, o, r1, i
  <2>2. /\ Leads(Promoted(SubSeq(o, 1, k), i), Promoted(r1, i))
        /\ \A j : In(Promoted(SubSeq(o, 1, k), i), j)
                   <=> j = i \/ (In(o, j) /\ j \notin {o[n] : n \in k + 1 .. Len(o)})
    BY <2>1, EnterLeads
  <2> QED  BY <1>1, <2>2 DEF k, o, r1, i
<1>6. ASSUME NEW i \in Ids  PROVE cached'[i] # None <=> In(order', i)
  <2>1. In(order', i) <=> i = id[t] \/ (In(order, i) /\ i \notin Victims)
    BY <1>5 DEF Victims
  <2>2. cached'[i] = IF i = id[t] THEN r ELSE IF i \in Victims THEN None ELSE cached[i]
    BY <1>1
  <2>3. r # None  BY CacheAssumption
  <2>4. cached[i] # None <=> In(order, i)  BY DEF OrderInv
  <2> QED  BY <2>1, <2>2, <2>3, <2>4
<1> QED  BY <1>5, <1>6 DEF OrderInv

\* Only these two actions change the cache.
LEMMA NextOrder == IInv /\ OrderInv /\ [Next]_vars => OrderInv'
<1> SUFFICES ASSUME IInv, OrderInv, [Next]_vars  PROVE OrderInv'
  OBVIOUS
<1>1. ASSUME UNCHANGED <<cached, order, recent>>  PROVE OrderInv'
  BY <1>1 DEF OrderInv
<1>2. CASE UNCHANGED vars
  BY <1>1, <1>2 DEF vars, cacheVars
<1>3. ASSUME NEW t \in Threads, NEW i \in Ids, Request(t, i)  PROVE OrderInv'
  BY <1>1, <1>3 DEF Request, cacheVars
<1>4. ASSUME NEW t \in Threads, Step(t)  PROVE OrderInv'
  <2>1. CASE Hit(t)  BY <2>1, HitOrder
  <2>2. CASE \E r \in Runtimes : CreateOk(t, r)  BY <2>2, CreateOkOrder
  <2>3. CASE Miss(t) \/ CreateErr(t)  BY <2>3, <1>1 DEF Miss, CreateErr
  <2>4. CASE TryBusy(t) \/ TryFree(t) \/ TryNone(t)
    BY <2>4, <1>1 DEF TryBusy, TryFree, TryNone, cacheVars
  <2>5. CASE Reuse(t) \/ \E i \in Insts : NewInstance(t, i)
    BY <2>5, <1>1 DEF Reuse, NewInstance, cacheVars
  <2>6. CASE NewInstanceErr(t) \/ FinishOk(t) \/ FinishErr(t)
    BY <2>6, <1>1 DEF NewInstanceErr, FinishOk, FinishErr, Return, cacheVars
  <2> QED  BY <1>4, <2>1, <2>2, <2>3, <2>4, <2>5, <2>6 DEF Step
<1> QED  BY <1>2, <1>3, <1>4 DEF Next

\* The cache holds exactly the runtimes that were last requested with success,
\* in this order, for any number of threads and any size of the cache: a
\* lookup that missed is still true when the runtime enters the cache, so that
\* an entry is never there twice and an eviction takes the oldest.
THEOREM OrderSafety == Spec => []CacheHoldsMostRecent
<1>1. OrderInv => CacheHoldsMostRecent
  <2> SUFFICES ASSUME OrderInv  PROVE CacheHoldsMostRecent
    OBVIOUS
  <2> DEFINE k == IF Len(recent) < CacheSize THEN Len(recent) ELSE CacheSize
  <2>1. order \in Seq(Ids) /\ recent \in Seq(Ids) /\ Len(order) = k
        /\ \A n \in 1 .. Len(order) : order[n] = recent[n]
    BY DEF OrderInv, Leads
  <2>2. k \in Nat /\ k <= Len(recent)  BY SMT, <2>1, CacheAssumption
  <2> HIDE DEF k
  <2>3. order = SubSeq(recent, 1, k)
    <3>1. SubSeq(recent, 1, k) \in Seq(Ids) /\ Len(SubSeq(recent, 1, k)) = k
          /\ \A n \in 1 .. k : SubSeq(recent, 1, k)[n] = recent[n]
      BY SMT, <2>1, <2>2
    <3> DEFINE q == SubSeq(recent, 1, k)
    <3>2. q \in Seq(Ids) /\ Len(q) = Len(order) /\ \A n \in 1 .. Len(order) : q[n] = order[n]
      BY <2>1, <3>1
    <3> HIDE DEF q
    <3>3. q = order  BY SMT, <2>1, <3>2
    <3> QED  BY <3>3 DEF q
  <2>4. {order[n] : n \in DOMAIN order} = {i \in Ids : cached[i] # None}
    <3>1. DOMAIN order = 1 .. Len(order) /\ \A n \in 1 .. Len(order) : order[n] \in Ids
      BY SMT, <2>1
    <3> QED  BY <3>1 DEF OrderInv, In
  <2> QED  BY <2>3, <2>4 DEF CacheHoldsMostRecent, k
<1> QED  BY <1>1, Invariance, InitOrder, NextOrder, PTL DEF Spec
====
