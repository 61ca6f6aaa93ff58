---------------------------- MODULE RuntimeCache ----------------------------
(***************************************************************************)
(* The cache of runtimes of sc-executor and the pool of instances of each  *)
(* runtime: RuntimeCache::with_instance and VersionedRuntime::with_instance*)
(* run by several threads.                                                 *)
(*                                                                         *)
(* A thread takes the lock of the cache, finds the runtime or builds it    *)
(* while it holds the lock, and releases the lock.  It then tries the      *)
(* slots of the runtime's pool one after the other.  In the first one it   *)
(* can lock it takes the instance it finds or makes a new one; if all are  *)
(* locked it makes an instance of its own.  The closure runs with the slot *)
(* locked; the instance goes back to the slot unless the closure fails.    *)
(*                                                                         *)
(* A runtime lives as long as the cache or a thread refers to it (an Arc), *)
(* an instance as long as a slot of a living runtime or a thread holds it. *)
(* Names of objects that died may be used again.                           *)
(***************************************************************************)
EXTENDS Naturals, Sequences

CONSTANTS
    Threads,
    Ids,             \* values of VersionedRuntimeId
    Runtimes,        \* names of VersionedRuntime objects
    Insts,           \* names of instances
    CacheSize,       \* runtime_cache_size
    MaxInstances,    \* max_runtime_instances
    None

Slots == 1 .. MaxInstances

ASSUME CacheAssumption ==
    /\ CacheSize \in Nat \ {0}
    /\ MaxInstances \in Nat
    /\ None \notin Threads \cup Ids \cup Runtimes \cup Insts

VARIABLES
    lock,            \* the thread that holds `runtimes`, or None
    cached,          \* the runtime cached for an id, or None
    order,           \* ids in the cache, the most recently used first
    holder,          \* the thread that holds the lock of a slot, or None
    pool,            \* the instance in a slot, or None
    pc,              \* where a thread is in with_instance
    id,              \* the runtime it asked for
    rt,              \* the Arc<VersionedRuntime> it holds
    at,              \* the slot it tries or holds, 0 for none
    inst,            \* the instance its closure runs on
    res,             \* result of the pool's with_instance of its last call
    builtFor,        \* the id a runtime was built for, kept after it dies
    madeFor,         \* history: the id an instance was made for, None: dead
    recent           \* history: ids by their last successful request

cacheVars == <<lock, cached, order, recent>>
vars == <<cacheVars, holder, pool, pc, id, rt, at, inst, res, builtFor,
          madeFor>>

-----------------------------------------------------------------------------
EmptyPool == [k \in Slots |-> None]

Init ==
    /\ lock = None
    /\ cached = [i \in Ids |-> None]
    /\ order = <<>>
    /\ holder = [r \in Runtimes |-> EmptyPool]
    /\ pool = [r \in Runtimes |-> EmptyPool]
    /\ pc = [t \in Threads |-> "idle"]
    /\ id = [t \in Threads |-> None]
    /\ rt = [t \in Threads |-> None]
    /\ at = [t \in Threads |-> 0]
    /\ inst = [t \in Threads |-> None]
    /\ res = [t \in Threads |-> "ok"]
    /\ builtFor = [r \in Runtimes |-> None]
    /\ madeFor = [i \in Insts |-> None]
    /\ recent = <<>>

\* The sequence with `i`, which is in it once or not at all, moved to its front.
Promoted(seq, i) ==
    LET n == CHOOSE m \in DOMAIN seq : seq[m] = i
    IN  <<i>> \o (IF \E m \in DOMAIN seq : seq[m] = i
                   THEN SubSeq(seq, 1, n - 1) \o SubSeq(seq, n + 1, Len(seq)) ELSE seq)

\* LruCache::put: how many entries stay when another one enters the cache, and
\* the ids that leave it.
Staying == IF Len(order) >= CacheSize THEN Len(order) - 1 ELSE Len(order)
Victims == {order[n] : n \in Staying + 1 .. Len(order)}

Referenced(c, r) ==
    {c[i] : i \in Ids} \cup {r[t] : t \in Threads}

\* The pools after the references of the cache and the threads have become
\* c and r: a runtime without a reference is dropped and its instances too.
Swept(p, c, r) ==
    [x \in Runtimes |-> IF x \in Referenced(c, r) THEN p[x] ELSE EmptyPool]

\* The instances that are alive when p are the pools and `s` the instances
\* that closures run on.
Alive(p, s) ==
    {p[x][k] : x \in Runtimes, k \in Slots} \cup {s[t] : t \in Threads}
Survivors(p, s) ==
    [i \in Insts |-> IF i \in Alive(p, s) THEN madeFor[i] ELSE None]

-----------------------------------------------------------------------------
(* RuntimeCache::with_instance.                                            *)

Request(t, i) ==
    /\ pc[t] = "idle"
    /\ pc' = [pc EXCEPT ![t] = "lookup"]
    /\ id' = [id EXCEPT ![t] = i]
    /\ UNCHANGED <<cacheVars, holder, pool, rt, at, inst, res,
                   builtFor, madeFor>>

\* Mutant of Hit: `peek` instead of `get` leaves the order alone.
HitPeek(t) ==
    /\ pc[t] = "lookup"
    /\ lock = None
    /\ cached[id[t]] # None
    /\ rt' = [rt EXCEPT ![t] = cached[id[t]]]
    /\ recent' = Promoted(recent, id[t])
    /\ pc' = [pc EXCEPT ![t] = "scan"]
    /\ at' = [at EXCEPT ![t] = 1]
    /\ UNCHANGED <<lock, cached, order, holder, pool, id, inst, res,
                   builtFor, madeFor>>

\* Mutant of Hit: the front of the cache is taken for the entry found.
HitFront(t) ==
    /\ pc[t] = "lookup"
    /\ lock = None
    /\ cached[id[t]] # None
    /\ rt' = [rt EXCEPT ![t] = cached[order[1]]]
    /\ order' = Promoted(order, id[t])
    /\ recent' = Promoted(recent, id[t])
    /\ pc' = [pc EXCEPT ![t] = "scan"]
    /\ at' = [at EXCEPT ![t] = 1]
    /\ UNCHANGED <<lock, cached, holder, pool, id, inst, res,
                   builtFor, madeFor>>

\* The lock is taken, the runtime found, its Arc cloned, the lock released.
Hit(t) ==
    /\ pc[t] = "lookup"
    /\ lock = None
    /\ cached[id[t]] # None
    /\ rt' = [rt EXCEPT ![t] = cached[id[t]]]
    /\ order' = Promoted(order, id[t])
    /\ recent' = Promoted(recent, id[t])
    /\ pc' = [pc EXCEPT ![t] = "scan"]
    /\ at' = [at EXCEPT ![t] = 1]
    /\ UNCHANGED <<lock, cached, holder, pool, id, inst, res,
                   builtFor, madeFor>>

\* Mutant of Miss: the lock is released before the runtime is built.
MissUnlocked(t) ==
    /\ pc[t] = "lookup"
    /\ lock = None
    /\ cached[id[t]] = None
    /\ pc' = [pc EXCEPT ![t] = "create"]
    /\ UNCHANGED <<cacheVars, holder, pool, id, rt, at, inst, res, builtFor,
                   madeFor>>

\* The runtime is not cached: the thread keeps the lock while it builds it.
Miss(t) ==
    /\ pc[t] = "lookup"
    /\ lock = None
    /\ cached[id[t]] = None
    /\ lock' = t
    /\ pc' = [pc EXCEPT ![t] = "create"]
    /\ UNCHANGED <<cached, order, recent, holder, pool, id, rt, at, inst, res,
                   builtFor, madeFor>>

\* create_versioned_wasm_runtime succeeds; the runtime enters the cache.
CreateOk(t, r) ==
    /\ pc[t] = "create"
    /\ r \notin Referenced(cached, rt)
    /\ cached' = [i \in Ids |-> IF i = id[t] THEN r
                                ELSE IF i \in Victims THEN None
                                ELSE cached[i]]
    /\ order' = Promoted(SubSeq(order, 1, Staying), id[t])
    /\ recent' = Promoted(recent, id[t])
    /\ lock' = None
    /\ rt' = [rt EXCEPT ![t] = r]
    /\ pc' = [pc EXCEPT ![t] = "scan"]
    /\ at' = [at EXCEPT ![t] = 1]
    /\ pool' = Swept(pool, cached', rt')
    /\ madeFor' = Survivors(pool', inst)
    /\ builtFor' = [builtFor EXCEPT ![r] = id[t]]
    /\ UNCHANGED <<holder, id, inst, res>>

\* The code is not found or the runtime cannot be created.
CreateErr(t) ==
    /\ pc[t] = "create"
    /\ lock' = None
    /\ pc' = [pc EXCEPT ![t] = "idle"]
    /\ id' = [id EXCEPT ![t] = None]
    /\ res' = [res EXCEPT ![t] = "err"]
    /\ UNCHANGED <<cached, order, recent, holder, pool, rt, at, inst,
                   builtFor, madeFor>>

-----------------------------------------------------------------------------
(* VersionedRuntime::with_instance.                                        *)

\* Mutant of TryBusy: the scan waits for the last slot.
TryBusyWaits(t) ==
    /\ pc[t] = "scan"
    /\ at[t] \in Slots
    /\ holder[rt[t]][at[t]] # None
    /\ at' = [at EXCEPT ![t] = IF @ = MaxInstances THEN @ ELSE @ + 1]
    /\ UNCHANGED <<cacheVars, holder, pool, pc, id, rt, inst, res,
                   builtFor, madeFor>>

\* Mutant of TryBusy: every second slot is skipped.
TryBusySkips(t) ==
    /\ pc[t] = "scan"
    /\ at[t] \in Slots
    /\ holder[rt[t]][at[t]] # None
    /\ at' = [at EXCEPT ![t] = @ + 2]
    /\ UNCHANGED <<cacheVars, holder, pool, pc, id, rt, inst, res,
                   builtFor, madeFor>>

\* try_lock on the next slot fails.
TryBusy(t) ==
    /\ pc[t] = "scan"
    /\ at[t] \in Slots
    /\ holder[rt[t]][at[t]] # None
    /\ at' = [at EXCEPT ![t] = @ + 1]
    /\ UNCHANGED <<cacheVars, holder, pool, pc, id, rt, inst, res,
                   builtFor, madeFor>>

\* try_lock succeeds.
TryFree(t) ==
    /\ pc[t] = "scan"
    /\ at[t] \in Slots
    /\ holder[rt[t]][at[t]] = None
    /\ holder' = [holder EXCEPT ![rt[t]][at[t]] = t]
    /\ pc' = [pc EXCEPT ![t] = "obtain"]
    /\ UNCHANGED <<cacheVars, pool, id, rt, at, inst, res,
                   builtFor, madeFor>>

\* "Ran out of free WASM instances".
TryNone(t) ==
    /\ pc[t] = "scan"
    /\ at[t] \notin Slots
    /\ at' = [at EXCEPT ![t] = 0]
    /\ pc' = [pc EXCEPT ![t] = "obtain"]
    /\ UNCHANGED <<cacheVars, holder, pool, id, rt, inst, res,
                   builtFor, madeFor>>

\* Mutant of Reuse: the instance is not taken out of its slot.
ReuseInPlace(t) ==
    /\ pc[t] = "obtain"
    /\ at[t] \in Slots
    /\ pool[rt[t]][at[t]] # None
    /\ inst' = [inst EXCEPT ![t] = pool[rt[t]][at[t]]]
    /\ pc' = [pc EXCEPT ![t] = "run"]
    /\ UNCHANGED <<cacheVars, holder, pool, id, rt, at, res, builtFor, madeFor>>

\* The instance in the slot is taken out of it and the closure starts.
Reuse(t) ==
    /\ pc[t] = "obtain"
    /\ at[t] \in Slots
    /\ pool[rt[t]][at[t]] # None
    /\ inst' = [inst EXCEPT ![t] = pool[rt[t]][at[t]]]
    /\ pool' = [pool EXCEPT ![rt[t]][at[t]] = None]
    /\ pc' = [pc EXCEPT ![t] = "run"]
    /\ UNCHANGED <<cacheVars, holder, id, rt, at, res,
                   builtFor, madeFor>>

\* Mutant of NewInstance: made although the slot holds an instance.
NewInstanceAlways(t, i) ==
    /\ pc[t] = "obtain"
    /\ madeFor[i] = None
    /\ madeFor' = [madeFor EXCEPT ![i] = builtFor[rt[t]]]
    /\ inst' = [inst EXCEPT ![t] = i]
    /\ pc' = [pc EXCEPT ![t] = "run"]
    /\ UNCHANGED <<cacheVars, holder, pool, id, rt, at, res, builtFor>>

\* A new instance is made, for the empty slot or for this call only.
NewInstance(t, i) ==
    /\ pc[t] = "obtain"
    /\ at[t] \in Slots => pool[rt[t]][at[t]] = None
    /\ madeFor[i] = None
    /\ madeFor' = [madeFor EXCEPT ![i] = builtFor[rt[t]]]
    /\ inst' = [inst EXCEPT ![t] = i]
    /\ pc' = [pc EXCEPT ![t] = "run"]
    /\ UNCHANGED <<cacheVars, holder, pool, id, rt, at, res, builtFor>>

\* The end of with_instance: the guard of the slot and the Arc are dropped,
\* the slot holds `kept` (None when the instance is dropped).
Return(t, kept, r) ==
    /\ holder' = IF at[t] \in Slots
                   THEN [holder EXCEPT ![rt[t]][at[t]] = None] ELSE holder
    /\ rt' = [rt EXCEPT ![t] = None]
    /\ inst' = [inst EXCEPT ![t] = None]
    /\ pool' = Swept(IF at[t] \in Slots
                       THEN [pool EXCEPT ![rt[t]][at[t]] = kept] ELSE pool,
                     cached, rt')
    /\ madeFor' = Survivors(pool', inst')
    /\ at' = [at EXCEPT ![t] = 0]
    /\ id' = [id EXCEPT ![t] = None]
    /\ res' = [res EXCEPT ![t] = r]
    /\ pc' = [pc EXCEPT ![t] = "idle"]
    /\ UNCHANGED <<cacheVars, builtFor>>

\* new_instance fails: the slot stays empty.
NewInstanceErr(t) ==
    /\ pc[t] = "obtain"
    /\ at[t] \in Slots => pool[rt[t]][at[t]] = None
    /\ Return(t, None, "err")

\* The closure returns Ok, which it also does when the call into the runtime
\* trapped: the error is inside the Ok.  A pooled instance is put back.
FinishOk(t) == pc[t] = "run" /\ Return(t, inst[t], "ok")

\* Mutant of FinishErr: the instance goes back to its slot.
FinishErrKeeps(t) == pc[t] = "run" /\ Return(t, inst[t], "err")

\* The closure returns Err, after a panic in native code: the instance is
\* dropped.
FinishErr(t) == pc[t] = "run" /\ Return(t, None, "err")

-----------------------------------------------------------------------------
Step(t) ==
    \/ Hit(t) \/ Miss(t) \/ (\E r \in Runtimes : CreateOk(t, r)) \/ CreateErr(t)
    \/ TryBusy(t) \/ TryFree(t) \/ TryNone(t)
    \/ Reuse(t) \/ (\E i \in Insts : NewInstance(t, i)) \/ NewInstanceErr(t)
    \/ FinishOk(t) \/ FinishErr(t)

Next == \E t \in Threads : (\E i \in Ids : Request(t, i)) \/ Step(t)

Spec == Init /\ [][Next]_vars

\* A thread that has something to do eventually does it: the creation of a
\* runtime and the closure end.  The lock of the cache is parking_lot's Mutex,
\* which is eventually fair to those who wait for it.
Fairness == \A t \in Threads : WF_vars(Step(t)) /\ SF_vars(Hit(t) \/ Miss(t))

FairSpec == Spec /\ Fairness
-----------------------------------------------------------------------------
(* Properties.                                                             *)

\* The types of the variables.
TypeOK ==
    /\ lock \in Threads \cup {None}
    /\ cached \in [Ids -> Runtimes \cup {None}]
    /\ holder \in [Runtimes -> [Slots -> Threads \cup {None}]]
    /\ pool \in [Runtimes -> [Slots -> Insts \cup {None}]]
    /\ pc \in [Threads -> {"idle", "lookup", "create", "scan", "obtain", "run"}]
    /\ id \in [Threads -> Ids \cup {None}]
    /\ rt \in [Threads -> Runtimes \cup {None}]
    /\ at \in [Threads -> 0 .. MaxInstances + 1]
    /\ inst \in [Threads -> Insts \cup {None}]
    /\ res \in [Threads -> {"ok", "err"}]
    /\ builtFor \in [Runtimes -> Ids \cup {None}]
    /\ madeFor \in [Insts -> Ids \cup {None}]

\* What a thread refers to is what its place in with_instance says: the lock
\* of the cache only while it creates a runtime, a runtime only after the
\* lookup, an instance only while the closure runs.
ThreadState ==
    \A t \in Threads :
        /\ id[t] = None <=> pc[t] = "idle"
        /\ lock = t <=> pc[t] = "create"
        /\ rt[t] # None <=> pc[t] \in {"scan", "obtain", "run"}
        /\ inst[t] # None <=> pc[t] = "run"
        /\ pc[t] \in {"obtain", "run"} => at[t] \in Slots \cup {0}

\* A slot is locked by exactly the thread that uses it: no guard survives its
\* call and no two calls are in the same slot, although the slots are tried
\* one by one while others take and leave them.
GuardsMatch ==
    \A t \in Threads, r \in Runtimes, k \in Slots :
        holder[r][k] = t <=> /\ pc[t] \in {"obtain", "run"}
                             /\ rt[t] = r
                             /\ at[t] = k

\* Nobody builds a runtime that is in the cache, and two threads never build
\* the same runtime at once: the lookup that missed is still true when the
\* new runtime is put into the cache.
BuiltOnce ==
    \A t \in Threads : pc[t] = "create" => cached[id[t]] = None

\* A runtime is cached or used under the id it was built for only, and a
\* runtime is never cached under two ids, although names of dead runtimes
\* come back.
RuntimesTrue ==
    /\ \A i \in Ids : cached[i] # None => builtFor[cached[i]] = i
    /\ \A t \in Threads : rt[t] # None => builtFor[rt[t]] = id[t]

\* A closure runs on an instance of the runtime that its caller asked for,
\* and so does every instance in a slot, after evictions, rebuilds and
\* failures.
RightRuntime ==
    /\ \A t \in Threads : inst[t] # None => madeFor[inst[t]] = id[t]
    /\ \A r \in Runtimes, k \in Slots :
           pool[r][k] # None => madeFor[pool[r][k]] = builtFor[r]

\* An instance is in one place: under one closure or in one slot.  Two
\* concurrent calls never share an instance.
InstancesExclusive ==
    /\ \A t, u \in Threads : inst[t] = inst[u] /\ inst[t] # None => t = u
    /\ \A t \in Threads, r \in Runtimes, k \in Slots :
           inst[t] # None => pool[r][k] # inst[t]
    /\ \A r, s \in Runtimes, k, l \in Slots :
           pool[r][k] = pool[s][l] /\ pool[r][k] # None => r = s /\ k = l

\* The slot of a running closure is empty, so that no other instance is
\* overwritten when its own one comes back.
SlotVacant ==
    \A t \in Threads :
        pc[t] = "run" /\ at[t] \in Slots => pool[rt[t]][at[t]] = None

\* "Runtimes sorted by recent usage. The most recently used is at the front":
\* the cache holds exactly the CacheSize runtimes that were last requested
\* with success, by whichever thread, in this order.
CacheHoldsMostRecent ==
    /\ order = SubSeq(recent, 1, IF Len(recent) < CacheSize THEN Len(recent)
                                                          ELSE CacheSize)
    /\ {order[n] : n \in DOMAIN order} = {i \in Ids : cached[i] # None}

Service == INSTANCE InstanceService WITH
    made <- madeFor, serving <- inst, wanted <- id, result <- res

\* The cache with its pools implements the abstract service: exclusive use of
\* an instance of the runtime asked for, and no instance survives a closure
\* that failed.
ImplementsService == Service!Spec

\* Every call of with_instance returns, if runtime creation and closures end:
\* nobody waits for a slot, and waiting for the lock ends.
Served == \A t \in Threads : pc[t] = "lookup" ~> pc[t] = "idle"
=============================================================================
