----------------------------- MODULE StateMachine -----------------------------
(***************************************************************************)
(* A block being built or checked on the overlay: a RuntimeApiImpl makes   *)
(* runtime calls (primitives/api/proc-macro/src/impl_runtime_apis.rs), the *)
(* StateMachine executes each with a strategy, natively, in WebAssembly or *)
(* both (primitives/state-machine/src/lib.rs), and during an execution the *)
(* runtime works on the storage through Ext (ext.rs), which also caches    *)
(* the transaction for the backend that a storage root was computed with.  *)
(* In the end into_storage_changes takes the changes out of the overlay.   *)
(*                                                                         *)
(* The storage operations of a runtime, and whether it fails, are any.     *)
(* Everything is sequential; a statement that uses the overlay is a step.  *)
(***************************************************************************)
EXTENDS OverlayedChanges

CONSTANTS
  Written,  \* the values the runtime writes to each key
  MaxCalls, \* calls of the runtime
  MaxOps,   \* storage operations of the runtime
  NoCache

ASSUME WrittenAssumption ==
  /\ Written \in [Keys -> SUBSET Changes]
  /\ MaxCalls \in Nat /\ MaxOps \in Nat

Strategies == {"NativeWhenPossible", "AlwaysWasm", "NativeElseWasm", "Both"}
TrieKeys == {k \in Keys : MapOf[k] # Offchain}

VARIABLES
  backend,   \* the state below the overlay: key -> value
  cache,     \* StorageTransactionCache::transaction
  closure,   \* within execute_in_transaction: "no", "open", or "called"
  pc,        \* the next step of the call
  strategy,  \* ExecutionStrategy, the same for all calls of a block
  attempt,   \* 2 for the second execution of a call
  native,    \* whether this execution is native
  result,    \* of the last execution
  settled,   \* history: the changes when a call was last committed
  behind,    \* history: the overlay was rolled back, but not through Ext,
             \*   after the transaction was cached
  calls,     \* calls so far
  ops        \* storage operations so far

cvars == <<closure, pc, strategy, attempt, native, result, settled, calls>>
vars == <<ovars, backend, cache, cvars, behind, ops>>

TrieChanges == [k \in TrieKeys |-> Storage(k)]

Init ==
  /\ OverlayInit
  /\ backend = [k \in Keys |-> IF k \in TrieKeys THEN 0 ELSE Absent]
  /\ cache = NoCache
  /\ closure = "no" /\ pc = "idle" /\ result = "ok"
  /\ strategy \in Strategies /\ attempt = 1 /\ native = FALSE
  /\ settled = Current
  /\ behind = FALSE /\ calls = 0 /\ ops = 0

-----------------------------------------------------------------------------
(* Ext: what the runtime does to the storage.                              *)

RuntimeOp ==
  /\ pc = "runtime" /\ ops < MaxOps
  /\ ops' = ops + 1
  /\ UNCHANGED <<backend, cvars>>

mark_dirty == cache' = NoCache /\ behind' = FALSE

\* place_storage and place_child_storage; v is Deleted for clear_storage.
place_storage(k, v) ==
  /\ RuntimeOp
  /\ set_storage(k, v)
  /\ mark_dirty

set_offchain_storage(k, v) ==
  /\ RuntimeOp
  /\ set_storage(k, v)
  /\ UNCHANGED <<cache, behind>>

\* Mutant: an item is appended under a cached transaction.
storage_append_cached(k) ==
  /\ RuntimeOp
  /\ Appended(k, backend[k]) <= MaxLen
  /\ set_storage(k, Appended(k, backend[k]))
  /\ UNCHANGED <<cache, behind>>

storage_append(k) ==
  /\ RuntimeOp
  /\ Appended(k, backend[k]) <= MaxLen
  /\ set_storage(k, Appended(k, backend[k]))
  /\ mark_dirty

\* kill_child_storage, clear_prefix and clear_child_prefix: the keys P of map m
\* in the overlay, and as many keys in the backend as the limit allows.
clear_prefix(m, P, D) ==
  /\ RuntimeOp
  /\ clear(m, P, D)
  /\ mark_dirty

\* The transaction is made from all changes, unless it is there already.
storage_root ==
  /\ RuntimeOp
  /\ cache' = IF cache = NoCache THEN TrieChanges ELSE cache
  /\ UNCHANGED <<ovars, behind>>

storage_start_transaction ==
  /\ RuntimeOp
  /\ Depth(Top) < MaxDepth
  /\ start_transaction
  /\ UNCHANGED <<cache, behind>>

\* A refused close is reported to the runtime.
storage_rollback_transaction ==
  /\ RuntimeOp
  /\ \/ rollback_transaction
     \/ CloseRefused(Top) /\ UNCHANGED ovars
  /\ mark_dirty

storage_commit_transaction ==
  /\ RuntimeOp
  /\ \/ commit_transaction
     \/ CloseRefused(Top) /\ UNCHANGED ovars
  /\ UNCHANGED <<cache, behind>>

ExtStep ==
  \/ \E k \in TrieKeys : \E v \in Written[k] : place_storage(k, v)
  \/ \E k \in Keys \ TrieKeys : \E v \in Written[k] : set_offchain_storage(k, v)
  \/ \E k \in KeysOf(Top) : storage_append(k)
  \/ \E m \in {Top} \cup Children : \E P \in SUBSET KeysOf(m) :
       \E D \in SUBSET {k \in P : backend[k] # Absent} : clear_prefix(m, P, D)
  \/ storage_root
  \/ storage_start_transaction
  \/ storage_rollback_transaction
  \/ storage_commit_transaction

-----------------------------------------------------------------------------
(* RuntimeApiImpl and StateMachine: the course of a call.                  *)

\* A rollback by the client: Ext and its cache do not learn of it.
RollbackBehindExt ==
  /\ rollback_transaction
  /\ behind' = (cache # NoCache)

CommitByClient == commit_transaction /\ UNCHANGED behind

\* execute_in_transaction opens a transaction and runs a closure, here the ones
\* of BlockBuilder::push and create_inherents, which make one call.
ExecuteInTransaction ==
  /\ pc = "idle" /\ closure = "no"
  /\ start_transaction
  /\ closure' = "open"
  /\ UNCHANGED <<backend, cache, pc, strategy, attempt, native, result, settled, calls, behind, ops>>

\* The closure ends with TransactionOutcome::Commit or Rollback; push commits
\* only after a call that went well, create_inherents never does.
EndTransaction ==
  /\ pc = "idle" /\ closure = "called"
  /\ \/ result = "ok" /\ CommitByClient /\ settled' = Current'
     \/ RollbackBehindExt /\ UNCHANGED settled
  /\ closure' = "no" /\ result' = "ok"
  /\ UNCHANGED <<backend, cache, pc, strategy, attempt, native, calls, ops>>

\* call_api_at: outside of a closure a call has a transaction of its own.
BeginCall ==
  /\ pc = "idle" /\ closure # "called" /\ calls < MaxCalls
  /\ IF closure = "no" THEN start_transaction ELSE UNCHANGED ovars
  /\ pc' = "strategy" /\ calls' = calls + 1
  /\ UNCHANGED <<backend, cache, closure, strategy, attempt, native, result, settled, behind, ops>>

\* execute_call_with_both_strategy and its sibling open another.
ApplyStrategy ==
  /\ pc = "strategy"
  /\ IF strategy \in {"NativeElseWasm", "Both"} THEN start_transaction ELSE UNCHANGED ovars
  /\ pc' = "enter"
  /\ UNCHANGED <<backend, cache, closure, strategy, attempt, native, result, settled, calls, behind, ops>>

\* execute_aux: a native runtime is used if there is one of the same version.
ExecuteAux ==
  /\ pc = "enter"
  /\ enter_runtime
  /\ native' \in (IF strategy = "AlwaysWasm" \/ attempt = 2 THEN {FALSE} ELSE BOOLEAN)
  /\ pc' = "runtime"
  /\ UNCHANGED <<backend, cache, closure, strategy, attempt, result, settled, calls, behind, ops>>

\* The runtime returns, or it traps.
ExitRuntime(r) ==
  /\ pc = "runtime"
  /\ exit_runtime
  /\ pc' = "leaving" /\ result' = r
  /\ UNCHANGED <<backend, cache, closure, strategy, attempt, native, settled, calls, behind, ops>>

\* What the runtime has left open is rolled back.
ExitRollback ==
  /\ pc = "leaving"
  /\ exit_rollback
  /\ behind' = (cache # NoCache)
  /\ UNCHANGED <<backend, cache, cvars, ops>>

ExitDone ==
  /\ pc = "leaving" /\ ~has_open_runtime_transactions(Top)
  /\ pc' = "returned"
  /\ UNCHANGED <<ovars, backend, cache, closure, strategy, attempt, native, result,
                 settled, calls, behind, ops>>

\* Mutant: the second execution works on the changes of the first.
ReturnedCommitting ==
  /\ pc = "returned"
  /\ \/ /\ \/ attempt = 2
           \/ strategy \notin {"NativeElseWasm", "Both"}
        /\ UNCHANGED <<ovars, behind>>
        /\ pc' = "finish" /\ UNCHANGED attempt
     \/ /\ attempt = 1 /\ strategy \in {"NativeElseWasm", "Both"}
        /\ CommitByClient
        /\ IF native /\ (strategy = "Both" \/ result = "err")
           THEN attempt' = 2 /\ pc' = "enter"
           ELSE attempt' = 1 /\ pc' = "finish"
  /\ native' = FALSE
  /\ UNCHANGED <<backend, cache, closure, strategy, result, settled, calls, ops>>

\* The strategy decides whether the execution counts. A native one is undone
\* and repeated in WebAssembly if it failed, or if both are to be compared.
Returned ==
  /\ pc = "returned"
  /\ \/ /\ \/ attempt = 2
           \/ strategy \notin {"NativeElseWasm", "Both"}
        /\ UNCHANGED <<ovars, behind>>
        /\ pc' = "finish" /\ UNCHANGED attempt
     \/ /\ attempt = 1 /\ strategy \in {"NativeElseWasm", "Both"}
        /\ IF native /\ (strategy = "Both" \/ result = "err")
           THEN RollbackBehindExt /\ attempt' = 2 /\ pc' = "enter"
           ELSE CommitByClient /\ attempt' = 1 /\ pc' = "finish"
  /\ native' = FALSE
  /\ UNCHANGED <<backend, cache, closure, strategy, result, settled, calls, ops>>

\* commit_or_rollback, outside of a closure.
CommitOrRollback ==
  /\ pc = "finish"
  /\ \/ /\ closure = "open" /\ closure' = "called"
        /\ UNCHANGED <<ovars, behind, settled, result>>
     \/ /\ closure = "no" /\ result' = "ok" /\ UNCHANGED closure
        /\ IF result = "ok"
           THEN CommitByClient /\ settled' = Current'
           ELSE RollbackBehindExt /\ UNCHANGED settled
  /\ pc' = "idle" /\ attempt' = 1
  /\ UNCHANGED <<backend, cache, strategy, native, calls, ops>>

\* into_storage_changes, and the import of the block with its transaction: the
\* cached one if there is one.  The next block starts afresh.
IntoStorageChanges ==
  /\ pc = "idle" /\ closure = "no"
  /\ LET transaction == IF cache = NoCache THEN TrieChanges ELSE cache
     IN  backend' = [k \in Keys |->
           IF k \notin TrieKeys \/ transaction[k] = Absent THEN backend[k]
           ELSE IF transaction[k] = Deleted THEN Absent ELSE transaction[k]]
  /\ drain
  /\ cache' = NoCache /\ behind' = FALSE
  /\ settled' = [k \in Keys |-> Absent]
  /\ UNCHANGED <<closure, pc, strategy, attempt, native, result, calls, ops>>

CallStep ==
  \/ ExecuteInTransaction
  \/ EndTransaction
  \/ BeginCall
  \/ ApplyStrategy
  \/ ExecuteAux
  \/ \E r \in {"ok", "err"} : ExitRuntime(r)
  \/ ExitRollback
  \/ ExitDone
  \/ Returned
  \/ CommitOrRollback

Next == ExtStep \/ CallStep \/ IntoStorageChanges

Spec == Init /\ [][Next]_vars

-----------------------------------------------------------------------------
(* Properties.                                                             *)

\* The variables have the values the types of the code allow for.
TypeOK ==
  /\ changes \in [Keys -> Seq(Entry)]
  /\ dirty_keys \in [Maps -> Seq(SUBSET Keys)]
  /\ num_client_transactions \in [Maps -> Nat]
  /\ execution_mode \in [Maps -> {"Client", "Runtime"}]
  /\ children \subseteq Children
  /\ panicked \in BOOLEAN
  /\ backend \in [Keys -> 0 .. MaxLen \cup {Absent}]
  /\ cache \in {NoCache} \cup Viewed(TrieKeys)
  /\ closure \in {"no", "open", "called"}
  /\ pc \in {"idle", "strategy", "enter", "runtime", "leaving", "returned", "finish"}
  /\ strategy \in Strategies
  /\ attempt \in {1, 2}
  /\ native \in BOOLEAN
  /\ result \in {"ok", "err"}
  /\ settled \in Viewed(Keys)
  /\ behind \in BOOLEAN
  /\ calls \in 0 .. MaxCalls
  /\ ops \in 0 .. MaxOps

\* No expect() of the overlay fails: the maps of the main trie, of all child
\* tries, whenever they were made, and of the offchain storage close their
\* transactions and change hands in lockstep, every key of a dirty set has a
\* value to drop or to merge, and no transaction is open when the changes are
\* taken.
NoPanic == ~panicked

Views == [i \in 1 .. Depth(Top) + 1 |-> [k \in Keys |-> ViewOf(changes[k], i - 1)]]

Stack == INSTANCE TransactionalStorage
  WITH views <- Views,
       client <- num_client_transactions[Top],
       mode <- IF pc = "leaving" THEN "Leaving" ELSE execution_mode[Top]

\* The per-key value lists and per-transaction dirty sets implement a stack of
\* maps: a commit and a rollback do to all keys of all tries what they do to
\* the topmost map, the runtime cannot touch what the client has open, and
\* what it leaves open is rolled back.
ImplementsStack == Stack!Spec

\* A call that fails, directly or in a closure that is rolled back for it,
\* leaves the overlay as the calls before it did, whichever strategy executed
\* it; and an execution in WebAssembly after a native one starts from the same
\* changes as the native one did.
FailureAtomic ==
  /\ pc = "idle" /\ closure = "no" => Current = settled
  /\ pc = "enter" => Current = settled

\* The transaction that storage_root cached has the changes of the overlay, as
\* long as the overlay was not rolled back behind the back of Ext: every Ext
\* operation that changes what the tries hold drops the cached transaction.
CacheFresh == cache # NoCache /\ ~behind => cache = TrieChanges

\* The doc of StorageChanges::transaction: "contains all changes from
\* `main_storage_changes` and from `child_storage_changes`" (overlayed_changes/
\* mod.rs). Whatever was rolled back, the transaction to be imported has just
\* the changes the overlay has.
TransactionComplete ==
  pc = "idle" /\ closure = "no" /\ cache # NoCache => cache = TrieChanges
=============================================================================
