--------------------------- MODULE OverlayedChanges ---------------------------
(***************************************************************************)
(* The overlay of storage changes (primitives/state-machine/src/           *)
(* overlayed_changes): the changes of the main trie (Top), of the child    *)
(* tries and of the offchain storage, each an OverlayedMap.  A map keeps,  *)
(* for every key, the values written to it in nested transactions, and,    *)
(* for every open transaction, the keys it has written.  All maps open and *)
(* close their transactions together.  This module has the state and the   *)
(* operations; StateMachine says who calls them and when.                  *)
(*                                                                         *)
(* Values are lists, known by their length.  A key says which map it is a  *)
(* key of.  Extrinsic indices are left out (they are only collected in     *)
(* tests), and so are the list of transaction index operations and the     *)
(* statistics, which no operation reads.                                   *)
(***************************************************************************)
EXTENDS Naturals, Sequences

CONSTANTS
  Top, Offchain, Children,  \* the maps
  Keys, MapOf,              \* the keys, and the map of each
  MaxLen,                   \* longest value
  MaxDepth,                 \* open transactions
  Deleted, Absent

Maps == {Top, Offchain} \cup Children
Changes == 0 .. MaxLen \cup {Deleted}

ASSUME OverlayAssumption ==
  /\ MapOf \in [Keys -> Maps]
  /\ Top # Offchain /\ {Top, Offchain} \cap Children = {}
  /\ MaxLen \in Nat /\ MaxDepth \in Nat
  /\ Deleted \notin 0 .. MaxLen /\ Absent \notin Changes

VARIABLES
  changes,                  \* key -> its values, oldest transaction first
  dirty_keys,               \* map -> the keys written in each open transaction
  num_client_transactions,  \* map -> transactions the runtime may not close
  execution_mode,           \* map -> who is using it
  children,                 \* the child tries that have a map
  panicked                  \* an expect() of the overlay has failed

ovars == <<changes, dirty_keys, num_client_transactions, execution_mode,
           children, panicked>>

Live == {Top, Offchain} \cup children
KeysOf(m) == {k \in Keys : MapOf[k] = m}
Depth(m) == Len(dirty_keys[m])
LastOf(s) == s[Len(s)]
FrontOf(s) == SubSeq(s, 1, Len(s) - 1)

\* An InnerValue; level is history, the number of transactions that were open
\* when the value was written. No operation looks at it.
Inner(v, n) == [value |-> v, level |-> n]

OverlayInit ==
  /\ changes = [k \in Keys |-> <<>>]
  /\ dirty_keys = [m \in Maps |-> <<>>]
  /\ num_client_transactions = [m \in Maps |-> 0]
  /\ execution_mode = [m \in Maps |-> "Client"]
  /\ children = {}
  /\ panicked = FALSE

-----------------------------------------------------------------------------
(* Reading and writing.                                                    *)

\* OverlayedChanges::storage and its relatives.
Storage(k) == IF changes[k] = <<>> THEN Absent ELSE LastOf(changes[k]).value

\* Mutant: a new child trie starts outside of all transactions.
SpawnedFlat(m) == dirty_keys[m]

\* The dirty sets of a map, those of spawn_child if it is made just now.
Spawned(m) == IF m \in Live THEN dirty_keys[m] ELSE [i \in 1 .. Depth(Top) |-> {}]

\* insert_dirty: whether this is the first write to k in an open transaction.
FirstWrite(d, k) == d # <<>> /\ k \notin LastOf(d)

\* Mutant: a value written in an outer transaction is overwritten.
SetEntryInPlace(d, k, v) ==
  IF changes[k] = <<>> THEN Append(changes[k], Inner(v, Len(d)))
  ELSE [changes[k] EXCEPT ![Len(changes[k])] = Inner(v, @.level)]

\* OverlayedEntry::set.
SetEntry(d, k, v) ==
  IF FirstWrite(d, k) \/ changes[k] = <<>>
  THEN Append(changes[k], Inner(v, Len(d)))
  ELSE [changes[k] EXCEPT ![Len(changes[k])] = Inner(v, @.level)]

\* Sets the keys of map m in the domain of w; a child trie gets its map first.
Set(m, w) ==
  LET d == Spawned(m)
  IN  /\ changes' = [k \in Keys |-> IF k \in DOMAIN w THEN SetEntry(d, k, w[k])
                                    ELSE changes[k]]
      /\ dirty_keys' = [dirty_keys EXCEPT ![m] =
           IF d = <<>> THEN d ELSE [d EXCEPT ![Len(d)] = @ \cup DOMAIN w]]
      /\ num_client_transactions' =
           [num_client_transactions EXCEPT ![m] =
              IF m \in Live THEN @ ELSE num_client_transactions[Top]]
      /\ execution_mode' = [execution_mode EXCEPT ![m] =
           IF m \in Live THEN @ ELSE execution_mode[Top]]
      /\ children' = IF m \in Children THEN children \cup {m} ELSE children
      /\ UNCHANGED panicked

\* set_storage, set_child_storage, set_offchain_storage.
set_storage(k, v) == Set(MapOf[k], [x \in {k} |-> v])

\* value_mut_or_insert_with and StorageAppend::append: one more item in the
\* list that the overlay has, or else the backend.
Appended(k, stored) ==
  LET old == IF changes[k] = <<>> THEN stored ELSE Storage(k)
  IN  IF old \in {Deleted, Absent} THEN 1 ELSE old + 1

\* clear_where with a predicate for the keys P, then the deletion of those
\* keys D of the backend that the limit allows for.
clear(m, P, D) ==
  Set(m, [k \in {x \in P : changes[x] # <<>>} \cup D |-> Deleted])

-----------------------------------------------------------------------------
(* Transactions.                                                           *)

start_transaction ==
  /\ dirty_keys' = [m \in Maps |-> IF m \in Live THEN Append(dirty_keys[m], {})
                                   ELSE dirty_keys[m]]
  /\ UNCHANGED <<changes, num_client_transactions, execution_mode, children, panicked>>

has_open_runtime_transactions(m) == Depth(m) > num_client_transactions[m]

\* close_transaction returns NoOpenTransaction.
CloseRefused(m) ==
  \/ execution_mode[m] = "Runtime" /\ ~has_open_runtime_transactions(m)
  \/ dirty_keys[m] = <<>>

\* Whether k was written in the transaction that is about to be closed.
Dirty(k) ==
  LET m == MapOf[k]
  IN  m \in Live /\ dirty_keys[m] # <<>> /\ k \in LastOf(dirty_keys[m])

\* Whether the transaction below, or no transaction, has a value to merge with.
has_predecessor(k) ==
  LET d == dirty_keys[MapOf[k]]
  IN  IF Len(d) > 1 THEN k \in d[Len(d) - 1] ELSE Len(changes[k]) > 1

RolledBack(k) == IF Dirty(k) THEN FrontOf(changes[k]) ELSE changes[k]

Committed(k) ==
  LET e == changes[k] IN
  IF ~Dirty(k) THEN e
  ELSE IF has_predecessor(k)
       THEN [FrontOf(e) EXCEPT ![Len(e) - 1] = Inner(LastOf(e).value, @.level)]
       ELSE [e EXCEPT ![Len(e)] = Inner(@.value, Depth(MapOf[k]) - 1)]

\* The dirty sets of a map after a commit: the keys move one level down.
DirtyCommitted(d) ==
  IF Len(d) <= 1 THEN <<>>
  ELSE [FrontOf(d) EXCEPT ![Len(d) - 1] = @ \cup LastOf(d)]

\* What the code says cannot happen when the main trie closes a transaction:
\* another map refuses to, or a key in the dirty set has no value to drop.
CloseBreaks(merge) ==
  \/ \E m \in Live : CloseRefused(m)
  \/ \E k \in Keys : Dirty(k) /\ Len(changes[k]) < (IF merge /\ has_predecessor(k) THEN 2 ELSE 1)

\* rollback_transaction: child tries without changes lose their maps.
rollback_transaction ==
  /\ ~CloseRefused(Top)
  /\ LET left == {c \in children : \E k \in KeysOf(c) : RolledBack(k) # <<>>}
         keep == {Top, Offchain} \cup left
     IN  /\ children' = left
         /\ dirty_keys' = [m \in Maps |-> IF m \in keep THEN FrontOf(dirty_keys[m]) ELSE <<>>]
         /\ num_client_transactions' =
              [m \in Maps |-> IF m \in keep THEN num_client_transactions[m] ELSE 0]
         /\ execution_mode' =
              [m \in Maps |-> IF m \in keep THEN execution_mode[m] ELSE "Client"]
  /\ changes' = [k \in Keys |-> RolledBack(k)]
  /\ panicked' = (panicked \/ CloseBreaks(FALSE))

commit_transaction ==
  /\ ~CloseRefused(Top)
  /\ changes' = [k \in Keys |-> Committed(k)]
  /\ dirty_keys' = [m \in Maps |-> DirtyCommitted(dirty_keys[m])]
  /\ panicked' = (panicked \/ CloseBreaks(TRUE))
  /\ UNCHANGED <<num_client_transactions, execution_mode, children>>

-----------------------------------------------------------------------------
(* The change of hands between client and runtime.                         *)

enter_runtime ==
  /\ execution_mode' = [m \in Maps |-> IF m \in Live THEN "Runtime" ELSE execution_mode[m]]
  /\ num_client_transactions' =
       [m \in Maps |-> IF m \in Live THEN Depth(m) ELSE num_client_transactions[m]]
  /\ panicked' = (panicked \/ \E m \in Live : execution_mode[m] = "Runtime")
  /\ UNCHANGED <<changes, dirty_keys, children>>

\* exit_runtime up to its loop.
exit_runtime ==
  /\ execution_mode' = [m \in Maps |-> IF m \in Live THEN "Client" ELSE execution_mode[m]]
  /\ panicked' = (panicked \/ \E m \in Live : execution_mode[m] = "Client")
  /\ UNCHANGED <<changes, dirty_keys, num_client_transactions, children>>

\* One turn of its loop, in all maps: a rollback that keeps empty maps.
exit_rollback ==
  /\ has_open_runtime_transactions(Top)
  /\ changes' = [k \in Keys |-> IF has_open_runtime_transactions(MapOf[k])
                                THEN RolledBack(k) ELSE changes[k]]
  /\ dirty_keys' = [m \in Maps |-> IF m \in Live /\ has_open_runtime_transactions(m)
                                   THEN FrontOf(dirty_keys[m]) ELSE dirty_keys[m]]
  /\ panicked' = (panicked \/ CloseBreaks(FALSE))
  /\ UNCHANGED <<num_client_transactions, execution_mode, children>>

\* drain_storage_changes: the overlay is as new.
drain ==
  /\ changes' = [k \in Keys |-> <<>>]
  /\ dirty_keys' = [m \in Maps |-> <<>>]
  /\ num_client_transactions' = [m \in Maps |-> 0]
  /\ execution_mode' = [m \in Maps |-> "Client"]
  /\ children' = {}
  /\ panicked' = (panicked \/ \E m \in {Top} \cup children : Depth(m) > 0)

-----------------------------------------------------------------------------
(* What the transactions see of the values.                                *)

Current == [k \in Keys |-> Storage(k)]
Entry == [value : Changes, level : Nat]
Viewed(ks) == [ks -> Changes \cup {Absent}]

\* What transaction n sees of a key with the values e: the latest value of
\* level n or less.
Seen(e, n) == {i \in DOMAIN e : e[i].level <= n}
Latest(e, n) == {e[i].value : i \in {x \in Seen(e, n) : \A j \in Seen(e, n) : j <= x}}
ViewOf(e, n) == IF Latest(e, n) = {} THEN Absent ELSE CHOOSE v \in Latest(e, n) : TRUE
=============================================================================
