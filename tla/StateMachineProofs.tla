------------------------- MODULE StateMachineProofs -------------------------
(***************************************************************************)
(* Proofs about StateMachine, for any keys, child tries, values, depths,   *)
(* and numbers of calls and operations.                                    *)
(***************************************************************************)
EXTENDS StateMachine, OverlayProofs

\* Most steps are first-order; those that need arithmetic, or sequences, say so.
USE Zenon

-----------------------------------------------------------------------------
(* The course of a call.                                                   *)

ControlType ==
  /\ backend \in [Keys -> 0 .. MaxLen \cup {Absent}]
  /\ cache \in {NoCache} \cup Viewed(TrieKeys)
  /\ closure \in {"no", "open", "called"}
  /\ pc \in {"idle", "strategy", "enter", "runtime", "leaving", "returned", "finish"}
  /\ strategy \in Strategies
  /\ attempt \in {1, 2}
  /\ native \in BOOLEAN
  /\ result \in {"ok", "err"}
  /\ settled \in Viewed(Keys)
  /\ behind \in BOOLEAN
  /\ calls \in 0 .. MaxCalls
  /\ ops \in 0 .. MaxOps

\* The transactions the client has open at each step of a call: one for the
\* call or its closure, and one more for the first execution with a strategy
\* that may need a second.
ClientDepth ==
  IF pc = "idle" THEN IF closure = "no" THEN 0 ELSE 1
  ELSE IF pc \in {"strategy", "finish"} THEN 1
  ELSE IF strategy \in {"NativeElseWasm", "Both"} /\ attempt = 1 THEN 2 ELSE 1

\* The transactions up to this one see what the last committed call left.
SettledTo ==
  IF pc = "idle" THEN IF closure = "open" THEN 1 ELSE 0
  ELSE IF pc = "strategy" THEN 1
  ELSE IF pc = "enter" THEN ClientDepth
  ELSE IF pc = "finish" THEN 0
  ELSE ClientDepth - 1

ControlInv ==
  /\ IF pc \in {"runtime", "leaving"}
     THEN num_client_transactions[Top] = ClientDepth /\ Depth(Top) >= ClientDepth
     ELSE Depth(Top) = ClientDepth
  /\ execution_mode[Top] = IF pc = "runtime" THEN "Runtime" ELSE "Client"
  /\ closure = "called" => pc = "idle"
  /\ pc \in {"idle", "strategy"} => attempt = 1

SettledInv ==
  \A k \in Keys : \A n \in 0 .. SettledTo : ViewOf(changes[k], n) = settled[k]

IInv == OverlayInv /\ ~panicked /\ ControlType /\ ControlInv /\ SettledInv /\ CacheFresh

\* The overlay returns a change, or nothing.
LEMMA StorageType ==
  ASSUME OverlayInv, NEW k \in Keys
  PROVE  Storage(k) \in Changes \cup {Absent}
<1>1. CASE changes[k] = <<>>
  BY <1>1 DEF Storage
<1>2. CASE changes[k] # <<>>
  <2>1. LastOf(changes[k]) \in Entry
    BY SMT, <1>2, OverlayFacts DEF LastOf
  <2> QED BY <1>2, <2>1 DEF Storage, Entry
<1> QED BY <1>1, <1>2

\* A storage operation that writes.
LEMMA WriteInv ==
  ASSUME IInv, RuntimeOp,
         NEW m \in Maps, NEW K \in SUBSET KeysOf(m), NEW w \in [K -> Changes], Set(m, w),
         mark_dirty \/ (m = Offchain /\ UNCHANGED <<cache, behind>>)
  PROVE  IInv'
<1>1. pc = "runtime" /\ UNCHANGED <<backend, cvars>> /\ ops' \in 0 .. MaxOps
  BY SMT, WrittenAssumption DEF RuntimeOp, IInv, ControlType
<1>2. /\ OverlayInv' /\ Depth(Top)' = Depth(Top)
      /\ num_client_transactions'[Top] = num_client_transactions[Top]
      /\ execution_mode'[Top] = execution_mode[Top] /\ UNCHANGED panicked
      /\ \A k \in Keys : \A n \in 0 .. Depth(Top) : ViewOf(changes'[k], n) =
              IF k \in K /\ n = Depth(Top) THEN w[k] ELSE ViewOf(changes[k], n)
  BY SMT, SetStep DEF IInv
<1>3. ControlType'
  BY <1>1 DEF IInv, ControlType, cvars, mark_dirty
<1>4. ControlInv' /\ ClientDepth' = ClientDepth /\ SettledTo' = ClientDepth - 1
  BY <1>1, <1>2 DEF IInv, ControlInv, ClientDepth, SettledTo, cvars
<1>5. SettledInv'
  <2>1. ClientDepth \in {1, 2} /\ Depth(Top) \in Nat /\ Depth(Top) >= ClientDepth
        /\ SettledTo = ClientDepth - 1
    BY <1>1, OverlayFacts DEF IInv, ControlInv, ClientDepth, SettledTo
  <2>2. ASSUME NEW k \in Keys, NEW n \in 0 .. ClientDepth - 1
        PROVE  ViewOf(changes'[k], n) = settled[k]
    <3>1. n \in 0 .. Depth(Top) /\ n # Depth(Top) /\ n \in 0 .. SettledTo
      BY SMT, <2>1
    <3> QED BY <1>2, <3>1 DEF IInv, SettledInv
  <2> QED BY <1>1, <1>4, <2>2 DEF SettledInv, cvars
<1>6. CacheFresh'
  <2>1. CASE mark_dirty
    BY <2>1 DEF mark_dirty, CacheFresh
  <2>2. CASE m = Offchain /\ UNCHANGED <<cache, behind>>
    <3>1. ASSUME NEW k \in TrieKeys PROVE Storage(k)' = Storage(k)
      <4>1. k \in Keys /\ k \notin K
        BY <2>2 DEF TrieKeys, KeysOf
      <4>2. Depth(Top) \in 0 .. Depth(Top)
        BY SMT, OverlayFacts DEF IInv
      <4>3. ViewOf(changes'[k], Depth(Top)) = ViewOf(changes[k], Depth(Top))
        BY <1>2, <4>1, <4>2
      <4>4. Storage(k) = ViewOf(changes[k], Depth(Top))
        BY <4>1, CurrentView DEF IInv
      <4>5. Storage(k)' = ViewOf(changes'[k], Depth(Top)')
        BY <1>2, <4>1, NextView, OverlayFacts DEF IInv
      <4> QED BY <1>2, <4>3, <4>4, <4>5
    <3>2. TrieChanges' = TrieChanges
      BY <3>1 DEF TrieChanges
    <3> QED BY <2>2, <3>2 DEF CacheFresh, IInv
  <2> QED BY <2>1, <2>2
<1> QED BY <1>2, <1>3, <1>4, <1>5, <1>6 DEF IInv

\* Steps that leave the overlay alone.
LEMMA SameOverlay ==
  ASSUME OverlayInv, UNCHANGED ovars
  PROVE  /\ OverlayInv' /\ Depth(Top)' = Depth(Top) /\ UNCHANGED panicked
         /\ num_client_transactions'[Top] = num_client_transactions[Top]
         /\ execution_mode'[Top] = execution_mode[Top]
         /\ changes' = changes /\ TrieChanges' = TrieChanges
<1>1. Live' = Live /\ (\A m \in Maps : Depth(m)' = Depth(m)) /\ Live \subseteq Maps /\ Top \in Maps
  BY OverlayFacts DEF ovars, Live, Depth
<1>2. \A k \in Keys : DirtyOK(k) => DirtyOK(k)'
  BY <1>1 DEF DirtyOK, ovars
<1>3. OverlayType'
  BY DEF OverlayInv, OverlayType, ovars
<1>4. OverlayInv'
  BY <1>1, <1>2, <1>3 DEF OverlayInv, ovars
<1>5. TrieChanges' = TrieChanges
  BY DEF TrieChanges, Storage, ovars
<1> QED BY <1>1, <1>4, <1>5 DEF ovars

\* A commit and a new transaction leave the current values alone.
LEMMA SameCurrent ==
  ASSUME OverlayInv, commit_transaction \/ start_transaction, NEW k \in Keys
  PROVE  Storage(k)' = Storage(k)
<1>1. CASE commit_transaction
  <2>1. /\ OverlayInv' /\ Depth(Top)' = Depth(Top) - 1 /\ Depth(Top)' \in 0 .. Depth(Top) - 1
        /\ ViewOf(changes'[k], Depth(Top) - 1) = ViewOf(changes[k], Depth(Top))
    BY SMT, <1>1, CommitStep, OverlayFacts
  <2> QED BY SMT, <2>1, CurrentView, NextView
<1>2. CASE start_transaction
  <2>1. OverlayInv' /\ Depth(Top)' = Depth(Top) + 1 /\ Depth(Top)' \in Nat /\ changes' = changes
        /\ ViewOf(changes'[k], Depth(Top) + 1) = ViewOf(changes[k], Depth(Top))
    BY SMT, <1>2, StartStep, OverlayFacts
  <2> QED BY <2>1, CurrentView, NextView
<1> QED BY <1>1, <1>2

\* Nor do they change what the tries hold.
LEMMA SameTrieChanges ==
  ASSUME OverlayInv, commit_transaction \/ start_transaction
  PROVE  TrieChanges' = TrieChanges
<1>1. \A k \in TrieKeys : Storage(k)' = Storage(k)
  BY SameCurrent DEF TrieKeys
<1> QED BY <1>1 DEF TrieChanges

\* The other storage operations.
LEMMA TransactionInv ==
  ASSUME IInv, \/ storage_root \/ storage_start_transaction
               \/ storage_rollback_transaction \/ storage_commit_transaction
  PROVE  IInv'
<1>1. /\ pc = "runtime" /\ UNCHANGED <<backend, cvars>> /\ ops' \in 0 .. MaxOps
      /\ OverlayInv /\ ~panicked /\ CacheFresh
  BY SMT, WrittenAssumption DEF RuntimeOp, IInv, ControlType, storage_root, storage_start_transaction,
    storage_rollback_transaction, storage_commit_transaction
<1>2. /\ ClientDepth \in {1, 2} /\ Depth(Top) \in Nat /\ Depth(Top) >= ClientDepth
      /\ num_client_transactions[Top] = ClientDepth /\ SettledTo = ClientDepth - 1
      /\ execution_mode[Top] = "Runtime"
      /\ ClientDepth' = ClientDepth /\ SettledTo' = SettledTo
  BY <1>1, OverlayFacts DEF IInv, ControlInv, ClientDepth, SettledTo, cvars
<1>3. SUFFICES /\ OverlayInv' /\ UNCHANGED panicked /\ cache' \in {NoCache} \cup Viewed(TrieKeys)
               /\ behind' \in BOOLEAN /\ Depth(Top)' >= ClientDepth
               /\ num_client_transactions'[Top] = num_client_transactions[Top]
               /\ execution_mode'[Top] = execution_mode[Top]
               /\ \A k \in Keys : \A n \in 0 .. SettledTo :
                    ViewOf(changes'[k], n) = ViewOf(changes[k], n)
               /\ CacheFresh'
  <2>1. ASSUME cache' \in {NoCache} \cup Viewed(TrieKeys), behind' \in BOOLEAN PROVE ControlType'
    BY <1>1, <2>1 DEF IInv, ControlType, cvars
  <2>2. ASSUME /\ Depth(Top)' >= ClientDepth
               /\ num_client_transactions'[Top] = num_client_transactions[Top]
               /\ execution_mode'[Top] = execution_mode[Top]
        PROVE  ControlInv'
    BY <1>1, <1>2, <2>2 DEF IInv, ControlInv, cvars
  <2>3. ASSUME \A k \in Keys : \A n \in 0 .. SettledTo :
                    ViewOf(changes'[k], n) = ViewOf(changes[k], n)
        PROVE  SettledInv'
    BY <1>1, <1>2, <2>3 DEF IInv, SettledInv, cvars
  <2> QED BY <1>1, <2>1, <2>2, <2>3 DEF IInv
<1>4. CASE storage_root
  <2>1. UNCHANGED ovars /\ behind' = behind /\ cache' = IF cache = NoCache THEN TrieChanges ELSE cache
    BY <1>4 DEF storage_root
  <2>2. TrieChanges \in Viewed(TrieKeys)
    BY <1>1, StorageType DEF TrieChanges, Viewed, TrieKeys
  <2>3. CacheFresh'
    BY <1>1, <2>1, SameOverlay DEF CacheFresh
  <2> QED BY <1>1, <1>2, <2>1, <2>2, <2>3, SameOverlay DEF IInv, ControlType
<1>5. CASE storage_start_transaction
  <2>1. start_transaction /\ UNCHANGED <<cache, behind>>
    BY <1>5 DEF storage_start_transaction
  <2>2. /\ OverlayInv' /\ Depth(Top)' = Depth(Top) + 1
        /\ UNCHANGED <<changes, num_client_transactions, execution_mode, panicked>>
    BY <1>1, <2>1, StartStep
  <2>3. CacheFresh'
    BY <1>1, <2>1, SameTrieChanges DEF CacheFresh
  <2> QED BY SMT, <1>2, <2>1, <2>2, <2>3 DEF IInv, ControlType
<1>6. CASE storage_rollback_transaction
  <2>1. mark_dirty /\ (rollback_transaction \/ UNCHANGED ovars)
    BY <1>6 DEF storage_rollback_transaction
  <2>2. CacheFresh' /\ cache' = NoCache /\ behind' = FALSE
    BY <2>1 DEF mark_dirty, CacheFresh
  <2>3. CASE UNCHANGED ovars
    BY <1>1, <1>2, <2>2, <2>3, SameOverlay
  <2>4. CASE rollback_transaction
    <3>1. /\ OverlayInv' /\ ~CloseRefused(Top) /\ Depth(Top)' = Depth(Top) - 1
          /\ num_client_transactions'[Top] = num_client_transactions[Top]
          /\ execution_mode'[Top] = execution_mode[Top] /\ UNCHANGED panicked
          /\ \A k \in Keys : \A n \in 0 .. Depth(Top) - 1 :
              ViewOf(changes'[k], n) = ViewOf(changes[k], n)
      BY <1>1, <2>4, RollbackStep
    <3>2. Depth(Top) > ClientDepth
      BY <1>2, <3>1 DEF CloseRefused, has_open_runtime_transactions
    <3>3. \A n \in 0 .. SettledTo : n \in 0 .. Depth(Top) - 1
      BY SMT, <1>2, <3>2
    <3>4. \A k \in Keys : \A n \in 0 .. SettledTo : ViewOf(changes'[k], n) = ViewOf(changes[k], n)
      BY <3>1, <3>3
    <3>5. Depth(Top)' >= ClientDepth
      BY SMT, <1>2, <3>1, <3>2
    <3> QED BY <2>2, <3>1, <3>4, <3>5
  <2> QED BY <2>1, <2>3, <2>4
<1>7. CASE storage_commit_transaction
  <2>1. UNCHANGED <<cache, behind>> /\ (commit_transaction \/ UNCHANGED ovars)
    BY <1>7 DEF storage_commit_transaction
  <2>2. cache' \in {NoCache} \cup Viewed(TrieKeys) /\ behind' \in BOOLEAN
    BY <2>1 DEF IInv, ControlType
  <2>3. CASE UNCHANGED ovars
    <3>1. CacheFresh'
      BY <1>1, <2>1, <2>3, SameOverlay DEF CacheFresh
    <3> QED BY <1>1, <1>2, <2>2, <2>3, <3>1, SameOverlay
  <2>4. CASE commit_transaction
    <3>1. /\ OverlayInv' /\ ~CloseRefused(Top) /\ Depth(Top)' = Depth(Top) - 1
          /\ UNCHANGED <<num_client_transactions, execution_mode, panicked>>
          /\ \A k \in Keys : \A n \in 0 .. Depth(Top) - 1 : ViewOf(changes'[k], n) =
              ViewOf(changes[k], IF n = Depth(Top) - 1 THEN Depth(Top) ELSE n)
      BY <1>1, <2>4, CommitStep
    <3>2. Depth(Top) > ClientDepth
      BY <1>2, <3>1 DEF CloseRefused, has_open_runtime_transactions
    <3>3. \A n \in 0 .. SettledTo : n \in 0 .. Depth(Top) - 1 /\ n # Depth(Top) - 1
      BY SMT, <1>2, <3>2
    <3>4. CacheFresh'
      BY <1>1, <2>1, <2>4, SameTrieChanges DEF CacheFresh
    <3>5. \A k \in Keys : \A n \in 0 .. SettledTo : ViewOf(changes'[k], n) = ViewOf(changes[k], n)
      BY <3>1, <3>3
    <3> QED BY SMT, <1>2, <2>2, <3>1, <3>2, <3>4, <3>5
  <2> QED BY <2>1, <2>3, <2>4
<1> QED BY <1>4, <1>5, <1>6, <1>7

\* The storage operations of the runtime preserve the invariant.
LEMMA ExtInv ==
  ASSUME IInv, ExtStep
  PROVE  IInv'
<1>1. /\ Offchain \in Maps /\ Top \in Maps /\ Children \subseteq Maps /\ 0 .. MaxLen \subseteq Changes
      /\ Deleted \in Changes /\ \A k \in Keys : MapOf[k] \in Maps /\ {k} \in SUBSET KeysOf(MapOf[k])
  BY OverlayAssumption DEF Maps, KeysOf, Changes
<1>2. ASSUME NEW k \in Keys, NEW v \in Changes, RuntimeOp, set_storage(k, v),
             mark_dirty \/ (MapOf[k] = Offchain /\ UNCHANGED <<cache, behind>>)
      PROVE  IInv'
  <2>1. [x \in {k} |-> v] \in [{k} -> Changes]
    OBVIOUS
  <2> QED BY <1>1, <1>2, <2>1, WriteInv DEF set_storage
<1>3. ASSUME NEW k \in TrieKeys, NEW v \in Written[k], place_storage(k, v) PROVE IInv'
  <2>1. k \in Keys /\ v \in Changes
    BY WrittenAssumption DEF TrieKeys
  <2> QED BY <1>2, <1>3, <2>1 DEF place_storage
<1>4. ASSUME NEW k \in Keys \ TrieKeys, NEW v \in Written[k], set_offchain_storage(k, v) PROVE IInv'
  <2>1. k \in Keys /\ v \in Changes /\ MapOf[k] = Offchain
    BY WrittenAssumption DEF TrieKeys
  <2> QED BY <1>2, <1>4, <2>1 DEF set_offchain_storage
<1>5. ASSUME NEW k \in KeysOf(Top), storage_append(k) PROVE IInv'
  <2>1. k \in Keys
    BY DEF KeysOf
  <2>2. Appended(k, backend[k]) \in Changes
    <3>1. backend[k] \in 0 .. MaxLen \cup {Absent} /\ Storage(k) \in Changes \cup {Absent}
      BY <2>1, StorageType DEF IInv, ControlType
    <3>2. Appended(k, backend[k]) \in Nat /\ Appended(k, backend[k]) <= MaxLen
      BY SMT, <1>5, <3>1, OverlayAssumption DEF Appended, storage_append, Changes
    <3> QED BY SMT, <1>1, <3>2, OverlayAssumption
  <2> QED BY <1>2, <1>5, <2>1, <2>2 DEF storage_append
<1>6. ASSUME NEW m \in {Top} \cup Children, NEW P \in SUBSET KeysOf(m),
             NEW D \in SUBSET {k \in P : backend[k] # Absent}, clear_prefix(m, P, D)
      PROVE  IInv'
  <2> DEFINE K == {x \in P : changes[x] # <<>>} \cup D
             w == [k \in K |-> Deleted]
  <2>1. m \in Maps /\ K \in SUBSET KeysOf(m) /\ w \in [K -> Changes]
    BY <1>1
  <2>2. RuntimeOp /\ Set(m, w) /\ mark_dirty
    BY <1>6 DEF clear_prefix, clear
  <2> HIDE DEF K, w
  <2> QED BY <2>1, <2>2, WriteInv
<1> QED BY <1>3, <1>4, <1>5, <1>6, TransactionInv DEF ExtStep

\* A client's rollback marks what is cached as outdated, a commit need not.
LEMMA ClientCloses ==
  ASSUME IInv, UNCHANGED cache
  PROVE  /\ CommitByClient => CacheFresh' /\ behind' \in BOOLEAN
         /\ RollbackBehindExt => CacheFresh' /\ behind' \in BOOLEAN
         /\ start_transaction /\ UNCHANGED behind => CacheFresh'
         /\ UNCHANGED <<ovars, behind>> => CacheFresh'
<1>1. OverlayInv /\ CacheFresh /\ behind \in BOOLEAN
  BY DEF IInv, ControlType
<1>2. ASSUME CommitByClient PROVE CacheFresh' /\ behind' \in BOOLEAN
  BY <1>1, <1>2, SameTrieChanges DEF CommitByClient, CacheFresh
<1>3. ASSUME RollbackBehindExt PROVE CacheFresh' /\ behind' \in BOOLEAN
  BY <1>3 DEF RollbackBehindExt, CacheFresh
<1>4. ASSUME start_transaction, UNCHANGED behind PROVE CacheFresh'
  BY <1>1, <1>4, SameTrieChanges DEF CacheFresh
<1>5. ASSUME UNCHANGED <<ovars, behind>> PROVE CacheFresh'
  BY <1>1, <1>5, SameOverlay DEF CacheFresh
<1> QED BY <1>2, <1>3, <1>4, <1>5

\* Steps that open a transaction, or none.
LEMMA OpenInv ==
  ASSUME IInv, ExecuteInTransaction \/ BeginCall \/ ApplyStrategy
  PROVE  IInv'
<1>1. OverlayInv /\ Depth(Top) \in Nat /\ ~panicked /\ Depth(Top) = ClientDepth
      /\ UNCHANGED <<cache, behind>> /\ execution_mode[Top] = "Client"
  BY OverlayFacts DEF IInv, ControlInv, ExecuteInTransaction, BeginCall, ApplyStrategy
<1>2. ControlType'
  BY SMT, WrittenAssumption DEF IInv, ControlType, ExecuteInTransaction, BeginCall, ApplyStrategy
<1>3. CASE start_transaction /\ ClientDepth' = ClientDepth + 1 /\ SettledTo' = ClientDepth + 1
           /\ SettledTo = ClientDepth
  <2>1. /\ OverlayInv' /\ Depth(Top)' = Depth(Top) + 1
        /\ UNCHANGED <<changes, num_client_transactions, execution_mode, panicked>>
        /\ \A k \in Keys : ViewOf(changes'[k], Depth(Top) + 1) = ViewOf(changes[k], Depth(Top))
    BY <1>1, <1>3, StartStep
  <2>2. ControlInv'
    BY <1>1, <1>3, <2>1 DEF IInv, ControlInv, ExecuteInTransaction, BeginCall, ApplyStrategy
  <2>3. SettledInv'
    <3>1. UNCHANGED settled
      BY DEF ExecuteInTransaction, BeginCall, ApplyStrategy
    <3>2. ASSUME NEW k \in Keys, NEW n \in 0 .. ClientDepth + 1
          PROVE  ViewOf(changes'[k], n) = settled[k]
      <4>1. CASE n = ClientDepth + 1
        <5>1. ClientDepth \in 0 .. SettledTo
          BY SMT, <1>1, <1>3
        <5> QED BY <1>1, <2>1, <4>1, <5>1 DEF IInv, SettledInv
      <4>2. CASE n # ClientDepth + 1
        <5>1. n \in 0 .. SettledTo
          BY SMT, <1>1, <1>3, <4>2
        <5> QED BY <2>1, <5>1 DEF IInv, SettledInv
      <4> QED BY <4>1, <4>2
    <3> QED BY <1>3, <3>1, <3>2 DEF SettledInv
  <2>4. CacheFresh'
    BY <1>1, <1>3, ClientCloses
  <2> QED BY <1>1, <1>2, <2>1, <2>2, <2>3, <2>4 DEF IInv
<1>4. CASE UNCHANGED ovars /\ ClientDepth' = ClientDepth /\ SettledTo' = SettledTo
  <2>1. /\ OverlayInv' /\ Depth(Top)' = Depth(Top) /\ UNCHANGED panicked
        /\ execution_mode'[Top] = execution_mode[Top] /\ changes' = changes
    BY <1>1, <1>4, SameOverlay
  <2>2. ControlInv'
    BY <1>1, <1>4, <2>1 DEF IInv, ControlInv, ExecuteInTransaction, BeginCall, ApplyStrategy
  <2>3. SettledInv'
    BY <1>4, <2>1 DEF IInv, SettledInv, ExecuteInTransaction, BeginCall, ApplyStrategy
  <2>4. CacheFresh'
    BY <1>1, <1>4, ClientCloses
  <2> QED BY <1>1, <1>2, <2>1, <2>2, <2>3, <2>4 DEF IInv
<1>5. CASE ExecuteInTransaction
  BY SMT, <1>3, <1>5 DEF ExecuteInTransaction, ClientDepth, SettledTo
<1>6. CASE BeginCall
  <2>1. CASE closure = "no"
    BY SMT, <1>3, <1>6, <2>1 DEF BeginCall, ClientDepth, SettledTo
  <2>2. CASE closure # "no"
    <3>1. closure = "open"
      BY <1>6, <2>2 DEF BeginCall, IInv, ControlType
    <3> QED BY <1>4, <1>6, <3>1 DEF BeginCall, ClientDepth, SettledTo
  <2> QED BY <2>1, <2>2
<1>7. CASE ApplyStrategy
  <2>1. attempt = 1
    BY <1>7 DEF IInv, ControlInv, ApplyStrategy
  <2>2. CASE strategy \in {"NativeElseWasm", "Both"}
    BY SMT, <1>3, <1>7, <2>1, <2>2 DEF ApplyStrategy, ClientDepth, SettledTo
  <2>3. CASE strategy \notin {"NativeElseWasm", "Both"}
    BY <1>4, <1>7, <2>1, <2>3 DEF ApplyStrategy, ClientDepth, SettledTo
  <2> QED BY <2>2, <2>3
<1> QED BY <1>5, <1>6, <1>7

\* Steps into and out of the runtime.
LEMMA RuntimeInv ==
  ASSUME IInv, ExecuteAux \/ (\E r \in {"ok", "err"} : ExitRuntime(r)) \/ ExitRollback \/ ExitDone
  PROVE  IInv'
<1>1. /\ OverlayInv /\ Depth(Top) \in Nat /\ ~panicked /\ UNCHANGED <<cache, settled>>
      /\ ClientDepth \in {1, 2} /\ ClientDepth' = ClientDepth
      /\ pc # "enter" => SettledTo = ClientDepth - 1
      /\ SettledTo' = ClientDepth - 1
  BY OverlayFacts DEF IInv, ClientDepth, SettledTo, ExecuteAux, ExitRuntime, ExitRollback, ExitDone, cvars
<1>2. ControlType'
  BY DEF IInv, ControlType, ExecuteAux, ExitRuntime, ExitRollback, ExitDone, cvars
<1>3. CASE ExecuteAux
  <2>1. /\ OverlayInv' /\ UNCHANGED <<changes, dirty_keys, panicked, behind>>
        /\ num_client_transactions'[Top] = Depth(Top) /\ execution_mode'[Top] = "Runtime"
    BY <1>1, <1>3, EnterStep DEF ExecuteAux, IInv, ControlInv
  <2>2. ControlInv'
    BY SMT, <1>1, <1>3, <2>1 DEF ExecuteAux, IInv, ControlInv, Depth
  <2>3. SettledInv'
    BY SMT, <1>1, <1>3, <2>1 DEF ExecuteAux, IInv, SettledInv, SettledTo
  <2>4. CacheFresh'
    BY <1>1, <2>1 DEF CacheFresh, TrieChanges, Storage, IInv
  <2> QED BY <1>1, <1>2, <2>1, <2>2, <2>3, <2>4 DEF IInv
<1>4. ASSUME NEW r \in {"ok", "err"}, ExitRuntime(r) PROVE IInv'
  <2>1. /\ OverlayInv' /\ UNCHANGED <<changes, dirty_keys, num_client_transactions, panicked, behind>>
        /\ execution_mode'[Top] = "Client"
    BY <1>1, <1>4, ExitStep DEF ExitRuntime, IInv, ControlInv
  <2>2. ControlInv'
    BY <1>1, <1>4, <2>1 DEF ExitRuntime, IInv, ControlInv, Depth
  <2>3. SettledInv'
    BY <1>1, <1>4, <2>1 DEF ExitRuntime, IInv, SettledInv
  <2>4. CacheFresh'
    BY <1>1, <2>1 DEF CacheFresh, TrieChanges, Storage, IInv
  <2> QED BY <1>1, <1>2, <2>1, <2>2, <2>3, <2>4 DEF IInv
<1>5. CASE ExitRollback
  <2>1. /\ OverlayInv' /\ Depth(Top) > num_client_transactions[Top] /\ Depth(Top)' = Depth(Top) - 1
        /\ UNCHANGED <<num_client_transactions, execution_mode, panicked>>
        /\ \A k \in Keys : \A n \in 0 .. Depth(Top) - 1 :
              ViewOf(changes'[k], n) = ViewOf(changes[k], n)
    BY <1>1, <1>5, ExitRollbackStep DEF ExitRollback, IInv, ControlInv
  <2>2. num_client_transactions[Top] = ClientDepth
    BY <1>5 DEF ExitRollback, IInv, ControlInv
  <2>3. ControlInv'
    BY SMT, <1>1, <1>5, <2>1, <2>2 DEF ExitRollback, IInv, ControlInv, cvars
  <2>4. \A n \in 0 .. SettledTo' : n \in 0 .. SettledTo /\ n \in 0 .. Depth(Top) - 1
    BY SMT, <1>1, <1>5, <2>1, <2>2 DEF ExitRollback
  <2>5. SettledInv'
    BY <1>1, <2>1, <2>4 DEF IInv, SettledInv
  <2>6. CacheFresh'
    BY <1>1, <1>5 DEF ExitRollback, CacheFresh
  <2> QED BY <1>1, <1>2, <2>1, <2>3, <2>5, <2>6 DEF IInv
<1>6. CASE ExitDone
  <2>1. /\ OverlayInv' /\ Depth(Top)' = Depth(Top) /\ UNCHANGED <<panicked, behind>>
        /\ num_client_transactions'[Top] = num_client_transactions[Top]
        /\ execution_mode'[Top] = execution_mode[Top] /\ changes' = changes
        /\ TrieChanges' = TrieChanges
    BY <1>1, <1>6, SameOverlay DEF ExitDone
  <2>2. Depth(Top) = ClientDepth
    BY SMT, <1>1, <1>6 DEF ExitDone, IInv, ControlInv, has_open_runtime_transactions
  <2>3. ControlInv'
    BY <1>1, <1>6, <2>1, <2>2 DEF ExitDone, IInv, ControlInv
  <2>4. SettledInv'
    BY <1>1, <1>6, <2>1 DEF ExitDone, IInv, SettledInv
  <2>5. CacheFresh'
    BY <1>1, <2>1 DEF CacheFresh, IInv
  <2> QED BY <1>1, <1>2, <2>1, <2>3, <2>4, <2>5 DEF IInv
<1> QED BY <1>3, <1>4, <1>5, <1>6

\* What the client sees after it closes its topmost transaction, if the others
\* see what the last committed call left.
LEMMA ClosedView ==
  ASSUME IInv, Depth(Top) = ClientDepth, ClientDepth > 0, NEW l \in Nat, l <= SettledTo,
         l < Depth(Top), rollback_transaction \/ (commit_transaction /\ l < Depth(Top) - 1)
  PROVE  \A k \in Keys : \A n \in 0 .. l : ViewOf(changes'[k], n) = settled[k]
<1>1. OverlayInv /\ Depth(Top) \in Nat /\ SettledTo \in Nat
  BY SMT, OverlayFacts DEF IInv, SettledTo, ClientDepth
<1>2. \A n \in 0 .. l : n \in 0 .. Depth(Top) - 1 /\ n \in 0 .. SettledTo
  BY SMT, <1>1
<1>3. ASSUME NEW k \in Keys, NEW n \in 0 .. l PROVE ViewOf(changes'[k], n) = ViewOf(changes[k], n)
  <2>1. CASE rollback_transaction
    BY <1>1, <1>2, <2>1, RollbackStep
  <2>2. CASE commit_transaction /\ l < Depth(Top) - 1
    <3>1. n # Depth(Top) - 1
      BY SMT, <1>1, <2>2
    <3> QED BY <1>1, <1>2, <2>2, <3>1, CommitStep
  <2> QED BY <2>1, <2>2
<1> QED BY <1>2, <1>3 DEF IInv, SettledInv

\* The client has the overlay at the end of an execution, of a call and of a
\* closure; closing its transaction leaves it one less.
LEMMA ClosingFacts ==
  ASSUME IInv, Returned \/ CommitOrRollback \/ EndTransaction
  PROVE  /\ OverlayInv /\ Depth(Top) \in Nat /\ ~panicked /\ UNCHANGED cache
         /\ Depth(Top) = ClientDepth /\ execution_mode[Top] = "Client" /\ ClientDepth \in {1, 2}
         /\ rollback_transaction \/ commit_transaction =>
              /\ OverlayInv' /\ Depth(Top)' = ClientDepth - 1
              /\ execution_mode'[Top] = "Client" /\ ~panicked'
<1>1. /\ OverlayInv /\ Depth(Top) \in Nat /\ ~panicked /\ UNCHANGED cache
      /\ Depth(Top) = ClientDepth /\ execution_mode[Top] = "Client" /\ ClientDepth \in {1, 2}
  BY OverlayFacts DEF IInv, ControlInv, Returned, CommitOrRollback, EndTransaction, ClientDepth
<1>2. ASSUME rollback_transaction
      PROVE  /\ OverlayInv' /\ Depth(Top)' = Depth(Top) - 1
             /\ execution_mode'[Top] = execution_mode[Top] /\ UNCHANGED panicked
  BY <1>1, <1>2, RollbackStep
<1>3. ASSUME commit_transaction
      PROVE  /\ OverlayInv' /\ Depth(Top)' = Depth(Top) - 1
             /\ execution_mode'[Top] = execution_mode[Top] /\ UNCHANGED panicked
  BY <1>1, <1>3, CommitStep
<1> QED BY SMT, <1>1, <1>2, <1>3

\* The end of an execution.
LEMMA ReturnedInv ==
  ASSUME IInv, Returned
  PROVE  IInv'
<1>1. /\ OverlayInv /\ Depth(Top) \in Nat /\ ~panicked /\ UNCHANGED cache
      /\ Depth(Top) = ClientDepth /\ execution_mode[Top] = "Client" /\ ClientDepth \in {1, 2}
  BY ClosingFacts
<1>2. rollback_transaction \/ commit_transaction =>
        OverlayInv' /\ Depth(Top)' = ClientDepth - 1 /\ execution_mode'[Top] = "Client" /\ ~panicked'
  BY ClosingFacts
<1>3. CASE UNCHANGED <<ovars, behind>> /\ ClientDepth = 1 /\ pc' = "finish" /\ UNCHANGED attempt
  <2>1. /\ OverlayInv' /\ Depth(Top)' = Depth(Top) /\ UNCHANGED panicked
        /\ execution_mode'[Top] = execution_mode[Top] /\ changes' = changes
    BY <1>1, <1>3, SameOverlay
  <2>2. ControlType' /\ ControlInv'
    BY <1>1, <1>3, <2>1 DEF IInv, ControlType, ControlInv, Returned, ClientDepth
  <2>3. SettledInv'
    BY SMT, <1>1, <1>3, <2>1 DEF IInv, SettledInv, SettledTo, Returned
  <2> QED BY <1>1, <1>3, <2>1, <2>2, <2>3, ClientCloses DEF IInv
<1>4. CASE RollbackBehindExt /\ ClientDepth = 2 /\ attempt' = 2 /\ pc' = "enter"
  <2>1. /\ rollback_transaction
        /\ OverlayInv' /\ Depth(Top)' = 1 /\ execution_mode'[Top] = "Client" /\ ~panicked'
    BY SMT, <1>2, <1>4 DEF RollbackBehindExt
  <2>2. ControlType'
    BY <1>1, <1>4, ClientCloses DEF IInv, ControlType, Returned
  <2>3. ControlInv'
    BY <1>4, <2>1 DEF IInv, ControlInv, Returned, ClientDepth
  <2>4. SettledTo = 1 /\ SettledTo' = 1 /\ UNCHANGED settled
    BY SMT, <1>4 DEF SettledTo, ClientDepth, Returned
  <2>5. SettledInv'
    BY SMT, <1>1, <1>4, <2>1, <2>4, ClosedView DEF SettledInv
  <2> QED BY <1>1, <1>4, <2>1, <2>2, <2>3, <2>5, ClientCloses DEF IInv
<1>5. CASE CommitByClient /\ ClientDepth = 2 /\ attempt' = 1 /\ pc' = "finish"
  <2>1. /\ commit_transaction
        /\ OverlayInv' /\ Depth(Top)' = 1 /\ execution_mode'[Top] = "Client" /\ ~panicked'
    BY SMT, <1>2, <1>5 DEF CommitByClient
  <2>2. ControlType'
    BY <1>1, <1>5, ClientCloses DEF IInv, ControlType, Returned
  <2>3. ControlInv'
    BY <1>5, <2>1 DEF IInv, ControlInv, Returned, ClientDepth
  <2>4. SettledTo = 1 /\ SettledTo' = 0 /\ UNCHANGED settled
    BY SMT, <1>5 DEF SettledTo, ClientDepth, Returned
  <2>5. SettledInv'
    BY SMT, <1>1, <1>5, <2>1, <2>4, ClosedView DEF SettledInv
  <2> QED BY <1>1, <1>5, <2>1, <2>2, <2>3, <2>5, ClientCloses DEF IInv
<1> QED BY <1>3, <1>4, <1>5 DEF Returned, ClientDepth, IInv, ControlType, Strategies

\* The end of a call, and of a closure.
LEMMA CloseInv ==
  ASSUME IInv, CommitOrRollback \/ EndTransaction
  PROVE  IInv'
<1>1. /\ OverlayInv /\ Depth(Top) \in Nat /\ ~panicked /\ UNCHANGED cache
      /\ Depth(Top) = ClientDepth /\ execution_mode[Top] = "Client" /\ ClientDepth \in {1, 2}
  BY ClosingFacts
<1>2. rollback_transaction \/ commit_transaction =>
        OverlayInv' /\ Depth(Top)' = ClientDepth - 1 /\ execution_mode'[Top] = "Client" /\ ~panicked'
  BY ClosingFacts
<1>3. ASSUME (CommitOrRollback /\ closure = "no") \/ EndTransaction
      PROVE  IInv'
  <2>1. /\ ClientDepth = 1 /\ SettledTo = 0 /\ SettledTo' = 0 /\ ClientDepth' = 0
        /\ pc' = "idle" /\ closure' = "no" /\ attempt' = 1
    BY <1>3 DEF IInv, ControlInv, CommitOrRollback, EndTransaction, ClientDepth, SettledTo
  <2>2. OverlayInv' /\ Depth(Top)' = 0 /\ execution_mode'[Top] = "Client" /\ ~panicked'
    BY SMT, <1>2, <1>3, <2>1
      DEF CommitOrRollback, EndTransaction, CommitByClient, RollbackBehindExt
  <2>3. ControlInv'
    BY <2>1, <2>2 DEF ControlInv
  <2>4. CASE CommitByClient /\ settled' = Current'
    <3>1. settled' \in Viewed(Keys)
      BY <1>1, <2>4, SameCurrent, StorageType DEF Viewed, Current, CommitByClient
    <3>2. ControlType'
      BY <1>3, <2>1, <2>4, <3>1, ClientCloses
        DEF IInv, ControlType, CommitOrRollback, EndTransaction
    <3>3. ASSUME NEW k \in Keys PROVE ViewOf(changes'[k], 0) = settled'[k]
      BY SMT, <2>2, <2>4, NextView DEF Current
    <3>4. SettledInv'
      BY SMT, <2>1, <3>3 DEF SettledInv
    <3> QED BY <1>1, <2>2, <2>3, <2>4, <3>2, <3>4, ClientCloses DEF IInv
  <2>5. CASE RollbackBehindExt /\ UNCHANGED settled
    <3>1. ControlType'
      BY <1>3, <2>1, <2>5, ClientCloses
        DEF IInv, ControlType, CommitOrRollback, EndTransaction
    <3>2. rollback_transaction
      BY <2>5 DEF RollbackBehindExt
    <3>3. SettledInv'
      BY SMT, <1>1, <2>1, <2>5, <3>2, ClosedView DEF SettledInv
    <3> QED BY <1>1, <2>2, <2>3, <2>5, <3>1, <3>3, ClientCloses DEF IInv
  <2> QED BY <1>3, <2>4, <2>5 DEF CommitOrRollback, EndTransaction
<1>4. CASE CommitOrRollback /\ closure # "no"
  <2>1. UNCHANGED <<ovars, behind, settled>> /\ closure' = "called" /\ pc' = "idle" /\ pc = "finish"
    BY <1>4 DEF CommitOrRollback
  <2>2. /\ OverlayInv' /\ Depth(Top)' = Depth(Top) /\ UNCHANGED panicked
        /\ execution_mode'[Top] = execution_mode[Top] /\ changes' = changes
    BY <1>1, <2>1, SameOverlay
  <2>3. ControlType' /\ ControlInv'
    BY <1>1, <1>4, <2>1, <2>2 DEF IInv, ControlType, ControlInv, CommitOrRollback, ClientDepth
  <2>4. SettledInv'
    BY <1>1, <2>1, <2>2 DEF IInv, SettledInv, SettledTo
  <2> QED BY <1>1, <2>1, <2>2, <2>3, <2>4, ClientCloses DEF IInv
<1> QED BY <1>3, <1>4

\* Taking the changes preserves it.
LEMMA DrainInv ==
  ASSUME IInv, IntoStorageChanges
  PROVE  IInv'
<1>1. /\ OverlayInv /\ ~panicked /\ Depth(Top) = 0 /\ drain
      /\ settled' = [k \in Keys |-> Absent] /\ cache' = NoCache /\ behind' = FALSE
      /\ UNCHANGED <<closure, pc, strategy, attempt, native, result, calls, ops>>
  BY DEF IInv, ControlInv, ClientDepth, IntoStorageChanges
<1>2. /\ OverlayInv' /\ UNCHANGED panicked /\ Depth(Top)' = 0
      /\ num_client_transactions'[Top] = 0 /\ execution_mode'[Top] = "Client"
      /\ \A k \in Keys : changes'[k] = <<>>
  BY <1>1, DrainStep
<1>3. ControlType'
  <2> DEFINE t == IF cache = NoCache THEN TrieChanges ELSE cache
  <2>1. t \in Viewed(TrieKeys)
    BY <1>1, StorageType DEF IInv, ControlType, TrieChanges, Viewed, TrieKeys
  <2>2. backend' = [k \in Keys |->
           IF k \notin TrieKeys \/ t[k] = Absent THEN backend[k]
           ELSE IF t[k] = Deleted THEN Absent ELSE t[k]]
    BY DEF IntoStorageChanges
  <2> HIDE DEF t
  <2>3. backend' \in [Keys -> 0 .. MaxLen \cup {Absent}]
    BY <2>1, <2>2 DEF IInv, ControlType, Viewed, Changes
  <2>4. settled' \in Viewed(Keys)
    BY <1>1 DEF Viewed
  <2> QED BY <1>1, <2>3, <2>4 DEF IInv, ControlType
<1>4. ControlInv'
  BY <1>1, <1>2 DEF IInv, ControlInv, ClientDepth, IntoStorageChanges
<1>5. SettledInv'
  BY SMT, <1>1, <1>2, NoView DEF SettledInv, SettledTo, IntoStorageChanges
<1>6. CacheFresh'
  BY <1>1 DEF CacheFresh
<1> QED BY <1>1, <1>2, <1>3, <1>4, <1>5, <1>6 DEF IInv

\* The inductive invariant.
THEOREM Invariance == Spec => []IInv
<1>1. Init => IInv
  <2> SUFFICES ASSUME Init PROVE IInv
    OBVIOUS
  <2>1. OverlayInv /\ ~panicked
    BY NewOverlay DEF Init
  <2>2. \A k \in Keys : Storage(k) = Absent /\ changes[k] = <<>>
    BY DEF Init, OverlayInit, Storage
  <2>3. Depth(Top) = 0 /\ execution_mode[Top] = "Client"
    BY OverlayAssumption DEF Init, OverlayInit, Depth, Maps
  <2>4. ControlType
    <3>1. settled \in Viewed(Keys)
      BY <2>2 DEF Init, Viewed, Current
    <3>2. backend \in [Keys -> 0 .. MaxLen \cup {Absent}]
      BY SMT, OverlayAssumption DEF Init
    <3>3. calls \in 0 .. MaxCalls /\ ops \in 0 .. MaxOps
      BY SMT, WrittenAssumption DEF Init
    <3> QED BY <3>1, <3>2, <3>3 DEF Init, ControlType
  <2>5. ControlInv
    BY <2>3 DEF Init, ControlInv, ClientDepth
  <2>6. SettledInv
    BY SMT, <2>2, NoView DEF Init, SettledInv, SettledTo, Current
  <2>7. CacheFresh
    BY DEF Init, CacheFresh
  <2> QED BY <2>1, <2>4, <2>5, <2>6, <2>7 DEF IInv
<1>2. IInv /\ [Next]_vars => IInv'
  <2> SUFFICES ASSUME IInv, [Next]_vars PROVE IInv'
    OBVIOUS
  <2>1. CASE ExtStep
    BY <2>1, ExtInv
  <2>2. CASE CallStep
    BY <2>2, OpenInv, RuntimeInv, ReturnedInv, CloseInv DEF CallStep
  <2>3. CASE IntoStorageChanges
    BY <2>3, DrainInv
  <2>4. CASE UNCHANGED vars
    <3>1. UNCHANGED ovars /\ UNCHANGED <<backend, cache, cvars, behind, ops>>
      BY <2>4 DEF vars
    <3>2. ControlType' /\ CacheFresh'
      BY <3>1, SameOverlay DEF IInv, ControlType, cvars, CacheFresh
    <3>3. ClientDepth' = ClientDepth /\ SettledTo' = SettledTo
      BY <3>1 DEF ClientDepth, SettledTo, cvars
    <3>4. ControlInv' /\ SettledInv'
      BY <3>1, <3>3, SameOverlay DEF IInv, ControlInv, SettledInv, cvars
    <3> QED BY SMT, <3>1, <3>2, <3>4, SameOverlay DEF IInv
  <2> QED BY <2>1, <2>2, <2>3, <2>4 DEF Next
<1> QED BY <1>1, <1>2, PTL DEF Spec

\* No expect() of the overlay fails: a transaction that the main trie closes is
\* open in every map, and what it wrote has a value to drop.
THEOREM Safety == Spec => [](TypeOK /\ NoPanic)
<1>1. IInv => TypeOK
  BY DEF IInv, OverlayInv, OverlayType, ControlType, TypeOK
<1>2. IInv => NoPanic
  BY DEF IInv, NoPanic
<1> QED BY <1>1, <1>2, Invariance, PTL

\* A call that failed, or is about to be executed again, has left nothing behind.
THEOREM FailureSafety == Spec => []FailureAtomic
<1>1. IInv => FailureAtomic
  <2> SUFFICES ASSUME IInv, (pc = "idle" /\ closure = "no") \/ pc = "enter" PROVE Current = settled
    BY DEF FailureAtomic
  <2>1. Depth(Top) \in 0 .. SettledTo
    BY SMT, OverlayFacts DEF IInv, ControlInv, ClientDepth, SettledTo
  <2>2. \A k \in Keys : Storage(k) = settled[k]
    BY <2>1, CurrentView DEF IInv, SettledInv
  <2> QED BY <2>2 DEF Current, IInv, ControlType, Viewed
<1> QED BY <1>1, Invariance, PTL

\* A cached storage transaction is that of the current changes, unless the
\* client has rolled back since it was cached.
THEOREM CacheSafety == Spec => []CacheFresh
<1>1. IInv => CacheFresh
  BY DEF IInv
<1> QED BY <1>1, Invariance, PTL
=============================================================================
