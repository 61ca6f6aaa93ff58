----------------------- MODULE WasmEdgeInstanceProofs -----------------------
(***************************************************************************)
(* Proofs about WasmEdgeInstance, for every module without a start         *)
(* function, every memory limit and both strategies: a call starts from    *)
(* the memory of a new instance, and the host state brackets it.           *)
(***************************************************************************)
EXTENDS WasmEdgeInstance, FiniteSetTheorems, WellFoundedInduction, TLAPS

\* Most steps are first-order; those that need arithmetic, or sequences, say so.
USE Zenon

USE DEF FastReuse, OverflowChecks

Zeroed == [p \in Page |-> Zero]

\* The memory of a reused instance.  Between two calls it is all zero or,
\* before the first one, as instantiated, unless the length of its slices has
\* wrapped to 0, and then no call starts; pages it does not have yet are zero.
MemoryInv ==
    FastReuse /\ pc \in {"idle", "wasm"} =>
        /\ pages \in InitPages .. MaxPages
        /\ pc = "wasm" => \A p \in Page : p >= pages => mem[p] = Zero
        /\ pc = "idle" /\ pages < U32Pages => mem \in {Zeroed, Instantiated}

\* The saved value of the global is the one of the instantiation.
SnapshotInv ==
    FastReuse /\ pc \in {"idle", "wasm"} => snapshot = from_wasmedge_val(FloatInit)

IInv == TypeOK /\ HostStateBracket /\ MemoryInv /\ SnapshotInv

\* A build with overflow checks leaves no idle instance with wrapped lengths.
CheckedInv == OverflowChecks /\ FastReuse /\ pc = "idle" => pages < U32Pages

-----------------------------------------------------------------------------
(* Lengths and memories.                                                   *)

\* memory_slice is the whole memory as long as its size in bytes is a u32,
\* and empty at the first size that is not.
LEMMA SliceLenFacts ==
    ASSUME NEW n \in 0 .. MaxPages
    PROVE  /\ n < U32Pages => SliceLen(n) = n
           /\ n >= U32Pages => SliceLen(n) = 0
           /\ SliceLen(n) \in 0 .. n
  <1>1. /\ U32Pages \in Nat /\ U32Pages > 0 /\ MaxPages \in Nat /\ MaxPages <= U32Pages
        /\ n \in Nat /\ n <= U32Pages
    BY SMT, PagesAssumption
  <1>2. n < U32Pages => n % U32Pages = n
    BY SMT, <1>1
  <1>3. n >= U32Pages => n = U32Pages /\ n % U32Pages = 0
    BY SMT, <1>1
  <1> QED
    BY SMT, <1>1, <1>2, <1>3 DEF SliceLen

\* A nonempty set of segment numbers has a largest one.
LEMMA Largest ==
    ASSUME NEW n \in Nat, NEW T \in SUBSET (1 .. n), T # {}
    PROVE  \E k \in T : \A l \in T : l <= k
  <1> DEFINE R == StrictSubsetOrdering(Nat)
             I == {k .. n : k \in T}
  <1>1. I \subseteq FiniteSubsetsOf(Nat)
    <2>1. ASSUME NEW k \in T
          PROVE  IsFiniteSet(k .. n) /\ k .. n \subseteq Nat
      BY SMT, FS_Interval
    <2> QED
      BY <2>1 DEF FiniteSubsetsOf
  <1>2. IsWellFoundedOn(R, FiniteSubsetsOf(Nat))
    BY FS_StrictSubsetOrderingWellFounded
  <1>3. I # {}
    OBVIOUS
  <1> HIDE DEF I, R
  <1>4. PICK x \in I : \A y \in I : <<y, x>> \notin R
    BY <1>1, <1>2, <1>3, WFMin
  <1>5. PICK k \in T : x = k .. n
    BY DEF I
  <1>6. ASSUME NEW l \in T, ~(l <= k)
        PROVE  FALSE
    <2>1. l .. n \in I
      BY DEF I
    <2>2. l .. n \subseteq k .. n /\ k \in k .. n /\ k \notin l .. n
      BY SMT, <1>6
    <2>3. <<l .. n, x>> \in R
      BY SMT, <1>5, <2>2 DEF R, StrictSubsetOrdering
    <2> QED
      BY <1>4, <2>1, <2>3
  <1> QED
    BY <1>6

\* And a smallest one.
LEMMA Smallest ==
    ASSUME NEW n \in Nat, NEW T \in SUBSET (1 .. n), T # {}
    PROVE  \E k \in T : \A l \in T : k <= l
  <1> DEFINE U == {n + 1 - k : k \in T}
  <1>1. U \in SUBSET (1 .. n) /\ U # {}
    <2>1. ASSUME NEW k \in T
          PROVE  n + 1 - k \in 1 .. n
      BY SMT
    <2> QED
      BY <2>1
  <1> HIDE DEF U
  <1>2. PICK u \in U : \A l \in U : l <= u
    BY <1>1, Largest
  <1>3. PICK k \in T : u = n + 1 - k
    BY DEF U
  <1>4. ASSUME NEW l \in T
        PROVE  k <= l
    <2>1. n + 1 - l <= u
      BY <1>2 DEF U
    <2> QED
      BY SMT, <1>3, <2>1
  <1> QED
    BY <1>4

\* Writing data segments over a memory gives a memory, and what was under
\* them does not matter.
LEMMA AppliedFacts ==
    ASSUME NEW m \in [Page -> Content], NEW n \in 0 .. Len(Segments)
    PROVE  Applied(m, n) \in [Page -> Content]
  <1>1. n \in Nat /\ 1 .. n \subseteq DOMAIN Segments
    BY SMT, PagesAssumption
  <1> SUFFICES ASSUME NEW p \in Page
               PROVE  Applied(m, n)[p] \in Content
    BY DEF Applied
  <1> DEFINE P(k) == Segments[k] = p /\ \A l \in 1 .. n : l > k => Segments[l] # p
  <1>2. CASE \E k \in 1 .. n : Segments[k] = p
    <2> DEFINE T == {k \in 1 .. n : Segments[k] = p}
    <2>1. T \in SUBSET (1 .. n) /\ T # {}
      BY <1>2
    <2> HIDE DEF T
    <2>2. PICK k \in T : \A l \in T : l <= k
      BY <1>1, <2>1, Largest
    <2>3. k \in 1 .. n /\ P(k)
      BY SMT, <1>1, <2>2 DEF T
    <2> DEFINE c == CHOOSE j \in 1 .. n : P(j)
    <2>4. c \in 1 .. n
      BY <2>3
    <2>5. Applied(m, n)[p] = Data(c)
      BY <1>2 DEF Applied
    <2> QED
      BY <1>1, <2>4, <2>5 DEF Content
  <1>3. CASE ~ \E k \in 1 .. n : Segments[k] = p
    BY <1>3 DEF Applied
  <1> QED
    BY <1>2, <1>3

\* Without a start function, applying the data segments to a zeroed or to an
\* instantiated memory gives what an instantiation gives.
LEMMA AppliedResets ==
    ASSUME StartWrites = {}, NEW m \in {Zeroed, Instantiated}
    PROVE  Applied(m, Len(Segments)) = Instantiated
  <1> DEFINE A == Applied(Zeroed, Len(Segments))
             B == Applied(A, Len(Segments))
  <1>1. Instantiated = A
    BY DEF Instantiated, Applied, Zeroed
  <1>2. ASSUME NEW p \in Page
        PROVE  B[p] = A[p]
    BY SMT DEF Applied
  <1>3. B = A
    BY <1>2 DEF Applied
  <1> QED
    BY <1>1, <1>3

\* The memory of an instantiation.
LEMMA InstantiatedFacts ==
    /\ Zeroed \in [Page -> Content]
    /\ Instantiated \in [Page -> Content]
    /\ \A p \in Page : p >= InitPages => Instantiated[p] = Zero
  <1>1. Zeroed \in [Page -> Content]
    BY DEF Zeroed, Content
  <1>2. Len(Segments) \in 0 .. Len(Segments)
    BY SMT, PagesAssumption
  <1>3. Applied(Zeroed, Len(Segments)) \in [Page -> Content]
    BY <1>1, <1>2, AppliedFacts
  <1>4. Instantiated \in [Page -> Content]
    BY <1>3 DEF Instantiated, Content, Zeroed
  <1>5. ASSUME NEW p \in Page, p >= InitPages
        PROVE  Instantiated[p] = Zero
    <2>1. p \notin StartWrites /\ \A k \in 1 .. Len(Segments) : Segments[k] # p
      BY SMT, <1>5, PagesAssumption DEF Page
    <2> QED
      BY <2>1 DEF Instantiated, Applied
  <1> QED
    BY <1>1, <1>4, <1>5

\* The pages of the data segments and of the input exist.
LEMMA SegmentsFitFacts ==
    ASSUME NEW n \in InitPages .. MaxPages, n < U32Pages
    PROVE  SegmentsFit(SliceLen(n)) /\ HeapPage < SliceLen(n)
  <1>1. n \in 0 .. MaxPages /\ SliceLen(n) = n
    BY SMT, PagesAssumption, SliceLenFacts
  <1> QED
    BY SMT, <1>1, PagesAssumption DEF SegmentsFit

\* The number of segments that are written before one does not fit.
LEMMA MisfitFacts ==
    ASSUME NEW n \in Nat, ~SegmentsFit(n)
    PROVE  Misfit(n) - 1 \in 0 .. Len(Segments)
  <1> DEFINE T == {k \in DOMAIN Segments : Segments[k] >= n}
             P(k) == Segments[k] >= n /\ \A l \in 1 .. k - 1 : Segments[l] < n
  <1>1. /\ Len(Segments) \in Nat /\ DOMAIN Segments = 1 .. Len(Segments)
        /\ \A k \in DOMAIN Segments : Segments[k] \in Nat
    BY SMT, PagesAssumption
  <1>2. T \in SUBSET (1 .. Len(Segments)) /\ T # {}
    BY SMT, <1>1 DEF SegmentsFit
  <1> HIDE DEF T
  <1>3. PICK k \in T : \A l \in T : k <= l
    BY <1>1, <1>2, Smallest
  <1>4. k \in DOMAIN Segments /\ P(k)
    BY SMT, <1>1, <1>3 DEF T
  <1>5. Misfit(n) \in DOMAIN Segments
    BY <1>4 DEF Misfit
  <1> QED
    BY SMT, <1>1, <1>5

\* decommit on a memory whose size in bytes is a u32 zeroes all of it.
LEMMA DecommittedFacts ==
    ASSUME NEW m \in [Page -> Content], NEW n \in 0 .. MaxPages
    PROVE  /\ Decommitted(m, n) \in [Page -> Content]
           /\ n < U32Pages /\ (\A p \in Page : p >= n => m[p] = Zero)
                => Decommitted(m, n) = Zeroed
  BY SMT, SliceLenFacts DEF Decommitted, Zeroed, Content, Page

-----------------------------------------------------------------------------
(* Invariance.                                                             *)

\* A runtime starts without instance and without host state.
LEMMA InitInv == Init => IInv
  <1> SUFFICES ASSUME Init
               PROVE  IInv
    OBVIOUS
  <1>1. mem = Zeroed /\ output \in Content
    BY DEF Init, Zeroed, Content
  <1>2. TypeOK
    <2>1. pages \in 0 .. MaxPages /\ global \in Int /\ snapshot \in Nat
      BY SMT, PagesAssumption DEF Init
    <2>2. mem \in [Page -> Content]
      BY <1>1, InstantiatedFacts
    <2> QED
      BY <1>1, <2>1, <2>2 DEF Init, TypeOK
  <1> QED
    BY <1>2 DEF Init, IInv, HostStateBracket, MemoryInv, SnapshotInv

\* new_instance gives the memory and the global of a fresh instantiation.
LEMMA NewInstanceInv == IInv /\ NewInstance => IInv'
  <1> SUFFICES ASSUME IInv, NewInstance
               PROVE  IInv'
    OBVIOUS
  <1>1. from_wasmedge_val(FloatInit) \in Nat
    BY SMT, PagesAssumption DEF from_wasmedge_val
  <1>2. TypeOK'
    BY SMT, <1>1, PagesAssumption, InstantiatedFacts DEF IInv, TypeOK, NewInstance
  <1>3. HostStateBracket'
    BY DEF IInv, HostStateBracket, NewInstance
  <1>4. MemoryInv'
    BY SMT, PagesAssumption DEF MemoryInv, NewInstance
  <1>5. SnapshotInv'
    BY DEF SnapshotInv, NewInstance
  <1> QED
    BY <1>2, <1>3, <1>4, <1>5 DEF IInv

\* A segment misses the slice only when the length of the slice has wrapped.
LEMMA ApplyErrInv == IInv /\ ApplyErr => IInv'
  <1> SUFFICES ASSUME IInv, ApplyErr
               PROVE  IInv'
    OBVIOUS
  <1>1. pages \in InitPages .. MaxPages /\ pages \in 0 .. MaxPages
    BY DEF IInv, TypeOK, MemoryInv, ApplyErr
  <1>2. ~(pages < U32Pages)
    BY <1>1, SegmentsFitFacts DEF ApplyErr
  <1>3. Misfit(SliceLen(pages)) - 1 \in 0 .. Len(Segments)
    BY SMT, <1>1, SliceLenFacts, MisfitFacts DEF ApplyErr
  <1>4. mem' \in [Page -> Content]
    BY <1>3, AppliedFacts DEF IInv, TypeOK, ApplyErr
  <1>5. TypeOK'
    BY <1>4 DEF IInv, TypeOK, ApplyErr
  <1>6. HostStateBracket' /\ SnapshotInv'
    BY DEF IInv, HostStateBracket, SnapshotInv, ApplyErr
  <1>7. MemoryInv'
    BY <1>1, <1>2 DEF MemoryInv, ApplyErr
  <1> QED
    BY <1>5, <1>6, <1>7 DEF IInv

\* A failed instantiation and get_global_const leave no host state.
LEMMA InstantiateErrInv == IInv /\ (InstantiateErr \/ GetGlobalConst) => IInv'
  BY SMT, PagesAssumption, InstantiatedFacts
     DEF IInv, TypeOK, HostStateBracket, MemoryInv, SnapshotInv, InstantiateErr,
         GetGlobalConst

\* The memory of a call before its input is written.
LEMMA PreparedFacts ==
    ASSUME IInv, Ready
    PROVE  /\ Prepared \in [Page -> Content]
           /\ PreparedPages \in InitPages .. MaxPages
           /\ PreparedGlobal \in Int
           /\ PreparedPages < U32Pages =>
                \A p \in Page : p >= PreparedPages => Prepared[p] = Zero
  <1>1. Len(Segments) \in 0 .. Len(Segments)
    BY SMT, PagesAssumption
  <1>2. Prepared \in [Page -> Content]
    BY <1>1, AppliedFacts, InstantiatedFacts DEF IInv, TypeOK, Prepared
  <1>3. PreparedPages \in InitPages .. MaxPages
    BY SMT, PagesAssumption DEF IInv, MemoryInv, Ready, PreparedPages
  <1>4. PreparedGlobal \in Int
    BY SMT, PagesAssumption DEF IInv, TypeOK, PreparedGlobal, into_wasmedge_val
  <1>5. ASSUME PreparedPages < U32Pages, NEW p \in Page, p >= PreparedPages
        PROVE  Prepared[p] = Zero
    <2>1. p >= InitPages
      BY SMT, <1>3, <1>5, PagesAssumption DEF Page
    <2>2. Instantiated[p] = Zero /\ Zeroed[p] = Zero
      BY <2>1, InstantiatedFacts DEF Zeroed
    <2>3. CASE FastReuse
      <3>1. mem[p] = Zero
        BY <1>5, <2>2, <2>3 DEF IInv, MemoryInv, Ready, PreparedPages
      <3>2. \A k \in 1 .. Len(Segments) : Segments[k] # p
        BY SMT, <2>1, PagesAssumption DEF Page
      <3> QED
        BY <2>3, <3>1, <3>2 DEF Prepared, Applied
    <2> QED
      BY <2>2, <2>3 DEF Prepared
  <1> QED
    BY <1>2, <1>3, <1>4, <1>5

\* An input that does not fit the heap ends the call before wasm runs.
LEMMA InjectErrInv == IInv /\ InjectErr => IInv'
  <1> SUFFICES ASSUME IInv, InjectErr
               PROVE  IInv'
    OBVIOUS
  <1>1. /\ Prepared \in [Page -> Content]
        /\ PreparedPages \in InitPages .. MaxPages /\ PreparedPages \in 0 .. MaxPages
        /\ PreparedGlobal \in Int
        /\ PreparedPages < U32Pages =>
             \A p \in Page : p >= PreparedPages => Prepared[p] = Zero
    BY SMT, PreparedFacts, PagesAssumption DEF InjectErr
  <1>2. /\ mem' = IF FastReuse THEN Decommitted(Prepared, PreparedPages) ELSE Prepared
        /\ pages' = PreparedPages /\ global' = PreparedGlobal /\ pc = "idle"
        /\ UNCHANGED <<setup, pc, snapshot, hostState, output>> /\ result' = "err"
    BY DEF InjectErr, Ready
  <1>3. Decommitted(Prepared, PreparedPages) \in [Page -> Content]
    BY <1>1, DecommittedFacts
  <1>4. TypeOK'
    BY <1>1, <1>2, <1>3 DEF IInv, TypeOK
  <1>5. HostStateBracket' /\ SnapshotInv'
    BY <1>2 DEF IInv, HostStateBracket, SnapshotInv
  <1>6. MemoryInv'
    <2>1. PreparedPages < U32Pages => Decommitted(Prepared, PreparedPages) = Zeroed
      BY <1>1, DecommittedFacts
    <2> QED
      BY <1>1, <1>2, <2>1 DEF MemoryInv
  <1> QED
    BY <1>4, <1>5, <1>6 DEF IInv

\* A call that starts has room for its input: the length has not wrapped.
LEMMA CallFits ==
    ASSUME IInv, CallOk
    PROVE  PreparedPages < U32Pages
  <1>1. PreparedPages \in 0 .. MaxPages
    BY SMT, PreparedFacts, PagesAssumption DEF CallOk
  <1>2. HeapPage < SliceLen(PreparedPages) /\ HeapPage \in Nat
    BY SMT, PagesAssumption DEF CallOk
  <1> QED
    BY SMT, <1>1, <1>2, SliceLenFacts, PagesAssumption

\* A call sets the host state and starts from the memory it has reset.
LEMMA CallOkInv == IInv /\ CallOk => IInv'
  <1> SUFFICES ASSUME IInv, CallOk
               PROVE  IInv'
    OBVIOUS
  <1>1. /\ Prepared \in [Page -> Content]
        /\ PreparedPages \in InitPages .. MaxPages /\ PreparedPages \in 0 .. MaxPages
        /\ PreparedGlobal \in Int
        /\ \A p \in Page : p >= PreparedPages => Prepared[p] = Zero
    BY SMT, PreparedFacts, CallFits, PagesAssumption DEF CallOk
  <1>2. /\ mem' = [Prepared EXCEPT ![HeapPage] = Input]
        /\ pages' = PreparedPages /\ global' = PreparedGlobal /\ pc = "idle"
        /\ UNCHANGED <<setup, snapshot, result, output>> /\ pc' = "wasm" /\ hostState' = TRUE
    BY DEF CallOk, Ready
  <1>3. HeapPage \in Page /\ HeapPage < PreparedPages
    BY SMT, <1>1, PagesAssumption DEF Page
  <1>4. TypeOK'
    BY <1>1, <1>2, <1>3 DEF IInv, TypeOK, Content
  <1>5. HostStateBracket' /\ SnapshotInv'
    BY <1>2 DEF IInv, HostStateBracket, SnapshotInv
  <1>6. MemoryInv'
    BY SMT, <1>1, <1>2, <1>3, PagesAssumption DEF MemoryInv, Page
  <1> QED
    BY <1>4, <1>5, <1>6 DEF IInv

\* Wasm writes memory and globals, grows the memory, or calls the host.
LEMMA GuestInv ==
    ASSUME IInv,
           \/ \E p \in Page : GuestStore(p)
           \/ GuestGrow
           \/ \E f \in GuestFloats : GuestSetGlobal(f)
    PROVE  IInv'
  <1>1. CASE \E p \in Page : GuestStore(p)
    <2> PICK p \in Page : GuestStore(p)
      BY <1>1
    <2>1. TypeOK'
      BY DEF IInv, TypeOK, GuestStore, Content
    <2>2. MemoryInv'
      BY SMT, PagesAssumption DEF IInv, TypeOK, MemoryInv, GuestStore, Page
    <2> QED
      BY <2>1, <2>2 DEF IInv, HostStateBracket, SnapshotInv, GuestStore
  <1>2. CASE GuestGrow
    <2>1. TypeOK'
      BY SMT, <1>2, PagesAssumption DEF IInv, TypeOK, GuestGrow
    <2>2. MemoryInv'
      BY SMT, <1>2, PagesAssumption DEF IInv, TypeOK, MemoryInv, GuestGrow, Page
    <2> QED
      BY <1>2, <2>1, <2>2 DEF IInv, HostStateBracket, SnapshotInv, GuestGrow
  <1>3. CASE \E f \in GuestFloats : GuestSetGlobal(f)
    BY SMT, <1>3, PagesAssumption
       DEF IInv, TypeOK, HostStateBracket, MemoryInv, SnapshotInv, GuestSetGlobal
  <1> QED
    BY <1>1, <1>2, <1>3

\* The end of a call takes the host state back and decommits the memory.
LEMMA FinishInv == IInv /\ Finish => IInv'
  <1> SUFFICES ASSUME IInv, Finish
               PROVE  IInv'
    OBVIOUS
  <1>1. /\ pages \in 0 .. MaxPages /\ mem \in [Page -> Content] /\ pc = "wasm"
        /\ mem' = IF FastReuse THEN Decommitted(mem, pages) ELSE mem
        /\ pc' = "idle" /\ hostState' = FALSE /\ UNCHANGED <<setup, pages, global, snapshot>>
    BY DEF IInv, TypeOK, Finish
  <1>2. Decommitted(mem, pages) \in [Page -> Content]
    BY <1>1, DecommittedFacts
  <1>3. result' \in {"ok", "err"} /\ output' \in Content
    BY DEF IInv, TypeOK, Finish, Aborts, Returns
  <1>4. TypeOK'
    BY <1>1, <1>2, <1>3 DEF IInv, TypeOK
  <1>5. HostStateBracket' /\ SnapshotInv'
    BY <1>1 DEF IInv, HostStateBracket, SnapshotInv
  <1>6. MemoryInv'
    <2>1. FastReuse /\ pages < U32Pages => Decommitted(mem, pages) = Zeroed
      BY <1>1, DecommittedFacts DEF IInv, MemoryInv
    <2> QED
      BY <1>1, <2>1 DEF IInv, MemoryInv
  <1> QED
    BY <1>4, <1>5, <1>6 DEF IInv

\* A call that panics at its end has taken the host state back.
LEMMA FinishPanicsInv == IInv /\ FinishPanics => IInv'
  BY DEF IInv, TypeOK, HostStateBracket, MemoryInv, SnapshotInv, FinishPanics

\* Every step preserves the invariant.
LEMMA NextInv == IInv /\ [Next]_vars => IInv'
  <1> SUFFICES ASSUME IInv, [Next]_vars
               PROVE  IInv'
    OBVIOUS
  <1>1. CASE UNCHANGED vars
    BY <1>1 DEF IInv, TypeOK, HostStateBracket, MemoryInv, SnapshotInv, vars
  <1> QED
    BY <1>1, NewInstanceInv, ApplyErrInv, InstantiateErrInv, InjectErrInv, CallOkInv,
       GuestInv, FinishInv, FinishPanicsInv DEF Next

-----------------------------------------------------------------------------
(* Theorems.                                                               *)

\* Every behaviour of an instance satisfies the inductive invariant.
THEOREM Invariance == Spec => []IInv
  BY InitInv, NextInv, PTL DEF Spec

\* The host state is there exactly while wasm runs, for every module, memory
\* limit and build, on every path out of perform_call.
THEOREM HostStateSafety == Spec => [](TypeOK /\ HostStateBracket)
  <1>1. IInv => TypeOK /\ HostStateBracket
    BY DEF IInv
  <1> QED
    BY <1>1, Invariance, PTL

\* Without a start function, every call of call_impl starts from the memory of
\* a new instance, whatever earlier calls did: in both strategies, with any
\* data segments, and also when the memory has grown to 2^32 bytes.
THEOREM ResetMemorySafety == StartWrites = {} => (Spec => ResetMemory)
  <1> SUFFICES ASSUME StartWrites = {}
               PROVE  Spec => ResetMemory
    OBVIOUS
  <1> DEFINE Reset == \A p \in Page \ {HeapPage} : mem'[p] = Instantiated[p]
  <1>1. ASSUME IInv, Next, StartsCall
        PROVE  Reset
    <2>1. CallOk
      BY <1>1 DEF StartsCall, Next, NewInstance, ApplyErr, InstantiateErr, InjectErr,
         GetGlobalConst, GuestStore, GuestGrow, GuestSetGlobal, Finish, FinishPanics
    <2>2. PreparedPages < U32Pages
      BY <1>1, <2>1, CallFits
    <2>3. Prepared = Instantiated
      <3>1. CASE FastReuse
        <4>1. mem \in {Zeroed, Instantiated}
          BY <1>1, <2>2, <3>1 DEF IInv, MemoryInv, StartsCall, PreparedPages
        <4> QED
          BY <3>1, <4>1, AppliedResets DEF Prepared
      <3> QED
        BY <3>1 DEF Prepared
    <2>4. mem' = [Instantiated EXCEPT ![HeapPage] = Input]
      BY <2>1, <2>3 DEF CallOk
    <2> QED
      BY <2>4, InstantiatedFacts
  <1>2. ASSUME IInv, [Next]_vars
        PROVE  [StartsCall => Reset]_vars
    BY <1>1, <1>2 DEF vars
  <1> QED
    BY <1>2, Invariance, PTL DEF Spec, ResetMemory

\* Every call finds the mutable global as instantiated, if the conversions of
\* its type lose nothing: its first value is a whole number that fits a u32.
\* An instance that is made again for every call needs no such condition.
THEOREM ResetGlobalsSafety ==
    ((\E s \in Setups : s.fastReuse) =>
         into_wasmedge_val(from_wasmedge_val(FloatInit)) = FloatInit)
        => (Spec => ResetGlobals)
  <1> SUFFICES ASSUME (\E s \in Setups : s.fastReuse) =>
                        into_wasmedge_val(from_wasmedge_val(FloatInit)) = FloatInit
               PROVE  Spec => ResetGlobals
    OBVIOUS
  <1>1. ASSUME IInv, Next, StartsCall
        PROVE  global' = FloatInit
    <2>1. CallOk
      BY <1>1 DEF StartsCall, Next, NewInstance, ApplyErr, InstantiateErr, InjectErr,
         GetGlobalConst, GuestStore, GuestGrow, GuestSetGlobal, Finish, FinishPanics
    <2> QED
      BY <1>1, <2>1 DEF IInv, TypeOK, SnapshotInv, StartsCall, CallOk, PreparedGlobal
  <1>2. ASSUME IInv, [Next]_vars
        PROVE  [StartsCall => global' = FloatInit]_vars
    BY <1>1, <1>2 DEF vars
  <1> QED
    BY <1>2, Invariance, PTL DEF Spec, ResetGlobals

\* In a build with overflow checks an idle reused instance always has its data
\* segments in bounds: the lengths that wrap cost the instance instead.
THEOREM UsableSafety == Spec => []StaysUsable
  <1>1. Init => CheckedInv
    BY DEF Init, CheckedInv
  <1>2. ASSUME IInv, CheckedInv, [Next]_vars
        PROVE  CheckedInv'
    <2>1. CASE NewInstance
      BY <2>1, PagesAssumption DEF CheckedInv, NewInstance
    <2>2. CASE Finish
      BY SMT, <1>2, <2>2, PagesAssumption DEF IInv, TypeOK, CheckedInv, Finish, Panics
    <2>3. CASE FinishPanics
      BY <2>3 DEF CheckedInv, FinishPanics
    <2>4. CASE InjectErr
      BY <1>2, <2>4 DEF CheckedInv, InjectErr, Ready, PreparedPages
    <2>5. CASE UNCHANGED vars
      BY <1>2, <2>5 DEF CheckedInv, vars
    <2> QED
      BY <1>2, <2>1, <2>2, <2>3, <2>4, <2>5
         DEF CheckedInv, Next, ApplyErr, InstantiateErr, CallOk, GetGlobalConst,
             GuestStore, GuestGrow, GuestSetGlobal
  <1>3. IInv /\ CheckedInv => StaysUsable
    BY SegmentsFitFacts DEF IInv, MemoryInv, CheckedInv, StaysUsable
  <1> QED
    BY <1>1, <1>2, <1>3, Invariance, PTL DEF Spec
=============================================================================
