------------------------- MODULE FreeingBumpProofs -------------------------
(***************************************************************************)
(* Proofs about the freeing-bump allocator, for every number of orders,    *)
(* every width of the addresses and every set of memory sizes.             *)
(***************************************************************************)
EXTENDS FreeingBump, FiniteSetTheorems, TLAPS

\* Most steps are first-order; those that need arithmetic, or sequences, say so.
USE Zenon

(***************************************************************************)
(* A nonempty set of natural numbers has a least element.  The library     *)
(* states this with an operator as a parameter; here it follows from the   *)
(* well-foundedness of strict inclusion between finite sets, applied to    *)
(* the intervals that end in an element of the set.                        *)
(***************************************************************************)
LEMMA LeastNatural ==
  ASSUME NEW T \in SUBSET Nat, T # {}
  PROVE  \E m \in T : \A k \in T : m <= k
<1> DEFINE I == {0 .. m : m \in T}
           R == StrictSubsetOrdering(Nat)
<1>1. I \subseteq FiniteSubsetsOf(Nat)
  <2>1. ASSUME NEW m \in T PROVE IsFiniteSet(0 .. m)
    BY SMT, FS_Interval
  <2> QED BY SMT, <2>1 DEF FiniteSubsetsOf
<1>2. IsWellFoundedOn(R, FiniteSubsetsOf(Nat))
  BY FS_StrictSubsetOrderingWellFounded
<1>3. I # {}
  OBVIOUS
<1> HIDE DEF I, R
<1>4. PICK x \in I : \A y \in I : <<y, x>> \notin R
  BY <1>1, <1>2, <1>3, WFMin
<1>5. PICK m \in T : x = 0 .. m
  BY DEF I
<1>6. ASSUME NEW k \in T, ~(m <= k) PROVE FALSE
  <2>1. 0 .. k \in I
    BY DEF I
  <2>2. /\ 0 .. k \in SUBSET Nat
        /\ 0 .. m \in SUBSET Nat
        /\ 0 .. k \subseteq 0 .. m
        /\ 0 .. k # 0 .. m
    <3>1. m \in 0 .. m /\ m \notin 0 .. k
      BY SMT, <1>6
    <3> QED BY SMT, <1>6, <3>1
  <2>3. <<0 .. k, 0 .. m>> \in R
    BY <2>2 DEF R, StrictSubsetOrdering
  <2> QED BY <2>1, <2>3, <1>4, <1>5
<1> QED BY <1>6

(***************************************************************************)
(* Powers of two are positive naturals: they count the subsets of a set.   *)
(***************************************************************************)
LEMMA PowerOfTwo ==
  ASSUME NEW n \in Nat
  PROVE  2^n \in Nat \ {0}
<1>1. IsFiniteSet(1 .. n) /\ Cardinality(1 .. n) = n
  BY SMT, FS_Interval
<1>2. /\ IsFiniteSet(SUBSET (1 .. n))
      /\ Cardinality(SUBSET (1 .. n)) = 2^n
  BY <1>1, FS_SUBSET
<1>3. 2^n \in Nat
  BY <1>2, FS_CardinalityType
<1>4. SUBSET (1 .. n) # {}
  OBVIOUS
<1>5. 2^n # 0
  BY <1>2, <1>4, FS_EmptySet
<1> QED BY <1>3, <1>5

(***************************************************************************)
(* The sizes of blocks and chunks are positive multiples of the alignment. *)
(***************************************************************************)
LEMMA SizeFacts ==
  ASSUME NEW o \in Orders
  PROVE  /\ OrderSize(o) \in Nat /\ OrderSize(o) >= 8 /\ OrderSize(o) % 8 = 0
         /\ ChunkSize(o) \in Nat /\ ChunkSize(o) >= 16 /\ ChunkSize(o) % 8 = 0
         /\ ChunkSize(o) = OrderSize(o) + 8
<1>1. o \in Nat
  BY SMT, OrdersAssumption DEF Orders
<1>2. 2^o \in Nat \ {0}
  BY <1>1, PowerOfTwo
<1>3. PICK k \in Nat \ {0} : k = 2^o
  BY <1>2
<1>4. OrderSize(o) = 8 * k
  BY <1>3 DEF OrderSize, MIN_POSSIBLE_ALLOCATION
<1>5. ChunkSize(o) = 8 * k + 8
  BY <1>4 DEF ChunkSize, HEADER_SIZE
<1> QED BY SMT, <1>3, <1>4, <1>5

(***************************************************************************)
(* Order::from_size finds an order that is large enough for every size     *)
(* that is not rejected as too large.                                      *)
(***************************************************************************)
LEMMA OrderForFits ==
  ASSUME NEW size \in Nat, size <= MAX_POSSIBLE_ALLOCATION
  PROVE  OrderFor(size) \in Orders /\ size <= OrderSize(OrderFor(size))
<1> DEFINE T == {o \in Orders : size <= OrderSize(o)}
<1>1. T \in SUBSET Nat
  BY SMT, OrdersAssumption DEF Orders
<1>2. N_ORDERS - 1 \in T
  BY SMT, OrdersAssumption DEF Orders, MAX_POSSIBLE_ALLOCATION
<1>3. PICK m \in T : \A k \in T : m <= k
  BY <1>1, <1>2, LeastNatural
<1>4. \E o \in Orders : /\ size <= OrderSize(o)
                        /\ \A p \in Orders : size <= OrderSize(p) => o <= p
  BY <1>3
<1> HIDE DEF T
<1> QED BY <1>4 DEF OrderFor

(***************************************************************************)
(* u32 addition wraps at most once.                                        *)
(***************************************************************************)
LEMMA Add32Cases ==
  ASSUME NEW a \in Address, NEW b \in Address
  PROVE  Add32(a, b) = IF a + b < U32 THEN a + b ELSE a + b - U32
BY SMT, WidthAssumption DEF Add32, Address

-----------------------------------------------------------------------------
\* The bumper only moves up; a wrapped sum poisons the allocator.
BumperAboveBase == ~poisoned => original_heap_base <= bumper

(***************************************************************************)
(* The inductive invariant.  That chunks in use are apart needs that the   *)
(* free lists lead only to free chunks, which needs that the headers are   *)
(* true, which needs that chunks are disjoint: a write of the guest to its *)
(* own chunk reaches no header.                                            *)
(***************************************************************************)
IInv ==
    /\ TypeOK
    /\ BumperAboveBase
    /\ ChunksInBounds
    /\ ChunksDisjoint
    /\ HeadersTrue
    /\ LinksTyped
    /\ LinksUnique

\* What the type of a chunk says of its header and its end.
LEMMA ChunkFacts ==
  ASSUME TypeOK, NEW c \in chunks
  PROVE  /\ c = [hdr |-> c.hdr, order |-> c.order]
         /\ c.hdr \in WordAddress /\ c.order \in Orders
         /\ c.hdr \in Nat /\ c.hdr % 8 = 0 /\ c.hdr < U32 /\ c.hdr # NIL_MARKER
         /\ ChunkEnd(c) \in Nat
         /\ ChunkEnd(c) = c.hdr + ChunkSize(c.order)
         /\ ChunkEnd(c) >= c.hdr + 16
<1>1. c \in Chunk
  BY DEF TypeOK
<1>2. c = [hdr |-> c.hdr, order |-> c.order] /\ c.hdr \in WordAddress /\ c.order \in Orders
  BY <1>1 DEF Chunk
<1>3. c.hdr \in Nat /\ c.hdr % 8 = 0 /\ c.hdr < U32 /\ c.hdr # NIL_MARKER
  BY SMT, <1>2, WidthAssumption DEF WordAddress, Address, ALIGNMENT, NIL_MARKER
<1>4. ChunkSize(c.order) \in Nat /\ ChunkSize(c.order) >= 16
  BY <1>2, SizeFacts
<1> QED BY SMT, <1>2, <1>3, <1>4 DEF ChunkEnd

(***************************************************************************)
(* A header address belongs to one chunk.                                  *)
(***************************************************************************)
LEMMA HeaderUnique ==
  ASSUME TypeOK, ChunksDisjoint, NEW c \in chunks, NEW d \in chunks,
         c.hdr = d.hdr
  PROVE  c = d
BY SMT, ChunkFacts DEF ChunksDisjoint

(***************************************************************************)
(* When `bump` succeeds, or only the write of the header fails after it,   *)
(* with chunks already cut off, the sum it computes has not wrapped.       *)
(***************************************************************************)
LEMMA BumpExact ==
  ASSUME IInv, NoWrap, SizeObserved, NEW o \in Orders, BumpOk(o),
         bumper <= memSize
  PROVE  /\ Bumped(o) = bumper + ChunkSize(o)
         /\ Bumped(o) <= memSize
         /\ Bumped(o) \in WordAddress
         /\ InRange(bumper)
<1>1. /\ bumper \in Nat /\ bumper < U32 /\ bumper % 8 = 0
      /\ memSize \in MemSizes /\ memSize \in Nat /\ memSize < U32
  BY SMT, WidthAssumption, InputAssumption
     DEF IInv, TypeOK, WordAddress, Address, ALIGNMENT
<1>2. ChunkSize(o) \in Nat /\ ChunkSize(o) >= 16 /\ ChunkSize(o) % 8 = 0
  BY SizeFacts
<1>3. bumper + ChunkSize(o) < U32
  <2>1. CASE OverflowChecks
    BY SMT, <1>1, <1>2, <2>1, WidthAssumption DEF BumpOk, Overflows
  <2>2. CASE ~OverflowChecks
    <3>1. memSize + ChunkSize(o) < U32
      BY <1>1, <2>2 DEF NoWrap
    <3> QED BY SMT, <1>1, <1>2, <3>1, WidthAssumption
  <2> QED BY <2>1, <2>2
<1>4. Bumped(o) = bumper + ChunkSize(o)
  <2>1. bumper \in Address /\ ChunkSize(o) \in Address
    BY SMT, <1>1, <1>2, <1>3, WidthAssumption DEF Address
  <2> QED BY <2>1, <1>3, Add32Cases DEF Bumped
<1>5. Bumped(o) <= memSize
  BY DEF BumpOk, Bumped
<1>6. Bumped(o) \in WordAddress
  BY SMT, <1>1, <1>2, <1>3, <1>4, WidthAssumption DEF WordAddress, Address, ALIGNMENT
<1>7. InRange(bumper)
  BY SMT, <1>1, <1>2, <1>3, <1>4, <1>5, WidthAssumption DEF InRange, HEADER_SIZE
<1> QED BY <1>4, <1>5, <1>6, <1>7

(***************************************************************************)
(* The head of a free list is a free chunk that `allocate` can use.        *)
(***************************************************************************)
LEMMA FreeListUsableInv ==
  ASSUME IInv
  PROVE  FreeListUsable
<1> SUFFICES ASSUME ~poisoned, SizeObserved,
                    NEW o \in Orders, heads[o] # NIL_MARKER
             PROVE  ReuseOk(o)
  BY DEF FreeListUsable
<1> DEFINE c == [hdr |-> heads[o], order |-> o]
<1>1. c \in chunks \ owned
  BY DEF IInv, LinksTyped, FreeChunk
<1>2. /\ c.hdr = heads[o] /\ c.order = o
      /\ c.hdr \in Nat /\ c.hdr < U32
      /\ ChunkEnd(c) = heads[o] + ChunkSize(o)
      /\ ChunkEnd(c) >= heads[o] + 16
      /\ ChunkEnd(c) \in Nat
  BY <1>1, ChunkFacts DEF IInv
<1> HIDE DEF c
<1>3. /\ memSize \in Nat /\ memSize < U32 /\ bumper \in Nat
      /\ last_observed_memory_size \in Nat
  BY SMT, WidthAssumption, InputAssumption
     DEF IInv, TypeOK, WordAddress, Address, ALIGNMENT
<1>4. ChunkEnd(c) <= memSize
  BY SMT, <1>1, <1>2, <1>3 DEF IInv, ChunksInBounds, SizeObserved
<1>5. ChunkSize(o) \in Nat
  BY SizeFacts
<1>6. heads[o] \in Address /\ ChunkSize(o) \in Address
  BY SMT, <1>2, <1>3, <1>4, <1>5, WidthAssumption DEF Address
<1>7. Add32(heads[o], ChunkSize(o)) = heads[o] + ChunkSize(o)
  BY SMT, <1>2, <1>3, <1>4, <1>6, Add32Cases, WidthAssumption
<1>8. ~Overflows(heads[o], ChunkSize(o))
  BY SMT, <1>2, <1>3, <1>4, WidthAssumption DEF Overflows
<1>9. ReadsFree(heads[o])
  <2>1. ~mem[heads[o]].occ
    BY <1>1, <1>2 DEF IInv, HeadersTrue
  <2>2. InRange(heads[o])
    BY SMT, <1>2, <1>3, <1>4, WidthAssumption DEF InRange, HEADER_SIZE
  <2> QED BY <2>1, <2>2 DEF ReadsFree
<1> QED BY <1>2, <1>4, <1>7, <1>8, <1>9 DEF ReuseOk

(***************************************************************************)
(* The bumper stays aligned even if the sum wraps.                         *)
(***************************************************************************)
LEMMA BumpedAligned ==
  ASSUME TypeOK, NEW o \in Orders
  PROVE  Bumped(o) \in WordAddress
<1>1. bumper \in Nat /\ bumper < U32 /\ bumper % 8 = 0 /\ bumper \in Address
  BY SMT, WidthAssumption DEF TypeOK, WordAddress, Address, ALIGNMENT
<1>2. ChunkSize(o) \in Nat /\ ChunkSize(o) % 8 = 0 /\ ChunkSize(o) \in Address
  BY SMT, SizeFacts, WidthAssumption DEF Address
<1>3. Bumped(o) = IF bumper + ChunkSize(o) < U32
                    THEN bumper + ChunkSize(o) ELSE bumper + ChunkSize(o) - U32
  BY <1>1, <1>2, Add32Cases DEF Bumped
<1> QED BY SMT, <1>1, <1>2, <1>3, WidthAssumption DEF WordAddress, Address, ALIGNMENT

-----------------------------------------------------------------------------
\* FreeingBumpHeapAllocator::new starts with an aligned bumper and without chunks.
LEMMA InitInv == Init => IInv
<1> SUFFICES ASSUME Init PROVE IInv
  OBVIOUS
<1>1. original_heap_base \in WordAddress
  <2>1. PICK b \in HeapBases : original_heap_base = AlignedBase(b)
    BY DEF Init
  <2>2. b \in Nat /\ b <= U32 - 8
    BY SMT, InputAssumption, WidthAssumption DEF ALIGNMENT
  <2> QED BY SMT, <2>1, <2>2, WidthAssumption
          DEF AlignedBase, ALIGNMENT, WordAddress, Address
<1>2. heads \in [Orders -> WordAddress \cup {NIL_MARKER}]
  BY DEF Init
<1>3. 0 \in Address
  BY SMT, WidthAssumption, OrdersAssumption DEF Address
<1>4. mem \in [WordAddress -> Word]
  BY <1>3 DEF Init, Free, Word
<1>5. TypeOK
  BY <1>1, <1>2, <1>3, <1>4 DEF Init, TypeOK
<1>6. original_heap_base <= bumper
  BY SMT, <1>1, WidthAssumption DEF Init, WordAddress, Address
<1> QED BY <1>5, <1>6 DEF IInv, BumperAboveBase, Init, ChunksInBounds, ChunksDisjoint, HeadersTrue,
              LinksTyped, LinksUnique, FreeChunk

(***************************************************************************)
(* The header and the statistics that `allocate` writes have their types.  *)
(***************************************************************************)
LEMMA HandOutTypes ==
  ASSUME TypeOK, NEW c \in Chunk, bumper' \in WordAddress, HandOut(c)
  PROVE  /\ bytes_allocated' \in Address
         /\ bytes_allocated_peak' \in Address
         /\ address_space_used' \in Address
         /\ mem' \in [WordAddress -> Word]
<1>1. c.hdr \in WordAddress /\ c.order \in Orders
  BY DEF Chunk
<1>2. ChunkSize(c.order) \in Nat
  BY <1>1, SizeFacts
<1>3. U32 \in Nat /\ U32 > 0
  BY SMT, WidthAssumption, OrdersAssumption
<1>4. bytes_allocated' \in Address
  BY SMT, <1>2, <1>3 DEF HandOut, Add32, Address, TypeOK
<1>5. bytes_allocated_peak' \in Address
  BY <1>4 DEF HandOut, TypeOK
<1>6. address_space_used' \in Address
  <2>1. bumper' - original_heap_base \in Int
    BY SMT, <1>3 DEF TypeOK, WordAddress, Address
  <2> QED BY SMT, <2>1, <1>3 DEF HandOut, Address
<1>7. Occupied(c.order) \in Word
  BY SMT, <1>1, OrdersAssumption, WidthAssumption DEF Orders, Occupied, Word, Address
<1>8. mem' \in [WordAddress -> Word]
  BY <1>1, <1>7 DEF HandOut, TypeOK
<1> QED BY <1>4, <1>5, <1>6, <1>8

\* allocate from a free list: the chunk it takes was free, and the list goes on at its link.
LEMMA AllocateReuseInv ==
  ASSUME IInv, NEW size \in Sizes, AllocateReuse(size)
  PROVE  IInv'
<1> DEFINE o == OrderFor(size)
           c == [hdr |-> heads[o], order |-> o]
           n == mem[heads[o]].data
<1>1. o \in Orders
  BY OrderForFits, InputAssumption DEF AllocateReuse
<1>2. /\ c \in chunks \ owned
      /\ c.hdr = heads[o] /\ c.order = o
  BY <1>1 DEF IInv, LinksTyped, FreeChunk, AllocateReuse
<1>3. n = NIL_MARKER \/ FreeChunk(n, o)
  BY <1>2 DEF IInv, LinksTyped, AllocateReuse
<1>4. heads[o] \in WordAddress /\ heads[o] # NIL_MARKER
  BY <1>2, ChunkFacts DEF IInv
<1>5. n # heads[o] \/ n = NIL_MARKER
  BY <1>2, <1>4 DEF IInv, LinksUnique, AllocateReuse
<1>6. /\ ~poisoned /\ poisoned' = poisoned
      /\ SizeObserved
      /\ heads' = [heads EXCEPT ![o] = n]
      /\ mem' = [mem EXCEPT ![heads[o]] = Occupied(o)]
      /\ owned' = owned \cup {c}
      /\ chunks' = chunks /\ bumper' = bumper /\ memSize' = memSize
      /\ original_heap_base' = original_heap_base
      /\ last_observed_memory_size' = memSize
      /\ HandOut(c)
  BY <1>2 DEF AllocateReuse, HandOut, NextFree
<1> HIDE DEF o, c, n
<1>7. n \in WordAddress \cup {NIL_MARKER}
  BY <1>3 DEF FreeChunk, IInv, TypeOK, Chunk
<1>8. TypeOK'
  <2>1. heads' \in [Orders -> WordAddress \cup {NIL_MARKER}]
    BY <1>1, <1>6, <1>7 DEF IInv, TypeOK
  <2>2. c \in Chunk /\ bumper' \in WordAddress
    BY <1>2, <1>6 DEF IInv, TypeOK
  <2>3. memSize \in Address
    BY InputAssumption DEF IInv, TypeOK
  <2>4. /\ bytes_allocated' \in Address /\ bytes_allocated_peak' \in Address
        /\ address_space_used' \in Address /\ mem' \in [WordAddress -> Word]
    BY <1>6, <2>2, HandOutTypes DEF IInv
  <2> QED BY <1>2, <1>6, <2>1, <2>2, <2>3, <2>4 DEF IInv, TypeOK
<1>9. ChunksInBounds'
  <2>1. /\ bumper \in Nat /\ memSize \in Nat
        /\ last_observed_memory_size \in Nat
    BY SMT, InputAssumption, WidthAssumption DEF IInv, TypeOK, WordAddress, Address
  <2> QED BY SMT, <1>6, <2>1 DEF IInv, ChunksInBounds, ChunkEnd, SizeObserved
<1>10. ChunksDisjoint'
  BY <1>6 DEF IInv, ChunksDisjoint, ChunkEnd
<1>11. \A d \in chunks : d # c => d.hdr # heads[o] /\ mem'[d.hdr] = mem[d.hdr]
  BY <1>2, <1>6, HeaderUnique, ChunkFacts DEF IInv, TypeOK
<1>12. mem'[c.hdr] = Occupied(c.order)
  BY <1>2, <1>4, <1>6 DEF IInv, TypeOK
<1>13. HeadersTrue'
  BY <1>6, <1>11, <1>12 DEF IInv, HeadersTrue
<1>14. \A d \in chunks' \ owned' : d \in chunks \ owned /\ d # c
  BY <1>6
<1>15. ASSUME NEW h, NEW p, FreeChunk(h, p), h # heads[o]
       PROVE  [hdr |-> h, order |-> p] \in chunks' \ owned'
  <2>1. [hdr |-> h, order |-> p] # c
    BY SMT, <1>2, <1>15
  <2> QED BY <1>6, <1>15, <2>1 DEF FreeChunk
<1>16. LinksTyped'
  <2>1. ASSUME NEW p \in Orders
        PROVE  \/ heads'[p] = NIL_MARKER
               \/ [hdr |-> heads'[p], order |-> p] \in chunks' \ owned'
    <3>1. CASE p = o
      <4>1. heads'[p] = n
        BY <1>1, <1>6, <3>1 DEF IInv, TypeOK
      <4> QED BY <1>3, <1>5, <1>15, <3>1, <4>1
    <3>2. CASE p # o
      <4>1. heads'[p] = heads[p]
        BY <1>6, <3>2 DEF IInv, TypeOK
      <4>2. heads[p] = NIL_MARKER \/ FreeChunk(heads[p], p)
        BY <1>6 DEF IInv, LinksTyped
      <4>3. CASE FreeChunk(heads[p], p)
        <5> DEFINE e == [hdr |-> heads[p], order |-> p]
        <5>1. e \in chunks /\ e.hdr = heads[p] /\ e.order = p
          BY <4>3 DEF FreeChunk
        <5>2. heads[p] # heads[o]
          BY <5>1, <1>2, <3>2, HeaderUnique DEF IInv
        <5> QED BY <4>1, <4>3, <5>2, <1>15
      <4> QED BY <4>1, <4>2, <4>3
    <3> QED BY <3>1, <3>2
  <2>2. ASSUME NEW d \in chunks' \ owned'
        PROVE  \/ mem'[d.hdr].data = NIL_MARKER
               \/ [hdr |-> mem'[d.hdr].data, order |-> d.order] \in chunks' \ owned'
    <3>1. d \in chunks \ owned /\ d # c /\ mem'[d.hdr] = mem[d.hdr]
      BY <1>11, <1>14
    <3>2. mem[d.hdr].data = NIL_MARKER \/ FreeChunk(mem[d.hdr].data, d.order)
      BY <3>1, <1>6 DEF IInv, LinksTyped
    <3>3. CASE FreeChunk(mem[d.hdr].data, d.order)
      <4> DEFINE e == [hdr |-> mem[d.hdr].data, order |-> d.order]
      <4>1. e \in chunks /\ e.hdr = mem[d.hdr].data /\ e.order = d.order
        BY <3>3 DEF FreeChunk
      <4>2. mem[d.hdr].data # NIL_MARKER
        BY <4>1, ChunkFacts DEF IInv
      <4>3. mem[d.hdr].data # heads[d.order]
        BY <3>1, <4>2, <1>6 DEF IInv, LinksUnique
      <4>4. mem[d.hdr].data # heads[o]
        BY <4>1, <4>3, <1>2, HeaderUnique DEF IInv
      <4> QED BY <3>1, <3>3, <4>4, <1>15
    <3> QED BY <3>1, <3>2, <3>3
  <2> QED BY <1>6, <2>1, <2>2 DEF LinksTyped, FreeChunk
<1>17. LinksUnique'
  <2> SUFFICES ASSUME NEW d \in chunks' \ owned', mem'[d.hdr].data # NIL_MARKER
               PROVE  /\ mem'[d.hdr].data # heads'[d.order]
                      /\ \A e \in chunks' \ owned' :
                           mem'[d.hdr].data = mem'[e.hdr].data => d = e
    BY DEF LinksUnique
  <2>1. d \in chunks \ owned /\ d # c /\ mem'[d.hdr] = mem[d.hdr]
    BY <1>11, <1>14
  <2>2. /\ mem[d.hdr].data # heads[d.order]
        /\ \A e \in chunks \ owned : mem[d.hdr].data = mem[e.hdr].data => d = e
    BY <2>1, <1>6 DEF IInv, LinksUnique
  <2>3. mem'[d.hdr].data # heads'[d.order]
    <3>1. CASE d.order = o
      <4>1. heads'[d.order] = n
        BY <1>1, <1>6, <3>1 DEF IInv, TypeOK
      <4>2. mem[d.hdr].data # mem[c.hdr].data
        BY <1>2, <2>1, <2>2
      <4> QED BY <2>1, <4>1, <4>2, <1>2 DEF n
    <3>2. CASE d.order # o
      BY <1>6, <2>1, <2>2, <3>2, ChunkFacts DEF IInv, TypeOK
    <3> QED BY <3>1, <3>2
  <2>4. ASSUME NEW e \in chunks' \ owned', mem'[d.hdr].data = mem'[e.hdr].data
        PROVE  d = e
    BY <1>11, <1>14, <2>1, <2>2, <2>4
  <2> QED BY <2>3, <2>4
<1> QED BY <1>6, <1>8, <1>9, <1>10, <1>13, <1>16, <1>17 DEF IInv, BumperAboveBase

\* allocate beyond the bumper: the new chunk begins where all others end.
LEMMA AllocateBumpInv ==
  ASSUME IInv, NoWrap, NEW size \in Sizes, AllocateBump(size)
  PROVE  IInv'
<1> DEFINE o == OrderFor(size)
           c == [hdr |-> bumper, order |-> o]
<1>1. o \in Orders
  BY OrderForFits, InputAssumption DEF AllocateBump
<1>2. /\ ~poisoned /\ poisoned' = poisoned
      /\ SizeObserved /\ BumpOk(o) /\ InRange(bumper)
      /\ heads[o] = NIL_MARKER /\ heads' = heads
      /\ bumper' = Bumped(o)
      /\ mem' = [mem EXCEPT ![bumper] = Occupied(o)]
      /\ chunks' = chunks \cup {c} /\ owned' = owned \cup {c}
      /\ memSize' = memSize /\ last_observed_memory_size' = memSize
      /\ original_heap_base' = original_heap_base
      /\ HandOut(c)
  BY DEF AllocateBump, HandOut
<1>3. c.hdr = bumper /\ c.order = o
  OBVIOUS
<1> HIDE DEF o, c
<1>4. /\ bumper \in WordAddress /\ bumper \in Nat
      /\ original_heap_base \in Nat
      /\ memSize \in Nat /\ memSize \in Address
      /\ last_observed_memory_size \in Nat
  BY SMT, InputAssumption, WidthAssumption DEF IInv, TypeOK, WordAddress, Address
<1>5. bumper <= memSize
  BY SMT, <1>2, <1>4 DEF InRange, HEADER_SIZE
<1>6. /\ bumper' = bumper + ChunkSize(o)
      /\ bumper' <= memSize
      /\ bumper' \in WordAddress /\ bumper' \in Nat
  BY SMT, <1>1, <1>2, <1>5, BumpExact, WidthAssumption DEF WordAddress, Address
<1>7. c \in Chunk
  BY <1>1, <1>4 DEF Chunk, c
<1>8. TypeOK'
  <2>1. /\ bytes_allocated' \in Address /\ bytes_allocated_peak' \in Address
        /\ address_space_used' \in Address /\ mem' \in [WordAddress -> Word]
    BY <1>2, <1>6, <1>7, HandOutTypes DEF IInv
  <2> QED BY <1>2, <1>4, <1>6, <1>7, <2>1 DEF IInv, TypeOK
<1>9. ChunkSize(o) \in Nat /\ ChunkSize(o) >= 16
  BY <1>1, SizeFacts
<1>10. ChunkEnd(c) = bumper'
  BY <1>3, <1>6 DEF ChunkEnd
<1>11. \A d \in chunks : /\ original_heap_base <= d.hdr
                         /\ ChunkEnd(d) <= bumper
                         /\ d.hdr < bumper
                         /\ ChunkEnd(d) \in Nat
  BY SMT, <1>4, ChunkFacts DEF IInv, ChunksInBounds
<1>12. ChunksInBounds'
  <2>1. original_heap_base <= bumper
    BY <1>2 DEF IInv, BumperAboveBase
  <2> QED BY SMT, <1>2, <1>3, <1>4, <1>6, <1>9, <1>10, <1>11, <2>1 DEF ChunksInBounds, ChunkEnd
<1>13. ChunksDisjoint'
  BY <1>2, <1>3, <1>11 DEF IInv, ChunksDisjoint, ChunkEnd
<1>14. \A d \in chunks : d # c /\ mem'[d.hdr] = mem[d.hdr]
  BY SMT, <1>2, <1>3, <1>4, <1>11, ChunkFacts DEF IInv, TypeOK
<1>15. mem'[c.hdr] = Occupied(c.order)
  BY <1>2, <1>3, <1>4 DEF IInv, TypeOK
<1>16. HeadersTrue'
  BY <1>2, <1>14, <1>15 DEF IInv, HeadersTrue
<1>17. chunks' \ owned' = chunks \ owned
  BY <1>2, <1>14
<1>18. LinksTyped'
  BY <1>2, <1>14, <1>17 DEF IInv, LinksTyped, FreeChunk
<1>19. LinksUnique'
  BY SMT, <1>2, <1>14, <1>17 DEF IInv, LinksUnique
<1>20. BumperAboveBase'
  BY SMT, <1>2, <1>4, <1>6, <1>9 DEF IInv, BumperAboveBase
<1> QED BY <1>8, <1>12, <1>13, <1>16, <1>18, <1>19, <1>20 DEF IInv

\* allocate that fails only poisons the allocator.
LEMMA AllocateErrInv ==
  ASSUME IInv, NoWrap, NEW size \in Sizes, AllocateErr(size)
  PROVE  IInv'
<1> DEFINE o == OrderFor(size)
           bumped == /\ SizeObserved /\ size <= MAX_POSSIBLE_ALLOCATION
                     /\ heads[o] = NIL_MARKER /\ BumpOk(o)
<1>1. /\ poisoned' = TRUE
      /\ ~(bumped /\ InRange(bumper))
      /\ bumper' = IF bumped THEN Bumped(o) ELSE bumper
      /\ last_observed_memory_size' =
           IF SizeObserved THEN memSize ELSE last_observed_memory_size
      /\ UNCHANGED <<original_heap_base, heads, stats, mem, memSize, chunks, owned>>
  BY DEF AllocateErr
<1>2. bumped => o \in Orders
  BY OrderForFits, InputAssumption
<1> HIDE DEF o
<1>3. /\ bumper \in WordAddress /\ bumper \in Nat
      /\ memSize \in Nat /\ memSize \in Address
      /\ last_observed_memory_size \in Nat
  BY SMT, InputAssumption, WidthAssumption DEF IInv, TypeOK, WordAddress, Address
<1>4. bumper' \in WordAddress
  BY <1>1, <1>2, <1>3, BumpedAligned DEF IInv
<1>5. TypeOK'
  BY <1>1, <1>3, <1>4 DEF IInv, TypeOK, stats
<1>6. ASSUME NEW c \in chunks PROVE bumper' = bumper
  <2>1. ASSUME bumped PROVE FALSE
    <3>1. bumper <= memSize
      BY SMT, <1>3, <2>1 DEF IInv, ChunksInBounds, SizeObserved
    <3>2. InRange(bumper)
      BY <1>2, <2>1, <3>1, BumpExact
    <3> QED BY <1>1, <2>1, <3>2
  <2> QED BY <1>1, <2>1
<1>7. ChunksInBounds'
  BY SMT, <1>1, <1>3, <1>6 DEF IInv, ChunksInBounds, ChunkEnd, SizeObserved
<1>8. ChunksDisjoint'
  BY <1>1 DEF IInv, ChunksDisjoint, ChunkEnd
<1> QED BY <1>1, <1>5, <1>7, <1>8
        DEF IInv, HeadersTrue, LinksTyped, LinksUnique, BumperAboveBase

(***************************************************************************)
(* A header that `deallocate` accepts, in front of a pointer the guest was *)
(* once given, is that of a chunk the guest owns.                          *)
(***************************************************************************)
LEMMA DeallocatesOwned ==
  ASSUME IInv, ~poisoned, NEW ptr \in Pointers, Deallocatable(ptr)
  PROVE  \E c \in owned : /\ c.hdr = ptr - HEADER_SIZE
                          /\ c.order = mem[c.hdr].data
<1>1. PICK c \in chunks : ptr = c.hdr + HEADER_SIZE
  BY SMT DEF Pointers, Deallocatable, HEADER_SIZE
<1>2. c.hdr = ptr - HEADER_SIZE
  BY SMT, <1>1, ChunkFacts DEF IInv, HEADER_SIZE
<1>3. mem[c.hdr].occ
  BY <1>2 DEF Deallocatable, ReadsOccupied
<1>4. c \in owned /\ mem[c.hdr] = Occupied(c.order)
  BY <1>3 DEF IInv, HeadersTrue
<1> QED BY SMT, <1>2, <1>4 DEF Occupied

\* deallocate puts the chunk at the head of the list of its order.
LEMMA DeallocateOkInv ==
  ASSUME IInv, NEW ptr \in Pointers, DeallocateOk(ptr)
  PROVE  IInv'
<1>1. ~poisoned /\ Deallocatable(ptr) /\ SizeObserved
  BY DEF DeallocateOk, Deallocatable
<1>2. PICK c \in owned : c.hdr = ptr - HEADER_SIZE /\ c.order = mem[c.hdr].data
  BY <1>1, DeallocatesOwned
<1>3. /\ c \in chunks /\ c.hdr \in WordAddress /\ c.order \in Orders
      /\ c.hdr # NIL_MARKER /\ c = [hdr |-> c.hdr, order |-> c.order]
      /\ c.hdr \in Address
  <2>1. c \in chunks
    BY DEF IInv, TypeOK
  <2> QED BY <2>1, ChunkFacts DEF IInv, WordAddress
<1> DEFINE n == heads[c.order]
<1>4. /\ poisoned' = poisoned
      /\ heads' = [heads EXCEPT ![c.order] = c.hdr]
      /\ mem' = [mem EXCEPT ![c.hdr] = Free(n)]
      /\ owned' = {d \in owned : d.hdr # c.hdr}
      /\ chunks' = chunks /\ bumper' = bumper /\ memSize' = memSize
      /\ original_heap_base' = original_heap_base
      /\ last_observed_memory_size' = memSize
      /\ bytes_allocated' = bytes_allocated - ChunkSize(c.order)
      /\ bytes_allocated >= ChunkSize(c.order)
      /\ bytes_allocated_peak' = bytes_allocated_peak
      /\ address_space_used' = address_space_used
  BY <1>2 DEF DeallocateOk, Knit
<1>5. owned' = owned \ {c}
  <2>1. \A d \in owned : d.hdr = c.hdr => d = c
    BY <1>3, HeaderUnique DEF IInv, TypeOK
  <2> QED BY <1>4, <2>1
<1>6. n = NIL_MARKER \/ FreeChunk(n, c.order)
  BY <1>1, <1>3 DEF IInv, LinksTyped
<1>7. n \in WordAddress \cup {NIL_MARKER} /\ n \in Address
  BY SMT, <1>3, WidthAssumption, OrdersAssumption
     DEF IInv, TypeOK, NIL_MARKER, WordAddress, Address
<1>8. TypeOK'
  <2>1. bytes_allocated' \in Address
    BY SMT, <1>3, <1>4, SizeFacts, WidthAssumption DEF IInv, TypeOK, Address
  <2>2. mem' \in [WordAddress -> Word]
    BY <1>3, <1>4, <1>7 DEF IInv, TypeOK, Free, Word
  <2>3. heads' \in [Orders -> WordAddress \cup {NIL_MARKER}]
    BY <1>3, <1>4 DEF IInv, TypeOK
  <2>4. memSize \in Address
    BY InputAssumption DEF IInv, TypeOK
  <2> QED BY <1>4, <1>5, <2>1, <2>2, <2>3, <2>4 DEF IInv, TypeOK
<1>9. ChunksInBounds' /\ ChunksDisjoint' /\ BumperAboveBase'
  <2>1. bumper \in Nat /\ memSize \in Nat /\ last_observed_memory_size \in Nat
    BY SMT, InputAssumption, WidthAssumption DEF IInv, TypeOK, WordAddress, Address
  <2>2. ChunksInBounds'
    BY SMT, <1>1, <1>4, <2>1 DEF IInv, ChunksInBounds, ChunkEnd, SizeObserved
  <2> QED BY <1>4, <2>2 DEF IInv, ChunksDisjoint, ChunkEnd, BumperAboveBase
<1>10. \A d \in chunks : d # c => d.hdr # c.hdr /\ mem'[d.hdr] = mem[d.hdr]
  BY <1>3, <1>4, HeaderUnique, ChunkFacts DEF IInv, TypeOK
<1>11. mem'[c.hdr] = Free(n)
  BY <1>3, <1>4 DEF IInv, TypeOK
<1>12. HeadersTrue'
  BY SMT, <1>1, <1>4, <1>5, <1>10, <1>11 DEF IInv, HeadersTrue, Free
<1>13. chunks' \ owned' = (chunks \ owned) \cup {c}
  BY <1>3, <1>4, <1>5
<1>14. \A o \in Orders : heads'[o] = IF o = c.order THEN c.hdr ELSE heads[o]
  BY <1>3, <1>4 DEF IInv, TypeOK
<1> HIDE DEF n
<1>15. LinksTyped'
  <2>1. \A o \in Orders : \/ heads'[o] = NIL_MARKER
                          \/ [hdr |-> heads'[o], order |-> o] \in chunks' \ owned'
    BY <1>1, <1>3, <1>13, <1>14 DEF IInv, LinksTyped, FreeChunk
  <2>2. ASSUME NEW d \in chunks' \ owned'
        PROVE  \/ mem'[d.hdr].data = NIL_MARKER
               \/ [hdr |-> mem'[d.hdr].data, order |-> d.order] \in chunks' \ owned'
    <3>1. CASE d = c
      BY SMT, <1>6, <1>11, <1>13, <3>1 DEF FreeChunk, Free
    <3>2. CASE d # c
      BY <1>1, <1>10, <1>13, <3>2 DEF IInv, LinksTyped, FreeChunk
    <3> QED BY <3>1, <3>2
  <2> QED BY <2>1, <2>2 DEF LinksTyped, FreeChunk
<1>16. \A d \in chunks \ owned : mem[d.hdr].data # c.hdr
  <2> SUFFICES ASSUME NEW d \in chunks \ owned, mem[d.hdr].data = c.hdr
               PROVE  FALSE
    OBVIOUS
  <2> DEFINE e == [hdr |-> c.hdr, order |-> d.order]
  <2>1. e \in chunks \ owned /\ e.hdr = c.hdr
    BY <1>1, <1>3 DEF IInv, LinksTyped, FreeChunk
  <2> HIDE DEF e
  <2>2. e = c
    BY <1>3, <2>1, HeaderUnique DEF IInv
  <2> QED BY <2>1, <2>2
<1>17. LinksUnique'
  <2> SUFFICES ASSUME NEW d \in chunks' \ owned', mem'[d.hdr].data # NIL_MARKER
               PROVE  /\ mem'[d.hdr].data # heads'[d.order]
                      /\ \A e \in chunks' \ owned' :
                           mem'[d.hdr].data = mem'[e.hdr].data => d = e
    BY DEF LinksUnique
  <2>1. CASE d = c
    <3>1. mem'[d.hdr].data = n /\ n # NIL_MARKER
      BY SMT, <1>11, <2>1 DEF Free
    <3>2. FreeChunk(n, c.order)
      BY <1>6, <3>1
    <3>3. n # c.hdr
      BY <1>3, <3>2 DEF FreeChunk
    <3>4. heads'[d.order] = c.hdr
      BY <1>3, <1>14, <2>1
    <3>5. ASSUME NEW e \in chunks \ owned, mem[e.hdr].data = n PROVE FALSE
      <4>1. mem[e.hdr].data # heads[e.order]
        BY <1>1, <3>1, <3>5 DEF IInv, LinksUnique
      <4>2. FreeChunk(n, e.order)
        BY <1>1, <3>1, <3>5 DEF IInv, LinksTyped
      <4> DEFINE f == [hdr |-> n, order |-> e.order]
                 g == [hdr |-> n, order |-> c.order]
      <4>3. f \in chunks /\ g \in chunks /\ f.hdr = g.hdr
        BY <3>2, <4>2 DEF FreeChunk
      <4>4. f = g
        BY <4>3, HeaderUnique DEF IInv
      <4>5. e.order = c.order
        BY <4>4
      <4> QED BY <3>5, <4>1, <4>5 DEF n
    <3>6. ASSUME NEW e \in chunks' \ owned', mem'[e.hdr].data = n PROVE e = c
      BY <1>10, <1>13, <3>5, <3>6
    <3> QED BY <2>1, <3>1, <3>3, <3>4, <3>6
  <2>2. CASE d # c
    <3>1. d \in chunks \ owned /\ mem'[d.hdr] = mem[d.hdr]
      BY <1>10, <1>13, <2>2
    <3>2. /\ mem[d.hdr].data # heads[d.order]
          /\ \A e \in chunks \ owned : mem[d.hdr].data = mem[e.hdr].data => d = e
      BY <1>1, <3>1 DEF IInv, LinksUnique
    <3>3. d.order \in Orders
      BY <3>1, ChunkFacts DEF IInv
    <3>4. mem'[d.hdr].data # heads'[d.order]
      BY <1>14, <1>16, <3>1, <3>2, <3>3
    <3>5. mem[d.hdr].data # n
      <4>1. ASSUME mem[d.hdr].data = n PROVE FALSE
        <5>1. FreeChunk(n, d.order) /\ FreeChunk(n, c.order)
          BY <1>1, <1>6, <3>1, <4>1 DEF IInv, LinksTyped
        <5> DEFINE f == [hdr |-> n, order |-> d.order]
                   g == [hdr |-> n, order |-> c.order]
        <5>2. f \in chunks /\ g \in chunks /\ f.hdr = g.hdr
          BY <5>1 DEF FreeChunk
        <5>3. f = g
          BY <5>2, HeaderUnique DEF IInv
        <5> QED BY <3>2, <4>1, <5>3 DEF n
      <4> QED BY <4>1
    <3>6. ASSUME NEW e \in chunks' \ owned', mem'[d.hdr].data = mem'[e.hdr].data
          PROVE  d = e
      <4>1. e # c
        BY SMT, <1>11, <3>1, <3>5, <3>6 DEF Free
      <4> QED BY <1>10, <1>13, <3>1, <3>2, <3>6, <4>1
    <3> QED BY <3>4, <3>6
  <2> QED BY <2>1, <2>2
<1> QED BY <1>8, <1>9, <1>12, <1>15, <1>17 DEF IInv

\* deallocate that fails only poisons the allocator.
LEMMA DeallocateErrInv ==
  ASSUME IInv, NEW ptr \in Pointers, DeallocateErr(ptr)
  PROVE  IInv'
<1>1. /\ ~poisoned /\ poisoned' = TRUE
      /\ last_observed_memory_size' =
           IF SizeObserved THEN memSize ELSE last_observed_memory_size
      /\ UNCHANGED <<original_heap_base, bumper, stats, memSize, chunks, owned>>
  BY DEF DeallocateErr
<1>2. /\ heads' \in [Orders -> WordAddress \cup {NIL_MARKER}]
      /\ mem' \in [WordAddress -> Word]
  <2>1. CASE ~Deallocatable(ptr)
    BY <2>1 DEF DeallocateErr, IInv, TypeOK
  <2>2. CASE Deallocatable(ptr)
    <3>1. PICK c \in owned : c.hdr = ptr - HEADER_SIZE /\ c.order = mem[c.hdr].data
      BY <1>1, <2>2, DeallocatesOwned
    <3>2. c.hdr \in WordAddress /\ c.order \in Orders
      <4>1. c \in chunks
        BY DEF IInv, TypeOK
      <4> QED BY <4>1, ChunkFacts DEF IInv
    <3>3. /\ heads' = [heads EXCEPT ![c.order] = c.hdr]
          /\ mem' = [mem EXCEPT ![c.hdr] = Free(heads[c.order])]
      BY <2>2, <3>1 DEF DeallocateErr, Knit
    <3>4. heads[c.order] \in Address
      BY SMT, <3>2, WidthAssumption, OrdersAssumption
         DEF IInv, TypeOK, NIL_MARKER, WordAddress, Address
    <3> QED BY <3>2, <3>3, <3>4 DEF IInv, TypeOK, Free, Word
  <2> QED BY <2>1, <2>2
<1>3. memSize \in Address /\ memSize \in Nat /\ bumper \in Nat
      /\ last_observed_memory_size \in Nat
  BY SMT, InputAssumption, WidthAssumption DEF IInv, TypeOK, WordAddress, Address
<1>4. TypeOK'
  BY <1>1, <1>2, <1>3 DEF IInv, TypeOK, stats
<1>5. ChunksInBounds'
  BY SMT, <1>1, <1>3 DEF IInv, ChunksInBounds, ChunkEnd, SizeObserved
<1>6. ChunksDisjoint'
  BY <1>1 DEF IInv, ChunksDisjoint, ChunkEnd
<1> QED BY <1>1, <1>4, <1>5, <1>6
        DEF IInv, HeadersTrue, LinksTyped, LinksUnique, BumperAboveBase

\* The guest writes inside its own blocks and so reaches no header.
LEMMA HeadersUntouched ==
  ASSUME IInv, NEW c \in owned, NEW a \in WordAddress, NEW w \in GuestWords,
         GuestWrite(c, a, w)
  PROVE  \A d \in chunks : mem'[d.hdr] = mem[d.hdr]
<1>1. mem' = [mem EXCEPT ![a] = w] /\ a >= c.hdr + 8 /\ a < ChunkEnd(c)
  BY DEF GuestWrite, HEADER_SIZE
<1>2. c \in chunks /\ a \in Nat
  BY SMT, WidthAssumption DEF IInv, TypeOK, WordAddress, Address
<1> TAKE d \in chunks
<1>3. /\ c.hdr \in Nat /\ d.hdr \in Nat
      /\ ChunkEnd(c) \in Nat /\ ChunkEnd(d) \in Nat
      /\ ChunkEnd(d) >= d.hdr + 16
      /\ d.hdr \in WordAddress
  BY <1>2, ChunkFacts DEF IInv
<1>4. d = c \/ ChunkEnd(c) <= d.hdr \/ ChunkEnd(d) <= c.hdr
  BY <1>2 DEF IInv, ChunksDisjoint
<1>5. a # d.hdr
  BY SMT, <1>1, <1>2, <1>3, <1>4
<1> QED BY <1>1, <1>3, <1>5 DEF IInv, TypeOK

\* A write of the guest preserves the invariant.
LEMMA GuestWriteInv ==
  ASSUME IInv, NEW c \in owned, NEW a \in WordAddress, NEW w \in GuestWords,
         GuestWrite(c, a, w)
  PROVE  IInv'
<1>1. /\ mem' = [mem EXCEPT ![a] = w]
      /\ UNCHANGED <<original_heap_base, bumper, heads, poisoned, stats,
                     last_observed_memory_size, memSize, chunks, owned>>
  BY DEF GuestWrite
<1>3. \A d \in chunks : mem'[d.hdr] = mem[d.hdr]
  BY HeadersUntouched
<1>4. TypeOK'
  <2>1. mem' \in [WordAddress -> Word]
    BY <1>1, InputAssumption DEF IInv, TypeOK
  <2> QED BY <1>1, <2>1 DEF IInv, TypeOK, stats
<1>5. ChunksInBounds' /\ ChunksDisjoint' /\ BumperAboveBase'
  BY <1>1 DEF IInv, ChunksInBounds, ChunksDisjoint, ChunkEnd, BumperAboveBase
<1>6. HeadersTrue'
  BY <1>1, <1>3 DEF IInv, HeadersTrue
<1>7. LinksTyped'
  BY <1>1, <1>3 DEF IInv, LinksTyped, FreeChunk
<1>8. LinksUnique'
  BY SMT, <1>1, <1>3 DEF IInv, LinksUnique
<1> QED BY <1>4, <1>5, <1>6, <1>7, <1>8 DEF IInv

\* A memory that grows leaves the allocator and its chunks as they are.
LEMMA GrowInv ==
  ASSUME IInv, NEW size \in MemSizes, Grow(size)
  PROVE  IInv'
BY DEF Grow, IInv, TypeOK, ChunksInBounds, ChunksDisjoint, HeadersTrue,
       LinksTyped, LinksUnique, FreeChunk, ChunkEnd, BumperAboveBase, stats

\* A step that changes nothing preserves the invariant.
LEMMA StutterInv ==
  ASSUME IInv, UNCHANGED vars
  PROVE  IInv'
BY DEF vars, stats, IInv, TypeOK, ChunksInBounds, ChunksDisjoint, HeadersTrue,
       LinksTyped, LinksUnique, FreeChunk, ChunkEnd, BumperAboveBase

(***************************************************************************)
(* The invariant is inductive, if no sum of a memory size and a chunk size *)
(* wraps around unnoticed.                                                 *)
(***************************************************************************)
THEOREM Invariance == NoWrap => (Spec => []IInv)
<1> SUFFICES ASSUME NoWrap PROVE Spec => []IInv
  OBVIOUS
<1>1. IInv /\ [Next]_vars => IInv'
  <2> SUFFICES ASSUME IInv, [Next]_vars PROVE IInv'
    OBVIOUS
  <2>1. CASE \E size \in Sizes : Allocate(size)
    BY <2>1, AllocateReuseInv, AllocateBumpInv, AllocateErrInv DEF Allocate
  <2>2. CASE \E ptr \in Pointers : Deallocate(ptr)
    BY <2>2, DeallocateOkInv, DeallocateErrInv DEF Deallocate
  <2>3. CASE Refuse \/ UNCHANGED vars
    BY <2>3, StutterInv DEF Refuse
  <2>4. CASE \E c \in owned, a \in WordAddress, w \in GuestWords : GuestWrite(c, a, w)
    BY <2>4, GuestWriteInv
  <2>5. CASE \E size \in MemSizes : Grow(size)
    BY <2>5, GrowInv
  <2> QED BY <2>1, <2>2, <2>3, <2>4, <2>5 DEF Next
<1> QED BY InitInv, <1>1, PTL DEF Spec

(***************************************************************************)
(* In every reachable state the variables have their types, chunks are     *)
(* disjoint, and the headers are true: what `allocate` and `deallocate`    *)
(* keep up whatever the guest writes to its own chunks.                    *)
(***************************************************************************)
THEOREM ChunkSafety ==
  NoWrap => (Spec => [](TypeOK /\ ChunksDisjoint /\ HeadersTrue))
BY Invariance, PTL DEF IInv

(***************************************************************************)
(* `bump` cuts every chunk off between the heap base and the end of the    *)
(* memory, also when the memory grows to the size that is reported as 0.   *)
(***************************************************************************)
THEOREM BoundsSafety == NoWrap => (Spec => []ChunksInBounds)
BY Invariance, PTL DEF IInv

(***************************************************************************)
(* `allocate` can always use the head of a free list: its assertion "only  *)
(* valid values are inserted; qed" holds and the header it reads is free.  *)
(***************************************************************************)
THEOREM FreeListSafety ==
  NoWrap => (Spec => [](LinksTyped /\ LinksUnique /\ FreeListUsable))
<1>1. IInv => LinksTyped /\ LinksUnique /\ FreeListUsable
  BY FreeListUsableInv DEF IInv
<1> QED BY <1>1, Invariance, PTL

-----------------------------------------------------------------------------
(* The count of allocated bytes is exact, and no chunk is lost.            *)

\* The bytes of the memory that belong to the chunks of S.
Bytes(S) == {a \in Address : \E c \in S : c.hdr <= a /\ a < ChunkEnd(c)}

\* `bytes_allocated` counts the bytes of the chunks in use, without loss.
CountExact == bytes_allocated = Cardinality(Bytes(owned))

\* The extent of a chunk, whether or not it has been cut off.
LEMMA SpanFacts ==
  ASSUME NEW c \in Chunk
  PROVE  /\ c.hdr \in Nat /\ ChunkEnd(c) \in Nat
         /\ ChunkEnd(c) = c.hdr + ChunkSize(c.order)
         /\ ChunkSize(c.order) \in Nat /\ ChunkSize(c.order) >= 16
<1>1. c.hdr \in WordAddress /\ c.order \in Orders
  BY DEF Chunk
<1>2. c.hdr \in Nat
  BY SMT, <1>1, WidthAssumption DEF WordAddress, Address
<1>3. ChunkSize(c.order) \in Nat /\ ChunkSize(c.order) >= 16
  BY <1>1, SizeFacts
<1> QED BY SMT, <1>2, <1>3 DEF ChunkEnd

(***************************************************************************)
(* The bytes of chunks below an address can be counted, and are too few    *)
(* for the count to wrap.                                                  *)
(***************************************************************************)
LEMMA BytesCounted ==
  ASSUME NEW S \in SUBSET Chunk, NEW b \in Address, \A d \in S : ChunkEnd(d) <= b
  PROVE  /\ IsFiniteSet(Bytes(S))
         /\ Cardinality(Bytes(S)) \in Nat
         /\ Cardinality(Bytes(S)) < U32
<1>1. b \in Nat /\ b < U32 /\ U32 \in Nat
  BY SMT, WidthAssumption DEF Address
<1>2. ASSUME NEW a \in Bytes(S) PROVE a \in 0 .. b - 1
  <2>1. PICK c \in S : a < ChunkEnd(c)
    BY DEF Bytes
  <2>2. ChunkEnd(c) <= b /\ ChunkEnd(c) \in Nat
    BY SpanFacts
  <2>3. a \in Nat
    BY SMT, <1>1 DEF Bytes, Address
  <2> QED BY SMT, <1>1, <2>1, <2>2, <2>3
<1>3. /\ IsFiniteSet(0 .. b - 1)
      /\ Cardinality(0 .. b - 1) = b
  BY SMT, <1>1, FS_Interval
<1>4. IsFiniteSet(Bytes(S)) /\ Cardinality(Bytes(S)) <= b
  <2>1. Bytes(S) \in SUBSET (0 .. b - 1)
    BY <1>2
  <2> QED BY <1>3, <2>1, FS_Subset
<1>5. Cardinality(Bytes(S)) \in Nat
  BY <1>4, FS_CardinalityType
<1> QED BY SMT, <1>1, <1>4, <1>5

(***************************************************************************)
(* A chunk adds its size to the bytes of the chunks that it is apart from. *)
(***************************************************************************)
LEMMA BytesAdd ==
  ASSUME NEW S \in SUBSET Chunk, NEW c \in Chunk, NEW b \in Address,
         \A d \in S \cup {c} : ChunkEnd(d) <= b,
         \A d \in S : ChunkEnd(c) <= d.hdr \/ ChunkEnd(d) <= c.hdr
  PROVE  Cardinality(Bytes(S \cup {c})) = Cardinality(Bytes(S)) + ChunkSize(c.order)
<1>1. /\ c.hdr \in Nat /\ ChunkEnd(c) \in Nat
      /\ ChunkEnd(c) = c.hdr + ChunkSize(c.order)
      /\ ChunkSize(c.order) \in Nat /\ ChunkSize(c.order) >= 16
      /\ ChunkEnd(c) <= b
  BY SpanFacts
<1>2. b \in Nat /\ b < U32 /\ U32 \in Nat
  BY SMT, WidthAssumption DEF Address
<1> DEFINE I == c.hdr .. ChunkEnd(c) - 1
<1>3. IsFiniteSet(I) /\ Cardinality(I) = ChunkSize(c.order)
  <2>1. c.hdr \in Int /\ ChunkEnd(c) - 1 \in Int
    BY SMT, <1>1
  <2>2. /\ IsFiniteSet(I)
        /\ Cardinality(I) = IF c.hdr > ChunkEnd(c) - 1 THEN 0
                            ELSE ChunkEnd(c) - 1 - c.hdr + 1
    BY <2>1, FS_Interval
  <2> HIDE DEF I
  <2> QED BY SMT, <1>1, <2>2
<1>4. \A a : a \in I <=> a \in Address /\ c.hdr <= a /\ a < ChunkEnd(c)
  BY SMT, <1>1, <1>2 DEF Address
<1> HIDE DEF I
<1>5. Bytes(S \cup {c}) = Bytes(S) \cup I
  BY <1>4 DEF Bytes
<1>6. Bytes(S) \cap I = {}
  <2> SUFFICES ASSUME NEW a \in Bytes(S), a \in I PROVE FALSE
    OBVIOUS
  <2>1. PICK d \in S : a \in Address /\ d.hdr <= a /\ a < ChunkEnd(d)
    BY DEF Bytes
  <2>2. d.hdr \in Nat /\ ChunkEnd(d) \in Nat
    BY SpanFacts
  <2>3. a \in Nat
    BY SMT, <1>2, <2>1 DEF Address
  <2>4. c.hdr <= a /\ a < ChunkEnd(c)
    BY <1>4
  <2> QED BY SMT, <1>1, <2>1, <2>2, <2>3, <2>4
<1>7. IsFiniteSet(Bytes(S)) /\ Cardinality(Bytes(S)) \in Nat
  BY BytesCounted
<1>8. Cardinality(Bytes(S) \cup I) =
        Cardinality(Bytes(S)) + Cardinality(I) - Cardinality(Bytes(S) \cap I)
  BY <1>3, <1>7, FS_Union
<1>9. Cardinality(Bytes(S) \cap I) = 0
  BY <1>6, FS_EmptySet
<1>10. Cardinality(Bytes(S \cup {c})) = Cardinality(Bytes(S)) + ChunkSize(c.order) - 0
  BY <1>3, <1>5, <1>8, <1>9
<1> QED BY SMT, <1>1, <1>7, <1>10

\* `allocate` counts the chunk that it hands out.
LEMMA HandOutCounts ==
  ASSUME IInv, IInv', CountExact, chunks \subseteq chunks',
         NEW c \in chunks', c \notin owned, owned' = owned \cup {c},
         bytes_allocated' = Add32(bytes_allocated, ChunkSize(c.order))
  PROVE  CountExact'
<1>1. /\ owned \in SUBSET Chunk /\ c \in Chunk /\ bumper' \in Address
      /\ bytes_allocated \in Address
  BY DEF IInv, TypeOK, WordAddress
<1>2. \A d \in owned \cup {c} : d \in chunks'
  BY DEF IInv, TypeOK
<1>3. \A d \in owned \cup {c} : ChunkEnd(d) <= bumper'
  BY <1>2 DEF IInv, ChunksInBounds, ChunkEnd
<1>4. \A d \in owned : ChunkEnd(c) <= d.hdr \/ ChunkEnd(d) <= c.hdr
  BY <1>2 DEF IInv, ChunksDisjoint, ChunkEnd
<1>5. Cardinality(Bytes(owned')) = Cardinality(Bytes(owned)) + ChunkSize(c.order)
  BY <1>1, <1>3, <1>4, BytesAdd
<1>6. Cardinality(Bytes(owned')) < U32
  <2>1. owned' \in SUBSET Chunk /\ \A d \in owned' : ChunkEnd(d) <= bumper'
    BY <1>1, <1>3
  <2> QED BY <1>1, <2>1, BytesCounted
<1>7. ChunkSize(c.order) \in Nat
  BY <1>1, SpanFacts
<1>8. bytes_allocated' = bytes_allocated + ChunkSize(c.order)
  <2>1. ChunkSize(c.order) \in Address /\ bytes_allocated + ChunkSize(c.order) < U32
    BY SMT, <1>1, <1>5, <1>6, <1>7, WidthAssumption DEF CountExact, Address
  <2> QED BY <1>1, <2>1, Add32Cases
<1> QED BY <1>5, <1>8 DEF CountExact

(***************************************************************************)
(* The count covers every chunk in use: the check of `deallocate` that it  *)
(* does not underflow never fails.                                         *)
(***************************************************************************)
LEMMA CountCovers ==
  ASSUME IInv, CountExact, NEW c \in owned
  PROVE  /\ bytes_allocated >= ChunkSize(c.order)
         /\ bytes_allocated - ChunkSize(c.order) = Cardinality(Bytes(owned \ {c}))
<1>1. /\ c \in chunks /\ c \in Chunk /\ bumper \in Address
      /\ owned \ {c} \in SUBSET Chunk /\ owned = (owned \ {c}) \cup {c}
  BY DEF IInv, TypeOK, WordAddress
<1>2. \A d \in owned : ChunkEnd(d) <= bumper
  BY DEF IInv, TypeOK, ChunksInBounds
<1>3. \A d \in owned \ {c} : ChunkEnd(c) <= d.hdr \/ ChunkEnd(d) <= c.hdr
  BY <1>1 DEF IInv, TypeOK, ChunksDisjoint
<1>4. Cardinality(Bytes(owned)) = Cardinality(Bytes(owned \ {c})) + ChunkSize(c.order)
  BY <1>1, <1>2, <1>3, BytesAdd
<1>5. Cardinality(Bytes(owned \ {c})) \in Nat
  BY <1>1, <1>2, BytesCounted
<1>6. ChunkSize(c.order) \in Nat
  BY <1>1, SpanFacts
<1> QED BY SMT, <1>4, <1>5, <1>6 DEF CountExact

\* The free chunks of an order are the ones on its list.
Complete(o) == /\ Linked(o, FreeOf(o))
               /\ \A S \in SUBSET FreeOf(o) : Linked(o, S) => S = FreeOf(o)

\* A step that leaves the head and the links of the free chunks of an order alone.
LEMMA ListKept ==
  ASSUME NEW o \in Orders, Complete(o), heads'[o] = heads[o],
         {c \in chunks' \ owned' : c.order = o} = {c \in chunks \ owned : c.order = o},
         \A c \in chunks \ owned : c.order = o => mem'[c.hdr] = mem[c.hdr]
  PROVE  Complete(o)'
<1>1. FreeOf(o)' = FreeOf(o)
  BY DEF FreeOf
<1>2. \A h \in FreeOf(o) : mem'[h] = mem[h]
  BY DEF FreeOf
<1>3. ASSUME NEW S \in SUBSET FreeOf(o) PROVE Linked(o, S)' <=> Linked(o, S)
  BY <1>2 DEF Linked
<1>4. (Linked(o, FreeOf(o)))' <=> Linked(o, FreeOf(o))
  BY <1>1, <1>2 DEF Linked
<1> QED BY <1>1, <1>3, <1>4 DEF Complete

\* `allocate` from a list takes its first chunk off and leaves the rest on it.
LEMMA ReuseCompletes ==
  ASSUME IInv, NEW o \in Orders, Complete(o), ~poisoned, heads[o] # NIL_MARKER,
         heads'[o] = mem[heads[o]].data,
         FreeOf(o)' = FreeOf(o) \ {heads[o]},
         \A h \in FreeOf(o) \ {heads[o]} : mem'[h] = mem[h]
  PROVE  Complete(o)'
<1> DEFINE F == FreeOf(o)
           G == F \ {heads[o]}
<1>1. heads[o] \in F /\ \A h \in F : mem[h].data \in F \cup {NIL_MARKER}
  BY DEF Complete, Linked
<1>2. ASSUME NEW h \in F, mem[h].data # NIL_MARKER PROVE mem[h].data # heads[o]
  <2>1. PICK c \in chunks \ owned : c.order = o /\ c.hdr = h
    BY DEF FreeOf
  <2> QED BY <1>2, <2>1 DEF IInv, LinksUnique
<1>3. heads'[o] \in G \cup {NIL_MARKER}
  BY <1>1, <1>2
<1>4. \A h \in G : mem'[h].data \in G \cup {NIL_MARKER}
  BY <1>1, <1>2
<1>5. (Linked(o, FreeOf(o)))'
  BY <1>3, <1>4 DEF Linked
<1>6. ASSUME NEW S \in SUBSET G, Linked(o, S)' PROVE S = G
  <2> DEFINE T == S \cup {heads[o]}
  <2>1. /\ heads'[o] \in S \cup {NIL_MARKER}
        /\ \A h \in S : mem'[h].data \in S \cup {NIL_MARKER}
    BY <1>6 DEF Linked
  <2>2. \A h \in T : mem[h].data \in T \cup {NIL_MARKER}
    BY <2>1
  <2>3. T \in SUBSET F /\ Linked(o, T)
    BY <1>1, <2>2 DEF Linked
  <2>4. T = F
    BY <2>3 DEF Complete
  <2> QED BY <2>4
<1> QED BY <1>5, <1>6 DEF Complete

\* `deallocate` puts a chunk in front of a list that goes on as it was.
LEMMA FreeCompletes ==
  ASSUME NEW o \in Orders, Complete(o), NEW h \in WordAddress,
         h # NIL_MARKER, h \notin FreeOf(o),
         heads'[o] = h, mem'[h].data = heads[o],
         FreeOf(o)' = FreeOf(o) \cup {h},
         \A x \in FreeOf(o) : mem'[x] = mem[x]
  PROVE  Complete(o)'
<1> DEFINE F == FreeOf(o)
           G == F \cup {h}
<1>1. /\ heads[o] \in F \cup {NIL_MARKER}
      /\ \A x \in F : mem[x].data \in F \cup {NIL_MARKER}
  BY DEF Complete, Linked
<1>2. (Linked(o, FreeOf(o)))'
  BY <1>1 DEF Linked
<1>3. ASSUME NEW S \in SUBSET G, Linked(o, S)' PROVE S = G
  <2> DEFINE T == S \ {h}
  <2>1. h \in S /\ \A x \in S : mem'[x].data \in S \cup {NIL_MARKER}
    BY <1>3 DEF Linked
  <2>2. heads[o] \in T \cup {NIL_MARKER}
    BY <1>1, <2>1
  <2>3. \A x \in T : mem[x].data \in T \cup {NIL_MARKER}
    BY <1>1, <2>1
  <2>4. T \in SUBSET F /\ Linked(o, T)
    BY <2>2, <2>3 DEF Linked
  <2>5. T = F
    BY <2>4 DEF Complete
  <2> QED BY <2>1, <2>5
<1> QED BY <1>2, <1>3 DEF Complete

-----------------------------------------------------------------------------
\* The count and the lists after each step.
Kept == CountExact /\ \A o \in Orders : Complete(o)

\* `allocate` from a free list.
LEMMA ReuseKeeps ==
  ASSUME IInv, IInv', Kept, NEW size \in Sizes, AllocateReuse(size)
  PROVE  Kept'
<1> DEFINE o == OrderFor(size)
           c == [hdr |-> heads[o], order |-> o]
<1>1. o \in Orders
  BY OrderForFits, InputAssumption DEF AllocateReuse
<1>2. c \in chunks \ owned /\ c.hdr = heads[o] /\ c.order = o
  BY <1>1 DEF IInv, LinksTyped, FreeChunk, AllocateReuse
<1>3. /\ ~poisoned /\ heads[o] # NIL_MARKER
      /\ heads' = [heads EXCEPT ![o] = mem[heads[o]].data]
      /\ mem' = [mem EXCEPT ![heads[o]] = Occupied(o)]
      /\ owned' = owned \cup {c} /\ chunks' = chunks
      /\ bytes_allocated' = Add32(bytes_allocated, ChunkSize(o))
  BY <1>2 DEF AllocateReuse, HandOut, NextFree
<1> HIDE DEF o, c
<1>4. CountExact'
  BY <1>2, <1>3, HandOutCounts DEF Kept
<1>5. \A d \in chunks : d # c => d.hdr # heads[o] /\ mem'[d.hdr] = mem[d.hdr]
  BY <1>2, <1>3, HeaderUnique, ChunkFacts DEF IInv, TypeOK
<1>6. Complete(o)'
  <2>1. heads'[o] = mem[heads[o]].data
    BY <1>1, <1>3 DEF IInv, TypeOK
  <2>2. FreeOf(o)' = FreeOf(o) \ {heads[o]}
    BY <1>2, <1>3, <1>5 DEF FreeOf
  <2>3. \A h \in FreeOf(o) \ {heads[o]} : mem'[h] = mem[h]
    BY <1>2, <1>5 DEF FreeOf
  <2> QED BY <1>1, <1>3, <2>1, <2>2, <2>3, ReuseCompletes DEF Kept
<1>7. ASSUME NEW p \in Orders, p # o PROVE Complete(p)'
  <2>1. heads'[p] = heads[p]
    BY <1>3, <1>7 DEF IInv, TypeOK
  <2>2. {d \in chunks' \ owned' : d.order = p} = {d \in chunks \ owned : d.order = p}
    BY <1>2, <1>3, <1>7
  <2>3. \A d \in chunks \ owned : d.order = p => mem'[d.hdr] = mem[d.hdr]
    BY <1>2, <1>5, <1>7
  <2> QED BY <2>1, <2>2, <2>3, ListKept DEF Kept
<1> QED BY <1>4, <1>6, <1>7 DEF Kept

\* `allocate` beyond the bumper.
LEMMA BumpKeeps ==
  ASSUME IInv, IInv', NoWrap, Kept, NEW size \in Sizes, AllocateBump(size)
  PROVE  Kept'
<1> DEFINE o == OrderFor(size)
           c == [hdr |-> bumper, order |-> o]
<1>1. /\ heads' = heads
      /\ mem' = [mem EXCEPT ![bumper] = Occupied(o)]
      /\ chunks' = chunks \cup {c} /\ owned' = owned \cup {c}
      /\ bytes_allocated' = Add32(bytes_allocated, ChunkSize(o))
      /\ c.order = o
  BY DEF AllocateBump, HandOut
<1> HIDE DEF o, c
<1>2. bumper \in Nat
  BY SMT, WidthAssumption DEF IInv, TypeOK, WordAddress, Address
<1>3. \A d \in chunks : d.hdr < bumper /\ d.hdr \in WordAddress
  BY SMT, <1>2, ChunkFacts DEF IInv, ChunksInBounds
<1>4. \A d \in chunks : d # c /\ mem'[d.hdr] = mem[d.hdr]
  BY SMT, <1>1, <1>2, <1>3 DEF c, IInv, TypeOK
<1>5. CountExact'
  <2>1. c \notin owned /\ chunks \subseteq chunks' /\ c \in chunks'
    BY <1>1, <1>4 DEF IInv, TypeOK
  <2> QED BY <1>1, <2>1, HandOutCounts DEF Kept
<1>6. ASSUME NEW p \in Orders PROVE Complete(p)'
  <2>1. {d \in chunks' \ owned' : d.order = p} = {d \in chunks \ owned : d.order = p}
    BY <1>1, <1>4
  <2> QED BY <1>1, <1>4, <2>1, ListKept DEF Kept
<1> QED BY <1>5, <1>6 DEF Kept

\* `deallocate` that succeeds.
LEMMA DeallocateKeeps ==
  ASSUME IInv, Kept, NEW ptr \in Pointers, DeallocateOk(ptr)
  PROVE  Kept'
<1>1. ~poisoned /\ Deallocatable(ptr)
  BY DEF DeallocateOk
<1>2. PICK c \in owned : c.hdr = ptr - HEADER_SIZE /\ c.order = mem[c.hdr].data
  BY <1>1, DeallocatesOwned
<1>3. c \in chunks /\ c.hdr \in WordAddress /\ c.order \in Orders /\ c.hdr # NIL_MARKER
  <2>1. c \in chunks
    BY DEF IInv, TypeOK
  <2> QED BY <2>1, ChunkFacts DEF IInv
<1>4. /\ heads' = [heads EXCEPT ![c.order] = c.hdr]
      /\ mem' = [mem EXCEPT ![c.hdr] = Free(heads[c.order])]
      /\ owned' = {d \in owned : d.hdr # c.hdr} /\ chunks' = chunks
      /\ bytes_allocated' = bytes_allocated - ChunkSize(c.order)
  BY <1>2 DEF DeallocateOk, Knit
<1>5. \A d \in chunks : d # c => d.hdr # c.hdr /\ mem'[d.hdr] = mem[d.hdr]
  BY <1>3, <1>4, HeaderUnique, ChunkFacts DEF IInv, TypeOK
<1>6. owned' = owned \ {c} /\ chunks' \ owned' = (chunks \ owned) \cup {c}
  BY <1>3, <1>4, <1>5 DEF IInv, TypeOK
<1>7. CountExact'
  BY <1>4, <1>6, CountCovers DEF Kept, CountExact
<1>8. Complete(c.order)'
  <2>1. heads'[c.order] = c.hdr /\ mem'[c.hdr].data = heads[c.order]
    BY SMT, <1>3, <1>4 DEF IInv, TypeOK, Free
  <2>2. FreeOf(c.order)' = FreeOf(c.order) \cup {c.hdr}
    BY <1>6 DEF FreeOf
  <2>3. c.hdr \notin FreeOf(c.order)
    BY <1>5 DEF FreeOf
  <2>4. \A x \in FreeOf(c.order) : mem'[x] = mem[x]
    BY <1>5 DEF FreeOf
  <2> QED BY <1>3, <2>1, <2>2, <2>3, <2>4, FreeCompletes DEF Kept
<1>9. ASSUME NEW p \in Orders, p # c.order PROVE Complete(p)'
  <2>1. heads'[p] = heads[p]
    BY <1>4, <1>9 DEF IInv, TypeOK
  <2>2. {d \in chunks' \ owned' : d.order = p} = {d \in chunks \ owned : d.order = p}
    BY <1>6, <1>9
  <2>3. \A d \in chunks \ owned : d.order = p => mem'[d.hdr] = mem[d.hdr]
    BY <1>5
  <2> QED BY <2>1, <2>2, <2>3, ListKept DEF Kept
<1> QED BY <1>7, <1>8, <1>9 DEF Kept

\* A step that moves no chunk and changes no header.
LEMMA OthersKeep ==
  ASSUME Kept, UNCHANGED <<heads, chunks, owned, bytes_allocated>>,
         \A d \in chunks : mem'[d.hdr] = mem[d.hdr]
  PROVE  Kept'
<1>1. CountExact'
  BY DEF Kept, CountExact
<1>2. ASSUME NEW o \in Orders PROVE Complete(o)'
  BY ListKept DEF Kept
<1> QED BY <1>1, <1>2 DEF Kept

\* `deallocate` that fails has put no chunk on a list: the count never falls
\* short of the chunk that is freed.
LEMMA DeallocateErrKeeps ==
  ASSUME IInv, Kept, NEW ptr \in Pointers, DeallocateErr(ptr)
  PROVE  Kept'
<1>1. ~Deallocatable(ptr)
  <2> SUFFICES ASSUME Deallocatable(ptr) PROVE FALSE
    OBVIOUS
  <2>1. PICK c \in owned : c.hdr = ptr - HEADER_SIZE /\ c.order = mem[c.hdr].data
    BY DeallocatesOwned DEF DeallocateErr
  <2>2. bytes_allocated >= ChunkSize(c.order)
    BY CountCovers DEF Kept
  <2> QED BY <2>1, <2>2 DEF DeallocateErr
<1>2. UNCHANGED <<heads, mem, chunks, owned, bytes_allocated>>
  BY <1>1 DEF DeallocateErr, stats
<1> QED BY <1>2, OthersKeep

\* The guest writes inside its own blocks and so changes no link.
LEMMA GuestWriteKeeps ==
  ASSUME IInv, Kept, NEW c \in owned, NEW a \in WordAddress, NEW w \in GuestWords,
         GuestWrite(c, a, w)
  PROVE  Kept'
<1>1. \A d \in chunks : mem'[d.hdr] = mem[d.hdr]
  BY HeadersUntouched
<1>2. UNCHANGED <<heads, chunks, owned, bytes_allocated>>
  BY DEF GuestWrite, stats
<1> QED BY <1>1, <1>2, OthersKeep

\* The count is exact and every list complete in every reachable state.
LEMMA KeptAlways == NoWrap => (Spec => []Kept)
<1> SUFFICES ASSUME NoWrap PROVE Spec => []Kept
  OBVIOUS
<1>1. Init => Kept
  <2> SUFFICES ASSUME Init PROVE Kept
    OBVIOUS
  <2>1. Bytes(owned) = {}
    BY DEF Init, Bytes
  <2>2. CountExact
    BY <2>1, FS_EmptySet DEF Init, CountExact
  <2>3. ASSUME NEW o \in Orders PROVE FreeOf(o) = {} /\ heads[o] = NIL_MARKER
    BY DEF Init, FreeOf
  <2> QED BY <2>2, <2>3 DEF Kept, Complete, Linked
<1>2. IInv /\ IInv' /\ Kept /\ [Next]_vars => Kept'
  <2> SUFFICES ASSUME IInv, IInv', Kept, [Next]_vars PROVE Kept'
    OBVIOUS
  <2>1. CASE \E size \in Sizes : Allocate(size)
    <3>1. PICK size \in Sizes : Allocate(size)
      BY <2>1
    <3>2. CASE AllocateErr(size)
      BY <3>2, OthersKeep DEF AllocateErr, stats
    <3> QED BY <3>1, <3>2, ReuseKeeps, BumpKeeps DEF Allocate
  <2>2. CASE \E ptr \in Pointers : Deallocate(ptr)
    BY <2>2, DeallocateKeeps, DeallocateErrKeeps DEF Deallocate
  <2>3. CASE Refuse \/ UNCHANGED vars
    BY <2>3, OthersKeep DEF Refuse, vars, stats
  <2>4. CASE \E c \in owned, a \in WordAddress, w \in GuestWords : GuestWrite(c, a, w)
    BY <2>4, GuestWriteKeeps
  <2>5. CASE \E size \in MemSizes : Grow(size)
    BY <2>5, OthersKeep DEF Grow, stats
  <2> QED BY <2>1, <2>2, <2>3, <2>4, <2>5 DEF Next
<1> QED BY <1>1, <1>2, Invariance, PTL DEF Spec

(***************************************************************************)
(* Nothing leaks: whatever is allocated, freed, freed twice and written,   *)
(* every chunk is in use or on the list of its order.                      *)
(***************************************************************************)
THEOREM ListSafety == NoWrap => (Spec => []NoChunkLost)
<1>1. Kept => NoChunkLost
  BY DEF Kept, Complete, NoChunkLost
<1> QED BY <1>1, KeptAlways, PTL

(***************************************************************************)
(* `bytes_allocated` is the number of bytes of the chunks in use, so that  *)
(* "underflow of the currently allocated bytes count" never happens.       *)
(***************************************************************************)
THEOREM CountSafety == NoWrap => (Spec => []CountExact)
<1>1. Kept => CountExact
  BY DEF Kept
<1> QED BY <1>1, KeptAlways, PTL

-----------------------------------------------------------------------------
BlockOf(c) == [ptr |-> c.hdr + HEADER_SIZE, len |-> OrderSize(c.order)]

(***************************************************************************)
(* A chunk that is inside the memory and disjoint from every chunk in use  *)
(* is a block that the abstract heap may grant.                            *)
(***************************************************************************)
LEMMA GrantsBlock ==
  ASSUME IInv, IInv', ~poisoned, UNCHANGED <<poisoned, memSize>>,
         NEW c \in chunks', c \notin owned, owned' = owned \cup {c},
         chunks \subseteq chunks',
         bumper' <= memSize,
         bytes_allocated' = Add32(bytes_allocated, ChunkSize(c.order))
  PROVE  AbstractHeap!Next
<1> DEFINE b == BlockOf(c)
<1>1. /\ c.hdr \in Nat /\ c.hdr % 8 = 0 /\ c.order \in Orders
      /\ c.hdr + ChunkSize(c.order) <= bumper'
  <2>1. c \in Chunk
    BY DEF IInv, TypeOK
  <2>2. c.hdr \in WordAddress /\ c.order \in Orders
    BY <2>1 DEF Chunk
  <2>3. (ChunkEnd(c) <= bumper)'
    BY DEF IInv, ChunksInBounds
  <2>4. c.hdr + ChunkSize(c.order) <= bumper'
    BY <2>3 DEF ChunkEnd
  <2> QED BY SMT, <2>2, <2>4, WidthAssumption DEF WordAddress, Address, ALIGNMENT
<1>2. /\ OrderSize(c.order) \in Nat /\ OrderSize(c.order) >= 8
      /\ ChunkSize(c.order) = OrderSize(c.order) + 8
  BY <1>1, SizeFacts
<1>3. memSize \in Nat /\ memSize < U32 /\ bumper' \in Nat
  BY SMT, InputAssumption, WidthAssumption DEF IInv, TypeOK, WordAddress, Address
<1>4. b.ptr = c.hdr + 8 /\ b.len = OrderSize(c.order)
  BY DEF BlockOf, HEADER_SIZE
<1>5. b \in AbstractHeap!Block
  BY SMT, <1>1, <1>2, <1>3, WidthAssumption
     DEF AbstractHeap!Block, AbstractHeap!Address, BlockOf, HEADER_SIZE
<1> HIDE DEF b
<1>6. /\ b.ptr % 8 = 0 /\ b.ptr >= 8 /\ b.ptr + b.len <= memSize
  BY SMT, <1>1, <1>2, <1>3, <1>4
<1>7. ASSUME NEW e \in LiveBlocks PROVE AbstractHeap!Apart(b, e)
  <2>1. PICK d \in owned : e = [ptr |-> d.hdr + HEADER_SIZE, len |-> OrderSize(d.order)]
    BY DEF LiveBlocks
  <2>2. /\ d \in chunks /\ d \in chunks' /\ d # c
    BY DEF IInv, TypeOK
  <2>3. /\ d.hdr \in Nat /\ d.order \in Orders
    BY <2>2, ChunkFacts DEF IInv
  <2>4. /\ OrderSize(d.order) \in Nat
        /\ ChunkSize(d.order) = OrderSize(d.order) + 8
    BY <2>3, SizeFacts
  <2>5. \/ c.hdr + ChunkSize(c.order) <= d.hdr
        \/ d.hdr + ChunkSize(d.order) <= c.hdr
    BY <2>2 DEF IInv, ChunksDisjoint, ChunkEnd
  <2>6. e.ptr = d.hdr + 8 /\ e.len = OrderSize(d.order)
    BY <2>1 DEF HEADER_SIZE
  <2>7. \/ b.ptr + b.len <= e.ptr - 8
        \/ e.ptr + e.len <= b.ptr - 8
    BY SMT, <1>1, <1>2, <1>4, <2>3, <2>4, <2>5, <2>6
  <2> QED BY <2>7 DEF AbstractHeap!Apart, HEADER_SIZE
<1>8. LiveBlocks' = LiveBlocks \cup {b}
  BY DEF LiveBlocks, b, BlockOf
<1>9. bytes_allocated' = (bytes_allocated + b.len + 8) % U32
  <2>1. bytes_allocated \in Nat
    BY SMT, WidthAssumption DEF IInv, TypeOK, Address
  <2>2. bytes_allocated + ChunkSize(c.order) = bytes_allocated + b.len + 8
    BY SMT, <1>2, <1>4, <2>1
  <2> QED BY <2>2 DEF Add32
<1>10. AbstractHeap!Grant(b)
  BY <1>5, <1>6, <1>7, <1>8, <1>9
     DEF AbstractHeap!Grant, ALIGNMENT, HEADER_SIZE
<1> QED BY <1>8, <1>10 DEF AbstractHeap!Next

\* deallocate releases a block that the abstract heap has in use.
LEMMA ReleasesBlock ==
  ASSUME IInv, NEW ptr \in Pointers, DeallocateOk(ptr)
  PROVE  AbstractHeap!Next
<1>1. ~poisoned /\ Deallocatable(ptr)
  BY DEF DeallocateOk
<1>2. PICK c \in owned : c.hdr = ptr - HEADER_SIZE /\ c.order = mem[c.hdr].data
  BY <1>1, DeallocatesOwned
<1>3. /\ owned' = {d \in owned : d.hdr # c.hdr}
      /\ bytes_allocated' = bytes_allocated - ChunkSize(c.order)
      /\ UNCHANGED <<poisoned, memSize>>
  BY <1>2 DEF DeallocateOk
<1> DEFINE b == BlockOf(c)
<1>4. b \in LiveBlocks
  BY DEF LiveBlocks, BlockOf
<1>5. /\ c.hdr \in Nat /\ \A d \in owned : d.hdr \in Nat
  BY ChunkFacts DEF IInv, TypeOK
<1>6. LiveBlocks' = LiveBlocks \ {b}
  <2>1. ASSUME NEW d \in owned, BlockOf(d) = b PROVE d.hdr = c.hdr
    <3>1. BlockOf(d).ptr = b.ptr
      BY <2>1
    <3>2. d.hdr + 8 = c.hdr + 8
      BY <3>1 DEF BlockOf, HEADER_SIZE
    <3> QED BY SMT, <1>5, <3>2
  <2>2. ASSUME NEW d \in owned, d.hdr = c.hdr PROVE d = c
    <3>1. d \in chunks /\ c \in chunks
      BY DEF IInv, TypeOK
    <3> QED BY <2>2, <3>1, HeaderUnique DEF IInv
  <2>3. LiveBlocks = {BlockOf(d) : d \in owned}
    BY DEF LiveBlocks, BlockOf
  <2>4. LiveBlocks' = {BlockOf(d) : d \in owned'}
    BY DEF LiveBlocks, BlockOf
  <2> HIDE DEF b
  <2>5. b = BlockOf(c)
    BY DEF b
  <2> QED BY <1>3, <2>1, <2>2, <2>3, <2>4, <2>5
<1>7. bytes_allocated' = bytes_allocated - (b.len + 8)
  <2>1. ChunkSize(c.order) = b.len + 8
    BY DEF ChunkSize, BlockOf, HEADER_SIZE
  <2> QED BY <1>3, <2>1
<1> HIDE DEF b
<1>8. AbstractHeap!Release(b)
  BY <1>1, <1>3, <1>4, <1>6, <1>7 DEF AbstractHeap!Release, HEADER_SIZE
<1> QED BY <1>4, <1>8 DEF AbstractHeap!Next

(***************************************************************************)
(* The freeing-bump allocator implements the abstract heap: what it grants *)
(* overlaps nothing in use, and an error is final.                         *)
(***************************************************************************)
THEOREM Refinement == NoWrap => (Spec => ImplementsHeap)
<1> SUFFICES ASSUME NoWrap PROVE Spec => ImplementsHeap
  OBVIOUS
<1>1. Init => AbstractHeap!Init
  BY InputAssumption
     DEF Init, AbstractHeap!Init, AbstractHeap!Address, Address, LiveBlocks
<1>2. IInv /\ IInv' /\ [Next]_vars => [AbstractHeap!Next]_(AbstractHeap!vars)
  <2> SUFFICES ASSUME IInv, IInv', [Next]_vars
               PROVE  AbstractHeap!Next \/ UNCHANGED AbstractHeap!vars
    OBVIOUS
  <2>1. ASSUME NEW size \in Sizes, AllocateReuse(size) PROVE AbstractHeap!Next
    <3> DEFINE o == OrderFor(size)
               c == [hdr |-> heads[o], order |-> o]
    <3>1. o \in Orders
      BY <2>1, OrderForFits, InputAssumption DEF AllocateReuse
    <3>2. c \in chunks \ owned
      BY <2>1, <3>1 DEF IInv, LinksTyped, FreeChunk, AllocateReuse
    <3>3. /\ ~poisoned /\ UNCHANGED <<poisoned, memSize, chunks, bumper>>
          /\ last_observed_memory_size' = memSize
          /\ owned' = owned \cup {c}
          /\ bytes_allocated' = Add32(bytes_allocated, ChunkSize(c.order))
      BY <2>1 DEF AllocateReuse, HandOut
    <3> HIDE DEF c
    <3>4. bumper' <= memSize
      BY <3>2, <3>3 DEF IInv, ChunksInBounds
    <3> QED BY <3>2, <3>3, <3>4, GrantsBlock
  <2>2. ASSUME NEW size \in Sizes, AllocateBump(size) PROVE AbstractHeap!Next
    <3> DEFINE c == [hdr |-> bumper, order |-> OrderFor(size)]
    <3>1. /\ ~poisoned /\ UNCHANGED <<poisoned, memSize>>
          /\ last_observed_memory_size' = memSize
          /\ chunks' = chunks \cup {c} /\ owned' = owned \cup {c}
          /\ bytes_allocated' = Add32(bytes_allocated, ChunkSize(c.order))
      BY <2>2 DEF AllocateBump, HandOut
    <3>2. c \notin owned
      <4>1. ASSUME c \in chunks PROVE FALSE
        <5>1. ChunkEnd(c) <= bumper /\ c.hdr = bumper /\ bumper \in Nat
          BY SMT, <4>1, WidthAssumption
             DEF IInv, TypeOK, ChunksInBounds, WordAddress, Address
        <5> HIDE DEF c
        <5> QED BY SMT, <4>1, <5>1, ChunkFacts DEF IInv
      <4> QED BY <4>1 DEF IInv, TypeOK
    <3> HIDE DEF c
    <3>3. bumper' <= memSize
      BY <3>1 DEF IInv, ChunksInBounds
    <3> QED BY <3>1, <3>2, <3>3, GrantsBlock
  <2>3. ASSUME NEW size \in Sizes, AllocateErr(size) PROVE AbstractHeap!Next
    BY <2>3 DEF AllocateErr, stats, AbstractHeap!Next, AbstractHeap!Fail, LiveBlocks
  <2>4. ASSUME NEW ptr \in Pointers, DeallocateErr(ptr) PROVE AbstractHeap!Next
    BY <2>4 DEF DeallocateErr, stats, AbstractHeap!Next, AbstractHeap!Fail, LiveBlocks
  <2>5. ASSUME NEW size \in MemSizes, Grow(size) PROVE AbstractHeap!Next
    <3>1. /\ memSize' = size /\ (size > memSize \/ size = 0)
          /\ UNCHANGED <<owned, bytes_allocated, poisoned>>
      BY <2>5 DEF Grow, stats
    <3>2. memSize \in Nat /\ size \in Nat /\ size \in Address
      BY SMT, InputAssumption, WidthAssumption DEF IInv, TypeOK, Address
    <3>3. AbstractHeap!Resize
      BY SMT, <3>1, <3>2
         DEF AbstractHeap!Resize, AbstractHeap!Address, Address, LiveBlocks
    <3> QED BY <3>3 DEF AbstractHeap!Next
  <2>6. ASSUME UNCHANGED <<owned, bytes_allocated, poisoned, memSize>>
        PROVE  UNCHANGED AbstractHeap!vars
    BY <2>6 DEF AbstractHeap!vars, LiveBlocks
  <2>7. CASE \E c \in owned, a \in WordAddress, w \in GuestWords : GuestWrite(c, a, w)
    BY <2>6, <2>7 DEF GuestWrite, stats
  <2>8. CASE Refuse \/ UNCHANGED vars
    BY <2>6, <2>8 DEF Refuse, vars, stats
  <2> QED BY <2>1, <2>2, <2>3, <2>4, <2>5, <2>7, <2>8, ReleasesBlock
          DEF Next, Allocate, Deallocate
<1> QED BY <1>1, <1>2, Invariance, PTL DEF Spec, ImplementsHeap, AbstractHeap!Spec
=============================================================================
