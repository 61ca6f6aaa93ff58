---------------------------- MODULE FreeingBump ----------------------------
(***************************************************************************)
(* The freeing-bump allocator of sc-allocator.  It serves a request from a *)
(* free list of chunks of the same power-of-two size ("order") and, when   *)
(* that list is empty, by moving the `bumper` up the linear memory.  Every *)
(* chunk is preceded by an 8 byte header.  The header lives in the memory  *)
(* of the guest: it holds the order of an occupied chunk and, in a free    *)
(* chunk, the link to the next free chunk.                                 *)
(*                                                                         *)
(* Addresses are bytes and have the width of the code's u32 (U32 values).  *)
(* A u64 at an 8-aligned address is one word, [occ, data]: bit 32 and the  *)
(* low 32 bits, which is all that Header::read_from looks at.              *)
(***************************************************************************)
EXTENDS Integers, FiniteSetsExt

CONSTANTS
    N_ORDERS,        \* 23 in the code
    U32,             \* 2^32 in the code
    OverflowChecks,  \* TRUE: u32 overflow panics (debug); FALSE: it wraps
    HeapBases,       \* values of the guest's __heap_base
    MemSizes,        \* sizes the linear memory may have when a call starts
                     \* or after memory.grow; 0 stands for 2^32, see Grow
    Sizes,           \* sizes that are requested
    GuestWords       \* words the guest writes into its allocations

ALIGNMENT == 8
HEADER_SIZE == 8
MIN_POSSIBLE_ALLOCATION == 8

Orders == 0 .. N_ORDERS - 1
OrderSize(o) == MIN_POSSIBLE_ALLOCATION * 2^o
ChunkSize(o) == OrderSize(o) + HEADER_SIZE
MAX_POSSIBLE_ALLOCATION == OrderSize(N_ORDERS - 1)

Address == 0 .. U32 - 1
WordAddress == {a \in Address : a % ALIGNMENT = 0}
NIL_MARKER == U32 - 1
Word == [occ : BOOLEAN, data : Address]

ASSUME OrdersAssumption == N_ORDERS \in Nat \ {0}

ASSUME WidthAssumption ==
    /\ U32 \in Nat
    /\ U32 % ALIGNMENT = 0
    /\ \A o \in Orders : ChunkSize(o) < U32
    /\ N_ORDERS < U32
    /\ OverflowChecks \in BOOLEAN

ASSUME InputAssumption ==
    /\ HeapBases \subseteq 0 .. U32 - ALIGNMENT
    /\ MemSizes \subseteq Address
    /\ \A s \in MemSizes : s % ALIGNMENT = 0
    /\ Sizes \subseteq Nat
    /\ GuestWords \subseteq Word

VARIABLES
    original_heap_base, bumper, heads, poisoned, last_observed_memory_size,
    bytes_allocated, bytes_allocated_peak, address_space_used,
    mem,             \* the linear memory, word by word
    memSize,         \* what Memory::size() reports
    chunks,          \* history: every chunk ever cut off by `bump`
    owned            \* history: the chunks the guest holds

stats == <<bytes_allocated, bytes_allocated_peak, address_space_used>>

vars == <<original_heap_base, bumper, heads, poisoned,
          last_observed_memory_size, stats, mem, memSize, chunks, owned>>

-----------------------------------------------------------------------------
(* u32 arithmetic, orders, headers.                                        *)

Add32(a, b) == (a + b) % U32

\* Mutant of Overflows: a sum that wraps is not noticed.
OverflowsNever(a, b) == FALSE

\* The sum panics in a build with overflow checks.
Overflows(a, b) == OverflowChecks /\ a + b >= U32

\* Order::from_size, for a size that is not too large.
OrderFor(size) ==
    CHOOSE o \in Orders : /\ size <= OrderSize(o)
                          /\ \A p \in Orders : size <= OrderSize(p) => o <= p

Occupied(o) == [occ |-> TRUE, data |-> o]
Free(link) == [occ |-> FALSE, data |-> link]

\* heap_range: 8 bytes at `a` are inside the memory.
InRange(a) == a + HEADER_SIZE < U32 /\ a + HEADER_SIZE <= memSize

ReadsFree(a) == InRange(a) /\ ~mem[a].occ
ReadsOccupied(a) == InRange(a) /\ mem[a].occ /\ mem[a].data \in Orders

\* Mutant of SizeObserved: a memory that shrinks is not noticed.
SizeObservedAlways == TRUE

\* observe_memory_size succeeds.
SizeObserved == memSize >= last_observed_memory_size

-----------------------------------------------------------------------------
Chunk == [hdr : WordAddress, order : Orders]
ChunkEnd(c) == c.hdr + ChunkSize(c.order)

\* Mutant of AlignedBase: the heap base is taken as it is.
AlignedBaseUnrounded(heap_base) == heap_base

\* FreeingBumpHeapAllocator::new rounds the heap base up.
AlignedBase(heap_base) ==
    ((heap_base + ALIGNMENT - 1) \div ALIGNMENT) * ALIGNMENT

Init ==
    /\ \E b \in HeapBases : original_heap_base = AlignedBase(b)
    /\ bumper = original_heap_base
    /\ heads = [o \in Orders |-> NIL_MARKER]
    /\ poisoned = FALSE
    /\ last_observed_memory_size = 0
    /\ bytes_allocated = 0
    /\ bytes_allocated_peak = 0
    /\ address_space_used = 0
    /\ mem = [a \in WordAddress |-> Free(0)]
    /\ memSize \in MemSizes \ {0}
    /\ chunks = {}
    /\ owned = {}

\* The assertion on the head of a free list and the read of its header.
ReuseOk(o) ==
    /\ ~Overflows(heads[o], ChunkSize(o))
    /\ Add32(heads[o], ChunkSize(o)) <= memSize
    /\ ReadsFree(heads[o])

\* `bump` does not run out of space, as the code computes it.
BumpOk(o) ==
    /\ ~Overflows(bumper, ChunkSize(o))
    /\ Add32(bumper, ChunkSize(o)) <= memSize

\* Mutant of Bumped: no room for the header.
BumpedWithoutHeader(o) == Add32(bumper, OrderSize(o))

\* The bumper after a chunk of order o has been cut off.
Bumped(o) == Add32(bumper, ChunkSize(o))

\* Mutant of NextFree: the rest of the free list is lost.
NextFreeDropped(o) == NIL_MARKER

\* The link in the first chunk of a free list.
NextFree(o) == mem[heads[o]].data

\* Mutant of HandOut: the header is not counted.
HandOutPayloadCounted(c) ==
    /\ mem' = [mem EXCEPT ![c.hdr] = Occupied(c.order)]
    /\ bytes_allocated' = Add32(bytes_allocated, OrderSize(c.order))
    /\ bytes_allocated_peak' = IF bytes_allocated' > bytes_allocated_peak
                                 THEN bytes_allocated' ELSE bytes_allocated_peak
    /\ address_space_used' = (bumper' - original_heap_base) % U32
    /\ owned' = owned \cup {c}

\* The common end of `allocate`: the occupied header and the statistics.
HandOut(c) ==
    /\ mem' = [mem EXCEPT ![c.hdr] = Occupied(c.order)]
    /\ bytes_allocated' = Add32(bytes_allocated, ChunkSize(c.order))
    /\ bytes_allocated_peak' = IF bytes_allocated' > bytes_allocated_peak
                                 THEN bytes_allocated' ELSE bytes_allocated_peak
    /\ address_space_used' = (bumper' - original_heap_base) % U32
    /\ owned' = owned \cup {c}

\* `allocate` takes the first chunk of a free list.
AllocateReuse(size) ==
    LET o == OrderFor(size)
    IN  /\ ~poisoned
        /\ SizeObserved
        /\ size <= MAX_POSSIBLE_ALLOCATION
        /\ heads[o] # NIL_MARKER
        /\ ReuseOk(o)
        /\ last_observed_memory_size' = memSize
        /\ heads' = [heads EXCEPT ![o] = NextFree(o)]
        /\ UNCHANGED <<bumper, original_heap_base, poisoned, memSize, chunks>>
        /\ HandOut([hdr |-> heads[o], order |-> o])

\* `allocate` cuts a new chunk off the rest of the memory.
AllocateBump(size) ==
    LET o == OrderFor(size)
        c == [hdr |-> bumper, order |-> o]
    IN  /\ ~poisoned
        /\ SizeObserved
        /\ size <= MAX_POSSIBLE_ALLOCATION
        /\ heads[o] = NIL_MARKER
        /\ BumpOk(o)
        /\ InRange(bumper)
        /\ last_observed_memory_size' = memSize
        /\ bumper' = Bumped(o)
        /\ chunks' = chunks \cup {c}
        /\ UNCHANGED <<heads, original_heap_base, poisoned, memSize>>
        /\ HandOut(c)

\* `allocate` fails: an error is returned or an assertion panics, and the
\* PoisonBomb goes off.  `bump` may have moved the bumper before the write
\* of the header fails.
AllocateErr(size) ==
    LET o == OrderFor(size)
        fits == SizeObserved /\ size <= MAX_POSSIBLE_ALLOCATION
        bumped == fits /\ heads[o] = NIL_MARKER /\ BumpOk(o)
    IN  /\ ~poisoned
        /\ ~(fits /\ heads[o] # NIL_MARKER /\ ReuseOk(o))
        /\ ~(bumped /\ InRange(bumper))
        /\ poisoned' = TRUE
        /\ last_observed_memory_size' =
             IF SizeObserved THEN memSize ELSE last_observed_memory_size
        /\ bumper' = IF bumped THEN Bumped(o) ELSE bumper
        /\ UNCHANGED <<original_heap_base, heads, stats, mem, memSize,
                       chunks, owned>>

Allocate(size) ==
    AllocateReuse(size) \/ AllocateBump(size) \/ AllocateErr(size)

-----------------------------------------------------------------------------
\* The header in front of `ptr` is one that `deallocate` accepts.
Deallocatable(ptr) ==
    SizeObserved /\ ptr >= HEADER_SIZE /\ ReadsOccupied(ptr - HEADER_SIZE)

\* The freed chunk becomes the head of the free list of its order.
Knit(h) ==
    /\ heads' = [heads EXCEPT ![mem[h].data] = h]
    /\ mem' = [mem EXCEPT ![h] = Free(heads[mem[h].data])]

DeallocateOk(ptr) ==
    LET h == ptr - HEADER_SIZE
    IN  /\ ~poisoned
        /\ Deallocatable(ptr)
        /\ bytes_allocated >= ChunkSize(mem[h].data)
        /\ last_observed_memory_size' = memSize
        /\ Knit(h)
        /\ bytes_allocated' = bytes_allocated - ChunkSize(mem[h].data)
        /\ owned' = {c \in owned : c.hdr # h}
        /\ UNCHANGED <<original_heap_base, bumper, poisoned, memSize, chunks,
                       bytes_allocated_peak, address_space_used>>

\* `deallocate` fails.  The count of allocated bytes is checked after the
\* chunk has been put on the free list.
DeallocateErr(ptr) ==
    LET h == ptr - HEADER_SIZE
    IN  /\ ~poisoned
        /\ ~(Deallocatable(ptr) /\ bytes_allocated >= ChunkSize(mem[h].data))
        /\ poisoned' = TRUE
        /\ last_observed_memory_size' =
             IF SizeObserved THEN memSize ELSE last_observed_memory_size
        /\ IF Deallocatable(ptr) THEN Knit(h) ELSE UNCHANGED <<heads, mem>>
        /\ UNCHANGED <<original_heap_base, bumper, stats, memSize, chunks, owned>>

Deallocate(ptr) == DeallocateOk(ptr) \/ DeallocateErr(ptr)

\* Any request to a poisoned allocator returns an error and does nothing.
Refuse == poisoned /\ UNCHANGED vars

-----------------------------------------------------------------------------
(* The guest.  It frees pointers it was once given, frees them twice, or   *)
(* frees null; it writes to what it owns and grows its memory.             *)

Pointers == {c.hdr + HEADER_SIZE : c \in chunks} \cup {0}

GuestWrite(c, a, w) ==
    /\ a >= c.hdr + HEADER_SIZE
    /\ a < ChunkEnd(c)
    /\ mem' = [mem EXCEPT ![a] = w]
    /\ UNCHANGED <<original_heap_base, bumper, heads, poisoned, stats,
                   last_observed_memory_size, memSize, chunks, owned>>

\* The host computes the size as pages * 64 KiB in 32 bits, so that a memory
\* that has grown to 2^32 bytes is reported with size 0.
Grow(size) ==
    /\ memSize # 0
    /\ size > memSize \/ size = 0
    /\ memSize' = size
    /\ UNCHANGED <<original_heap_base, bumper, heads, poisoned, stats,
                   last_observed_memory_size, mem, chunks, owned>>

Next ==
    \/ \E size \in Sizes : Allocate(size)
    \/ \E ptr \in Pointers : Deallocate(ptr)
    \/ Refuse
    \/ \E c \in owned, a \in WordAddress, w \in GuestWords : GuestWrite(c, a, w)
    \/ \E size \in MemSizes : Grow(size)

Spec == Init /\ [][Next]_vars

\* The sum of a memory size and a chunk size is a u32 in every build, or the
\* build checks for overflow.
NoWrap ==
    \/ OverflowChecks
    \/ \A s \in MemSizes, o \in Orders : s + ChunkSize(o) < U32

-----------------------------------------------------------------------------
(* Properties.                                                             *)

\* The variables keep their types: every field of the allocator is a u32,
\* every header and link an 8-aligned address.
TypeOK ==
    /\ original_heap_base \in WordAddress
    /\ bumper \in WordAddress
    /\ heads \in [Orders -> WordAddress \cup {NIL_MARKER}]
    /\ poisoned \in BOOLEAN
    /\ last_observed_memory_size \in Address
    /\ bytes_allocated \in Address
    /\ bytes_allocated_peak \in Address
    /\ address_space_used \in Address
    /\ mem \in [WordAddress -> Word]
    /\ memSize \in MemSizes
    /\ chunks \subseteq Chunk
    /\ owned \subseteq chunks

\* Every chunk that `bump` ever returned lies above the heap base, below the
\* bumper and inside the memory as it was observed last.
ChunksInBounds ==
    \A c \in chunks : /\ original_heap_base <= c.hdr
                      /\ ChunkEnd(c) <= bumper
                      /\ bumper <= last_observed_memory_size

\* No two chunks share a byte, headers included, whether in use or free.
ChunksDisjoint ==
    \A c, d \in chunks : c # d => \/ ChunkEnd(c) <= d.hdr
                                  \/ ChunkEnd(d) <= c.hdr

\* The headers in guest memory say what the guest was told: a chunk it owns
\* has an occupied header of the chunk's order, any other a free header.  No
\* write of the guest to its own chunks changes that.
HeadersTrue ==
    ~poisoned =>
      \A c \in chunks : IF c \in owned THEN mem[c.hdr] = Occupied(c.order)
                                       ELSE ~mem[c.hdr].occ

\* A list head, or a link stored in a free chunk, leads to nothing or to a
\* free chunk of the same order.
FreeChunk(h, o) == [hdr |-> h, order |-> o] \in chunks \ owned
LinksTyped ==
    ~poisoned =>
      /\ \A o \in Orders : heads[o] = NIL_MARKER \/ FreeChunk(heads[o], o)
      /\ \A c \in chunks \ owned :
           mem[c.hdr].data = NIL_MARKER \/ FreeChunk(mem[c.hdr].data, c.order)

\* A free chunk is led to from at most one place, so that handing it out once
\* removes it from the lists.
LinksUnique ==
    ~poisoned =>
      \A c \in chunks \ owned :
        \/ mem[c.hdr].data = NIL_MARKER
        \/ /\ mem[c.hdr].data # heads[c.order]
           /\ \A d \in chunks \ owned :
                mem[c.hdr].data = mem[d.hdr].data => c = d

\* Unless the memory has shrunk, `allocate` can use the head of every free
\* list: the assertion "only valid values are inserted; qed" holds and the
\* header that is read is free.
FreeListUsable ==
    ~poisoned /\ SizeObserved =>
      \A o \in Orders : heads[o] # NIL_MARKER => ReuseOk(o)

\* `bump` returns an error "if the operation would exhaust the heap": no chunk
\* in the hands of the guest reaches past the end of the memory.
BumpNeverExhausts ==
    \A c \in owned : ChunkEnd(c) <= last_observed_memory_size

\* Nothing leaks: each chunk ever cut off is in use or on the list of its order.
\* Following the links from the head of a list leads to free chunks of that
\* order only, and it leads to all of them: none can be left out of a set that
\* has the head and, with a chunk, the one its link names.
FreeOf(o) == {c.hdr : c \in {d \in chunks \ owned : d.order = o}}
Linked(o, S) == /\ heads[o] \in S \cup {NIL_MARKER}
                /\ \A h \in S : mem[h].data \in S \cup {NIL_MARKER}
NoChunkLost ==
    \A o \in Orders : /\ Linked(o, FreeOf(o))
                      /\ \A S \in SUBSET FreeOf(o) : Linked(o, S) => S = FreeOf(o)

\* The allocator implements the heap it promises: blocks granted are aligned,
\* inside the memory and apart from all blocks in use, the byte count follows
\* every grant and release, and after an error nothing changes any more.
LiveBlocks == {[ptr |-> c.hdr + HEADER_SIZE, len |-> OrderSize(c.order)] :
                 c \in owned}
AbstractHeap == INSTANCE Heap
    WITH Header <- HEADER_SIZE, Align <- ALIGNMENT, AddressSpace <- U32,
         live <- LiveBlocks, used <- bytes_allocated,
         failed <- poisoned, size <- memSize
ImplementsHeap == AbstractHeap!Spec
=============================================================================
