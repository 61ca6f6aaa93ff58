-------------------------------- MODULE Heap --------------------------------
(***************************************************************************)
(* What the allocator of sc-allocator promises to its callers (the host    *)
(* functions `allocate_memory` and `deallocate_memory` and the injection   *)
(* of call data), independently of how it keeps track of free memory:      *)
(* every allocation is an aligned block of the linear memory that overlaps *)
(* no block still in use, `used` follows every grant and release, and      *)
(* after one failed request nothing is ever granted or released again.     *)
(***************************************************************************)
EXTENDS Naturals

CONSTANTS
    Header,         \* bytes in front of a block that belong to the allocator
    Align,          \* alignment of every block
    AddressSpace    \* addresses are below this number

VARIABLES
    live,           \* the blocks granted and not yet released
    used,           \* bytes in use, headers included
    failed,         \* a request has failed
    size            \* current size of the linear memory

vars == <<live, used, failed, size>>

Address == 0 .. AddressSpace - 1

\* A block of `len` bytes at `ptr`.
Block == [ptr : Address, len : Address]

\* Two blocks, their headers included, share no byte.
Apart(b, c) ==
    \/ b.ptr + b.len <= c.ptr - Header
    \/ c.ptr + c.len <= b.ptr - Header

Init ==
    /\ live = {}
    /\ used = 0
    /\ failed = FALSE
    /\ size \in Address

\* Grants a block of which all bytes, and the header, lie in the memory.
Grant(b) ==
    /\ ~failed
    /\ b \in Block
    /\ b.ptr % Align = 0
    /\ b.ptr >= Header
    /\ b.ptr + b.len <= size
    /\ \A c \in live : Apart(b, c)
    /\ live' = live \cup {b}
    /\ used' = (used + b.len + Header) % AddressSpace
    /\ UNCHANGED <<failed, size>>

Release(b) ==
    /\ ~failed
    /\ b \in live
    /\ live' = live \ {b}
    /\ used' = used - (b.len + Header)
    /\ UNCHANGED <<failed, size>>

\* A request that fails grants and releases nothing.
Fail ==
    /\ failed' = TRUE
    /\ UNCHANGED <<live, used, size>>

\* The guest grows its memory.  The size wraps to 0 at the end of the
\* address space.
Resize ==
    /\ size' \in Address
    /\ size' >= size \/ size' = 0
    /\ UNCHANGED <<live, used, failed>>

\* The block granted is one of those that are live afterwards.
Next ==
    \/ \E b \in live' : Grant(b)
    \/ \E b \in live : Release(b)
    \/ Fail
    \/ Resize

Spec == Init /\ [][Next]_vars
=============================================================================
