--------------------------- MODULE MCFreeingBump ---------------------------
(***************************************************************************)
(* Small instances of the allocator: a handful of words of memory, two     *)
(* orders, and guest words that look like headers.                         *)
(***************************************************************************)
EXTENDS FreeingBump

MCHeapBases == {0, 5}

\* Requests at the boundaries of the two orders, and one that is too large.
MCSizes == {1, 9, 16, 17}

\* A word that reads as an occupied header.
MCGuestWords == {Occupied(0)}

\* Memory that grows to the end of the address space: 0 is 64 in a u32.
MCMemSizes == {40, 48, 56, 0}
=============================================================================
