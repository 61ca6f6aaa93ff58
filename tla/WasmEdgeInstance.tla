-------------------------- MODULE WasmEdgeInstance --------------------------
(***************************************************************************)
(* One instance of the WasmEdge executor over many calls: its linear       *)
(* memory, a mutable global and the host state of the call that runs.      *)
(*                                                                         *)
(* With FastReuse the instance is instantiated once.  A call writes the    *)
(* data segments and the saved values of the globals again and, when it is *)
(* over, gives the memory back to the system, which zeroes it.  Without it *)
(* every call instantiates the module again.                               *)
(*                                                                         *)
(* A page of the memory holds one content.  The global is of type f32; a   *)
(* float is the number of halves it is a multiple of.                      *)
(***************************************************************************)
EXTENDS Integers, Sequences

CONSTANTS
    Setups,          \* strategies and builds, see Setup
    U32Pages,        \* 2^32 / 64 KiB: pages whose size in bytes is no u32
    MaxPages,        \* the limit of memory.grow
    InitPages,       \* pages of a new instance, extra_heap_pages included
    Segments,        \* pages of the data segments, in the module's order
    HeapPage,        \* the page of __heap_base, where the input goes
    StartWrites,     \* pages the start function of the module writes
    FloatInit,       \* the global after instantiation
    GuestFloats      \* values the guest assigns to it

Page == 0 .. MaxPages - 1

\* A runtime with InstanceSnapshotData or without, in a build that panics on
\* integer overflow or does not.
Setup == [fastReuse : BOOLEAN, overflowChecks : BOOLEAN]

ASSUME PagesAssumption ==
    /\ Setups \subseteq Setup
    /\ U32Pages \in Nat \ {0}
    /\ MaxPages \in 1 .. U32Pages
    /\ InitPages \in 1 .. MaxPages /\ InitPages < U32Pages
    /\ Segments \in Seq(0 .. InitPages - 1)
    /\ HeapPage \in 0 .. InitPages - 1
    /\ StartWrites \subseteq 0 .. InitPages - 1
    /\ FloatInit \in Int
    /\ GuestFloats \subseteq Int

VARIABLES
    setup,     \* of the runtime this is an instance of
    pc,        \* "none": not made, "idle", "wasm": in a call, "gone": panicked
    mem,       \* content of every page
    pages,     \* memory.size()
    global,    \* the mutable global
    snapshot,  \* globals_snapshot: its saved value, a Value::F32
    hostState, \* host_state is Some
    result,    \* of the last call
    output     \* of the last call that succeeded

vars == <<setup, pc, mem, pages, global, snapshot, hostState, result, output>>

FastReuse == setup.fastReuse
OverflowChecks == setup.overflowChecks

-----------------------------------------------------------------------------
(* Conversions.                                                            *)

\* Val::F32(v) => Value::F32(v as u32): rounds towards zero and saturates.
from_wasmedge_val(f) == IF f < 0 THEN 0 ELSE f \div 2

\* Value::F32(f_bits) => Val::F32(f_bits as f32).
into_wasmedge_val(v) == 2 * v

\* (memory.size() * 64 * 1024) as usize, in pages; size() is a u32.
SliceLen(n) == n % U32Pages

\* Mutant of Panics: a build without overflow checks.
PanicsNever(n) == FALSE

\* The multiplication overflows in a build that checks it.
Panics(n) == OverflowChecks /\ n >= U32Pages

-----------------------------------------------------------------------------
(* Memory.                                                                 *)

\* The content that the n-th data segment writes.
Data(n) == <<"data", n>>
Zero == <<"zero", 0>>
Input == <<"input", 0>>
Guest == <<"guest", 0>>
Start == <<"start", 0>>
Content == {Zero, Input, Guest, Start} \cup {Data(n) : n \in DOMAIN Segments}

\* The data segments up to the n-th, written over m: later ones win.
Applied(m, n) ==
    [p \in Page |->
        IF \E k \in 1 .. n : Segments[k] = p
          THEN Data(CHOOSE k \in 1 .. n : /\ Segments[k] = p
                                          /\ \A l \in 1 .. n : l > k => Segments[l] # p)
          ELSE m[p]]

\* Instantiation: a zeroed memory, all data segments, the start function.
Instantiated ==
    [p \in Page |->
        IF p \in StartWrites THEN Start
        ELSE Applied([q \in Page |-> Zero], Len(Segments))[p]]

\* The first data segment that is out of the bounds of a slice of n pages.
Misfit(n) ==
    CHOOSE k \in DOMAIN Segments :
        Segments[k] >= n /\ \A l \in 1 .. k - 1 : Segments[l] < n
SegmentsFit(n) == \A k \in DOMAIN Segments : Segments[k] < n

\* Mutant of Decommitted: the memory is kept.
DecommittedNot(m, n) == m

\* decommit: madvise(ptr, len, MADV_DONTNEED), or fill(0) on a slice of the
\* same length when that fails.
Decommitted(m, n) ==
    [p \in Page |-> IF p < SliceLen(n) THEN Zero ELSE m[p]]

-----------------------------------------------------------------------------
Init ==
    /\ setup \in Setups
    /\ pc = "none"
    /\ mem = [p \in Page |-> Zero]
    /\ pages = 0
    /\ global = 0
    /\ snapshot = 0
    /\ hostState = FALSE
    /\ result = "none"
    /\ output = Zero

\* WasmEdgeRuntime::new_instance, also after a panic has cost the pool its
\* instance.  Without FastReuse only the imports are registered.
NewInstance ==
    /\ pc \in {"none", "gone"}
    /\ pc' = "idle"
    /\ IF FastReuse
         THEN /\ mem' = Instantiated
              /\ pages' = InitPages
              /\ global' = FloatInit
              /\ snapshot' = from_wasmedge_val(FloatInit)
         ELSE UNCHANGED <<mem, pages, global, snapshot>>
    /\ UNCHANGED <<setup, hostState, result, output>>

-----------------------------------------------------------------------------
(* call_impl up to the call into wasm.                                     *)

\* Mutant of PreparedGlobal: the global of the last call is kept.
PreparedGlobalStale == global

\* The memory, its size and the global at perform_call.
Prepared == IF FastReuse THEN Applied(mem, Len(Segments)) ELSE Instantiated
PreparedPages == IF FastReuse THEN pages ELSE InitPages
PreparedGlobal == IF FastReuse THEN into_wasmedge_val(snapshot) ELSE FloatInit

\* A data segment does not fit: the early return of `?`.
ApplyErr ==
    /\ pc = "idle"
    /\ FastReuse
    /\ ~SegmentsFit(SliceLen(pages))
    /\ mem' = Applied(mem, Misfit(SliceLen(pages)) - 1)
    /\ result' = "err"
    /\ UNCHANGED <<setup, pc, pages, global, snapshot, hostState, output>>

\* The module cannot be instantiated again.
InstantiateErr ==
    /\ pc = "idle"
    /\ ~FastReuse
    /\ result' = "err"
    /\ UNCHANGED <<setup, pc, mem, pages, global, snapshot, hostState, output>>

Ready ==
    /\ pc = "idle"
    /\ FastReuse => SegmentsFit(SliceLen(pages))

\* The allocator has no room for the input, at the latest when the slice of
\* the memory is empty.
InjectErr ==
    /\ Ready
    /\ pages' = PreparedPages
    /\ global' = PreparedGlobal
    /\ mem' = IF FastReuse THEN Decommitted(Prepared, pages') ELSE Prepared
    /\ result' = "err"
    /\ UNCHANGED <<setup, pc, snapshot, hostState, output>>

\* The input is in place, the host state is set, the function is called.
CallOk ==
    /\ Ready
    /\ HeapPage < SliceLen(PreparedPages)
    /\ pages' = PreparedPages
    /\ global' = PreparedGlobal
    /\ mem' = [Prepared EXCEPT ![HeapPage] = Input]
    /\ hostState' = TRUE
    /\ pc' = "wasm"
    /\ UNCHANGED <<setup, snapshot, result, output>>

\* get_global_const on an instance that is not reused.
GetGlobalConst ==
    /\ pc = "idle"
    /\ ~FastReuse
    /\ mem' = Instantiated
    /\ pages' = InitPages
    /\ global' = FloatInit
    /\ UNCHANGED <<setup, pc, snapshot, hostState, result, output>>

-----------------------------------------------------------------------------
(* The guest.                                                              *)

GuestStore(p) ==
    /\ pc = "wasm"
    /\ p < pages
    /\ mem' = [mem EXCEPT ![p] = Guest]
    /\ UNCHANGED <<setup, pc, pages, global, snapshot, hostState, result, output>>

GuestGrow ==
    /\ pc = "wasm"
    /\ pages < MaxPages
    /\ pages' = pages + 1
    /\ UNCHANGED <<setup, pc, mem, global, snapshot, hostState, result, output>>

GuestSetGlobal(f) ==
    /\ pc = "wasm"
    /\ global' = f
    /\ UNCHANGED <<setup, pc, mem, pages, snapshot, hostState, result, output>>

-----------------------------------------------------------------------------
(* The end of perform_call, and the decommit of call_impl.                 *)

\* The function is not found, has the wrong signature, traps, or a host
\* function fails or panics: all of them come back as an error.
Aborts == result' = "err" /\ UNCHANGED output

\* Mutant of Returns: the bounds of the output are not checked.
ReturnsUnchecked(p) ==
    /\ result' = "ok"
    /\ output' = IF p < SliceLen(pages) THEN mem[p] ELSE <<"garbage", 0>>

\* It returns; its output is at page p, if that is in bounds.
Returns(p) ==
    IF p < SliceLen(pages)
      THEN result' = "ok" /\ output' = mem[p]
      ELSE result' = "err" /\ UNCHANGED output

\* Mutant of Finish: the host state is not taken when the call aborts.
FinishKeepsState ==
    /\ pc = "wasm"
    /\ ~Panics(pages)
    /\ \/ Aborts /\ UNCHANGED hostState
       \/ (\E p \in Page : Returns(p)) /\ hostState' = FALSE
    /\ pc' = "idle"
    /\ mem' = IF FastReuse THEN Decommitted(mem, pages) ELSE mem
    /\ UNCHANGED <<setup, pages, global, snapshot>>

Finish ==
    /\ pc = "wasm"
    /\ ~Panics(pages)
    /\ Aborts \/ \E p \in Page : Returns(p)
    /\ hostState' = FALSE
    /\ pc' = "idle"
    /\ mem' = IF FastReuse THEN Decommitted(mem, pages) ELSE mem
    /\ UNCHANGED <<setup, pages, global, snapshot>>

\* The computation of a length overflows: in extract_output_data or in
\* decommit, when the host state has been taken.  Without FastReuse there is
\* no decommit, and an aborted call does not panic.
FinishPanics ==
    /\ pc = "wasm"
    /\ Panics(pages)
    /\ hostState' = FALSE
    /\ \/ pc' = "gone" /\ result' = "panic"
       \/ ~FastReuse /\ pc' = "idle" /\ result' = "err"
    /\ UNCHANGED <<setup, mem, pages, global, snapshot, output>>

-----------------------------------------------------------------------------
Next ==
    \/ NewInstance
    \/ ApplyErr \/ InstantiateErr \/ InjectErr \/ CallOk \/ GetGlobalConst
    \/ (\E p \in Page : GuestStore(p)) \/ GuestGrow
    \/ (\E f \in GuestFloats : GuestSetGlobal(f))
    \/ Finish \/ FinishPanics

Spec == Init /\ [][Next]_vars

-----------------------------------------------------------------------------
(* Properties.                                                             *)

\* The types of the variables; memory.grow stays within the limit.
TypeOK ==
    /\ setup \in Setups
    /\ pc \in {"none", "idle", "wasm", "gone"}
    /\ mem \in [Page -> Content]
    /\ pages \in 0 .. MaxPages
    /\ global \in Int
    /\ snapshot \in Nat
    /\ hostState \in BOOLEAN
    /\ result \in {"none", "ok", "err", "panic"}
    /\ output \in Content

\* The host state is there exactly while wasm runs, on every path out of a
\* call: "host state is always set; qed" in the host functions, and the
\* sandbox, allocator and panic message of a call never reach the next one.
HostStateBracket == hostState <=> pc = "wasm"

StartsCall == pc = "idle" /\ pc' = "wasm"

\* "Before execution, instance is reset": apart from its input, a call finds
\* the memory that an instantiation gives, whatever earlier calls did and
\* however they ended.
ResetMemory ==
    [][StartsCall => \A p \in Page \ {HeapPage} : mem'[p] = Instantiated[p]]_vars

\* The same for the mutable global.
ResetGlobals == [][StartsCall => global' = FloatInit]_vars

\* "this also zeroes the memory as a side-effect": a reused instance that has
\* come back from wasm and waits for its next call has an empty memory.
DecommitZeroes ==
    [][FastReuse /\ pc = "wasm" /\ pc' = "idle" => \A p \in Page : mem'[p] = Zero]_vars

\* In a build with overflow checks, a reused instance that waits for a call can
\* take one: its data segments fit, so that it does not fail every call from
\* now on.
StaysUsable ==
    OverflowChecks /\ FastReuse /\ pc = "idle" => SegmentsFit(SliceLen(pages))
=============================================================================
