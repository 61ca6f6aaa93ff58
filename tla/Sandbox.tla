------------------------------ MODULE Sandbox ------------------------------
(***************************************************************************)
(* The host state of one call into a runtime, and the sandboxed modules    *)
(* that the runtime runs with it.                                          *)
(*                                                                         *)
(* Control passes between three parties on one stack.  The runtime calls   *)
(* host functions, two of which (instance_new and invoke) run a sandboxed  *)
(* guest; the guest calls its imports, for which the host calls a dispatch *)
(* thunk of the same runtime, which may call host functions again.  A trap *)
(* of the runtime in a thunk is a trap of the guest that called it, and    *)
(* comes back as an error code; a panic of the host is caught where the    *)
(* runtime called it, and is a trap there.                                 *)
(*                                                                         *)
(* Host functions that change nothing are stuttering steps.                *)
(***************************************************************************)
EXTENDS Naturals, Sequences, FiniteSets

CONSTANTS
    Thunks,       \* dispatch thunks in the runtime's table
    Messages,     \* of panics of the runtime
    Blocks,       \* the runtime's heap
    Runtimes,     \* what the runtime does: see Careful and BadThunks
    MaxDepth,     \* bound on sandboxed guests inside each other
    MaxInstances, \* bound on the instances a call makes
    MaxMemories,  \* bound on the memories a call makes
    None

ASSUME SandboxAssumption ==
    /\ Runtimes \subseteq [careful : BOOLEAN, bad : SUBSET Thunks]
    /\ None \notin Thunks \cup Messages \cup Blocks
    /\ MaxDepth \in Nat /\ MaxInstances \in Nat /\ MaxMemories \in Nat

VARIABLES
    runtime,      \* the runtime that is called
    running,      \* the runtime is called and has not returned
    frames,       \* the guests on the stack, the innermost last
    instances,    \* Store::instances: the thunk of each, None: torn down
    memories,     \* Store::memories: FALSE: torn down
    storeTaken,   \* sandbox_store.0 is None
    heap,         \* the allocator
    panicMessage, \* panic_message
    outcome       \* of the last call, and what it was aborted by

store == <<instances, memories>>
vars == <<runtime, running, frames, instances, memories, storeTaken, heap, panicMessage,
          outcome>>

\* The runtime frees only what it has allocated, and once.
Careful == runtime.careful
\* The thunks whose signature has no result.
BadThunks == runtime.bad

\* A guest on the stack: started by instance_new or by an invoke of an
\* instance.  With args it waits for its thunk, to which it gave that block.
Frame == [kind : {"start", "invoke"}, inst : Nat, thunk : Thunks,
          args : Blocks \cup {None}]
Top(f) == f[Len(f)]
Below(f) == SubSeq(f, 1, Len(f) - 1)

\* Whose code runs: the runtime's, in the call itself or in a thunk, or the
\* innermost guest's.
InRuntime == running /\ (frames # <<>> => Top(frames).args # None)
InGuest == running /\ frames # <<>> /\ Top(frames).args = None

-----------------------------------------------------------------------------
(* The allocator: any error poisons it.                                    *)

NewHeap == [owner |-> [b \in Blocks |-> "free"], poisoned |-> FALSE]
Allocated(h, b, who) == [h EXCEPT !.owner[b] = who]
Poisoned(h) == [h EXCEPT !.poisoned = TRUE]
CanAllocate(h, b) == ~h.poisoned /\ h.owner[b] = "free"
CanDeallocate(h, b) == ~h.poisoned /\ b \in Blocks /\ h.owner[b] # "free"
Deallocated(h, b) ==
    IF CanDeallocate(h, b) THEN [h EXCEPT !.owner[b] = "free"] ELSE Poisoned(h)

-----------------------------------------------------------------------------
\* HostState::new, and the call into wasm.
NewCall ==
    /\ ~running
    /\ running' = TRUE
    /\ frames' = <<>>
    /\ instances' = <<>>
    /\ memories' = <<>>
    /\ storeTaken' = FALSE
    /\ heap' = NewHeap
    /\ panicMessage' = None
    /\ outcome' = [end |-> "none", error |-> None, cause |-> None]

\* The call returns.
Return ==
    /\ InRuntime /\ frames = <<>>
    /\ running' = FALSE
    /\ outcome' = [end |-> "ok", error |-> None, cause |-> None]
    /\ UNCHANGED <<frames, store, storeTaken, heap, panicMessage>>

\* Mutant of TakenAfter: the store is not put back.
TakenAfterLost(taken, frame) == taken

\* Whether the store is still away when a guest leaves the stack: instance_new
\* puts it back, after a panic too.
TakenAfter(taken, frame) == taken /\ frame.kind # "start"

\* Mutants of Traps: the result of the thunk is looked at before its arguments
\* are freed; the first panic message is kept.
TrapsLeaking(f, h, taken, cause) ==
    LET message == IF cause # None THEN cause ELSE panicMessage
    IN  IF f = <<>>
          THEN /\ running' = FALSE
               /\ outcome' = [end |-> "aborted", error |-> message, cause |-> cause]
               /\ panicMessage' = None
               /\ frames' = f /\ heap' = h /\ storeTaken' = taken
          ELSE /\ frames' = Below(f)
               /\ heap' = h
               /\ storeTaken' = TakenAfter(taken, Top(f))
               /\ panicMessage' = message
               /\ UNCHANGED <<running, outcome>>
TrapsFirstMessage(f, h, taken, cause) ==
    LET message == IF panicMessage # None THEN panicMessage ELSE cause
    IN  IF f = <<>>
          THEN /\ running' = FALSE
               /\ outcome' = [end |-> "aborted", error |-> message, cause |-> cause]
               /\ panicMessage' = None
               /\ frames' = f /\ heap' = h /\ storeTaken' = taken
          ELSE /\ frames' = Below(f)
               /\ heap' = Deallocated(h, Top(f).args)
               /\ storeTaken' = TakenAfter(taken, Top(f))
               /\ panicMessage' = message
               /\ UNCHANGED <<running, outcome>>

\* The runtime traps with the frames f, and ends with them if it is not in a
\* thunk: InstanceWrapper::call asks for a panic message.  In a thunk, the
\* arguments are freed and the guest traps.  The cause is the message of a
\* panic, which abort_on_panic registers before it traps, or None.
Traps(f, h, taken, cause) ==
    LET message == IF cause # None THEN cause ELSE panicMessage
    IN  IF f = <<>>
          THEN /\ running' = FALSE
               /\ outcome' = [end |-> "aborted", error |-> message, cause |-> cause]
               /\ panicMessage' = None
               /\ frames' = f /\ heap' = h /\ storeTaken' = taken
          ELSE /\ frames' = Below(f)
               /\ heap' = Deallocated(h, Top(f).args)
               /\ storeTaken' = TakenAfter(taken, Top(f))
               /\ panicMessage' = message
               /\ UNCHANGED <<running, outcome>>

TrapsHere(cause) == Traps(frames, heap, storeTaken, cause)

\* Mutant of Trap: the host panics when a thunk traps.
TrapUnwraps ==
    /\ InRuntime
    /\ IF frames = <<>> THEN TrapsHere(None)
       ELSE Traps(Below(frames), heap, TakenAfter(storeTaken, Top(frames)), None)
    /\ UNCHANGED store

Trap == InRuntime /\ TrapsHere(None) /\ UNCHANGED store
AbortOnPanic(m) == InRuntime /\ TrapsHere(m) /\ UNCHANGED store

-----------------------------------------------------------------------------
(* Host functions.  Each `expect` that fails is a trap of the runtime.     *)

Malloc(b) ==
    /\ InRuntime
    /\ \/ CanAllocate(heap, b) /\ heap' = Allocated(heap, b, "runtime")
          /\ UNCHANGED <<running, frames, storeTaken, panicMessage, outcome>>
       \/ Traps(frames, Poisoned(heap), storeTaken, None)
    /\ UNCHANGED store

Free(b) ==
    /\ InRuntime
    /\ Careful => heap.owner[b] = "runtime"
    /\ IF CanDeallocate(heap, b)
         THEN /\ heap' = Deallocated(heap, b)
              /\ UNCHANGED <<running, frames, storeTaken, panicMessage, outcome>>
         ELSE Traps(frames, Poisoned(heap), storeTaken, None)
    /\ UNCHANGED store

\* Store::memory_new; also fails when the limits are wrong.
MemoryNew ==
    /\ InRuntime
    /\ \/ /\ ~storeTaken /\ Len(memories) < MaxMemories
          /\ memories' = Append(memories, TRUE)
          /\ UNCHANGED <<running, frames, storeTaken, heap, panicMessage, outcome>>
       \/ TrapsHere(None) /\ UNCHANGED memories
    /\ UNCHANGED instances

\* memory_get and memory_set, when there is no such memory.
HasMemory(i) == ~storeTaken /\ i \in DOMAIN memories /\ memories[i]
MemoryAccess(i) ==
    InRuntime /\ ~HasMemory(i) /\ TrapsHere(None) /\ UNCHANGED store

MemoryTeardown(i) ==
    /\ InRuntime
    /\ IF HasMemory(i)
         THEN /\ memories' = [memories EXCEPT ![i] = FALSE]
              /\ UNCHANGED <<running, frames, storeTaken, heap, panicMessage, outcome>>
         ELSE TrapsHere(None) /\ UNCHANGED memories
    /\ UNCHANGED instances

\* Mutant of HasInstance: an instance that is torn down is found.
HasInstanceTorn(i) == ~storeTaken /\ i \in DOMAIN instances

\* get_global_val, when there is no such instance.
HasInstance(i) == ~storeTaken /\ i \in DOMAIN instances /\ instances[i] # None
GetGlobalVal(i) ==
    InRuntime /\ ~HasInstance(i) /\ TrapsHere(None) /\ UNCHANGED store

InstanceTeardown(i) ==
    /\ InRuntime
    /\ IF HasInstance(i)
         THEN /\ instances' = [instances EXCEPT ![i] = None]
              /\ UNCHANGED <<running, frames, storeTaken, heap, panicMessage, outcome>>
         ELSE TrapsHere(None) /\ UNCHANGED instances
    /\ UNCHANGED memories

\* instance_new with a thunk and a memory as import (0: none), up to the start
\* function of the guest.  A wrong thunk or a missing store is a trap; a
\* memory that is not there, or a module that is wrong, an error code.
InstanceNew(t, m) ==
    /\ InRuntime
    /\ IF t = None \/ storeTaken
         THEN TrapsHere(None)
         ELSE /\ m # 0 => HasMemory(m)
              /\ Len(frames) < MaxDepth /\ Len(instances) < MaxInstances
              /\ storeTaken' = TRUE
              /\ frames' = Append(frames, [kind |-> "start", inst |-> 0, thunk |-> t,
                                           args |-> None])
              /\ UNCHANGED <<running, heap, panicMessage, outcome>>
    /\ UNCHANGED store

\* invoke up to the code of the guest.
Invoke(i) ==
    /\ InRuntime
    /\ IF HasInstance(i)
         THEN /\ Len(frames) < MaxDepth
              /\ frames' = Append(frames, [kind |-> "invoke", inst |-> i,
                                           thunk |-> instances[i], args |-> None])
              /\ UNCHANGED <<running, storeTaken, heap, panicMessage, outcome>>
         ELSE TrapsHere(None)
    /\ UNCHANGED store

-----------------------------------------------------------------------------
(* The guest.                                                              *)

\* The innermost guest leaves the stack with an error code for the runtime.
GuestFails(h) ==
    /\ frames' = Below(frames)
    /\ heap' = h
    /\ storeTaken' = TakenAfter(storeTaken, Top(frames))
    /\ UNCHANGED <<running, panicMessage, outcome>>

GuestTrap == InGuest /\ GuestFails(heap) /\ UNCHANGED store

\* Mutant of GuestReturn: the instance takes the first index that is free.
GuestReturnReuses ==
    /\ InGuest
    /\ LET top == Top(frames)
           rest == Below(frames)
           free == {i \in DOMAIN instances : instances[i] = None}
       IN  \/ /\ top.kind = "start"
              /\ storeTaken' = TakenAfter(storeTaken, top)
              /\ instances' =
                   IF free = {} THEN Append(instances, top.thunk)
                   ELSE [instances EXCEPT ![CHOOSE i \in free : \A j \in free : i <= j] =
                            top.thunk]
              /\ frames' = rest
              /\ UNCHANGED <<running, heap, panicMessage, outcome>>
           \/ /\ top.kind = "invoke"
              /\ frames' = rest
              /\ UNCHANGED <<running, storeTaken, heap, panicMessage, outcome, instances>>
    /\ UNCHANGED memories

\* The start function returns, or there is none: the instance is registered.
\* An invoked function returns: its value may not fit the buffer.
GuestReturn ==
    /\ InGuest
    /\ LET top == Top(frames)
           rest == Below(frames)
       IN  \/ /\ top.kind = "start"
              /\ storeTaken' = TakenAfter(storeTaken, top)
              /\ instances' = Append(instances, top.thunk)
              /\ frames' = rest
              /\ UNCHANGED <<running, heap, panicMessage, outcome>>
           \/ /\ top.kind = "invoke"
              /\ \/ frames' = rest
                    /\ UNCHANGED <<running, storeTaken, heap, panicMessage, outcome>>
                 \/ Traps(rest, heap, storeTaken, None)
              /\ UNCHANGED instances
    /\ UNCHANGED memories

\* invoke_index: the guest calls an import.  Its arguments are put on the
\* runtime's heap and the thunk is called.
InvokeIndex(b) ==
    /\ InGuest
    /\ \/ /\ CanAllocate(heap, b)
          /\ heap' = Allocated(heap, b, "host")
          /\ frames' = [frames EXCEPT ![Len(frames)].args = b]
          /\ UNCHANGED <<running, storeTaken, panicMessage, outcome>>
       \/ GuestFails(Poisoned(heap))
    /\ UNCHANGED store

\* The thunk returns the block r: the arguments and then the result are freed,
\* and the guest goes on, unless that fails or the result is a HostError.
ThunkReturns(r) ==
    /\ InRuntime /\ frames # <<>>
    /\ Top(frames).thunk \notin BadThunks
    /\ Careful => r \in Blocks /\ heap.owner[r] = "runtime"
    /\ LET args == Top(frames).args
           h == Deallocated(heap, args)
           guest == [frames EXCEPT ![Len(frames)].args = None]
       IN  IF CanDeallocate(heap, args) /\ CanDeallocate(h, r)
             THEN \/ /\ frames' = guest /\ heap' = Deallocated(h, r)
                     /\ UNCHANGED <<running, storeTaken, panicMessage, outcome>>
                  \/ GuestFails(Deallocated(h, r))
             ELSE GuestFails(IF CanDeallocate(heap, args) THEN Poisoned(h) ELSE h)
    /\ UNCHANGED store

\* The thunk returns nothing: result[0] panics, through the guest up to the
\* host function that the runtime called, and is a trap there.
ThunkReturnsNothing ==
    /\ InRuntime /\ frames # <<>>
    /\ Top(frames).thunk \in BadThunks
    /\ Traps(Below(frames), heap, TakenAfter(storeTaken, Top(frames)), None)
    /\ UNCHANGED store

-----------------------------------------------------------------------------
Init ==
    /\ runtime \in Runtimes
    /\ running = FALSE
    /\ frames = <<>>
    /\ instances = <<>>
    /\ memories = <<>>
    /\ storeTaken = FALSE
    /\ heap = NewHeap
    /\ panicMessage = None
    /\ outcome = [end |-> "none", error |-> None, cause |-> None]

Step ==
    \/ NewCall \/ Return \/ Trap \/ GuestTrap \/ GuestReturn \/ ThunkReturnsNothing
    \/ MemoryNew
    \/ \E m \in Messages : AbortOnPanic(m)
    \/ \E b \in Blocks : Malloc(b) \/ Free(b) \/ InvokeIndex(b)
    \/ \E r \in Blocks \cup {None} : ThunkReturns(r)
    \/ \E i \in 1 .. MaxMemories + 1 : MemoryAccess(i) \/ MemoryTeardown(i)
    \/ \E i \in 1 .. MaxInstances + 1 :
         GetGlobalVal(i) \/ InstanceTeardown(i) \/ Invoke(i)
    \/ \E t \in Thunks \cup {None}, m \in 0 .. MaxMemories + 1 : InstanceNew(t, m)

Next == Step /\ UNCHANGED runtime

Spec == Init /\ [][Next]_vars

-----------------------------------------------------------------------------
(* Properties.                                                             *)

\* The types of the variables.
CallTypes ==
    /\ running \in BOOLEAN
    /\ frames \in Seq(Frame)
    /\ instances \in Seq(Thunks \cup {None})
    /\ memories \in Seq(BOOLEAN)
    /\ storeTaken \in BOOLEAN
    /\ heap \in [owner : [Blocks -> {"free", "host", "runtime"}], poisoned : BOOLEAN]
    /\ panicMessage \in Messages \cup {None}
    /\ outcome \in [end : {"none", "ok", "aborted"}, error : Messages \cup {None},
                    cause : Messages \cup {None}]
TypeOK == runtime \in Runtimes /\ CallTypes

\* "sandbox store is only empty when temporarily borrowed": the store is away
\* exactly while the start function of a guest is on the stack, which is then
\* the innermost guest, on every path out of instance_new.
StoreBracket ==
    /\ storeTaken <=> frames # <<>> /\ Top(frames).kind = "start"
    /\ \A i \in 1 .. Len(frames) - 1 : frames[i].kind = "invoke"

\* A guest on the stack calls the thunk of its instance, though the instance
\* may have been torn down meanwhile: an index never names another instance.
ThunkOfInstance ==
    \A i \in DOMAIN frames : frames[i].kind = "invoke" =>
        /\ frames[i].inst \in DOMAIN instances
        /\ instances[frames[i].inst] \in {None, frames[i].thunk}

\* "invoke dispatch thunk and then free allocated memory": the blocks with
\* arguments are those of the guests that wait for a thunk, one each, as long
\* as the runtime keeps to its own blocks and its thunks have a result.  Once
\* the allocator is poisoned nothing is freed any more.
TidyRuntime == Careful /\ BadThunks = {}
ArgsBalanced ==
    TidyRuntime =>
    LET waiting == {i \in DOMAIN frames : frames[i].args # None}
    IN  /\ ~heap.poisoned =>
             {b \in Blocks : heap.owner[b] = "host"} = {frames[i].args : i \in waiting}
        /\ \A i, j \in waiting : frames[i].args = frames[j].args => i = j

\* SandboxContext::invoke "Returns `Err` if the dispatch_thunk function has an
\* incorrect signature or traps": however a thunk ends, that costs at most the
\* guest which called it, never the call or the guests further out.  (It may
\* also return without a result, if its signature has none.)
ThunkContained ==
    [][InRuntime /\ frames # <<>> /\ Top(frames).thunk \notin BadThunks =>
         running' /\ Len(frames') >= Len(frames) - 1]_vars

\* A call that is aborted by a panic of the runtime reports its message, and
\* not that of an earlier panic.
PanicReported ==
    outcome.end = "aborted" /\ outcome.cause # None => outcome.error = outcome.cause

\* "Execution aborted due to trap": a call that is aborted by a trap which is
\* no panic is reported as one.
TrapReported ==
    outcome.end = "aborted" /\ outcome.cause = None => outcome.error = None
=============================================================================
