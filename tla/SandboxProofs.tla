--------------------------- MODULE SandboxProofs ---------------------------
(***************************************************************************)
(* Proofs about Sandbox, for every depth of guests inside each other and   *)
(* every number of thunks, blocks, instances and memories.                 *)
(***************************************************************************)
EXTENDS Sandbox, TLAPS

\* Most steps are first-order; those that need arithmetic, or sequences, say so.
USE Zenon

Heap == [owner : [Blocks -> {"free", "host", "runtime"}], poisoned : BOOLEAN]

\* What holds of a stack f of guests, with the store taken or not, and of the
\* instances ins: only the innermost guest can be in a start function, the
\* others wait for their thunk, and each has the thunk of its instance.
StackInv(f, taken, ins) ==
    /\ taken <=> f # <<>> /\ Top(f).kind = "start"
    /\ \A i \in 1 .. Len(f) - 1 : f[i].kind = "invoke" /\ f[i].args # None
    /\ \A i \in DOMAIN f : f[i].kind = "invoke" =>
         f[i].inst \in DOMAIN ins /\ ins[f[i].inst] \in {None, f[i].thunk}

\* The blocks of arguments are those of the frames, one each.
Balanced(f, h) ==
    /\ ~h.poisoned => \A b \in Blocks :
         h.owner[b] = "host" <=> \E i \in DOMAIN f : f[i].args = b
    /\ \A i, j \in DOMAIN f : f[i].args # None /\ f[i].args = f[j].args => i = j

\* Whether the runtime is one that does not leak arguments is a parameter.
IInv(tidy) ==
    /\ CallTypes
    /\ StackInv(frames, storeTaken, instances)
    /\ tidy => Balanced(frames, heap)
    /\ PanicReported

-----------------------------------------------------------------------------
(* Frames and blocks.                                                      *)

\* The stack without its top frame.
LEMMA BelowFacts ==
    ASSUME NEW f \in Seq(Frame), f # <<>>
    PROVE  /\ Below(f) \in Seq(Frame)
           /\ Len(f) \in Nat \ {0}
           /\ Len(Below(f)) = Len(f) - 1
           /\ DOMAIN Below(f) = 1 .. Len(f) - 1
           /\ DOMAIN f = 1 .. Len(f)
           /\ \A i \in 1 .. Len(f) - 1 : Below(f)[i] = f[i]
           /\ Top(f) \in Frame /\ Top(f) = f[Len(f)]
           /\ Below(f) # <<>> => Top(Below(f)) = f[Len(f) - 1] /\ Len(f) > 1
  <1> DEFINE n == Len(f)
             g == Below(f)
  <1>1. n \in Nat /\ n # 0 /\ DOMAIN f = 1 .. n /\ f[n] \in Frame
    BY SMT
  <1>2. /\ g \in Seq(Frame) /\ Len(g) = n - 1
        /\ \A i \in 1 .. n - 1 : g[i] = f[i]
    BY SMT, <1>1 DEF Below
  <1>3. g # <<>> => Len(g) # 0
    BY SMT, <1>2
  <1> HIDE DEF n, g
  <1>4. DOMAIN g = 1 .. n - 1
    BY SMT, <1>2
  <1>5. g # <<>> => n > 1 /\ g[Len(g)] = f[n - 1]
    BY SMT, <1>1, <1>2, <1>3
  <1> QED
    BY <1>1, <1>2, <1>4, <1>5 DEF Top, n, g

\* What a deallocation does to the owners of the blocks.
LEMMA HeapFacts ==
    ASSUME NEW h \in Heap, NEW b
    PROVE  /\ Deallocated(h, b) \in Heap
           /\ Poisoned(h) \in Heap /\ Poisoned(h).poisoned
           /\ CanDeallocate(h, b) =>
                /\ ~Deallocated(h, b).poisoned
                /\ \A c \in Blocks : Deallocated(h, b).owner[c] =
                                       IF c = b THEN "free" ELSE h.owner[c]
           /\ ~CanDeallocate(h, b) => Deallocated(h, b).poisoned
  BY DEF Heap, Deallocated, Poisoned, CanDeallocate

\* A guest leaves the stack.
LEMMA PopStack ==
    ASSUME NEW f \in Seq(Frame), f # <<>>, NEW taken \in BOOLEAN, NEW ins,
           StackInv(f, taken, ins)
    PROVE  /\ StackInv(Below(f), TakenAfter(taken, Top(f)), ins)
           /\ ~TakenAfter(taken, Top(f))
           /\ Below(f) # <<>> => Top(Below(f)).args # None
  <1>1. ~TakenAfter(taken, Top(f))
    BY DEF TakenAfter, StackInv
  <1>2. ASSUME Below(f) # <<>>
        PROVE  Top(Below(f)).args # None /\ Top(Below(f)).kind = "invoke"
    BY SMT, <1>2, BelowFacts DEF StackInv
  <1>3. \A i \in 1 .. Len(f) - 1 : Below(f)[i] = f[i] /\ i \in DOMAIN f
    BY SMT, BelowFacts
  <1>4. DOMAIN Below(f) = 1 .. Len(f) - 1 /\ Len(Below(f)) = Len(f) - 1 /\ Len(f) \in Nat
    BY BelowFacts
  <1> DEFINE g == Below(f)
             t == TakenAfter(taken, Top(f))
  <1>5. t <=> g # <<>> /\ Top(g).kind = "start"
    BY <1>1, <1>2
  <1>6. \A i \in 1 .. Len(g) - 1 : g[i].kind = "invoke" /\ g[i].args # None
    BY SMT, <1>3, <1>4 DEF StackInv
  <1>7. \A i \in DOMAIN g : g[i].kind = "invoke" =>
          g[i].inst \in DOMAIN ins /\ ins[g[i].inst] \in {None, g[i].thunk}
    BY <1>3, <1>4 DEF StackInv
  <1>8. StackInv(g, t, ins)
    BY <1>5, <1>6, <1>7 DEF StackInv
  <1> QED
    BY <1>1, <1>2, <1>8

\* It leaves with its arguments freed, or without arguments.
LEMMA PopBalanced ==
    ASSUME NEW f \in Seq(Frame), f # <<>>, NEW h \in Heap, Balanced(f, h)
    PROVE  /\ Top(f).args # None => Balanced(Below(f), Deallocated(h, Top(f).args))
           /\ Top(f).args = None => Balanced(Below(f), h)
  <1> DEFINE n == Len(f)
             g == Below(f)
             a == Top(f).args
             k == Deallocated(h, a)
  <1>1. /\ n \in Nat \ {0} /\ DOMAIN f = 1 .. n /\ DOMAIN g = 1 .. n - 1
        /\ \A i \in 1 .. n - 1 : g[i] = f[i]
        /\ a = f[n].args /\ a \in Blocks \cup {None}
    BY BelowFacts DEF Frame
  <1>2. \A i, j \in DOMAIN g : g[i].args # None /\ g[i].args = g[j].args => i = j
    BY SMT, <1>1 DEF Balanced
  <1>3. ASSUME a # None, ~k.poisoned, NEW b \in Blocks
        PROVE  k.owner[b] = "host" <=> \E i \in DOMAIN g : g[i].args = b
    <2>1. CanDeallocate(h, a)
      BY <1>3, HeapFacts
    <2>2. ~h.poisoned /\ k.owner[b] = IF b = a THEN "free" ELSE h.owner[b]
      BY SMT, <2>1, HeapFacts DEF CanDeallocate
    <2>3. h.owner[b] = "host" <=> \E i \in DOMAIN f : f[i].args = b
      BY <2>2 DEF Balanced
    <2>4. CASE b = a
      <3>1. ASSUME NEW i \in 1 .. n - 1
            PROVE  f[i].args # a
        BY SMT, <1>1, <1>3 DEF Balanced
      <3> QED
        BY <1>1, <2>2, <2>4, <3>1
    <2>5. CASE b # a
      <3>1. (\E i \in 1 .. n : f[i].args = b) <=> (\E i \in 1 .. n - 1 : f[i].args = b)
        BY SMT, <1>1, <2>5
      <3> QED
        BY <1>1, <2>2, <2>3, <2>5, <3>1
    <2> QED
      BY <2>4, <2>5
  <1>4. ASSUME a = None, ~h.poisoned, NEW b \in Blocks
        PROVE  h.owner[b] = "host" <=> \E i \in DOMAIN g : g[i].args = b
    <2>1. b # a
      BY <1>4, SandboxAssumption
    <2>2. (\E i \in 1 .. n : f[i].args = b) <=> (\E i \in 1 .. n - 1 : f[i].args = b)
      BY SMT, <1>1, <2>1
    <2> QED
      BY SMT, <1>1, <1>4, <2>2 DEF Balanced
  <1> HIDE DEF g, k, a
  <1>5. a # None => Balanced(g, k)
    BY <1>2, <1>3 DEF Balanced
  <1>6. a = None => Balanced(g, h)
    BY <1>2, <1>4 DEF Balanced
  <1> QED
    BY <1>5, <1>6 DEF g, k, a

\* A guest is called.
LEMMA PushFrame ==
    ASSUME NEW f \in Seq(Frame), NEW x \in Frame, x.args = None, NEW ins,
           StackInv(f, FALSE, ins), f # <<>> => Top(f).args # None,
           x.kind = "invoke" => x.inst \in DOMAIN ins /\ ins[x.inst] \in {None, x.thunk}
    PROVE  /\ Append(f, x) \in Seq(Frame)
           /\ StackInv(Append(f, x), x.kind = "start", ins)
           /\ \A h : Balanced(f, h) => Balanced(Append(f, x), h)
  <1> DEFINE g == Append(f, x)
             n == Len(f)
  <1>1. /\ g \in Seq(Frame) /\ n \in Nat /\ DOMAIN f = 1 .. n /\ DOMAIN g = 1 .. n + 1
        /\ Len(g) = n + 1 /\ g # <<>> /\ g[n + 1] = x /\ \A i \in 1 .. n : g[i] = f[i]
    <2>1. g \in Seq(Frame) /\ n \in Nat /\ Len(g) = n + 1
      BY SMT
    <2>2. g # <<>>
      <3>1. Len(g) # 0
        BY SMT, <2>1
      <3> HIDE DEF g
      <3> QED
        BY SMT, <3>1
    <2>3. g[n + 1] = x /\ \A i \in 1 .. n : g[i] = f[i]
      BY SMT
    <2> QED
      BY SMT, <2>1, <2>2, <2>3
  <1>2. n # 0 => f # <<>> /\ Top(f) = f[n] /\ f[n] \in Frame
    BY SMT DEF Top
  <1>3. Top(g) = x
    BY <1>1 DEF Top
  <1> HIDE DEF g, n
  <1>4. \A i \in 1 .. n : f[i].kind = "invoke" /\ f[i].args # None
    <2>1. n # 0 => f[n].kind = "invoke" /\ f[n].args # None
      BY <1>2 DEF StackInv, Frame
    <2>2. \A i \in 1 .. n - 1 : f[i].kind = "invoke" /\ f[i].args # None
      BY DEF StackInv, n
    <2> QED
      BY SMT, <1>1, <2>1, <2>2
  <1>5. \A i \in 1 .. Len(g) - 1 : g[i].kind = "invoke" /\ g[i].args # None
    BY SMT, <1>1, <1>4
  <1>6. \A i \in DOMAIN g : g[i].kind = "invoke" =>
          g[i].inst \in DOMAIN ins /\ ins[g[i].inst] \in {None, g[i].thunk}
    <2>1. \A i \in 1 .. n : g[i].kind = "invoke" =>
            g[i].inst \in DOMAIN ins /\ ins[g[i].inst] \in {None, g[i].thunk}
      BY <1>1 DEF StackInv
    <2> QED
      BY SMT, <1>1, <2>1
  <1>7. StackInv(g, x.kind = "start", ins)
    BY <1>1, <1>3, <1>5, <1>6 DEF StackInv
  <1>8. ASSUME NEW h, Balanced(f, h)
        PROVE  Balanced(g, h)
    <2>1. \A b \in Blocks : (\E i \in DOMAIN g : g[i].args = b) <=>
                            (\E i \in DOMAIN f : f[i].args = b)
      BY SMT, <1>1, SandboxAssumption
    <2>2. \A i, j \in DOMAIN g : g[i].args # None /\ g[i].args = g[j].args => i = j
      BY SMT, <1>1, <1>8 DEF Balanced
    <2> QED
      BY <1>8, <2>1, <2>2 DEF Balanced
  <1> QED
    BY <1>1, <1>7, <1>8 DEF g

\* The innermost guest gets or gives back the block of its arguments.
LEMMA SetArgs ==
    ASSUME NEW f \in Seq(Frame), f # <<>>, NEW a \in Blocks \cup {None}
    PROVE  LET g == [f EXCEPT ![Len(f)].args = a]
           IN  /\ g \in Seq(Frame) /\ g # <<>> /\ Len(g) = Len(f) /\ DOMAIN g = DOMAIN f
               /\ Len(f) \in DOMAIN f /\ DOMAIN f = 1 .. Len(f) /\ Len(f) \in Nat
               /\ \A i \in DOMAIN f : i # Len(f) => g[i] = f[i]
               /\ g[Len(f)].args = a
               /\ g[Len(f)].kind = f[Len(f)].kind
               /\ g[Len(f)].inst = f[Len(f)].inst
               /\ g[Len(f)].thunk = f[Len(f)].thunk
  <1> DEFINE n == Len(f)
             x == [f[n] EXCEPT !.args = a]
             g == [f EXCEPT ![n] = x]
  <1>1. n \in Nat /\ n # 0 /\ DOMAIN f = 1 .. n /\ f[n] \in Frame
    BY SMT
  <1>2. x \in Frame
    BY <1>1 DEF Frame
  <1>3. /\ x.args = a /\ x.kind = f[n].kind /\ x.inst = f[n].inst /\ x.thunk = f[n].thunk
    BY <1>1 DEF Frame
  <1>4. g = [f EXCEPT ![Len(f)].args = a]
    OBVIOUS
  <1> HIDE DEF x
  <1>5. g \in Seq(Frame) /\ Len(g) = n /\ DOMAIN g = 1 .. n /\ g[n] = x
    BY SMT, <1>1, <1>2
  <1>6. g # <<>>
    BY <1>1, <1>5
  <1>7. \A i \in DOMAIN f : i # n => g[i] = f[i]
    BY <1>1
  <1> QED
    BY SMT, <1>1, <1>3, <1>4, <1>5, <1>6, <1>7

\* The arguments of the top frame have no part in the order of the stack.
LEMMA SetArgsStack ==
    ASSUME NEW f \in Seq(Frame), f # <<>>, NEW a \in Blocks \cup {None},
           NEW taken, NEW ins, StackInv(f, taken, ins)
    PROVE  StackInv([f EXCEPT ![Len(f)].args = a], taken, ins)
  <1> DEFINE g == [f EXCEPT ![Len(f)].args = a]
             n == Len(f)
  <1>1. /\ g # <<>> /\ Len(g) = n /\ DOMAIN g = DOMAIN f /\ DOMAIN f = 1 .. n
        /\ n \in Nat /\ n \in DOMAIN f
        /\ \A i \in DOMAIN f : i # n => g[i] = f[i]
        /\ g[n].kind = f[n].kind /\ g[n].inst = f[n].inst /\ g[n].thunk = f[n].thunk
    BY SetArgs
  <1> HIDE DEF g
  <1>2. taken <=> g # <<>> /\ Top(g).kind = "start"
    BY <1>1 DEF StackInv, Top
  <1>3. \A i \in 1 .. Len(g) - 1 : g[i].kind = "invoke" /\ g[i].args # None
    BY SMT, <1>1 DEF StackInv
  <1>4. \A i \in DOMAIN g : g[i].kind = "invoke" =>
          g[i].inst \in DOMAIN ins /\ ins[g[i].inst] \in {None, g[i].thunk}
    BY <1>1 DEF StackInv
  <1> QED
    BY <1>2, <1>3, <1>4 DEF StackInv, g

\* invoke_index allocates the arguments it notes and frees those it forgets.
LEMMA SetArgsBalanced ==
    ASSUME NEW f \in Seq(Frame), f # <<>>, NEW h \in Heap, Balanced(f, h)
    PROVE  /\ \A b \in Blocks : Top(f).args = None /\ CanAllocate(h, b) =>
                Balanced([f EXCEPT ![Len(f)].args = b], Allocated(h, b, "host"))
           /\ Top(f).args # None =>
                Balanced([f EXCEPT ![Len(f)].args = None], Deallocated(h, Top(f).args))
  <1> DEFINE n == Len(f)
  <1>1. ASSUME NEW b \in Blocks, Top(f).args = None, CanAllocate(h, b)
        PROVE  Balanced([f EXCEPT ![n].args = b], Allocated(h, b, "host"))
    <2> DEFINE g == [f EXCEPT ![n].args = b]
               k == Allocated(h, b, "host")
    <2>1. /\ DOMAIN g = DOMAIN f /\ n \in DOMAIN f
          /\ \A i \in DOMAIN f : i # n => g[i] = f[i]
          /\ g[n].args = b
      BY SetArgs
    <2>2. f[n].args = None
      BY <1>1 DEF Top
    <2>3. ~k.poisoned /\ ~h.poisoned /\ h.owner[b] = "free"
          /\ \A c \in Blocks : k.owner[c] = IF c = b THEN "host" ELSE h.owner[c]
      BY <1>1 DEF CanAllocate, Allocated, Heap
    <2>4. \A i \in DOMAIN f : f[i].args # b
      BY <2>3 DEF Balanced
    <2> HIDE DEF g, k, n
    <2>5. ASSUME NEW c \in Blocks
          PROVE  k.owner[c] = "host" <=> \E i \in DOMAIN g : g[i].args = c
      <3>1. CASE c = b
        BY <2>1, <2>3, <3>1
      <3>2. CASE c # b
        <4>1. (\E i \in DOMAIN g : g[i].args = c) <=> (\E i \in DOMAIN f : f[i].args = c)
          BY <2>1, <2>2, <3>2, SandboxAssumption
        <4> QED
          BY SMT, <2>3, <3>2, <4>1 DEF Balanced
      <3> QED
        BY <3>1, <3>2
    <2>6. \A i, j \in DOMAIN g : g[i].args # None /\ g[i].args = g[j].args => i = j
      BY SMT, <2>1, <2>4 DEF Balanced
    <2> QED
      BY <2>5, <2>6 DEF Balanced, g, k
  <1>2. ASSUME Top(f).args # None
        PROVE  Balanced([f EXCEPT ![n].args = None], Deallocated(h, Top(f).args))
    <2> DEFINE g == [f EXCEPT ![n].args = None]
               a == Top(f).args
               k == Deallocated(h, a)
    <2>1. /\ DOMAIN g = DOMAIN f /\ n \in DOMAIN f
          /\ \A i \in DOMAIN f : i # n => g[i] = f[i]
          /\ g[n].args = None
      BY SetArgs
    <2>2. a = f[n].args /\ a # None
      BY <1>2 DEF Top
    <2>3. ~k.poisoned =>
            /\ ~h.poisoned
            /\ \A c \in Blocks : k.owner[c] = IF c = a THEN "free" ELSE h.owner[c]
      BY SMT, HeapFacts DEF CanDeallocate
    <2>4. \A i \in DOMAIN f : i # n => f[i].args # a
      BY <2>1, <2>2 DEF Balanced
    <2> HIDE DEF g, k, n, a
    <2>5. ASSUME NEW c \in Blocks, ~k.poisoned
          PROVE  k.owner[c] = "host" <=> \E i \in DOMAIN g : g[i].args = c
      <3>1. c # None
        BY SandboxAssumption
      <3>2. CASE c = a
        BY SMT, <2>1, <2>2, <2>3, <2>4, <2>5, <3>1, <3>2
      <3>3. CASE c # a
        <4>1. (\E i \in DOMAIN g : g[i].args = c) <=> (\E i \in DOMAIN f : f[i].args = c)
          BY <2>1, <2>2, <3>1, <3>3
        <4> QED
          BY <2>3, <2>5, <3>3, <4>1 DEF Balanced
      <3> QED
        BY <3>2, <3>3
    <2>6. \A i, j \in DOMAIN g : g[i].args # None /\ g[i].args = g[j].args => i = j
      BY <2>1 DEF Balanced
    <2> QED
      BY <2>5, <2>6 DEF Balanced, g, k, a
  <1> QED
    BY <1>1, <1>2

-----------------------------------------------------------------------------
(* Invariance.                                                             *)

\* The type of the call contains that of the heap.
LEMMA TypeHeap == CallTypes <=> CallTypes /\ heap \in Heap
  BY DEF CallTypes, Heap

\* A new call has an empty stack and a heap without arguments.
LEMMA EmptyStack ==
    ASSUME NEW ins
    PROVE  StackInv(<<>>, FALSE, ins) /\ Balanced(<<>>, NewHeap) /\ NewHeap \in Heap
  BY SMT DEF StackInv, Balanced, NewHeap, Heap

\* The first call starts with its store in place.
LEMMA InitInv ==
    ASSUME NEW CONSTANT tidy \in BOOLEAN, Init
    PROVE  IInv(tidy)
  <1>1. CallTypes
    <2>1. frames \in Seq(Frame) /\ instances \in Seq(Thunks \cup {None})
      BY SMT DEF Init
    <2>2. memories \in Seq(BOOLEAN)
      BY SMT DEF Init
    <2>3. heap \in Heap
      BY EmptyStack DEF Init
    <2>4. running \in BOOLEAN /\ storeTaken \in BOOLEAN
      BY DEF Init
    <2>5. outcome \in [end : {"none", "ok", "aborted"}, error : Messages \cup {None},
                       cause : Messages \cup {None}]
      BY DEF Init
    <2> QED
      BY <2>1, <2>2, <2>3, <2>4, <2>5 DEF Init, CallTypes, Heap
  <1>2. StackInv(frames, storeTaken, instances) /\ Balanced(frames, heap)
    BY EmptyStack DEF Init
  <1>3. PanicReported
    BY DEF Init, PanicReported
  <1> QED
    BY <1>1, <1>2, <1>3 DEF IInv

\* A call starts with a new host state.
LEMMA NewCallInv ==
    ASSUME NEW CONSTANT tidy \in BOOLEAN, NewCall
    PROVE  IInv(tidy)'
  <1>1. CallTypes'
    <2>1. frames' \in Seq(Frame) /\ instances' \in Seq(Thunks \cup {None})
      BY SMT DEF NewCall
    <2>2. memories' \in Seq(BOOLEAN)
      BY SMT DEF NewCall
    <2>3. heap' \in Heap
      BY EmptyStack DEF NewCall
    <2>4. running' \in BOOLEAN /\ storeTaken' \in BOOLEAN
      BY DEF NewCall
    <2>5. outcome' \in [end : {"none", "ok", "aborted"}, error : Messages \cup {None},
                       cause : Messages \cup {None}]
      BY DEF NewCall
    <2> QED
      BY <2>1, <2>2, <2>3, <2>4, <2>5 DEF NewCall, CallTypes, Heap
  <1>2. StackInv(frames', storeTaken', instances') /\ Balanced(frames', heap')
    BY EmptyStack DEF NewCall
  <1>3. PanicReported'
    BY DEF NewCall, PanicReported
  <1> QED
    BY <1>1, <1>2, <1>3 DEF IInv

\* Steps that leave the stack, the store and the allocator alone.
LEMMA QuietInv ==
    ASSUME NEW CONSTANT tidy \in BOOLEAN, IInv(tidy),
           UNCHANGED <<frames, instances, storeTaken, heap>>, CallTypes', PanicReported'
    PROVE  IInv(tidy)'
  BY DEF IInv

\* The runtime returns from its call.
LEMMA ReturnInv ==
    ASSUME NEW CONSTANT tidy \in BOOLEAN, IInv(tidy), Return
    PROVE  IInv(tidy)'
  <1>1. CallTypes'
    BY DEF IInv, CallTypes, Return, store
  <1>2. PanicReported'
    BY DEF PanicReported, Return
  <1> QED
    BY <1>1, <1>2, QuietInv DEF Return, store

\* A trap of the runtime ends the call, or the guest whose thunk the runtime ran.
LEMMA TrapsInv ==
    ASSUME NEW CONSTANT tidy \in BOOLEAN, CallTypes, PanicReported,
           NEW STATE f, f \in Seq(Frame), NEW STATE h, h \in Heap,
           NEW STATE taken, taken \in BOOLEAN,
           NEW CONSTANT cause \in Messages \cup {None},
           StackInv(f, taken, instances), tidy => Balanced(f, h),
           f # <<>> => Top(f).args # None,
           Traps(f, h, taken, cause), UNCHANGED store
    PROVE  IInv(tidy)'
  <1>1. UNCHANGED <<instances, memories>>
    BY DEF store
  <1>2. CASE f = <<>>
    <2>1. /\ running' = FALSE /\ frames' = f /\ heap' = h /\ storeTaken' = taken
          /\ panicMessage' = None
          /\ outcome' = [end |-> "aborted",
                         error |-> IF cause # None THEN cause ELSE panicMessage,
                         cause |-> cause]
      BY <1>2 DEF Traps
    <2>2. CallTypes'
      BY <1>1, <2>1, TypeHeap DEF CallTypes, Heap
    <2>3. PanicReported'
      BY <2>1 DEF PanicReported
    <2> QED
      BY <1>1, <2>1, <2>2, <2>3 DEF IInv
  <1>3. CASE f # <<>>
    <2>1. /\ frames' = Below(f) /\ heap' = Deallocated(h, Top(f).args)
          /\ storeTaken' = TakenAfter(taken, Top(f))
          /\ panicMessage' = IF cause # None THEN cause ELSE panicMessage
          /\ UNCHANGED <<running, outcome>>
      BY <1>3 DEF Traps
    <2>2. frames' \in Seq(Frame) /\ heap' \in Heap
      BY <1>3, <2>1, BelowFacts, HeapFacts
    <2>3. storeTaken' \in BOOLEAN
      BY <2>1 DEF TakenAfter
    <2>4. CallTypes'
      BY <1>1, <2>1, <2>2, <2>3 DEF CallTypes, Heap
    <2>5. PanicReported'
      BY <2>1 DEF PanicReported
    <2>6. StackInv(frames', storeTaken', instances')
      BY <1>1, <1>3, <2>1, PopStack
    <2>7. tidy => Balanced(frames', heap')
      BY <1>3, <2>1, PopBalanced
    <2> QED
      BY <2>4, <2>5, <2>6, <2>7 DEF IInv
  <1> QED
    BY <1>2, <1>3

\* A trap where the runtime runs, also one that a poisoned allocator causes.
LEMMA TrapsHereInv ==
    ASSUME NEW CONSTANT tidy \in BOOLEAN, IInv(tidy),
           InRuntime, NEW CONSTANT cause \in Messages \cup {None},
           \/ TrapsHere(cause)
           \/ Traps(frames, Poisoned(heap), storeTaken, cause),
           UNCHANGED store
    PROVE  IInv(tidy)'
  <1>1. /\ CallTypes /\ PanicReported /\ StackInv(frames, storeTaken, instances)
        /\ tidy => Balanced(frames, heap)
    BY DEF IInv
  <1>2. /\ frames \in Seq(Frame) /\ heap \in Heap /\ storeTaken \in BOOLEAN
        /\ frames # <<>> => Top(frames).args # None
    BY <1>1, TypeHeap DEF CallTypes, InRuntime
  <1>3. CASE TrapsHere(cause)
    BY <1>1, <1>2, <1>3, TrapsInv DEF TrapsHere
  <1>4. CASE Traps(frames, Poisoned(heap), storeTaken, cause)
    <2>1. Poisoned(heap) \in Heap /\ (tidy => Balanced(frames, Poisoned(heap)))
      BY <1>1, <1>2, HeapFacts DEF Balanced
    <2> QED
      BY <1>1, <1>2, <1>4, <2>1, TrapsInv
  <1> QED
    BY <1>3, <1>4

\* The runtime traps on its own.
LEMMA TrapInv ==
    ASSUME NEW CONSTANT tidy \in BOOLEAN, IInv(tidy),
           Trap \/ \E m \in Messages : AbortOnPanic(m)
    PROVE  IInv(tidy)'
  <1>1. CASE Trap
    BY <1>1, TrapsHereInv DEF Trap
  <1>2. CASE \E m \in Messages : AbortOnPanic(m)
    BY <1>2, TrapsHereInv DEF AbortOnPanic
  <1> QED
    BY <1>1, <1>2

\* The runtime allocates a block for itself.
LEMMA MallocInv ==
    ASSUME NEW CONSTANT tidy \in BOOLEAN, IInv(tidy),
           NEW b \in Blocks, Malloc(b)
    PROVE  IInv(tidy)'
  <1>1. InRuntime /\ UNCHANGED store
    BY DEF Malloc
  <1>2. CASE Traps(frames, Poisoned(heap), storeTaken, None)
    BY <1>1, <1>2, TrapsHereInv
  <1>3. CASE CanAllocate(heap, b) /\ heap' = Allocated(heap, b, "runtime")
             /\ UNCHANGED <<running, frames, storeTaken, panicMessage, outcome>>
    <2>1. heap \in Heap /\ UNCHANGED <<instances, memories>>
      BY <1>1, TypeHeap DEF IInv, store
    <2>2. heap' \in Heap /\ heap'.poisoned = heap.poisoned /\ heap.owner[b] = "free"
          /\ \A c \in Blocks : heap'.owner[c] = IF c = b THEN "runtime" ELSE heap.owner[c]
      BY <1>3, <2>1 DEF CanAllocate, Allocated, Heap
    <2>3. CallTypes'
      BY <1>3, <2>1, <2>2 DEF IInv, CallTypes, Heap
    <2>4. Balanced(frames, heap) => Balanced(frames', heap')
      BY <1>3, <2>2 DEF Balanced
    <2> QED
      BY <1>3, <2>1, <2>3, <2>4 DEF IInv, PanicReported
  <1> QED
    BY <1>2, <1>3 DEF Malloc

\* The runtime frees a block, which poisons the heap when it is free already.
LEMMA FreeInv ==
    ASSUME NEW CONSTANT tidy \in BOOLEAN, IInv(tidy), tidy => TidyRuntime,
           NEW b \in Blocks, Free(b)
    PROVE  IInv(tidy)'
  <1>1. InRuntime /\ UNCHANGED store
    BY DEF Free
  <1>2. CASE ~CanDeallocate(heap, b)
    BY <1>1, <1>2, TrapsHereInv DEF Free
  <1>3. CASE CanDeallocate(heap, b)
    <2>1. heap \in Heap /\ UNCHANGED <<instances, memories>>
          /\ heap' = Deallocated(heap, b)
          /\ UNCHANGED <<running, frames, storeTaken, panicMessage, outcome>>
      BY <1>1, <1>3, TypeHeap DEF IInv, store, Free
    <2>2. heap' \in Heap /\ ~heap'.poisoned /\ ~heap.poisoned
          /\ \A c \in Blocks : heap'.owner[c] = IF c = b THEN "free" ELSE heap.owner[c]
      BY SMT, <1>3, <2>1, HeapFacts DEF CanDeallocate
    <2>3. CallTypes'
      BY <2>1, <2>2 DEF IInv, CallTypes, Heap
    <2>4. Careful => heap.owner[b] = "runtime"
      BY DEF Free
    <2>5. tidy /\ Balanced(frames, heap) => Balanced(frames', heap')
      BY <2>1, <2>2, <2>4 DEF Balanced, TidyRuntime
    <2> QED
      BY <2>1, <2>3, <2>5 DEF IInv, PanicReported
  <1> QED
    BY <1>2, <1>3

\* The runtime makes, reads, writes or tears down a memory of the sandbox.
LEMMA MemoryInv ==
    ASSUME NEW CONSTANT tidy \in BOOLEAN, IInv(tidy),
           \/ MemoryNew
           \/ \E i \in 1 .. MaxMemories + 1 : MemoryAccess(i) \/ MemoryTeardown(i)
    PROVE  IInv(tidy)'
  <1>1. CASE InRuntime /\ TrapsHere(None) /\ UNCHANGED store
    BY <1>1, TrapsHereInv
  <1>2. ASSUME UNCHANGED <<running, frames, storeTaken, heap, panicMessage, outcome,
                           instances>>,
               memories' \in Seq(BOOLEAN)
        PROVE  IInv(tidy)'
    <2>1. CallTypes'
      BY <1>2 DEF IInv, CallTypes
    <2> QED
      BY <1>2, <2>1, QuietInv DEF IInv, PanicReported
  <1>3. memories \in Seq(BOOLEAN)
    BY DEF IInv, CallTypes
  <1>4. CASE MemoryNew
    <2>1. Append(memories, TRUE) \in Seq(BOOLEAN)
      BY SMT, <1>3
    <2> QED
      BY <1>1, <1>2, <1>4, <2>1 DEF MemoryNew, store
  <1>5. CASE \E i \in 1 .. MaxMemories + 1 : MemoryAccess(i)
    BY <1>1, <1>5 DEF MemoryAccess
  <1>6. ASSUME NEW i \in 1 .. MaxMemories + 1, MemoryTeardown(i)
        PROVE  IInv(tidy)'
    <2>1. CASE HasMemory(i)
      <3>1. [memories EXCEPT ![i] = FALSE] \in Seq(BOOLEAN)
        BY SMT, <1>3, <2>1 DEF HasMemory
      <3> QED
        BY <1>2, <1>6, <2>1, <3>1 DEF MemoryTeardown
    <2>2. CASE ~HasMemory(i)
      BY <1>1, <1>6, <2>2 DEF MemoryTeardown, store
    <2> QED
      BY <2>1, <2>2
  <1> QED
    BY <1>4, <1>5, <1>6

\* The runtime tears down an instance, running or not.
LEMMA TeardownInv ==
    ASSUME NEW CONSTANT tidy \in BOOLEAN, IInv(tidy),
           NEW i \in 1 .. MaxInstances + 1, GetGlobalVal(i) \/ InstanceTeardown(i)
    PROVE  IInv(tidy)'
  <1>1. CASE InRuntime /\ TrapsHere(None) /\ UNCHANGED store
    BY <1>1, TrapsHereInv
  <1>2. CASE InstanceTeardown(i) /\ HasInstance(i)
    <2>1. /\ instances' = [instances EXCEPT ![i] = None] /\ i \in DOMAIN instances
          /\ UNCHANGED <<running, frames, storeTaken, heap, panicMessage, outcome, memories>>
      BY <1>2 DEF InstanceTeardown, HasInstance
    <2>2. instances \in Seq(Thunks \cup {None})
      BY DEF IInv, CallTypes
    <2>3. instances' \in Seq(Thunks \cup {None})
      BY SMT, <2>1, <2>2
    <2>4. CallTypes'
      BY <2>1, <2>3 DEF IInv, CallTypes
    <2>5. DOMAIN instances' = DOMAIN instances
          /\ \A j \in DOMAIN instances : instances'[j] \in {None, instances[j]}
      BY <2>1, <2>2
    <2>6. StackInv(frames', storeTaken', instances')
      BY <2>1, <2>5 DEF IInv, StackInv
    <2> QED
      BY <2>1, <2>4, <2>6 DEF IInv, PanicReported
  <1> QED
    BY <1>1, <1>2 DEF GetGlobalVal, InstanceTeardown, store

\* instance_new takes the store away for the start function.
LEMMA InstanceNewInv ==
    ASSUME NEW CONSTANT tidy \in BOOLEAN, IInv(tidy),
           NEW t \in Thunks \cup {None}, NEW m \in 0 .. MaxMemories + 1,
           InstanceNew(t, m)
    PROVE  IInv(tidy)'
  <1>1. InRuntime /\ UNCHANGED store
    BY DEF InstanceNew
  <1>2. CASE t = None \/ storeTaken
    BY <1>1, <1>2, TrapsHereInv DEF InstanceNew
  <1>3. CASE ~(t = None \/ storeTaken)
    <2> DEFINE x == [kind |-> "start", inst |-> 0, thunk |-> t, args |-> None]
    <2>1. /\ frames' = Append(frames, x) /\ storeTaken' = TRUE
          /\ UNCHANGED <<running, heap, panicMessage, outcome, instances, memories>>
      BY <1>1, <1>3 DEF InstanceNew, store
    <2>2. x \in Frame /\ x.args = None /\ x.kind = "start"
      BY <1>3 DEF Frame
    <2>3. frames \in Seq(Frame) /\ (frames # <<>> => Top(frames).args # None)
      BY <1>1 DEF IInv, CallTypes, InRuntime
    <2>4. StackInv(frames, FALSE, instances)
      BY <1>3 DEF IInv, StackInv
    <2> HIDE DEF x
    <2>5. /\ Append(frames, x) \in Seq(Frame)
          /\ StackInv(Append(frames, x), x.kind = "start", instances)
          /\ \A h : Balanced(frames, h) => Balanced(Append(frames, x), h)
      BY <2>2, <2>3, <2>4, PushFrame
    <2>6. StackInv(frames', storeTaken', instances')
      BY <2>1, <2>2, <2>5 DEF StackInv
    <2>7. CallTypes'
      BY <2>1, <2>5 DEF IInv, CallTypes
    <2> QED
      BY <2>1, <2>5, <2>6, <2>7 DEF IInv, PanicReported
  <1> QED
    BY <1>2, <1>3

\* invoke pushes a guest with the thunk of its instance.
LEMMA InvokeInv ==
    ASSUME NEW CONSTANT tidy \in BOOLEAN, IInv(tidy),
           NEW i \in 1 .. MaxInstances + 1, Invoke(i)
    PROVE  IInv(tidy)'
  <1>1. InRuntime /\ UNCHANGED store
    BY DEF Invoke
  <1>2. CASE ~HasInstance(i)
    BY <1>1, <1>2, TrapsHereInv DEF Invoke
  <1>3. CASE HasInstance(i)
    <2> DEFINE x == [kind |-> "invoke", inst |-> i, thunk |-> instances[i], args |-> None]
    <2>1. /\ frames' = Append(frames, x)
          /\ UNCHANGED <<running, heap, panicMessage, outcome, instances, memories, storeTaken>>
      BY <1>1, <1>3 DEF Invoke, store
    <2>2. ~storeTaken /\ i \in DOMAIN instances /\ instances[i] \in Thunks
      BY SMT, <1>3 DEF HasInstance, IInv, CallTypes
    <2>3. x \in Frame /\ x.args = None /\ x.kind = "invoke"
          /\ x.inst \in DOMAIN instances /\ instances[x.inst] \in {None, x.thunk}
      BY SMT, <2>2 DEF Frame
    <2>4. frames \in Seq(Frame) /\ (frames # <<>> => Top(frames).args # None)
      BY <1>1 DEF IInv, CallTypes, InRuntime
    <2>5. StackInv(frames, FALSE, instances)
      BY <2>2 DEF IInv, StackInv
    <2> HIDE DEF x
    <2>6. /\ Append(frames, x) \in Seq(Frame)
          /\ StackInv(Append(frames, x), x.kind = "start", instances)
          /\ \A h : Balanced(frames, h) => Balanced(Append(frames, x), h)
      BY <2>3, <2>4, <2>5, PushFrame
    <2>7. StackInv(frames', storeTaken', instances')
      BY <2>1, <2>2, <2>3, <2>6 DEF StackInv
    <2>8. CallTypes'
      BY <2>1, <2>6 DEF IInv, CallTypes
    <2> QED
      BY <2>1, <2>6, <2>7, <2>8 DEF IInv, PanicReported
  <1> QED
    BY <1>2, <1>3

\* The innermost guest fails and leaves a heap that is balanced without it.
LEMMA GuestFailsInv ==
    ASSUME NEW CONSTANT tidy \in BOOLEAN, IInv(tidy),
           frames # <<>>, NEW STATE h, h \in Heap,
           tidy => Balanced(Below(frames), h),
           GuestFails(h), UNCHANGED store
    PROVE  IInv(tidy)'
  <1>1. /\ frames' = Below(frames) /\ heap' = h
        /\ storeTaken' = TakenAfter(storeTaken, Top(frames))
        /\ UNCHANGED <<running, panicMessage, outcome, instances, memories>>
    BY DEF GuestFails, store
  <1>2. frames \in Seq(Frame) /\ storeTaken \in BOOLEAN
        /\ StackInv(frames, storeTaken, instances)
    BY DEF IInv, CallTypes
  <1>3. StackInv(frames', storeTaken', instances')
    BY <1>1, <1>2, PopStack
  <1>4. storeTaken' \in BOOLEAN
    BY <1>1 DEF TakenAfter
  <1>5. CallTypes'
    BY <1>1, <1>2, <1>4, BelowFacts DEF IInv, CallTypes, Heap
  <1> QED
    BY <1>1, <1>3, <1>5 DEF IInv, PanicReported

\* A guest traps and leaves the stack.
LEMMA GuestTrapInv ==
    ASSUME NEW CONSTANT tidy \in BOOLEAN, IInv(tidy), GuestTrap
    PROVE  IInv(tidy)'
  <1>1. frames # <<>> /\ Top(frames).args = None /\ frames \in Seq(Frame) /\ heap \in Heap
    BY TypeHeap DEF IInv, CallTypes, GuestTrap, InGuest
  <1>2. tidy => Balanced(Below(frames), heap)
    BY <1>1, PopBalanced DEF IInv
  <1> QED
    BY <1>1, <1>2, GuestFailsInv DEF GuestTrap

\* A guest returns; a start function gives the store back.
LEMMA GuestReturnInv ==
    ASSUME NEW CONSTANT tidy \in BOOLEAN, IInv(tidy), GuestReturn
    PROVE  IInv(tidy)'
  <1> DEFINE top == Top(frames)
             rest == Below(frames)
  <1>1. /\ frames # <<>> /\ top.args = None /\ frames \in Seq(Frame) /\ heap \in Heap
        /\ storeTaken \in BOOLEAN /\ StackInv(frames, storeTaken, instances)
        /\ CallTypes /\ PanicReported /\ UNCHANGED memories
    BY TypeHeap DEF IInv, CallTypes, GuestReturn, InGuest
  <1>2. tidy => Balanced(rest, heap)
    BY <1>1, PopBalanced DEF IInv
  <1>3. rest \in Seq(Frame) /\ top \in Frame
    BY <1>1, BelowFacts
  <1>4. /\ StackInv(rest, TakenAfter(storeTaken, top), instances)
        /\ ~TakenAfter(storeTaken, top)
        /\ rest # <<>> => Top(rest).args # None
    BY <1>1, PopStack
  <1>5. CASE top.kind = "start"
    <2>1. /\ storeTaken' = TakenAfter(storeTaken, top) /\ frames' = rest
          /\ instances' = Append(instances, top.thunk)
          /\ UNCHANGED <<running, heap, panicMessage, outcome>>
      BY <1>5 DEF GuestReturn
    <2>2. top.thunk \in Thunks /\ instances \in Seq(Thunks \cup {None})
      BY <1>1, <1>3 DEF Frame, CallTypes
    <2>3. /\ instances' \in Seq(Thunks \cup {None})
          /\ \A j \in DOMAIN instances : j \in DOMAIN instances' /\ instances'[j] = instances[j]
      BY SMT, <2>1, <2>2
    <2>4. storeTaken' \in BOOLEAN
      BY <2>1 DEF TakenAfter
    <2>5. CallTypes'
      BY <1>1, <1>3, <2>1, <2>3, <2>4 DEF CallTypes
    <2>6. StackInv(rest, storeTaken', instances)
      BY <1>4, <2>1
    <2> HIDE DEF rest
    <2>7. StackInv(frames', storeTaken', instances')
      BY <2>1, <2>3, <2>6 DEF StackInv
    <2> QED
      BY <1>1, <1>2, <2>1, <2>5, <2>7 DEF IInv, PanicReported
  <1>6. CASE top.kind = "invoke"
    <2>1. UNCHANGED <<instances, memories>> /\ UNCHANGED store
      BY <1>1, <1>6 DEF GuestReturn, store
    <2>2. ~storeTaken
      BY <1>1, <1>6 DEF StackInv
    <2>3. StackInv(rest, storeTaken, instances)
      BY <1>4, <2>2 DEF StackInv
    <2>4. CASE frames' = rest /\ UNCHANGED <<running, storeTaken, heap, panicMessage, outcome>>
      <3>1. CallTypes'
        BY <1>1, <1>3, <2>1, <2>4 DEF CallTypes
      <3> QED
        BY <1>1, <1>2, <2>1, <2>3, <2>4, <3>1 DEF IInv, PanicReported
    <2>5. CASE Traps(rest, heap, storeTaken, None)
      <3> HIDE DEF rest
      <3> QED
        BY <1>1, <1>2, <1>3, <1>4, <2>1, <2>3, <2>5, TrapsInv
    <2> QED
      BY <1>6, <2>4, <2>5 DEF GuestReturn
  <1> QED
    BY <1>3, <1>5, <1>6 DEF Frame

\* A guest calls an import: its arguments are allocated and the thunk runs.
LEMMA InvokeIndexInv ==
    ASSUME NEW CONSTANT tidy \in BOOLEAN, IInv(tidy),
           NEW b \in Blocks, InvokeIndex(b)
    PROVE  IInv(tidy)'
  <1>1. /\ frames # <<>> /\ Top(frames).args = None /\ frames \in Seq(Frame)
        /\ heap \in Heap /\ UNCHANGED <<instances, memories>> /\ UNCHANGED store
    BY TypeHeap DEF IInv, CallTypes, InvokeIndex, InGuest, store
  <1>2. CASE GuestFails(Poisoned(heap))
    <2>1. tidy => Balanced(Below(frames), heap)
      BY <1>1, PopBalanced DEF IInv
    <2>2. Poisoned(heap) \in Heap /\ (tidy => Balanced(Below(frames), Poisoned(heap)))
      BY <1>1, <2>1, HeapFacts DEF Balanced
    <2> QED
      BY <1>1, <1>2, <2>2, GuestFailsInv
  <1>3. CASE /\ CanAllocate(heap, b)
             /\ heap' = Allocated(heap, b, "host")
             /\ frames' = [frames EXCEPT ![Len(frames)].args = b]
             /\ UNCHANGED <<running, storeTaken, panicMessage, outcome>>
    <2>1. heap' \in Heap
      BY <1>1, <1>3 DEF Allocated, Heap
    <2>2. frames' \in Seq(Frame)
      BY <1>1, <1>3, SetArgs
    <2>3. CallTypes'
      BY <1>1, <1>3, <2>1, <2>2 DEF IInv, CallTypes, Heap
    <2>4. StackInv(frames', storeTaken', instances')
      BY <1>1, <1>3, SetArgsStack DEF IInv
    <2>5. tidy => Balanced(frames', heap')
      BY <1>1, <1>3, SetArgsBalanced DEF IInv
    <2> QED
      BY <1>3, <2>3, <2>4, <2>5 DEF IInv, PanicReported
  <1> QED
    BY <1>2, <1>3 DEF InvokeIndex

\* A block of the runtime is freed.
LEMMA FreeRuntimes ==
    ASSUME NEW f, NEW h \in Heap, NEW r, CanDeallocate(h, r), h.owner[r] = "runtime",
           Balanced(f, h)
    PROVE  Balanced(f, Deallocated(h, r))
  <1> DEFINE k == Deallocated(h, r)
  <1>1. /\ ~k.poisoned /\ ~h.poisoned
        /\ \A c \in Blocks : k.owner[c] = IF c = r THEN "free" ELSE h.owner[c]
    BY HeapFacts DEF CanDeallocate
  <1> HIDE DEF k
  <1>2. Balanced(f, k)
    BY <1>1 DEF Balanced
  <1> QED
    BY <1>2 DEF k

\* A thunk returns: its arguments are freed and the guest goes on or traps.
LEMMA ThunkReturnsInv ==
    ASSUME NEW CONSTANT tidy \in BOOLEAN, IInv(tidy), tidy => TidyRuntime,
           NEW r \in Blocks \cup {None}, ThunkReturns(r)
    PROVE  IInv(tidy)'
  <1> DEFINE args == Top(frames).args
             h == Deallocated(heap, args)
             guest == [frames EXCEPT ![Len(frames)].args = None]
  <1>1. /\ frames # <<>> /\ args # None /\ frames \in Seq(Frame)
        /\ heap \in Heap /\ UNCHANGED <<instances, memories>> /\ UNCHANGED store
    BY TypeHeap DEF IInv, CallTypes, ThunkReturns, InRuntime, store
  <1>2. h \in Heap /\ Deallocated(h, r) \in Heap /\ Poisoned(h) \in Heap
    BY <1>1, HeapFacts
  <1>3. tidy => Balanced(Below(frames), h) /\ Balanced(guest, h)
    BY <1>1, PopBalanced, SetArgsBalanced DEF IInv
  <1>4. CASE CanDeallocate(heap, args) /\ CanDeallocate(h, r)
    <2>1. tidy => h.owner[r] = "runtime"
      <3>1. Careful => heap.owner[r] = "runtime"
        BY DEF ThunkReturns
      <3>2. r \in Blocks /\ h.owner[r] # "free"
        BY <1>4 DEF CanDeallocate
      <3>3. h.owner[r] = IF r = args THEN "free" ELSE heap.owner[r]
        <4>1. \A c \in Blocks : h.owner[c] = IF c = args THEN "free" ELSE heap.owner[c]
          BY <1>1, <1>4, HeapFacts
        <4> QED
          BY <3>2, <4>1
      <3> QED
        BY <3>1, <3>2, <3>3 DEF TidyRuntime
    <2>2. tidy => /\ Balanced(Below(frames), Deallocated(h, r))
                         /\ Balanced(guest, Deallocated(h, r))
      <3> HIDE DEF h, guest
      <3> QED
        BY <1>2, <1>3, <1>4, <2>1, FreeRuntimes
    <2>3. CASE GuestFails(Deallocated(h, r))
      BY <1>1, <1>2, <2>2, <2>3, GuestFailsInv
    <2>4. CASE /\ frames' = guest /\ heap' = Deallocated(h, r)
               /\ UNCHANGED <<running, storeTaken, panicMessage, outcome>>
      <3>1. frames' \in Seq(Frame)
        BY <1>1, <2>4, SetArgs
      <3>2. StackInv(frames', storeTaken', instances')
        BY <1>1, <2>4, SetArgsStack DEF IInv
      <3> HIDE DEF h, guest
      <3>3. CallTypes'
        BY <1>1, <1>2, <2>4, <3>1 DEF IInv, CallTypes, Heap
      <3> QED
        BY <1>1, <2>2, <2>4, <3>2, <3>3 DEF IInv, PanicReported
    <2> QED
      BY <1>4, <2>3, <2>4 DEF ThunkReturns
  <1>5. CASE ~(CanDeallocate(heap, args) /\ CanDeallocate(h, r))
    <2>1. GuestFails(Poisoned(h)) \/ GuestFails(h)
      BY <1>5 DEF ThunkReturns
    <2>2. tidy => Balanced(Below(frames), Poisoned(h))
      <3> HIDE DEF h
      <3> QED
        BY <1>2, <1>3, HeapFacts DEF Balanced
    <2> QED
      BY <1>1, <1>2, <1>3, <2>1, <2>2, GuestFailsInv
  <1> QED
    BY <1>4, <1>5

\* A thunk without a result panics in the host.
LEMMA ThunkReturnsNothingInv ==
    ASSUME NEW CONSTANT tidy \in BOOLEAN, IInv(tidy), tidy => TidyRuntime,
           ThunkReturnsNothing
    PROVE  IInv(tidy)'
  <1> DEFINE rest == Below(frames)
             taken == TakenAfter(storeTaken, Top(frames))
  <1>1. /\ frames # <<>> /\ frames \in Seq(Frame) /\ heap \in Heap
        /\ storeTaken \in BOOLEAN /\ StackInv(frames, storeTaken, instances)
        /\ CallTypes /\ PanicReported /\ UNCHANGED store
        /\ Traps(rest, heap, taken, None)
    BY TypeHeap DEF IInv, CallTypes, ThunkReturnsNothing
  <1>2. ~tidy
    BY DEF ThunkReturnsNothing, TidyRuntime
  <1>3. rest \in Seq(Frame) /\ taken \in BOOLEAN
    BY <1>1, BelowFacts DEF TakenAfter
  <1>4. StackInv(rest, taken, instances) /\ (rest # <<>> => Top(rest).args # None)
    BY <1>1, PopStack
  <1> HIDE DEF rest, taken
  <1> QED
    BY <1>1, <1>2, <1>3, <1>4, TrapsInv

\* Every step preserves the invariant, with or without the assumptions on the runtime.
LEMMA NextInv ==
    ASSUME NEW CONSTANT tidy \in BOOLEAN, IInv(tidy), tidy => TidyRuntime, [Next]_vars
    PROVE  IInv(tidy)'
  <1>1. CASE UNCHANGED vars
    BY <1>1 DEF IInv, CallTypes, PanicReported, vars
  <1> QED
    BY <1>1, NewCallInv, ReturnInv, TrapInv, GuestTrapInv, GuestReturnInv,
       ThunkReturnsNothingInv, MemoryInv, MallocInv, FreeInv, InvokeIndexInv,
       ThunkReturnsInv, TeardownInv, InvokeInv, InstanceNewInv DEF Next, Step

\* The runtime stays the same throughout a behaviour.
Inv == runtime \in Runtimes /\ IInv(TidyRuntime)

\* Every step preserves what holds without assumptions on the runtime.
LEMMA NextKeeps == Inv /\ [Next]_vars => Inv'
  <1> SUFFICES ASSUME Inv, [Next]_vars
               PROVE  Inv'
    OBVIOUS
  <1>1. UNCHANGED runtime
    BY DEF Next, vars
  <1>2. TidyRuntime \in BOOLEAN /\ (TidyRuntime' <=> TidyRuntime)
    BY <1>1 DEF TidyRuntime, Careful, BadThunks
  <1>3. PICK tidy \in BOOLEAN : tidy <=> TidyRuntime
    OBVIOUS
  <1>4. IInv(tidy)
    BY <1>3 DEF Inv, IInv
  <1>5. IInv(tidy)'
    BY <1>3, <1>4, NextInv
  <1> QED
    BY <1>1, <1>2, <1>3, <1>5 DEF Inv, IInv

-----------------------------------------------------------------------------
(* Theorems.                                                               *)

\* Every behaviour satisfies the inductive invariant.
THEOREM Invariance == Spec => []Inv
  <1>1. ASSUME Init
        PROVE  Inv
    <2>1. PICK tidy \in BOOLEAN : tidy <=> TidyRuntime
      OBVIOUS
    <2>2. IInv(tidy)
      BY <1>1, InitInv
    <2> QED
      BY <1>1, <2>1, <2>2 DEF Init, Inv, IInv
  <1> QED
    BY <1>1, NextKeeps, PTL DEF Spec

\* The sandbox store is away exactly while a start function is on the stack,
\* whatever the runtime does with its heap and its thunks.
THEOREM StoreSafety == Spec => []StoreBracket
  <1>1. Inv => StoreBracket
    BY DEF Inv, IInv, StackInv, StoreBracket
  <1> QED
    BY <1>1, Invariance, PTL

\* A guest calls out with the dispatch thunk of its own instance, however
\* instances are made, nested and torn down.
THEOREM ThunkOwnership == Spec => []ThunkOfInstance
  <1>1. Inv => ThunkOfInstance
    BY DEF Inv, IInv, StackInv, ThunkOfInstance
  <1> QED
    BY <1>1, Invariance, PTL

\* The panic that ends a call into the runtime is the one that is reported.
THEOREM PanicSafety == Spec => []PanicReported
  <1>1. Inv => PanicReported
    BY DEF Inv, IInv
  <1> QED
    BY <1>1, Invariance, PTL

\* If the thunks have a result and the runtime frees only what it allocated,
\* the arguments of thunks are freed on every path of invoke_index.
THEOREM ArgsSafety == Spec => []ArgsBalanced
  <1>1. ASSUME Inv, TidyRuntime
        PROVE  ArgsBalanced
    <2> DEFINE waiting == {i \in DOMAIN frames : frames[i].args # None}
    <2>1. Balanced(frames, heap) /\ frames \in Seq(Frame)
      BY <1>1 DEF Inv, IInv, CallTypes
    <2>2. \A i \in DOMAIN frames : frames[i].args \in Blocks \cup {None}
      <3>1. \A i \in DOMAIN frames : frames[i] \in Frame
        BY SMT, <2>1
      <3> QED
        BY <3>1 DEF Frame
    <2>3. ~heap.poisoned =>
            {b \in Blocks : heap.owner[b] = "host"} = {frames[i].args : i \in waiting}
      BY SMT, <2>1, <2>2, SandboxAssumption DEF Balanced
    <2>4. \A i, j \in waiting : frames[i].args = frames[j].args => i = j
      BY <2>1 DEF Balanced
    <2> QED
      BY <2>3, <2>4 DEF ArgsBalanced
  <1>2. ~TidyRuntime => ArgsBalanced
    BY DEF ArgsBalanced
  <1> QED
    BY <1>1, <1>2, Invariance, PTL

\* However a thunk with a result ends costs at most the guest that called it.
THEOREM ThunkSafety == Spec => ThunkContained
  <1> DEFINE Contained == running' /\ Len(frames') >= Len(frames) - 1
  <1>1. ASSUME Inv, Next, InRuntime, frames # <<>>, Top(frames).thunk \notin BadThunks
        PROVE  Contained
    <2>1. /\ frames \in Seq(Frame) /\ Len(frames) \in Nat \ {0} /\ running
          /\ Len(Below(frames)) = Len(frames) - 1
      BY <1>1, BelowFacts DEF Inv, IInv, CallTypes, InRuntime
    <2>2. ASSUME UNCHANGED <<running, frames>>
          PROVE  Contained
      BY SMT, <2>1, <2>2
    <2>3. ASSUME UNCHANGED running, frames' = Below(frames)
          PROVE  Contained
      BY SMT, <2>1, <2>3
    <2>4. ASSUME NEW CONSTANT c, NEW STATE h, Traps(frames, h, storeTaken, c)
          PROVE  Contained
      BY <1>1, <2>3, <2>4 DEF Traps
    <2>5. ASSUME NEW CONSTANT c, TrapsHere(c)
          PROVE  Contained
      BY <2>4, <2>5 DEF TrapsHere
    <2>6. ASSUME NEW STATE h, GuestFails(h)
          PROVE  Contained
      BY <2>3, <2>6 DEF GuestFails
    <2>7. ASSUME UNCHANGED running, NEW STATE x, frames' = Append(frames, x)
          PROVE  Contained
      BY SMT, <2>1, <2>7
    <2>8. CASE Trap \/ \E m \in Messages : AbortOnPanic(m)
      BY <2>5, <2>8 DEF Trap, AbortOnPanic
    <2>9. CASE \E b \in Blocks : Malloc(b) \/ Free(b)
      BY <2>2, <2>4, <2>9 DEF Malloc, Free
    <2>10. CASE MemoryNew \/ \E i \in 1 .. MaxMemories + 1 : MemoryAccess(i) \/ MemoryTeardown(i)
      BY <2>2, <2>5, <2>10 DEF MemoryNew, MemoryAccess, MemoryTeardown
    <2>11. CASE \E i \in 1 .. MaxInstances + 1 : GetGlobalVal(i) \/ InstanceTeardown(i)
      BY <2>2, <2>5, <2>11 DEF GetGlobalVal, InstanceTeardown
    <2>12. CASE \E i \in 1 .. MaxInstances + 1 : Invoke(i)
      BY <2>5, <2>7, <2>12 DEF Invoke
    <2>13. CASE \E t \in Thunks \cup {None}, m \in 0 .. MaxMemories + 1 : InstanceNew(t, m)
      BY <2>5, <2>7, <2>13 DEF InstanceNew
    <2>14. CASE \E r \in Blocks \cup {None} : ThunkReturns(r)
      <3>1. ASSUME UNCHANGED running, frames' = [frames EXCEPT ![Len(frames)].args = None]
            PROVE  Contained
        <4>1. Len(frames') = Len(frames)
          BY <1>1, <2>1, <3>1, SetArgs
        <4> QED
          BY SMT, <2>1, <3>1, <4>1
      <3> QED
        BY <2>6, <2>14, <3>1 DEF ThunkReturns
    <2> QED
      BY <1>1, <2>8, <2>9, <2>10, <2>11, <2>12, <2>13, <2>14
         DEF Next, Step, InRuntime, NewCall, Return, GuestTrap, GuestReturn, InvokeIndex,
             InGuest, ThunkReturnsNothing
  <1>2. ASSUME Inv, [Next]_vars
        PROVE  [InRuntime /\ frames # <<>> /\ Top(frames).thunk \notin BadThunks =>
                  Contained]_vars
    BY <1>1, <1>2
  <1> QED
    BY <1>2, Invariance, PTL DEF Spec, ThunkContained
=============================================================================
