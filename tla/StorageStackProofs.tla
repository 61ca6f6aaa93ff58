------------------------ MODULE StorageStackProofs ------------------------
(***************************************************************************)
(* The overlay, as StateMachine uses it, implements the stack of maps of   *)
(* TransactionalStorage, for any keys, child tries, values and depths.     *)
(***************************************************************************)
EXTENDS StateMachineProofs

\* Most steps are first-order; those that need arithmetic, or sequences, say so.
USE Zenon

-----------------------------------------------------------------------------
(* What all transactions see, as the stack of maps.                         *)

\* Two sequences with the same elements are equal.
LEMMA SameSeq ==
  ASSUME NEW S, NEW s \in Seq(S), NEW t \in Seq(S), Len(s) = Len(t),
         \A i \in 1 .. Len(s) : s[i] = t[i]
  PROVE  s = t
BY SMT

\* The map of every transaction, the innermost last.
ViewsOf(c, d) == [i \in 1 .. d + 1 |-> [k \in Keys |-> ViewOf(c[k], i - 1)]]

\* The maps of the stack, one for every open transaction and one below.
LEMMA ViewsFacts ==
  ASSUME NEW d \in Nat, NEW c, \A k \in Keys : WellFormed(c[k], d)
  PROVE  /\ ViewsOf(c, d) \in Seq(Viewed(Keys))
         /\ Len(ViewsOf(c, d)) = d + 1
         /\ \A i \in 1 .. d + 1 : ViewsOf(c, d)[i] = [k \in Keys |-> ViewOf(c[k], i - 1)]
<1>1. ASSUME NEW k \in Keys, NEW n \in Nat PROVE ViewOf(c[k], n) \in Changes \cup {Absent}
  <2>1. c[k] \in Seq(Entry)
    BY DEF WellFormed
  <2>2. Latest(c[k], n) \subseteq Changes
    <3>1. \A i \in Seen(c[k], n) : c[k][i] \in Entry
      BY SMT, <2>1 DEF Seen
    <3> QED BY <3>1 DEF Latest, Entry
  <2> QED BY <2>2 DEF ViewOf
<1>2. \A i \in 1 .. d + 1 : [k \in Keys |-> ViewOf(c[k], i - 1)] \in Viewed(Keys)
  <2> TAKE i \in 1 .. d + 1
  <2>1. i - 1 \in Nat
    BY SMT
  <2> QED BY <1>1, <2>1 DEF Viewed
<1>3. d + 1 \in Nat
  BY SMT
<1> QED BY SMT, <1>2, <1>3 DEF ViewsOf

\* The topmost map.
LEMMA TopView ==
  ASSUME NEW d \in Nat, NEW c, \A k \in Keys : WellFormed(c[k], d)
  PROVE  /\ Len(ViewsOf(c, d)) = d + 1
         /\ ViewsOf(c, d)[d + 1] = [k \in Keys |-> ViewOf(c[k], d)]
<1>1. d + 1 \in 1 .. d + 1 /\ d + 1 - 1 = d
  BY SMT
<1>2. /\ Len(ViewsOf(c, d)) = d + 1
      /\ \A i \in 1 .. d + 1 : ViewsOf(c, d)[i] = [k \in Keys |-> ViewOf(c[k], i - 1)]
  BY SMT, ViewsFacts
<1>3. ViewsOf(c, d)[d + 1] = [k \in Keys |-> ViewOf(c[k], d + 1 - 1)]
  BY SMT, <1>1, <1>2
<1> QED BY <1>1, <1>2, <1>3

\* A new transaction is one more map, equal to the one below.
LEMMA PushedViews ==
  ASSUME NEW d \in Nat, NEW b, NEW c,
         \A k \in Keys : WellFormed(c[k], d) /\ WellFormed(b[k], d + 1),
         \A k \in Keys : \A n \in 0 .. d : ViewOf(b[k], n) = ViewOf(c[k], n),
         \A k \in Keys : ViewOf(b[k], d + 1) = ViewOf(c[k], d)
  PROVE  ViewsOf(b, d + 1) = Append(ViewsOf(c, d), ViewsOf(c, d)[Len(ViewsOf(c, d))])
<1> DEFINE s == ViewsOf(c, d)
           t == ViewsOf(b, d + 1)
<1>1. /\ s \in Seq(Viewed(Keys)) /\ Len(s) = d + 1
      /\ \A i \in 1 .. d + 1 : s[i] = [k \in Keys |-> ViewOf(c[k], i - 1)]
  BY ZenonT(30), ViewsFacts
<1>2. /\ t \in Seq(Viewed(Keys)) /\ Len(t) = d + 1 + 1
      /\ \A i \in 1 .. d + 1 + 1 : t[i] = [k \in Keys |-> ViewOf(b[k], i - 1)]
  <2>1. d + 1 \in Nat
    BY SMT
  <2> QED BY ZenonT(30), <2>1, ViewsFacts
<1> HIDE DEF s, t
<1>3. \A i \in 1 .. d + 1 : t[i] = s[i]
  <2> TAKE i \in 1 .. d + 1
  <2>1. i - 1 \in 0 .. d /\ i \in 1 .. d + 1 + 1
    BY SMT
  <2> QED BY ZenonT(30), <1>1, <1>2, <2>1
<1>4. t[d + 2] = s[d + 1]
  <2>1. d + 2 \in 1 .. d + 1 + 1 /\ d + 2 - 1 = d + 1 /\ d + 1 - 1 = d /\ d + 1 \in 1 .. d + 1
    BY SMT
  <2>2. t[d + 2] = [k \in Keys |-> ViewOf(b[k], d + 2 - 1)]
    BY SMT, <1>2, <2>1
  <2>3. s[d + 1] = [k \in Keys |-> ViewOf(c[k], d + 1 - 1)]
    BY SMT, <1>1, <2>1
  <2> QED BY SMT, <2>1, <2>2, <2>3
<1> DEFINE u == Append(s, s[Len(s)])
<1>5. /\ u \in Seq(Viewed(Keys)) /\ Len(u) = d + 2
      /\ \A i \in 1 .. d + 1 : u[i] = s[i]
      /\ u[d + 2] = s[d + 1]
  <2>1. s[Len(s)] \in Viewed(Keys)
    BY SMT, <1>1
  <2> QED BY SMT, <1>1, <2>1
<1> HIDE DEF u
<1>6. \A i \in 1 .. Len(t) : t[i] = u[i]
  <2> TAKE i \in 1 .. Len(t)
  <2>1. i \in 1 .. d + 1 \/ i = d + 2
    BY SMT, <1>2
  <2> QED BY <1>3, <1>4, <1>5, <2>1
<1>7. t = u
  BY SMT, <1>2, <1>5, <1>6, SameSeq
<1> QED BY <1>7 DEF s, t, u

\* A write changes the topmost map only.
LEMMA WrittenViews ==
  ASSUME NEW d \in Nat, NEW b, NEW c,
         \A k \in Keys : WellFormed(c[k], d) /\ WellFormed(b[k], d),
         \A k \in Keys : \A n \in 0 .. d : n # d => ViewOf(b[k], n) = ViewOf(c[k], n)
  PROVE  ViewsOf(b, d) = Append(SubSeq(ViewsOf(c, d), 1, Len(ViewsOf(c, d)) - 1),
                                ViewsOf(b, d)[Len(ViewsOf(b, d))])
<1> DEFINE s == ViewsOf(c, d)
           t == ViewsOf(b, d)
<1>1. /\ s \in Seq(Viewed(Keys)) /\ Len(s) = d + 1
      /\ \A i \in 1 .. d + 1 : s[i] = [k \in Keys |-> ViewOf(c[k], i - 1)]
  BY SMT, ViewsFacts
<1>2. /\ t \in Seq(Viewed(Keys)) /\ Len(t) = d + 1
      /\ \A i \in 1 .. d + 1 : t[i] = [k \in Keys |-> ViewOf(b[k], i - 1)]
  BY SMT, ViewsFacts
<1> HIDE DEF s, t
<1>3. \A i \in 1 .. d : t[i] = s[i]
  <2> TAKE i \in 1 .. d
  <2>1. i - 1 \in 0 .. d /\ i - 1 # d /\ i \in 1 .. d + 1
    BY SMT
  <2> QED BY SMT, <1>1, <1>2, <2>1
<1> DEFINE g == FrontOf(s)
           u == Append(g, t[Len(t)])
<1>4. g \in Seq(Viewed(Keys)) /\ Len(g) = d /\ \A i \in 1 .. d : g[i] = s[i]
  <2>1. s # <<>>
    BY SMT, <1>1
  <2>2. /\ g \in Seq(Viewed(Keys)) /\ Len(g) = Len(s) - 1
        /\ \A i \in 1 .. Len(s) - 1 : g[i] = s[i]
    BY <1>1, <2>1, FrontFacts
  <2>3. Len(s) - 1 = d
    BY SMT, <1>1
  <2> QED BY <2>2, <2>3
<1> HIDE DEF g
<1>5. u \in Seq(Viewed(Keys)) /\ Len(u) = d + 1 /\ u[d + 1] = t[d + 1] /\ \A i \in 1 .. d : u[i] = g[i]
  <2>1. t[Len(t)] \in Viewed(Keys)
    BY SMT, <1>2
  <2> QED BY SMT, <1>2, <1>4, <2>1
<1> HIDE DEF u
<1>6. \A i \in 1 .. Len(t) : t[i] = u[i]
  <2> TAKE i \in 1 .. Len(t)
  <2>1. i \in 1 .. d \/ i = d + 1
    BY SMT, <1>2
  <2> QED BY <1>3, <1>4, <1>5, <2>1
<1>7. t = u
  BY <1>2, <1>5, <1>6, SameSeq
<1> QED BY <1>7 DEF s, t, u, g, FrontOf

\* A rollback drops the topmost map.
LEMMA DroppedViews ==
  ASSUME NEW d \in Nat, d > 0, NEW b, NEW c,
         \A k \in Keys : WellFormed(c[k], d) /\ WellFormed(b[k], d - 1),
         \A k \in Keys : \A n \in 0 .. d - 1 : ViewOf(b[k], n) = ViewOf(c[k], n)
  PROVE  ViewsOf(b, d - 1) = SubSeq(ViewsOf(c, d), 1, Len(ViewsOf(c, d)) - 1)
<1> DEFINE s == ViewsOf(c, d)
           t == ViewsOf(b, d - 1)
           g == FrontOf(s)
<1>1. /\ s \in Seq(Viewed(Keys)) /\ Len(s) = d + 1
      /\ \A i \in 1 .. d + 1 : s[i] = [k \in Keys |-> ViewOf(c[k], i - 1)]
  BY SMT, ViewsFacts
<1>2. /\ t \in Seq(Viewed(Keys)) /\ Len(t) = d
      /\ \A i \in 1 .. d : t[i] = [k \in Keys |-> ViewOf(b[k], i - 1)]
  <2>1. d - 1 \in Nat /\ d - 1 + 1 = d
    BY SMT
  <2>2. /\ t \in Seq(Viewed(Keys)) /\ Len(t) = d - 1 + 1
        /\ \A i \in 1 .. d - 1 + 1 : t[i] = [k \in Keys |-> ViewOf(b[k], i - 1)]
    BY SMT, <2>1, ViewsFacts
  <2> QED BY <2>1, <2>2
<1> HIDE DEF s, t
<1>3. g \in Seq(Viewed(Keys)) /\ Len(g) = d /\ \A i \in 1 .. d : g[i] = s[i]
  <2>1. s # <<>> /\ Len(s) - 1 = d
    BY SMT, <1>1
  <2>2. /\ g \in Seq(Viewed(Keys)) /\ Len(g) = Len(s) - 1
        /\ \A i \in 1 .. Len(s) - 1 : g[i] = s[i]
    BY <1>1, <2>1, FrontFacts
  <2> QED BY <2>1, <2>2
<1> HIDE DEF g
<1>4. \A i \in 1 .. Len(t) : t[i] = g[i]
  <2> TAKE i \in 1 .. Len(t)
  <2>1. i - 1 \in 0 .. d - 1 /\ i \in 1 .. d + 1 /\ i \in 1 .. d
    BY SMT, <1>2
  <2> QED BY SMT, <1>1, <1>2, <1>3, <2>1
<1>5. t = g
  BY <1>2, <1>3, <1>4, SameSeq
<1> QED BY <1>5 DEF s, t, g, FrontOf

\* A commit replaces the map below by the topmost one.
LEMMA MergedViews ==
  ASSUME NEW d \in Nat, d > 0, NEW b, NEW c,
         \A k \in Keys : WellFormed(c[k], d) /\ WellFormed(b[k], d - 1),
         \A k \in Keys : \A n \in 0 .. d - 1 : ViewOf(b[k], n) =
            ViewOf(c[k], IF n = d - 1 THEN d ELSE n)
  PROVE  LET below == SubSeq(ViewsOf(c, d), 1, Len(ViewsOf(c, d)) - 1)
         IN  ViewsOf(b, d - 1) = [below EXCEPT ![Len(below)] = ViewsOf(c, d)[Len(ViewsOf(c, d))]]
<1> DEFINE s == ViewsOf(c, d)
           t == ViewsOf(b, d - 1)
           g == FrontOf(s)
<1>1. /\ s \in Seq(Viewed(Keys)) /\ Len(s) = d + 1
      /\ \A i \in 1 .. d + 1 : s[i] = [k \in Keys |-> ViewOf(c[k], i - 1)]
  BY SMT, ViewsFacts
<1>2. /\ t \in Seq(Viewed(Keys)) /\ Len(t) = d
      /\ \A i \in 1 .. d : t[i] = [k \in Keys |-> ViewOf(b[k], i - 1)]
  <2>1. d - 1 \in Nat /\ d - 1 + 1 = d
    BY SMT
  <2>2. /\ t \in Seq(Viewed(Keys)) /\ Len(t) = d - 1 + 1
        /\ \A i \in 1 .. d - 1 + 1 : t[i] = [k \in Keys |-> ViewOf(b[k], i - 1)]
    BY SMT, <2>1, ViewsFacts
  <2> QED BY <2>1, <2>2
<1> HIDE DEF s, t
<1>3. g \in Seq(Viewed(Keys)) /\ Len(g) = d /\ \A i \in 1 .. d : g[i] = s[i]
  <2>1. s # <<>> /\ Len(s) - 1 = d
    BY SMT, <1>1
  <2>2. /\ g \in Seq(Viewed(Keys)) /\ Len(g) = Len(s) - 1
        /\ \A i \in 1 .. Len(s) - 1 : g[i] = s[i]
    BY <1>1, <2>1, FrontFacts
  <2> QED BY <2>1, <2>2
<1> HIDE DEF g
<1> DEFINE u == [g EXCEPT ![Len(g)] = s[Len(s)]]
<1>4. /\ u \in Seq(Viewed(Keys)) /\ Len(u) = d
      /\ \A i \in 1 .. d : u[i] = IF i = d THEN s[d + 1] ELSE g[i]
  <2>1. s[Len(s)] \in Viewed(Keys) /\ Len(g) \in 1 .. Len(g) /\ DOMAIN g = 1 .. d
    BY SMT, <1>1, <1>3
  <2>2. u \in Seq(Viewed(Keys)) /\ Len(u) = Len(g)
    BY SMT, <1>3, <2>1
  <2> QED BY <1>1, <1>3, <2>1, <2>2
<1> HIDE DEF u
<1>5. ASSUME NEW i \in 1 .. d PROVE t[i] = u[i]
  <2>1. t[i] = [k \in Keys |-> ViewOf(b[k], i - 1)] /\ i - 1 \in 0 .. d - 1
    BY SMT, <1>2
  <2>2. CASE i = d
    <3>1. s[d + 1] = [k \in Keys |-> ViewOf(c[k], d)]
      <4>1. d + 1 \in 1 .. d + 1 /\ d + 1 - 1 = d
        BY SMT
      <4> QED BY SMT, <1>1, <4>1
    <3>2. \A k \in Keys : ViewOf(b[k], i - 1) = ViewOf(c[k], d)
      BY <2>1, <2>2
    <3> QED BY <1>4, <2>1, <2>2, <3>1, <3>2
  <2>3. CASE i # d
    <3>1. i - 1 # d - 1 /\ i \in 1 .. d + 1
      BY SMT, <2>3
    <3>2. \A k \in Keys : ViewOf(b[k], i - 1) = ViewOf(c[k], i - 1)
      BY <2>1, <3>1
    <3>3. s[i] = [k \in Keys |-> ViewOf(c[k], i - 1)]
      BY <1>1, <3>1
    <3> QED BY <1>3, <1>4, <2>1, <2>3, <3>2, <3>3
  <2> QED BY <2>2, <2>3
<1>6. t = u
  BY <1>2, <1>4, <1>5, SameSeq
<1> QED BY <1>6 DEF s, t, u, g, FrontOf

-----------------------------------------------------------------------------
(* The overlay implements the stack of maps.                               *)

\* The views of a step's two states, and who uses the storage.
LEMMA StackState ==
  ASSUME OverlayInv
  PROVE  /\ Views = ViewsOf(changes, Depth(Top)) /\ Depth(Top) \in Nat
         /\ Views' = ViewsOf(changes', Depth(Top)')
         /\ \A k \in Keys : WellFormed(changes[k], Depth(Top))
         /\ Len(Views) - 1 = Depth(Top)
         /\ execution_mode[Top] \in {"Client", "Runtime"}
<1>1. Views = ViewsOf(changes, Depth(Top)) /\ Views' = ViewsOf(changes', Depth(Top)')
  BY DEF Views, ViewsOf
<1>2. Depth(Top) \in Nat /\ \A k \in Keys : WellFormed(changes[k], Depth(Top))
  BY OverlayFacts DEF OverlayInv
<1>3. Len(Views) = Depth(Top) + 1
  BY <1>1, <1>2, ViewsFacts
<1>4. execution_mode[Top] \in {"Client", "Runtime"}
  BY OverlayFacts DEF OverlayInv, OverlayType
<1> QED BY SMT, <1>1, <1>2, <1>3, <1>4

\* start_transaction is Start.
LEMMA StackStart ==
  ASSUME OverlayInv, start_transaction, pc # "leaving", pc' # "leaving"
  PROVE  Stack!Start
<1>1. /\ OverlayInv' /\ Depth(Top)' = Depth(Top) + 1
      /\ UNCHANGED <<changes, num_client_transactions, execution_mode>>
      /\ \A k \in Keys : ViewOf(changes'[k], Depth(Top) + 1) = ViewOf(changes[k], Depth(Top))
  BY StartStep
<1>2. \A k \in Keys : WellFormed(changes'[k], Depth(Top) + 1)
  BY <1>1 DEF OverlayInv
<1>3. Views' = Append(Views, Views[Len(Views)])
  BY SMT, <1>1, <1>2, StackState, PushedViews
<1> QED BY <1>1, <1>3, StackState DEF Stack!Start, Stack!Current

\* A rollback, by the client, by the runtime or when it is left, is Rollback.
LEMMA StackDrop ==
  ASSUME OverlayInv, OverlayInv', Depth(Top) > 0, Depth(Top)' = Depth(Top) - 1,
         num_client_transactions'[Top] = num_client_transactions[Top],
         execution_mode'[Top] = execution_mode[Top], (pc' = "leaving") = (pc = "leaving"),
         \A k \in Keys : \A n \in 0 .. Depth(Top) - 1 : ViewOf(changes'[k], n) = ViewOf(changes[k], n),
         pc # "leaving" => ~CloseRefused(Top),
         pc = "leaving" => Depth(Top) > num_client_transactions[Top]
  PROVE  Stack!Rollback
<1>1. \A k \in Keys : WellFormed(changes'[k], Depth(Top) - 1)
  BY DEF OverlayInv
<1>2. Views' = SubSeq(Views, 1, Len(Views) - 1)
  <2>1. /\ Views = ViewsOf(changes, Depth(Top)) /\ Depth(Top) \in Nat
        /\ Views' = ViewsOf(changes', Depth(Top) - 1)
        /\ \A k \in Keys : WellFormed(changes[k], Depth(Top))
    BY StackState
  <2>2. ViewsOf(changes', Depth(Top) - 1) =
          SubSeq(ViewsOf(changes, Depth(Top)), 1, Len(ViewsOf(changes, Depth(Top))) - 1)
    BY <1>1, <2>1, DroppedViews
  <2> QED BY <2>1, <2>2
<1>3. Stack!MayClose
  BY StackState DEF Stack!MayClose, Stack!Depth, CloseRefused, has_open_runtime_transactions
<1> QED BY <1>2, <1>3 DEF Stack!Rollback, Stack!Below

\* rollback_transaction is Rollback.
LEMMA StackRollback ==
  ASSUME OverlayInv, rollback_transaction, pc # "leaving", pc' # "leaving"
  PROVE  Stack!Rollback
BY RollbackStep, StackDrop

\* commit_transaction is Commit.
LEMMA StackCommit ==
  ASSUME OverlayInv, commit_transaction, pc # "leaving", pc' # "leaving"
  PROVE  Stack!Commit
<1>1. /\ OverlayInv' /\ Depth(Top) > 0 /\ ~CloseRefused(Top) /\ Depth(Top)' = Depth(Top) - 1
      /\ UNCHANGED <<num_client_transactions, execution_mode>>
      /\ \A k \in Keys : \A n \in 0 .. Depth(Top) - 1 : ViewOf(changes'[k], n) =
           ViewOf(changes[k], IF n = Depth(Top) - 1 THEN Depth(Top) ELSE n)
  BY CommitStep
<1>2. \A k \in Keys : WellFormed(changes'[k], Depth(Top) - 1)
  BY <1>1 DEF OverlayInv
<1>3. LET below == SubSeq(Views, 1, Len(Views) - 1)
      IN  Views' = [below EXCEPT ![Len(below)] = Views[Len(Views)]]
  <2>1. /\ Views = ViewsOf(changes, Depth(Top)) /\ Depth(Top) \in Nat
        /\ Views' = ViewsOf(changes', Depth(Top) - 1)
        /\ \A k \in Keys : WellFormed(changes[k], Depth(Top))
    BY <1>1, StackState
  <2>2. LET below == SubSeq(ViewsOf(changes, Depth(Top)), 1, Len(ViewsOf(changes, Depth(Top))) - 1)
        IN  ViewsOf(changes', Depth(Top) - 1) =
              [below EXCEPT ![Len(below)] = ViewsOf(changes, Depth(Top))[Len(ViewsOf(changes, Depth(Top)))]]
    BY SMT, <1>1, <1>2, <2>1, MergedViews
  <2> QED BY <2>1, <2>2
<1>4. Stack!MayClose
  BY <1>1, StackState DEF Stack!MayClose, Stack!Depth, CloseRefused, has_open_runtime_transactions
<1> QED BY <1>1, <1>3, <1>4, StackState DEF Stack!Commit, Stack!Below, Stack!Current

\* Set is Write.
LEMMA StackWrite ==
  ASSUME OverlayInv, NEW m \in Maps, NEW K \in SUBSET KeysOf(m), NEW w \in [K -> Changes],
         Set(m, w), pc' = pc
  PROVE  Stack!Write
<1> DEFINE d == Depth(Top)
<1>1. /\ OverlayInv' /\ Depth(Top)' = d
      /\ num_client_transactions'[Top] = num_client_transactions[Top]
      /\ execution_mode'[Top] = execution_mode[Top]
      /\ \A k \in Keys : \A n \in 0 .. d : ViewOf(changes'[k], n) =
           IF k \in K /\ n = d THEN w[k] ELSE ViewOf(changes[k], n)
  BY SMT, SetStep
<1>2. \A k \in Keys : WellFormed(changes'[k], d)
  BY <1>1 DEF OverlayInv
<1>3. /\ Views = ViewsOf(changes, d) /\ d \in Nat /\ Views' = ViewsOf(changes', d)
      /\ \A k \in Keys : WellFormed(changes[k], d)
  BY <1>1, StackState
<1>4. Views' = Append(SubSeq(Views, 1, Len(Views) - 1), Views'[Len(Views')])
  BY <1>1, <1>2, <1>3, WrittenViews
<1>5. /\ Len(Views) = d + 1 /\ Len(Views') = d + 1
      /\ Views[d + 1] = [k \in Keys |-> ViewOf(changes[k], d)]
      /\ Views'[d + 1] = [k \in Keys |-> ViewOf(changes'[k], d)]
  <2>1. /\ Len(ViewsOf(changes, d)) = d + 1
        /\ ViewsOf(changes, d)[d + 1] = [k \in Keys |-> ViewOf(changes[k], d)]
    BY <1>3, TopView
  <2>2. /\ Len(ViewsOf(changes', d)) = d + 1
        /\ ViewsOf(changes', d)[d + 1] = [k \in Keys |-> ViewOf(changes'[k], d)]
    BY <1>2, <1>3, TopView
  <2> QED BY <1>3, <2>1, <2>2
<1>6. \A k \in Keys : ViewOf(changes'[k], d) = IF k \in K THEN w[k] ELSE ViewOf(changes[k], d)
  <2>1. d \in 0 .. d
    BY SMT, <1>3
  <2> HIDE DEF d
  <2> QED BY <1>1, <2>1
<1>7. \A k \in Keys : Views'[Len(Views')][k] \in Changes \cup {Views[Len(Views)][k]}
  <2> HIDE DEF d
  <2> TAKE k \in Keys
  <2>1. /\ Views'[Len(Views')][k] = ViewOf(changes'[k], d)
        /\ Views[Len(Views)][k] = ViewOf(changes[k], d)
    BY <1>5
  <2> QED BY <1>6, <2>1
<1> QED BY <1>1, <1>4, <1>7 DEF Stack!Write, Stack!Below, Stack!Current

\* A step that leaves the overlay alone, and does not begin or end an exit.
LEMMA StackSame ==
  ASSUME OverlayInv, UNCHANGED ovars, (pc' = "leaving") = (pc = "leaving")
  PROVE  UNCHANGED Stack!vars
<1>1. changes' = changes /\ Depth(Top)' = Depth(Top)
      /\ num_client_transactions' = num_client_transactions /\ execution_mode' = execution_mode
  BY DEF ovars, Depth
<1>2. Views' = Views
  BY <1>1 DEF Views
<1> QED BY <1>1, <1>2 DEF Stack!vars


\* The storage operations of the runtime are steps of the stack.
LEMMA StackExt ==
  ASSUME IInv, ExtStep
  PROVE  Stack!Next \/ UNCHANGED Stack!vars
<1>1. /\ Offchain \in Maps /\ Top \in Maps /\ Children \subseteq Maps /\ 0 .. MaxLen \subseteq Changes
      /\ Deleted \in Changes /\ \A k \in Keys : MapOf[k] \in Maps /\ {k} \in SUBSET KeysOf(MapOf[k])
      /\ OverlayInv
  BY OverlayAssumption DEF Maps, KeysOf, Changes, IInv
<1>2. ASSUME RuntimeOp PROVE pc' = pc /\ pc # "leaving" /\ pc' # "leaving"
  BY <1>2 DEF RuntimeOp, cvars
<1>3. ASSUME NEW k \in Keys, NEW v \in Changes, RuntimeOp, set_storage(k, v) PROVE Stack!Write
  <2>1. [x \in {k} |-> v] \in [{k} -> Changes]
    OBVIOUS
  <2>2. Set(MapOf[k], [x \in {k} |-> v])
    BY <1>3 DEF set_storage
  <2> QED BY <1>1, <1>2, <1>3, <2>1, <2>2, StackWrite
<1>4. ASSUME NEW k \in TrieKeys, NEW v \in Written[k], place_storage(k, v) PROVE Stack!Write
  <2>1. k \in Keys /\ v \in Changes
    BY WrittenAssumption DEF TrieKeys
  <2> QED BY <1>3, <1>4, <2>1 DEF place_storage
<1>5. ASSUME NEW k \in Keys \ TrieKeys, NEW v \in Written[k], set_offchain_storage(k, v) PROVE Stack!Write
  <2>1. k \in Keys /\ v \in Changes
    BY WrittenAssumption
  <2> QED BY <1>3, <1>5, <2>1 DEF set_offchain_storage
<1>6. ASSUME NEW k \in KeysOf(Top), storage_append(k) PROVE Stack!Write
  <2>1. k \in Keys
    BY DEF KeysOf
  <2>2. Appended(k, backend[k]) \in Changes
    <3>1. backend[k] \in 0 .. MaxLen \cup {Absent} /\ Storage(k) \in Changes \cup {Absent}
      BY <1>1, <2>1, StorageType DEF IInv, ControlType
    <3>2. Appended(k, backend[k]) \in Nat /\ Appended(k, backend[k]) <= MaxLen
      BY SMT, <1>6, <3>1, OverlayAssumption DEF Appended, storage_append, Changes
    <3> QED BY SMT, <1>1, <3>2, OverlayAssumption
  <2> QED BY <1>3, <1>6, <2>1, <2>2 DEF storage_append
<1>7. ASSUME NEW m \in {Top} \cup Children, NEW P \in SUBSET KeysOf(m),
             NEW D \in SUBSET {k \in P : backend[k] # Absent}, clear_prefix(m, P, D)
      PROVE  Stack!Write
  <2> DEFINE K == {x \in P : changes[x] # <<>>} \cup D
             w == [k \in K |-> Deleted]
  <2>1. m \in Maps /\ K \in SUBSET KeysOf(m) /\ w \in [K -> Changes]
    BY <1>1
  <2>2. RuntimeOp /\ Set(m, w)
    BY <1>7 DEF clear_prefix, clear
  <2> HIDE DEF K, w
  <2> QED BY <1>1, <1>2, <2>1, <2>2, StackWrite
<1>8. CASE storage_root
  BY <1>1, <1>2, <1>8, StackSame DEF storage_root
<1>9. CASE storage_start_transaction
  BY <1>1, <1>2, <1>9, StackStart DEF storage_start_transaction, Stack!Next
<1>10. CASE storage_rollback_transaction
  BY <1>1, <1>2, <1>10, StackRollback, StackSame DEF storage_rollback_transaction, Stack!Next
<1>11. CASE storage_commit_transaction
  BY <1>1, <1>2, <1>11, StackCommit, StackSame DEF storage_commit_transaction, Stack!Next
<1>12. Stack!Write => Stack!Next
  BY DEF Stack!Next
<1> QED BY <1>4, <1>5, <1>6, <1>7, <1>8, <1>9, <1>10, <1>11, <1>12 DEF ExtStep

\* The steps of a call are steps of the stack.
LEMMA StackCall ==
  ASSUME IInv, CallStep
  PROVE  Stack!Next \/ UNCHANGED Stack!vars
<1>1. OverlayInv /\ ControlInv
  BY DEF IInv
<1>2. ASSUME start_transaction \/ rollback_transaction \/ commit_transaction \/ UNCHANGED ovars,
             pc # "leaving", pc' # "leaving"
      PROVE  Stack!Next \/ UNCHANGED Stack!vars
  BY <1>1, <1>2, StackStart, StackRollback, StackCommit, StackSame DEF Stack!Next
<1>3. CASE ExecuteInTransaction \/ BeginCall \/ ApplyStrategy
  BY <1>2, <1>3 DEF ExecuteInTransaction, BeginCall, ApplyStrategy
<1>4. CASE EndTransaction \/ Returned \/ CommitOrRollback
  BY <1>2, <1>4 DEF EndTransaction, Returned, CommitOrRollback, CommitByClient, RollbackBehindExt
<1>5. CASE ExecuteAux
  <2>1. /\ execution_mode[Top] = "Client" /\ enter_runtime /\ pc # "leaving" /\ pc' # "leaving"
    BY <1>1, <1>5 DEF ExecuteAux, ControlInv
  <2>2. /\ UNCHANGED <<changes, dirty_keys>>
        /\ num_client_transactions'[Top] = Depth(Top) /\ execution_mode'[Top] = "Runtime"
    BY <1>1, <2>1, EnterStep
  <2>3. Views' = Views
    BY <2>2 DEF Views, Depth
  <2>4. Stack!Depth = Depth(Top)
    BY <1>1, StackState DEF Stack!Depth
  <2> QED BY <2>1, <2>2, <2>3, <2>4 DEF Stack!Enter, Stack!Next
<1>6. ASSUME NEW r \in {"ok", "err"}, ExitRuntime(r) PROVE Stack!Next
  <2>1. execution_mode[Top] = "Runtime" /\ exit_runtime /\ pc = "runtime" /\ pc' = "leaving"
    BY <1>1, <1>6 DEF ExitRuntime, ControlInv
  <2>2. UNCHANGED <<changes, dirty_keys, num_client_transactions>>
    BY <1>1, <2>1, ExitStep
  <2>3. Views' = Views
    BY <2>2 DEF Views, Depth
  <2> QED BY <2>1, <2>2, <2>3 DEF Stack!Leave, Stack!Next
<1>7. CASE ExitRollback
  <2>1. exit_rollback /\ pc = "leaving" /\ pc' = "leaving"
    BY <1>7 DEF ExitRollback, cvars
  <2>2. /\ OverlayInv' /\ Depth(Top) > num_client_transactions[Top] /\ Depth(Top)' = Depth(Top) - 1
        /\ UNCHANGED <<num_client_transactions, execution_mode>>
        /\ \A k \in Keys : \A n \in 0 .. Depth(Top) - 1 : ViewOf(changes'[k], n) = ViewOf(changes[k], n)
    BY <1>1, <2>1, ExitRollbackStep
  <2>3. Depth(Top) \in Nat /\ num_client_transactions[Top] \in Nat
    BY <1>1, OverlayFacts DEF OverlayInv, OverlayType
  <2>4. Depth(Top) > 0
    BY SMT, <2>2, <2>3
  <2> QED BY <1>1, <2>1, <2>2, <2>4, StackDrop DEF Stack!Next
<1>8. CASE ExitDone
  <2>1. /\ pc = "leaving" /\ pc' = "returned" /\ UNCHANGED ovars
        /\ ~(Depth(Top) > num_client_transactions[Top])
    BY <1>8 DEF ExitDone, has_open_runtime_transactions
  <2>2. execution_mode[Top] = "Client" /\ Depth(Top) >= num_client_transactions[Top]
    BY <1>1, <2>1 DEF ControlInv
  <2>3. Depth(Top) \in Nat /\ num_client_transactions[Top] \in Nat /\ Stack!Depth = Depth(Top)
    BY <1>1, OverlayFacts, StackState DEF OverlayInv, OverlayType, Stack!Depth
  <2>4. Stack!Depth = num_client_transactions[Top]
    BY SMT, <2>1, <2>2, <2>3
  <2>5. Views' = Views
    BY <2>1 DEF Views, Depth, ovars
  <2> QED BY <2>1, <2>2, <2>4, <2>5 DEF Stack!Left, Stack!Next, ovars
<1> QED BY <1>3, <1>4, <1>5, <1>6, <1>7, <1>8 DEF CallStep

\* Taking the changes is Drain.
LEMMA StackDrain ==
  ASSUME IInv, IntoStorageChanges
  PROVE  Stack!Drain
<1>1. /\ OverlayInv /\ drain /\ Depth(Top) = 0 /\ execution_mode[Top] = "Client"
      /\ pc = "idle" /\ pc' = "idle"
  BY DEF IInv, IntoStorageChanges, ControlInv, ClientDepth
<1>2. /\ Depth(Top)' = 0 /\ num_client_transactions'[Top] = 0 /\ execution_mode'[Top] = "Client"
      /\ \A k \in Keys : changes'[k] = <<>>
  BY <1>1, DrainStep
<1>3. Views' = [i \in 1 .. 1 |-> [k \in Keys |-> ViewOf(<<>>, i - 1)]]
  BY SMT, <1>2 DEF Views
<1>4. \A i \in 1 .. 1 : [k \in Keys |-> ViewOf(<<>>, i - 1)] = [k \in Keys |-> Absent]
  BY SMT, NoView
<1>5. Views' = <<[k \in Keys |-> Absent]>>
  BY SMT, <1>3, <1>4
<1>6. Stack!Depth = 0
  BY <1>1, StackState DEF Stack!Depth
<1> QED BY <1>1, <1>2, <1>5, <1>6 DEF Stack!Drain, Stack!NoChanges

\* The overlay is a stack of maps: for any keys, tries, values and depth, what
\* the maps of tries do together is what TransactionalStorage says.
THEOREM Refinement == Spec => ImplementsStack
<1>1. Init => Stack!Init
  <2> SUFFICES ASSUME Init PROVE Stack!Init
    OBVIOUS
  <2>1. /\ Depth(Top) = 0 /\ execution_mode[Top] = "Client" /\ num_client_transactions[Top] = 0
        /\ pc = "idle" /\ \A k \in Keys : changes[k] = <<>>
    BY OverlayAssumption DEF Init, OverlayInit, Depth, Maps
  <2>2. Views = [i \in 1 .. 1 |-> [k \in Keys |-> ViewOf(<<>>, i - 1)]]
    BY SMT, <2>1 DEF Views
  <2>3. \A i \in 1 .. 1 : [k \in Keys |-> ViewOf(<<>>, i - 1)] = [k \in Keys |-> Absent]
    BY SMT, NoView
  <2>4. Views = <<[k \in Keys |-> Absent]>>
    BY SMT, <2>2, <2>3
  <2> QED BY <2>1, <2>4 DEF Stack!Init, Stack!NoChanges
<1>2. IInv /\ [Next]_vars => [Stack!Next]_Stack!vars
  <2> SUFFICES ASSUME IInv, [Next]_vars PROVE Stack!Next \/ UNCHANGED Stack!vars
    OBVIOUS
  <2>1. CASE UNCHANGED vars
    BY <2>1, StackSame DEF vars, cvars, IInv
  <2> QED BY <2>1, StackExt, StackCall, StackDrain DEF Next, Stack!Next
<1> QED BY <1>1, <1>2, Invariance, PTL DEF Spec, ImplementsStack, Stack!Spec
=============================================================================
