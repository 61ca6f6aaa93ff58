---------------------------- MODULE OverlayProofs ----------------------------
(***************************************************************************)
(* Proofs about OverlayedChanges, for any keys, child tries, values and    *)
(* depths: what each operation does to the maps, and to what the           *)
(* transactions see.                                                       *)
(***************************************************************************)
EXTENDS OverlayedChanges, TLAPS

\* Most steps are first-order; those that need arithmetic, or sequences, say so.
USE Zenon

\* The values of a key in a map with d open transactions: each belongs to
\* another transaction, the later ones to the inner transactions.
WellFormed(e, d) ==
  /\ e \in Seq(Entry)
  /\ \A i \in 1 .. Len(e) : e[i].level <= d
  /\ \A i, j \in 1 .. Len(e) : i < j => e[i].level < e[j].level

-----------------------------------------------------------------------------
(* The values of one key.                                                  *)

\* What a transaction sees does not depend on what it does not see.
LEMMA SameView ==
  ASSUME NEW e \in Seq(Entry), NEW f \in Seq(Entry), NEW n \in Nat, NEW l \in Nat,
         Seen(e, n) = Seen(f, l), \A i \in Seen(e, n) : e[i].value = f[i].value
  PROVE  ViewOf(e, n) = ViewOf(f, l)
<1>1. Latest(e, n) = Latest(f, l)
  BY DEF Latest
<1> QED BY SMT, <1>1 DEF ViewOf

\* A transaction that is at or above the last value sees that value.
LEMMA LastView ==
  ASSUME NEW e \in Seq(Entry), NEW n \in Nat, e # <<>>, LastOf(e).level <= n
  PROVE  ViewOf(e, n) = LastOf(e).value
<1>1. Len(e) \in Seen(e, n) /\ \A i \in Seen(e, n) : i <= Len(e)
  BY SMT DEF Seen, LastOf
<1>2. \A i \in Seen(e, n) : Len(e) <= i => i = Len(e)
  BY SMT, <1>1 DEF Seen
<1>3. Latest(e, n) = {LastOf(e).value}
  BY <1>1, <1>2 DEF Latest, LastOf
<1> QED BY <1>3 DEF ViewOf

\* A key without values is not in the overlay.
LEMMA NoView ==
  ASSUME NEW n \in Nat
  PROVE  ViewOf(<<>>, n) = Absent
BY SMT DEF ViewOf, Latest, Seen

\* A new value is seen from its level on.
LEMMA PushView ==
  ASSUME NEW d \in Nat, NEW e, WellFormed(e, d), NEW v \in Changes,
         \A i \in 1 .. Len(e) : e[i].level < d
  PROVE  /\ WellFormed(Append(e, Inner(v, d)), d)
         /\ \A n \in 0 .. d : ViewOf(Append(e, Inner(v, d)), n) =
              IF n = d THEN v ELSE ViewOf(e, n)
<1> DEFINE f == Append(e, Inner(v, d))
<1>1. e \in Seq(Entry) /\ Inner(v, d) \in Entry
  BY DEF WellFormed, Inner, Entry
<1>2. /\ f \in Seq(Entry) /\ Len(f) = Len(e) + 1
      /\ f[Len(f)] = Inner(v, d)
      /\ \A i \in 1 .. Len(e) : f[i] = e[i]
  BY SMT, <1>1
<1> HIDE DEF f
<1>3. WellFormed(f, d)
  BY SMTT(20), <1>2 DEF WellFormed, Inner
<1>4. ViewOf(f, d) = v
  <2>1. f # <<>> /\ LastOf(f).level = d /\ LastOf(f).value = v
    BY SMT, <1>1, <1>2 DEF LastOf, Inner
  <2> QED BY SMT, <1>2, <2>1, LastView
<1>5. ASSUME NEW n \in 0 .. d, n # d PROVE ViewOf(f, n) = ViewOf(e, n)
  <2>1. Seen(f, n) = Seen(e, n)
    BY SMT, <1>1, <1>2, <1>5 DEF Seen, Inner
  <2>2. \A i \in Seen(e, n) : e[i].value = f[i].value
    BY SMT, <1>1, <1>2 DEF Seen
  <2> QED BY SMT, <1>1, <1>2, <2>1, <2>2, SameView
<1> QED BY <1>3, <1>4, <1>5 DEF f

\* An overwritten last value is seen from its level on.
LEMMA OverwriteView ==
  ASSUME NEW d \in Nat, NEW e, WellFormed(e, d), e # <<>>, NEW v \in Changes
  PROVE  LET f == [e EXCEPT ![Len(e)] = Inner(v, @.level)]
         IN  /\ WellFormed(f, d) /\ Len(f) = Len(e)
             /\ \A i \in 1 .. Len(e) : f[i].level = e[i].level
             /\ \A n \in 0 .. d : ViewOf(f, n) =
                  IF LastOf(e).level <= n THEN v ELSE ViewOf(e, n)
<1> DEFINE f == [e EXCEPT ![Len(e)] = Inner(v, @.level)]
<1>1. e \in Seq(Entry) /\ Len(e) \in 1 .. Len(e)
  BY SMT DEF WellFormed
<1>2. /\ f \in Seq(Entry) /\ Len(f) = Len(e)
      /\ \A i \in 1 .. Len(e) : f[i].level = e[i].level
      /\ \A i \in 1 .. Len(e) : i # Len(e) => f[i] = e[i]
      /\ f[Len(e)].value = v
  <2>0. e[Len(e)] \in Entry
    BY SMT, <1>1
  <2>1. Inner(v, e[Len(e)].level) \in Entry
    BY <2>0 DEF Inner, Entry
  <2>2. /\ f \in Seq(Entry) /\ Len(f) = Len(e)
        /\ \A i \in 1 .. Len(e) : f[i] = IF i = Len(e) THEN Inner(v, e[Len(e)].level) ELSE e[i]
    BY SMT, <1>1, <2>1
  <2> QED BY SMT, <2>2, <1>1 DEF Inner
<1> HIDE DEF f
<1>3. WellFormed(f, d)
  BY <1>1, <1>2 DEF WellFormed
<1>4. ASSUME NEW n \in 0 .. d, LastOf(e).level <= n PROVE ViewOf(f, n) = v
  <2>1. f # <<>> /\ LastOf(f).level <= n /\ LastOf(f).value = v
    BY SMT, <1>1, <1>2, <1>4 DEF LastOf
  <2> QED BY SMT, <1>2, <2>1, LastView
<1>5. ASSUME NEW n \in 0 .. d, ~(LastOf(e).level <= n) PROVE ViewOf(f, n) = ViewOf(e, n)
  <2>1. Seen(f, n) = Seen(e, n)
    BY SMT, <1>1, <1>2 DEF Seen
  <2>2. \A i \in Seen(e, n) : e[i].value = f[i].value
    BY SMT, <1>1, <1>2, <1>5 DEF Seen, LastOf
  <2> QED BY SMT, <1>1, <1>2, <2>1, <2>2, SameView
<1> QED BY <1>2, <1>3, <1>4, <1>5 DEF f

\* All but the last element of a sequence.
LEMMA FrontFacts ==
  ASSUME NEW S, NEW s \in Seq(S), s # <<>>
  PROVE  /\ FrontOf(s) \in Seq(S) /\ Len(FrontOf(s)) = Len(s) - 1
         /\ \A i \in 1 .. Len(s) - 1 : FrontOf(s)[i] = s[i]
<1> DEFINE n == Len(s) - 1
           g == [i \in 1 .. n |-> s[i]]
<1>1. n \in Nat /\ n <= Len(s)
  BY SMT
<1> HIDE DEF n
<1>2. SubSeq(s, 1, n) = g
  BY SMT, <1>1
<1>3. g \in Seq(S) /\ Len(g) = n
  BY SMT, <1>1
<1> QED BY <1>1, <1>2, <1>3 DEF FrontOf, n

\* Without its last value a key looks the same below the level of that value.
LEMMA PopView ==
  ASSUME NEW d \in Nat, NEW e, WellFormed(e, d), e # <<>>
  PROVE  /\ FrontOf(e) \in Seq(Entry) /\ Len(FrontOf(e)) = Len(e) - 1
         /\ \A i \in 1 .. Len(e) - 1 : FrontOf(e)[i] = e[i]
         /\ \A l \in Nat : l >= LastOf(e).level - 1 => WellFormed(FrontOf(e), l)
         /\ \A n \in Nat : n < LastOf(e).level => ViewOf(FrontOf(e), n) = ViewOf(e, n)
<1> DEFINE f == FrontOf(e)
<1>1. e \in Seq(Entry) /\ Len(e) \in 1 .. Len(e)
  BY SMT DEF WellFormed
<1>2. f \in Seq(Entry) /\ Len(f) = Len(e) - 1 /\ \A i \in 1 .. Len(e) - 1 : f[i] = e[i]
  BY <1>1, FrontFacts
<1> HIDE DEF f
<1>0. \A i \in 1 .. Len(e) : e[i].level \in Nat
  <2>1. \A i \in 1 .. Len(e) : e[i] \in Entry
    BY SMT, <1>1
  <2> QED BY <2>1 DEF Entry
<1>3. ASSUME NEW l \in Nat, l >= LastOf(e).level - 1 PROVE WellFormed(f, l)
  <2>2. \A i \in 1 .. Len(f) : f[i].level < LastOf(e).level
    BY SMT, <1>1, <1>2 DEF WellFormed, LastOf
  <2>3. \A i \in 1 .. Len(f) : f[i].level <= l
    <3> TAKE i \in 1 .. Len(f)
    <3>1. i \in 1 .. Len(e) /\ f[i] = e[i]
      BY SMT, <1>1, <1>2
    <3>2. f[i].level \in Nat /\ LastOf(e).level \in Nat
      BY <1>0, <1>1, <3>1 DEF LastOf
    <3> QED BY SMT, <1>3, <2>2, <3>2
  <2> QED BY SMT, <1>1, <1>2, <2>3 DEF WellFormed
<1>4. ASSUME NEW n \in Nat, n < LastOf(e).level PROVE ViewOf(f, n) = ViewOf(e, n)
  <2>1. Seen(f, n) = Seen(e, n)
    <3>1. LastOf(e).level \in Nat /\ ~(LastOf(e).level <= n)
      BY SMT, <1>0, <1>1, <1>4 DEF LastOf
    <3>2. ASSUME NEW i \in 1 .. Len(e), e[i].level <= n PROVE i \in 1 .. Len(f)
      BY SMT, <1>1, <1>2, <3>1, <3>2 DEF LastOf
    <3> QED BY SMT, <1>1, <1>2, <3>2 DEF Seen
  <2>2. \A i \in Seen(e, n) : e[i].value = f[i].value
    BY SMT, <1>0, <1>1, <1>2, <1>4 DEF Seen, LastOf
  <2> QED BY ZenonT(30), <1>1, <1>2, <2>1, <2>2, SameView
<1> QED BY <1>2, <1>3, <1>4 DEF f
-----------------------------------------------------------------------------
(* The maps.                                                               *)

\* A key is in the dirty set of a transaction if it has a value of its level.
DirtyOK(k) ==
  \A n \in 1 .. Depth(Top) :
    k \in dirty_keys[MapOf[k]][n] <=> \E i \in 1 .. Len(changes[k]) : changes[k][i].level = n

OverlayType ==
  /\ changes \in [Keys -> Seq(Entry)]
  /\ dirty_keys \in [Maps -> Seq(SUBSET Keys)]
  /\ num_client_transactions \in [Maps -> Nat]
  /\ execution_mode \in [Maps -> {"Client", "Runtime"}]
  /\ children \subseteq Children
  /\ panicked \in BOOLEAN

\* All maps are in step with the main trie, a child trie without a map has no
\* values, and the value lists fit the dirty sets.
OverlayInv ==
  /\ OverlayType
  /\ \A m \in Live : /\ Depth(m) = Depth(Top)
                      /\ num_client_transactions[m] = num_client_transactions[Top]
                      /\ execution_mode[m] = execution_mode[Top]
  /\ \A k \in Keys : MapOf[k] \notin Live => changes[k] = <<>>
  /\ \A k \in Keys : WellFormed(changes[k], Depth(Top))
  /\ \A k \in Keys : MapOf[k] \in Live => DirtyOK(k)

\* What the invariant says of the types.
LEMMA OverlayFacts ==
  ASSUME OverlayInv
  PROVE  /\ Depth(Top) \in Nat /\ Top \in Live /\ Live \subseteq Maps
         /\ \A m \in Maps : Depth(m) \in Nat
         /\ \A k \in Keys : MapOf[k] \in Maps /\ changes[k] \in Seq(Entry)
         /\ \A k \in Keys : \A i \in 1 .. Len(changes[k]) :
              changes[k][i] \in Entry /\ changes[k][i].level \in Nat
<1>1. \A k \in Keys : changes[k] \in Seq(Entry)
  BY DEF OverlayInv, OverlayType
<1>2. \A k \in Keys : \A i \in 1 .. Len(changes[k]) : changes[k][i] \in Entry
  BY SMT, <1>1
<1>3. \A x \in Entry : x.level \in Nat
  BY DEF Entry
<1>4. Top \in Live /\ Live \subseteq Maps
  BY DEF Live, Maps, OverlayInv, OverlayType
<1>5. \A m \in Maps : dirty_keys[m] \in Seq(SUBSET Keys)
  BY DEF OverlayInv, OverlayType
<1>6. \A m \in Maps : Depth(m) \in Nat
  BY SMT, <1>5 DEF Depth
<1> QED BY <1>1, <1>2, <1>3, <1>4, <1>6, OverlayAssumption

\* The last value of a key is dirty just if it is of the topmost transaction.
LEMMA DirtyLast ==
  ASSUME OverlayInv, NEW k \in Keys
  PROVE  /\ Dirty(k) => /\ Depth(Top) > 0 /\ changes[k] # <<>>
                        /\ LastOf(changes[k]).level = Depth(Top)
                        /\ MapOf[k] \in Live
         /\ ~Dirty(k) /\ Depth(Top) > 0 =>
              \A i \in 1 .. Len(changes[k]) : changes[k][i].level < Depth(Top)
<1> DEFINE e == changes[k]
           d == Depth(Top)
           m == MapOf[k]
<1>1. /\ d \in Nat /\ e \in Seq(Entry) /\ WellFormed(e, d)
      /\ \A i \in 1 .. Len(e) : e[i].level \in Nat
      /\ m \in Live => Len(dirty_keys[m]) = d /\ DirtyOK(k)
      /\ m \notin Live => e = <<>>
      /\ m \in Maps /\ dirty_keys[m] \in Seq(SUBSET Keys)
  BY OverlayFacts DEF OverlayInv, OverlayType, Depth
<1>2. ASSUME Dirty(k)
      PROVE  d > 0 /\ e # <<>> /\ LastOf(e).level = d /\ m \in Live
  <2>1. m \in Live /\ dirty_keys[m] # <<>> /\ k \in dirty_keys[m][Len(dirty_keys[m])]
    BY <1>2 DEF Dirty, LastOf
  <2>2. d \in 1 .. d
    BY SMT, <1>1, <2>1
  <2>3. PICK i \in 1 .. Len(e) : e[i].level = d
    BY <1>1, <2>1, <2>2 DEF DirtyOK
  <2>4. i = Len(e)
    <3>1. Len(e) \in 1 .. Len(e) /\ e[Len(e)].level <= d
      BY SMT, <1>1, <2>3 DEF WellFormed
    <3> QED BY SMT, <1>1, <2>3, <3>1 DEF WellFormed
  <2> QED BY SMT, <1>1, <2>1, <2>2, <2>3, <2>4 DEF LastOf
<1>3. ASSUME ~Dirty(k), d > 0, NEW i \in 1 .. Len(e) PROVE e[i].level < d
  <2>1. m \in Live
    BY SMT, <1>1, <1>3
  <2>2. dirty_keys[m] # <<>> /\ d \in 1 .. d
    BY SMT, <1>1, <1>3, <2>1
  <2>3. k \notin dirty_keys[m][d]
    BY <1>1, <1>3, <2>1, <2>2 DEF Dirty, LastOf
  <2>4. e[i].level # d
    BY <1>1, <2>1, <2>2, <2>3 DEF DirtyOK
  <2> QED BY SMT, <1>1, <2>4 DEF WellFormed
<1> QED BY <1>2, <1>3

\* The current value is what the topmost transaction sees.
LEMMA EntryView ==
  ASSUME NEW d \in Nat, NEW e, WellFormed(e, d)
  PROVE  ViewOf(e, d) = IF e = <<>> THEN Absent ELSE LastOf(e).value
<1>1. CASE e = <<>>
  BY <1>1, NoView
<1>2. CASE e # <<>>
  <2>1. e \in Seq(Entry) /\ Len(e) \in 1 .. Len(e)
    BY SMT, <1>2 DEF WellFormed
  <2>2. LastOf(e).level <= d
    BY <2>1 DEF WellFormed, LastOf
  <2> QED BY <1>2, <2>1, <2>2, LastView
<1> QED BY <1>1, <1>2

\* What the overlay returns for a key is what the topmost transaction sees,
LEMMA CurrentView ==
  ASSUME OverlayInv, NEW k \in Keys
  PROVE  Storage(k) = ViewOf(changes[k], Depth(Top))
BY OverlayFacts, EntryView DEF OverlayInv, Storage

\* also after a step.
LEMMA NextView ==
  ASSUME OverlayInv', Depth(Top)' \in Nat, NEW k \in Keys
  PROVE  Storage(k)' = ViewOf(changes'[k], Depth(Top)')
BY EntryView DEF OverlayInv, Storage

\* Opening a transaction: it sees what the one below sees.
LEMMA StartStep ==
  ASSUME OverlayInv, start_transaction
  PROVE  /\ OverlayInv'
         /\ Depth(Top)' = Depth(Top) + 1
         /\ UNCHANGED <<changes, num_client_transactions, execution_mode, panicked>>
         /\ \A k \in Keys : ViewOf(changes'[k], Depth(Top) + 1) = ViewOf(changes[k], Depth(Top))
<1> DEFINE d == Depth(Top)
<1>0. /\ d \in Nat /\ Top \in Live /\ Live \subseteq Maps
      /\ \A k \in Keys : MapOf[k] \in Maps
      /\ Live' = Live
      /\ UNCHANGED <<changes, num_client_transactions, execution_mode, children, panicked>>
  BY OverlayFacts DEF start_transaction, Live
<1>1. \A m \in Maps : dirty_keys[m] \in Seq(SUBSET Keys)
  BY DEF OverlayInv, OverlayType
<1>2. \A m \in Live : /\ dirty_keys'[m] \in Seq(SUBSET Keys)
                      /\ Len(dirty_keys'[m]) = Len(dirty_keys[m]) + 1
                      /\ \A n \in 1 .. Len(dirty_keys[m]) : dirty_keys'[m][n] = dirty_keys[m][n]
                      /\ dirty_keys'[m][Len(dirty_keys[m]) + 1] = {}
  BY SMT, <1>0, <1>1 DEF start_transaction
<1>3. Depth(Top)' = d + 1 /\ \A m \in Live : Depth(m)' = d + 1
  BY <1>0, <1>2 DEF OverlayInv, Depth
<1>4. OverlayType'
  <2>1. dirty_keys' \in [Maps -> Seq(SUBSET Keys)]
    BY <1>0, <1>1, <1>2 DEF start_transaction
  <2> QED BY <1>0, <2>1 DEF OverlayInv, OverlayType
<1>5. ASSUME NEW k \in Keys, MapOf[k] \in Live PROVE DirtyOK(k)'
  <2>1. DirtyOK(k) /\ WellFormed(changes[k], d) /\ Depth(MapOf[k]) = d
    BY <1>5 DEF OverlayInv
  <2>2. \A i \in 1 .. Len(changes[k]) : changes[k][i].level # d + 1
    BY SMT, <1>0, <2>1, OverlayFacts DEF WellFormed
  <2>3. ASSUME NEW n \in 1 .. d + 1
        PROVE  k \in dirty_keys'[MapOf[k]][n] <=>
                 \E i \in 1 .. Len(changes[k]) : changes[k][i].level = n
    <3>1. CASE n = d + 1
      BY <1>2, <1>5, <2>1, <2>2, <3>1 DEF Depth
    <3>2. CASE n # d + 1
      <4>1. n \in 1 .. d
        BY SMT, <1>0, <3>2
      <4> QED BY SMTT(20), <1>2, <1>5, <2>1, <4>1 DEF DirtyOK, Depth
    <3> QED BY <3>1, <3>2
  <2> QED BY <1>0, <1>3, <2>3 DEF DirtyOK
<1>6. ASSUME NEW k \in Keys
      PROVE  /\ WellFormed(changes[k], d + 1)
             /\ ViewOf(changes[k], d + 1) = ViewOf(changes[k], d)
  <2>1. WellFormed(changes[k], d) /\ \A i \in 1 .. Len(changes[k]) : changes[k][i].level \in Nat
    BY OverlayFacts DEF OverlayInv
  <2>2. Seen(changes[k], d + 1) = Seen(changes[k], d)
    BY SMT, <1>0, <2>1 DEF Seen, WellFormed
  <2>3. WellFormed(changes[k], d + 1)
    BY SMT, <1>0, <2>1 DEF WellFormed
  <2>4. ViewOf(changes[k], d + 1) = ViewOf(changes[k], d)
    BY SMT, <1>0, <2>1, <2>2, SameView DEF WellFormed
  <2> QED BY <2>3, <2>4
<1> QED BY <1>0, <1>3, <1>4, <1>5, <1>6 DEF OverlayInv

\* Writing: the topmost transaction sees the new values, the others do not.
LEMMA SetStep ==
  ASSUME OverlayInv, NEW m \in Maps, NEW K \in SUBSET KeysOf(m), NEW w \in [K -> Changes],
         Set(m, w)
  PROVE  /\ OverlayInv'
         /\ Depth(Top)' = Depth(Top) /\ num_client_transactions'[Top] = num_client_transactions[Top]
         /\ execution_mode'[Top] = execution_mode[Top] /\ UNCHANGED panicked
         /\ \A k \in Keys : \A n \in 0 .. Depth(Top) : ViewOf(changes'[k], n) =
              IF k \in K /\ n = Depth(Top) THEN w[k] ELSE ViewOf(changes[k], n)
<1> DEFINE d == Depth(Top)
           s == Spawned(m)
<1>0. /\ d \in Nat /\ Top \in Live /\ Top \in Maps /\ Live \subseteq Maps
      /\ \A k \in Keys : MapOf[k] \in Maps
      /\ Live' = Live \cup {m} /\ DOMAIN w = K /\ UNCHANGED panicked
      /\ children' \subseteq Children
  BY OverlayFacts DEF Set, Live, Maps, OverlayInv, OverlayType
<1>1. /\ s \in Seq(SUBSET Keys) /\ Len(s) = d
      /\ m \in Live => s = dirty_keys[m]
      /\ m \notin Live => \A n \in 1 .. d : s[n] = {}
  <2>1. CASE m \in Live
    BY <2>1 DEF OverlayInv, OverlayType, Spawned, Depth
  <2>2. CASE m \notin Live
    <3>1. s = [i \in 1 .. d |-> {}]
      BY <2>2 DEF Spawned
    <3> QED BY SMT, <1>0, <2>2, <3>1
  <2> QED BY <2>1, <2>2
<1>2. ASSUME NEW k \in Keys, MapOf[k] = m
      PROVE  /\ WellFormed(changes[k], d)
             /\ \A n \in 1 .. d : k \in s[n] <=> \E i \in 1 .. Len(changes[k]) : changes[k][i].level = n
  <2>1. WellFormed(changes[k], d)
    BY DEF OverlayInv
  <2>2. CASE m \in Live
    BY <1>1, <1>2, <2>1, <2>2 DEF OverlayInv, DirtyOK
  <2>3. CASE m \notin Live
    BY SMT, <1>1, <1>2, <2>1, <2>3 DEF OverlayInv
  <2> QED BY <2>1, <2>2, <2>3
<1> DEFINE t == dirty_keys'[m]
<1>3. /\ t \in Seq(SUBSET Keys) /\ Len(t) = d
      /\ \A n \in 1 .. d : t[n] = IF n = d THEN s[n] \cup K ELSE s[n]
  <2>1. t = IF s = <<>> THEN s ELSE [s EXCEPT ![Len(s)] = @ \cup K]
    BY <1>0 DEF Set, OverlayInv, OverlayType
  <2>2. K \subseteq Keys
    BY DEF KeysOf
  <2>3. CASE s = <<>>
    BY SMT, <1>0, <1>1, <2>1, <2>3
  <2>4. CASE s # <<>>
    <3>1. Len(s) \in 1 .. Len(s) /\ s[Len(s)] \cup K \in SUBSET Keys
      BY SMT, <1>1, <2>2, <2>4
    <3>2. t = [s EXCEPT ![Len(s)] = s[Len(s)] \cup K]
      BY <2>1, <2>4
    <3>3. t \in Seq(SUBSET Keys) /\ Len(t) = Len(s)
      BY SMT, <1>1, <3>1, <3>2
    <3>4. \A n \in 1 .. Len(s) : t[n] = IF n = Len(s) THEN s[n] \cup K ELSE s[n]
      <4>1. DOMAIN s = 1 .. Len(s)
        BY SMT, <1>1
      <4> QED BY <3>2, <4>1
    <3> QED BY <1>1, <3>3, <3>4
  <2> QED BY <2>3, <2>4
<1> HIDE DEF s, t
<1>4. ASSUME NEW k \in K
      PROVE  /\ k \in Keys /\ MapOf[k] = m
             /\ WellFormed(changes'[k], d)
             /\ \A n \in 0 .. d : ViewOf(changes'[k], n) =
                  IF n = d THEN w[k] ELSE ViewOf(changes[k], n)
             /\ \A n \in 1 .. d : (\E i \in 1 .. Len(changes'[k]) : changes'[k][i].level = n) <=>
                  n = d \/ \E i \in 1 .. Len(changes[k]) : changes[k][i].level = n
  <2> DEFINE e == changes[k]
  <2>1. k \in Keys /\ MapOf[k] = m /\ w[k] \in Changes
    BY DEF KeysOf
  <2>2. changes'[k] = SetEntry(s, k, w[k])
    BY <1>0, <2>1 DEF Set, s
  <2>3. /\ WellFormed(e, d) /\ e \in Seq(Entry) /\ Len(e) \in Nat
        /\ \A i \in 1 .. Len(e) : e[i].level \in Nat /\ e[i].level <= d
        /\ \A n \in 1 .. d : k \in s[n] <=> \E i \in 1 .. Len(e) : e[i].level = n
    BY SMT, <1>2, <2>1, OverlayFacts DEF WellFormed
  <2>4. CASE FirstWrite(s, k) \/ e = <<>>
    <3>1. changes'[k] = Append(e, Inner(w[k], d))
      BY <1>1, <2>2, <2>4 DEF SetEntry
    <3>2. \A i \in 1 .. Len(e) : e[i].level < d
      BY SMT, <1>0, <1>1, <2>3, <2>4 DEF FirstWrite, LastOf
    <3>3. /\ WellFormed(changes'[k], d)
          /\ \A n \in 0 .. d : ViewOf(changes'[k], n) =
               IF n = d THEN w[k] ELSE ViewOf(e, n)
      BY SMT, <1>0, <2>1, <2>3, <3>1, <3>2, PushView
    <3>4. /\ Len(changes'[k]) = Len(e) + 1 /\ changes'[k][Len(e) + 1].level = d
          /\ \A i \in 1 .. Len(e) : changes'[k][i] = e[i]
      <4>1. Inner(w[k], d) \in Entry /\ Inner(w[k], d).level = d
        BY <1>0, <2>1 DEF Inner, Entry
      <4> QED BY SMT, <2>3, <3>1, <4>1
    <3>5. ASSUME NEW n \in 1 .. d
          PROVE  (\E i \in 1 .. Len(changes'[k]) : changes'[k][i].level = n) <=>
                   n = d \/ \E i \in 1 .. Len(e) : e[i].level = n
      <4>1. ASSUME NEW i \in 1 .. Len(changes'[k]), changes'[k][i].level = n, n # d
            PROVE  i \in 1 .. Len(e) /\ e[i].level = n
        BY SMTT(20), <2>3, <3>4, <4>1
      <4>2. Len(e) + 1 \in 1 .. Len(changes'[k]) /\ \A i \in 1 .. Len(e) : i \in 1 .. Len(changes'[k])
        BY SMT, <2>3, <3>4
      <4> QED BY <3>4, <4>1, <4>2
    <3> QED BY <2>1, <3>3, <3>5
  <2>5. CASE ~(FirstWrite(s, k) \/ e = <<>>)
    <3>1. changes'[k] = [e EXCEPT ![Len(e)] = Inner(w[k], @.level)]
      BY <2>2, <2>5 DEF SetEntry
    <3>2. LastOf(e).level = d
      <4>1. Len(e) \in 1 .. Len(e)
        BY SMT, <2>3, <2>5
      <4>2. CASE d = 0
        BY SMT, <2>3, <4>1, <4>2 DEF LastOf
      <4>3. CASE d > 0
        <5>1. s # <<>> /\ k \in s[d] /\ d \in 1 .. d
          BY SMT, <1>0, <1>1, <2>5, <4>3 DEF FirstWrite, LastOf
        <5>2. PICK i \in 1 .. Len(e) : e[i].level = d
          BY <2>3, <5>1
        <5>3. i = Len(e)
          BY SMT, <2>3, <4>1, <5>2 DEF WellFormed
        <5> QED BY <5>2, <5>3 DEF LastOf
      <4> QED BY SMT, <1>0, <4>2, <4>3
    <3>3. /\ WellFormed(changes'[k], d) /\ Len(changes'[k]) = Len(e)
          /\ \A i \in 1 .. Len(e) : changes'[k][i].level = e[i].level
          /\ \A n \in 0 .. d : ViewOf(changes'[k], n) =
               IF LastOf(e).level <= n THEN w[k] ELSE ViewOf(e, n)
      BY SMTT(20), <1>0, <2>1, <2>3, <2>5, <3>1, OverwriteView
    <3>4. Len(e) \in 1 .. Len(e)
      BY SMT, <2>3, <2>5
    <3>5. \A n \in 0 .. d : ViewOf(changes'[k], n) = IF n = d THEN w[k] ELSE ViewOf(e, n)
      BY SMT, <1>0, <3>2, <3>3
    <3>6. e[Len(e)].level = d
      BY <3>2 DEF LastOf
    <3>7. \A n \in 1 .. d : (\E i \in 1 .. Len(changes'[k]) : changes'[k][i].level = n) <=>
             n = d \/ \E i \in 1 .. Len(e) : e[i].level = n
      BY <3>3, <3>4, <3>6
    <3> QED BY <2>1, <3>3, <3>5, <3>7
  <2> QED BY <2>4, <2>5
<1>5. ASSUME NEW k \in Keys, k \notin K PROVE changes'[k] = changes[k]
  BY <1>0, <1>5 DEF Set
<1>6. OverlayType'
  <2>1. changes' \in [Keys -> Seq(Entry)]
    <3>1. \A k \in Keys : changes'[k] \in Seq(Entry)
      BY <1>4, <1>5, OverlayFacts DEF WellFormed
    <3> QED BY <3>1 DEF Set
  <2>2. dirty_keys' \in [Maps -> Seq(SUBSET Keys)]
    BY <1>3 DEF Set, OverlayInv, OverlayType, t
  <2>3. num_client_transactions' \in [Maps -> Nat] /\ execution_mode' \in [Maps -> {"Client", "Runtime"}]
    BY <1>0 DEF Set, OverlayInv, OverlayType
  <2> QED BY <1>0, <2>1, <2>2, <2>3 DEF OverlayInv, OverlayType
<1>7. \A x \in Maps : x # m => /\ dirty_keys'[x] = dirty_keys[x]
                             /\ num_client_transactions'[x] = num_client_transactions[x]
                             /\ execution_mode'[x] = execution_mode[x]
  BY DEF Set, OverlayInv, OverlayType
<1>8. /\ num_client_transactions'[m] = num_client_transactions[Top]
      /\ execution_mode'[m] = execution_mode[Top]
  BY <1>0 DEF Set, OverlayInv, OverlayType
<1>9. \A x \in Live' : /\ Depth(x)' = d
                       /\ num_client_transactions'[x] = num_client_transactions[Top]
                       /\ execution_mode'[x] = execution_mode[Top]
  BY <1>0, <1>3, <1>7, <1>8 DEF OverlayInv, Depth, t
<1>10. Depth(Top)' = d
  BY <1>0, <1>9
<1>11. ASSUME NEW k \in Keys, MapOf[k] \in Live' PROVE DirtyOK(k)'
  <2>1. CASE MapOf[k] = m
    <3>1. SUFFICES ASSUME NEW n \in 1 .. d
                   PROVE  k \in t[n] <=> \E i \in 1 .. Len(changes'[k]) : changes'[k][i].level = n
      BY <1>0, <1>10, <2>1 DEF DirtyOK, t
    <3>2. k \in s[n] <=> \E i \in 1 .. Len(changes[k]) : changes[k][i].level = n
      BY <1>2, <2>1
    <3>3. k \in t[n] <=> k \in s[n] \/ (n = d /\ k \in K)
      BY <1>3
    <3>4. CASE k \in K
      BY SMT, <1>4, <3>2, <3>3, <3>4
    <3>5. CASE k \notin K
      BY <1>5, <3>2, <3>3, <3>5
    <3> QED BY <3>4, <3>5
  <2>2. CASE MapOf[k] # m
    <3>1. k \notin K /\ MapOf[k] \in Live /\ DirtyOK(k)
      BY <1>0, <1>11, <2>2 DEF OverlayInv, KeysOf
    <3> QED BY <1>0, <1>5, <1>7, <1>10, <2>2, <3>1 DEF DirtyOK
  <2> QED BY <2>1, <2>2
<1>12. \A k \in Keys : WellFormed(changes'[k], d)
  BY <1>4, <1>5 DEF OverlayInv
<1>13. \A k \in Keys : MapOf[k] \notin Live' => changes'[k] = <<>>
  BY <1>0, <1>4, <1>5 DEF OverlayInv
<1>14. OverlayInv'
  BY <1>0, <1>6, <1>9, <1>10, <1>11, <1>12, <1>13 DEF OverlayInv
<1> QED BY <1>0, <1>4, <1>5, <1>9, <1>10, <1>14

\* A key without the value of the topmost transaction, if it has one.
LEMMA RolledBackKey ==
  ASSUME OverlayInv, Depth(Top) > 0, NEW k \in Keys
  PROVE  /\ WellFormed(RolledBack(k), Depth(Top) - 1)
         /\ \A n \in 0 .. Depth(Top) - 1 : ViewOf(RolledBack(k), n) = ViewOf(changes[k], n)
         /\ \A n \in 1 .. Depth(Top) - 1 :
              (\E i \in 1 .. Len(RolledBack(k)) : RolledBack(k)[i].level = n) <=>
                \E i \in 1 .. Len(changes[k]) : changes[k][i].level = n
         /\ MapOf[k] \notin Live => RolledBack(k) = <<>>
<1> DEFINE e == changes[k]
           f == RolledBack(k)
           d == Depth(Top)
<1>1. /\ d \in Nat /\ WellFormed(e, d) /\ e \in Seq(Entry) /\ Len(e) \in Nat
      /\ \A i \in 1 .. Len(e) : e[i].level \in Nat
  BY SMT, OverlayFacts DEF OverlayInv
<1>2. MapOf[k] \notin Live => f = <<>>
  BY DirtyLast DEF RolledBack, OverlayInv
<1>3. CASE Dirty(k)
  <2>1. e # <<>> /\ LastOf(e).level = d /\ f = FrontOf(e)
    BY <1>3, DirtyLast DEF RolledBack
  <2>2. /\ Len(f) = Len(e) - 1
        /\ \A i \in 1 .. Len(e) - 1 : f[i] = e[i]
        /\ WellFormed(f, d - 1)
        /\ \A n \in 0 .. d - 1 : ViewOf(f, n) = ViewOf(e, n)
    BY SMT, <1>1, <2>1, PopView
  <2>3. ASSUME NEW n \in 1 .. d - 1
        PROVE  (\E i \in 1 .. Len(f) : f[i].level = n) <=> \E i \in 1 .. Len(e) : e[i].level = n
    <3>1. e[Len(e)].level # n
      BY SMT, <1>1, <2>1 DEF LastOf
    <3>2. \A i \in 1 .. Len(e) : e[i].level = n => i \in 1 .. Len(f)
      BY SMT, <1>1, <2>2, <3>1
    <3>3. \A i \in 1 .. Len(f) : i \in 1 .. Len(e) /\ f[i] = e[i]
      BY SMT, <1>1, <2>2
    <3> QED BY <3>2, <3>3
  <2> QED BY <1>2, <2>2, <2>3
<1>4. CASE ~Dirty(k)
  <2>1. f = e
    BY <1>4 DEF RolledBack
  <2>2. \A i \in 1 .. Len(e) : e[i].level < d
    BY <1>4, DirtyLast
  <2>3. WellFormed(e, d - 1)
    BY SMT, <1>1, <2>2 DEF WellFormed
  <2> QED BY <1>2, <2>1, <2>3
<1> QED BY <1>3, <1>4

\* A transaction that one map can close, every map can, and every dirty key has
\* the values that takes.
LEMMA CloseWorks ==
  ASSUME OverlayInv, ~CloseRefused(Top)
  PROVE  Depth(Top) > 0 /\ ~CloseBreaks(FALSE)
<1>1. Depth(Top) > 0
  BY SMT, OverlayFacts DEF CloseRefused, Depth, OverlayInv, OverlayType
<1>2. ASSUME NEW m \in Live PROVE ~CloseRefused(m)
  <2>1. /\ Depth(m) = Depth(Top) /\ execution_mode[m] = execution_mode[Top]
        /\ num_client_transactions[m] = num_client_transactions[Top]
        /\ dirty_keys[m] \in Seq(SUBSET Keys)
    BY <1>2, OverlayFacts DEF OverlayInv, OverlayType
  <2>2. dirty_keys[m] # <<>>
    BY SMT, <1>1, <2>1 DEF Depth
  <2> QED BY <2>1, <2>2 DEF CloseRefused, has_open_runtime_transactions
<1>3. ASSUME NEW k \in Keys, Dirty(k) PROVE ~(Len(changes[k]) < 1)
  BY SMT, <1>3, DirtyLast, OverlayFacts
<1> QED BY <1>1, <1>2, <1>3 DEF CloseBreaks

\* What rollback_transaction and the loop of exit_runtime have in common.
LEMMA DropStep ==
  ASSUME OverlayInv, Depth(Top) > 0, NEW keep, keep = {Top, Offchain} \cup children',
         children' \subseteq children,
         changes' = [k \in Keys |-> RolledBack(k)],
         dirty_keys' \in [Maps -> Seq(SUBSET Keys)],
         num_client_transactions' \in [Maps -> Nat],
         execution_mode' \in [Maps -> {"Client", "Runtime"}],
         panicked' = panicked,
         \A m \in keep : /\ dirty_keys'[m] = FrontOf(dirty_keys[m])
                         /\ num_client_transactions'[m] = num_client_transactions[m]
                         /\ execution_mode'[m] = execution_mode[m],
         \A k \in Keys : MapOf[k] \in Live \ keep => RolledBack(k) = <<>>
  PROVE  /\ OverlayInv'
         /\ Depth(Top)' = Depth(Top) - 1
         /\ \A k \in Keys : \A n \in 0 .. Depth(Top) - 1 :
              ViewOf(changes'[k], n) = ViewOf(changes[k], n)
<1> DEFINE d == Depth(Top)
<1>1. /\ d \in Nat /\ Top \in keep /\ keep \subseteq Live /\ Live' = keep /\ keep \subseteq Maps
      /\ \A k \in Keys : changes'[k] = RolledBack(k) /\ MapOf[k] \in Maps
  BY OverlayFacts DEF Live
<1>2. ASSUME NEW m \in keep
      PROVE  /\ Len(dirty_keys'[m]) = d - 1
             /\ \A n \in 1 .. d - 1 : dirty_keys'[m][n] = dirty_keys[m][n]
             /\ num_client_transactions'[m] = num_client_transactions[Top]
             /\ execution_mode'[m] = execution_mode[Top]
  <2>1. dirty_keys[m] \in Seq(SUBSET Keys) /\ Len(dirty_keys[m]) = d
    BY <1>1 DEF OverlayInv, OverlayType, Depth
  <2>2. dirty_keys[m] # <<>>
    BY SMT, <2>1
  <2>3. /\ Len(FrontOf(dirty_keys[m])) = d - 1
        /\ \A n \in 1 .. d - 1 : FrontOf(dirty_keys[m])[n] = dirty_keys[m][n]
    <3>1. /\ Len(FrontOf(dirty_keys[m])) = Len(dirty_keys[m]) - 1
          /\ \A n \in 1 .. Len(dirty_keys[m]) - 1 : FrontOf(dirty_keys[m])[n] = dirty_keys[m][n]
      BY <2>1, <2>2, FrontFacts
    <3> QED BY <2>1, <3>1
  <2> QED BY <1>1, <1>2, <2>3 DEF OverlayInv
<1>3. Depth(Top)' = d - 1 /\ \A m \in Live' : Depth(m)' = d - 1
  BY <1>1, <1>2 DEF Depth
<1>4. ASSUME NEW k \in Keys
      PROVE  /\ WellFormed(changes'[k], d - 1)
             /\ MapOf[k] \in keep => DirtyOK(k)'
             /\ MapOf[k] \notin keep => changes'[k] = <<>>
             /\ \A n \in 0 .. d - 1 : ViewOf(changes'[k], n) = ViewOf(changes[k], n)
  <2>1. /\ WellFormed(changes'[k], d - 1)
        /\ \A n \in 0 .. d - 1 : ViewOf(changes'[k], n) = ViewOf(changes[k], n)
        /\ \A n \in 1 .. d - 1 :
              (\E i \in 1 .. Len(changes'[k]) : changes'[k][i].level = n) <=>
                \E i \in 1 .. Len(changes[k]) : changes[k][i].level = n
        /\ MapOf[k] \notin Live => changes'[k] = <<>>
    BY ZenonT(30), <1>1, RolledBackKey
  <2>2. ASSUME MapOf[k] \in keep PROVE DirtyOK(k)'
    <3>1. DirtyOK(k)
      BY <1>1, <2>2 DEF OverlayInv
    <3>2. ASSUME NEW n \in 1 .. d - 1
          PROVE  k \in dirty_keys'[MapOf[k]][n] <=>
                   \E i \in 1 .. Len(changes'[k]) : changes'[k][i].level = n
      <4>1. n \in 1 .. d
        BY SMT, <1>1
      <4>2. dirty_keys'[MapOf[k]][n] = dirty_keys[MapOf[k]][n]
        BY <1>2, <2>2
      <4> QED BY <2>1, <3>1, <4>1, <4>2 DEF DirtyOK
    <3> QED BY <1>3, <3>2 DEF DirtyOK
  <2> QED BY <1>1, <2>1, <2>2
<1>5. OverlayType'
  <2>1. changes' \in [Keys -> Seq(Entry)]
    <3>1. \A k \in Keys : changes'[k] \in Seq(Entry)
      BY <1>4 DEF WellFormed
    <3> QED BY <3>1
  <2> QED BY <2>1 DEF OverlayInv, OverlayType
<1> QED BY <1>1, <1>2, <1>3, <1>4, <1>5 DEF OverlayInv

\* A rollback: the transactions below see what they saw.
LEMMA RollbackStep ==
  ASSUME OverlayInv, rollback_transaction
  PROVE  /\ OverlayInv'
         /\ Depth(Top) > 0 /\ ~CloseRefused(Top) /\ Depth(Top)' = Depth(Top) - 1
         /\ num_client_transactions'[Top] = num_client_transactions[Top]
         /\ execution_mode'[Top] = execution_mode[Top] /\ UNCHANGED panicked
         /\ \A k \in Keys : \A n \in 0 .. Depth(Top) - 1 :
              ViewOf(changes'[k], n) = ViewOf(changes[k], n)
<1> DEFINE keep == {Top, Offchain} \cup children'
<1>1. /\ ~CloseRefused(Top) /\ Depth(Top) > 0 /\ panicked' = panicked
      /\ children' \subseteq children /\ children \subseteq Children
      /\ keep \subseteq Maps /\ Top \in keep /\ keep \subseteq Live
  BY CloseWorks DEF rollback_transaction, OverlayInv, OverlayType, Maps, Live
<1>2. dirty_keys' = [m \in Maps |-> IF m \in keep THEN FrontOf(dirty_keys[m]) ELSE <<>>]
  BY DEF rollback_transaction
<1>3. /\ num_client_transactions' \in [Maps -> Nat]
      /\ execution_mode' \in [Maps -> {"Client", "Runtime"}]
      /\ \A m \in keep : /\ num_client_transactions'[m] = num_client_transactions[m]
                         /\ execution_mode'[m] = execution_mode[m]
  BY <1>1 DEF rollback_transaction, OverlayInv, OverlayType
<1>4. dirty_keys' \in [Maps -> Seq(SUBSET Keys)]
  <2>1. ASSUME NEW m \in keep PROVE FrontOf(dirty_keys[m]) \in Seq(SUBSET Keys)
    <3>1. dirty_keys[m] \in Seq(SUBSET Keys) /\ Len(dirty_keys[m]) = Depth(Top)
      BY <1>1 DEF OverlayInv, OverlayType, Depth
    <3>2. dirty_keys[m] # <<>>
      BY SMT, <1>1, <3>1
    <3> QED BY <3>1, <3>2, FrontFacts
  <2> QED BY SMT, <1>1, <1>2, <2>1
<1>5. \A k \in Keys : MapOf[k] \in Live \ keep => RolledBack(k) = <<>>
  BY DEF rollback_transaction, KeysOf, Live
<1>6. changes' = [k \in Keys |-> RolledBack(k)]
  BY DEF rollback_transaction
<1>7. \A m \in keep : /\ dirty_keys'[m] = FrontOf(dirty_keys[m])
                      /\ num_client_transactions'[m] = num_client_transactions[m]
                      /\ execution_mode'[m] = execution_mode[m]
  BY <1>1, <1>2, <1>3
<1>9. /\ children' \subseteq children /\ num_client_transactions' \in [Maps -> Nat]
      /\ execution_mode' \in [Maps -> {"Client", "Runtime"}]
  BY <1>1, <1>3
<1>10. Depth(Top) > 0 /\ panicked' = panicked
  BY <1>1
<1> HIDE DEF keep
<1>8. /\ OverlayInv' /\ Depth(Top)' = Depth(Top) - 1
      /\ \A k \in Keys : \A n \in 0 .. Depth(Top) - 1 :
              ViewOf(changes'[k], n) = ViewOf(changes[k], n)
  BY <1>4, <1>5, <1>6, <1>7, <1>9, <1>10, DropStep DEF keep
<1> QED BY <1>1, <1>3, <1>8

\* A turn of the loop of exit_runtime: likewise.
LEMMA ExitRollbackStep ==
  ASSUME OverlayInv, exit_rollback
  PROVE  /\ OverlayInv'
         /\ Depth(Top) > num_client_transactions[Top] /\ Depth(Top)' = Depth(Top) - 1
         /\ UNCHANGED <<num_client_transactions, execution_mode>>
         /\ (execution_mode[Top] = "Client" => UNCHANGED panicked)
         /\ \A k \in Keys : \A n \in 0 .. Depth(Top) - 1 :
              ViewOf(changes'[k], n) = ViewOf(changes[k], n)
<1> DEFINE keep == {Top, Offchain} \cup children'
<1>1. /\ Depth(Top) > num_client_transactions[Top] /\ Depth(Top) \in Nat
      /\ num_client_transactions[Top] \in Nat
      /\ children' = children /\ keep = Live /\ keep \subseteq Maps /\ Top \in Maps
      /\ UNCHANGED <<num_client_transactions, execution_mode>>
      /\ \A m \in keep : has_open_runtime_transactions(m)
      /\ \A k \in Keys : MapOf[k] \in Maps
  BY OverlayFacts DEF exit_rollback, has_open_runtime_transactions, OverlayInv, OverlayType, Live, Maps
<1>2. Depth(Top) > 0
  BY SMT, <1>1
<1>3. ~CloseRefused(Top)
  <2>1. dirty_keys[Top] # <<>>
    BY SMT, <1>2 DEF Depth
  <2> QED BY <1>1, <2>1 DEF CloseRefused, has_open_runtime_transactions
<1>4. panicked' = panicked
  BY <1>3, CloseWorks DEF exit_rollback, OverlayInv, OverlayType
<1>5. changes' = [k \in Keys |-> RolledBack(k)]
  <2>1. ASSUME NEW k \in Keys, ~has_open_runtime_transactions(MapOf[k]) PROVE RolledBack(k) = changes[k]
    BY <1>1, <2>1 DEF RolledBack, Dirty
  <2> QED BY <2>1 DEF exit_rollback
<1>6. ASSUME NEW m \in keep
      PROVE  dirty_keys'[m] = FrontOf(dirty_keys[m]) /\ dirty_keys'[m] \in Seq(SUBSET Keys)
  <2>1. dirty_keys[m] \in Seq(SUBSET Keys) /\ Len(dirty_keys[m]) = Depth(Top)
    BY <1>1 DEF OverlayInv, OverlayType, Depth
  <2>2. dirty_keys[m] # <<>>
    BY SMT, <1>2, <2>1
  <2>3. dirty_keys'[m] = FrontOf(dirty_keys[m])
    BY <1>1 DEF exit_rollback
  <2> QED BY <2>1, <2>2, <2>3, FrontFacts
<1>7. dirty_keys' \in [Maps -> Seq(SUBSET Keys)]
  <2>1. \A m \in Maps : m \notin keep => dirty_keys'[m] = dirty_keys[m]
    BY <1>1 DEF exit_rollback
  <2>2. \A m \in Maps : dirty_keys'[m] \in Seq(SUBSET Keys)
    BY <1>6, <2>1 DEF OverlayInv, OverlayType
  <2> QED BY <2>2 DEF exit_rollback
<1>8. \A k \in Keys : MapOf[k] \in Live \ keep => RolledBack(k) = <<>>
  BY <1>1
<1>9. children' \subseteq children /\ num_client_transactions' \in [Maps -> Nat]
      /\ execution_mode' \in [Maps -> {"Client", "Runtime"}]
      /\ \A m \in keep : /\ dirty_keys'[m] = FrontOf(dirty_keys[m])
                         /\ num_client_transactions'[m] = num_client_transactions[m]
                         /\ execution_mode'[m] = execution_mode[m]
  BY <1>1, <1>6 DEF OverlayInv, OverlayType
<1> HIDE DEF keep
<1>10. /\ OverlayInv' /\ Depth(Top)' = Depth(Top) - 1
       /\ \A k \in Keys : \A n \in 0 .. Depth(Top) - 1 :
              ViewOf(changes'[k], n) = ViewOf(changes[k], n)
  BY <1>2, <1>4, <1>5, <1>7, <1>8, <1>9, DropStep DEF keep
<1> QED BY <1>1, <1>4, <1>10

\* A dirty key has a predecessor if it has a value of the level below, which
\* then is the last but one.
LEMMA Predecessor ==
  ASSUME OverlayInv, NEW k \in Keys, Dirty(k)
  PROVE  /\ has_predecessor(k) => /\ Len(changes[k]) >= 2
                                  /\ changes[k][Len(changes[k]) - 1].level = Depth(Top) - 1
         /\ ~has_predecessor(k) =>
              \A i \in 1 .. Len(changes[k]) - 1 : changes[k][i].level < Depth(Top) - 1
<1> DEFINE e == changes[k]
           d == Depth(Top)
           m == MapOf[k]
<1>1. /\ d \in Nat /\ d > 0 /\ e # <<>> /\ e[Len(e)].level = d /\ m \in Live
      /\ e \in Seq(Entry) /\ WellFormed(e, d) /\ Len(e) \in Nat /\ Len(e) > 0
      /\ \A i \in 1 .. Len(e) : e[i].level \in Nat
  BY SMT, DirtyLast, OverlayFacts DEF OverlayInv, LastOf
<1>2. Len(dirty_keys[m]) = d /\ DirtyOK(k)
  BY <1>1 DEF OverlayInv, Depth
<1>3. \A i \in 1 .. Len(e) - 1 : i \in 1 .. Len(e) /\ e[i].level < d
  BY SMT, <1>1 DEF WellFormed
<1>4. ASSUME has_predecessor(k) PROVE Len(e) >= 2 /\ e[Len(e) - 1].level = d - 1
  <2>1. CASE d > 1
    <3>1. k \in dirty_keys[m][d - 1] /\ d - 1 \in 1 .. d
      BY SMT, <1>1, <1>2, <1>4, <2>1 DEF has_predecessor
    <3>2. PICK i \in 1 .. Len(e) : e[i].level = d - 1
      BY <1>2, <3>1 DEF DirtyOK
    <3>3. i # Len(e)
      BY SMT, <1>1, <3>2
    <3>4. Len(e) - 1 \in 1 .. Len(e) - 1 /\ i <= Len(e) - 1
      BY SMT, <1>1, <3>2, <3>3
    <3>5. i < Len(e) - 1 => e[i].level < e[Len(e) - 1].level
      BY SMT, <1>1, <3>4 DEF WellFormed
    <3>6. e[Len(e) - 1].level < d /\ e[Len(e) - 1].level \in Nat
      BY <1>1, <1>3, <3>4
    <3> QED BY SMTT(20), <1>1, <3>2, <3>4, <3>5, <3>6
  <2>2. CASE ~(d > 1)
    <3>1. Len(e) > 1
      BY <1>1, <1>2, <1>4, <2>2 DEF has_predecessor
    <3>2. Len(e) - 1 \in 1 .. Len(e) - 1
      BY SMT, <1>1, <3>1
    <3>3. e[Len(e) - 1].level < d /\ e[Len(e) - 1].level \in Nat
      BY <1>1, <1>3, <3>2
    <3> QED BY SMT, <1>1, <2>2, <3>1, <3>3
  <2> QED BY <2>1, <2>2
<1>5. ASSUME ~has_predecessor(k), NEW i \in 1 .. Len(e) - 1 PROVE e[i].level < d - 1
  <2>1. CASE d > 1
    <3>1. k \notin dirty_keys[m][d - 1] /\ d - 1 \in 1 .. d
      BY SMT, <1>1, <1>2, <1>5, <2>1 DEF has_predecessor
    <3>2. i \in 1 .. Len(e) /\ e[i].level # d - 1
      BY <1>2, <1>3, <3>1 DEF DirtyOK
    <3>3. e[i].level \in Nat /\ e[i].level < d
      BY <1>1, <1>3, <3>2
    <3> QED BY SMT, <1>1, <3>2, <3>3
  <2>2. CASE ~(d > 1)
    BY SMT, <1>1, <1>2, <1>5, <2>2 DEF has_predecessor
  <2> QED BY <2>1, <2>2
<1> QED BY <1>4, <1>5

\* A key with its value of the topmost transaction moved to the one below.
LEMMA CommittedKey ==
  ASSUME OverlayInv, Depth(Top) > 0, NEW k \in Keys
  PROVE  /\ WellFormed(Committed(k), Depth(Top) - 1)
         /\ \A n \in 0 .. Depth(Top) - 1 : ViewOf(Committed(k), n) =
              ViewOf(changes[k], IF n = Depth(Top) - 1 THEN Depth(Top) ELSE n)
         /\ \A n \in 1 .. Depth(Top) - 1 :
              (\E i \in 1 .. Len(Committed(k)) : Committed(k)[i].level = n) <=>
                \/ \E i \in 1 .. Len(changes[k]) : changes[k][i].level = n
                \/ n = Depth(Top) - 1 /\ Dirty(k)
         /\ MapOf[k] \notin Live => Committed(k) = <<>>
<1> DEFINE e == changes[k]
           f == Committed(k)
           d == Depth(Top)
<1>1. /\ d \in Nat /\ WellFormed(e, d) /\ e \in Seq(Entry) /\ Len(e) \in Nat
      /\ \A i \in 1 .. Len(e) : e[i].level \in Nat /\ e[i] \in Entry
  BY SMT, OverlayFacts DEF OverlayInv
<1>2. MapOf[k] \notin Live => f = <<>>
  BY DirtyLast DEF Committed, OverlayInv
<1>3. CASE ~Dirty(k)
  <2>1. f = e
    BY <1>3 DEF Committed
  <2>2. \A i \in 1 .. Len(e) : e[i].level < d
    BY <1>3, DirtyLast
  <2>3. WellFormed(e, d - 1)
    <3>1. \A i \in 1 .. Len(e) : e[i].level <= d - 1
      BY SMT, <1>1, <2>2
    <3> QED BY <1>1, <3>1 DEF WellFormed
  <2>4. Seen(e, d - 1) = Seen(e, d)
    BY SMT, <1>1, <2>2 DEF Seen
  <2>5. ViewOf(e, d - 1) = ViewOf(e, d)
    BY SMT, <1>1, <2>4, SameView
  <2> QED BY <1>1, <1>2, <1>3, <2>1, <2>3, <2>5
<1>4. CASE Dirty(k) /\ has_predecessor(k)
  <2> DEFINE g == FrontOf(e)
             v == LastOf(e).value
  <2>1. e # <<>> /\ LastOf(e).level = d /\ Len(e) >= 2 /\ e[Len(e) - 1].level = d - 1
    BY <1>4, DirtyLast, Predecessor
  <2>2. v \in Changes /\ ViewOf(e, d) = v
    <3>1. LastOf(e) \in Entry
      BY SMT, <1>1, <2>1 DEF LastOf
    <3>2. LastOf(e).value \in Changes
      BY <3>1 DEF Entry
    <3>3. LastOf(e).level <= d
      BY SMT, <1>1, <2>1
    <3>4. ViewOf(e, d) = LastOf(e).value
      BY <1>1, <2>1, <3>3, LastView
    <3> QED BY <3>2, <3>4
  <2>3. /\ g \in Seq(Entry) /\ Len(g) = Len(e) - 1 /\ WellFormed(g, d - 1)
        /\ \A i \in 1 .. Len(e) - 1 : g[i] = e[i]
        /\ \A n \in 0 .. d - 1 : ViewOf(g, n) = ViewOf(e, n)
    BY SMT, <1>1, <2>1, PopView
  <2>4. f = [g EXCEPT ![Len(g)] = Inner(v, @.level)]
    BY <1>4, <2>3 DEF Committed
  <2>5. g # <<>> /\ LastOf(g).level = d - 1
    BY SMT, <1>1, <2>1, <2>3 DEF LastOf
  <2> HIDE DEF g, v, f
  <2>6. /\ WellFormed(f, d - 1) /\ Len(f) = Len(g)
        /\ \A i \in 1 .. Len(g) : f[i].level = g[i].level
        /\ \A n \in 0 .. d - 1 : ViewOf(f, n) = IF LastOf(g).level <= n THEN v ELSE ViewOf(g, n)
    <3>1. d - 1 \in Nat
      BY SMT, <1>1
    <3> DEFINE c == d - 1
    <3>2. c \in Nat /\ WellFormed(g, c) /\ g # <<>> /\ v \in Changes
      BY <2>2, <2>3, <2>5, <3>1
    <3> HIDE DEF c
    <3>3. /\ WellFormed(f, c) /\ Len(f) = Len(g)
          /\ \A i \in 1 .. Len(g) : f[i].level = g[i].level
          /\ \A n \in 0 .. c : ViewOf(f, n) = IF LastOf(g).level <= n THEN v ELSE ViewOf(g, n)
      BY <2>4, <3>2, OverwriteView
    <3> QED BY <3>3 DEF c
  <2>7. ASSUME NEW n \in 0 .. d - 1
        PROVE  ViewOf(f, n) = ViewOf(e, IF n = d - 1 THEN d ELSE n)
    <3>1. CASE n = d - 1
      BY SMT, <1>1, <2>2, <2>5, <2>6, <3>1
    <3>2. CASE n # d - 1
      BY SMT, <1>1, <2>3, <2>5, <2>6, <3>2
    <3> QED BY <3>1, <3>2
  <2>8. ASSUME NEW n \in 1 .. d - 1
        PROVE  (\E i \in 1 .. Len(f) : f[i].level = n) <=>
                  (\E i \in 1 .. Len(e) : e[i].level = n) \/ n = d - 1
    <3>1. e[Len(e)].level # n
      BY SMT, <1>1, <2>1 DEF LastOf
    <3>2. \A i \in 1 .. Len(e) : e[i].level = n => i \in 1 .. Len(f)
      BY SMT, <1>1, <2>3, <2>6, <3>1
    <3>3. \A i \in 1 .. Len(f) : i \in 1 .. Len(e) /\ f[i].level = e[i].level
      BY SMTT(20), <1>1, <2>3, <2>6
    <3>4. Len(e) - 1 \in 1 .. Len(f) /\ f[Len(e) - 1].level = d - 1
      BY SMTT(20), <1>1, <2>1, <2>3, <2>6
    <3> QED BY <3>2, <3>3, <3>4
  <2> QED BY <1>2, <1>4, <2>6, <2>7, <2>8 DEF f
<1>5. CASE Dirty(k) /\ ~has_predecessor(k)
  <2>1. /\ e # <<>> /\ e[Len(e)].level = d /\ MapOf[k] \in Live
        /\ \A i \in 1 .. Len(e) - 1 : e[i].level < d - 1
    BY <1>5, DirtyLast, Predecessor DEF LastOf
  <2>2. Depth(MapOf[k]) = d /\ Len(e) \in 1 .. Len(e)
    BY SMT, <1>1, <2>1 DEF OverlayInv
  <2>3. f = [e EXCEPT ![Len(e)] = Inner(e[Len(e)].value, d - 1)]
    BY <1>5, <2>2 DEF Committed
  <2>4. Inner(e[Len(e)].value, d - 1) \in Entry
    BY SMT, <1>1, <2>2 DEF Inner, Entry
  <2> HIDE DEF f
  <2>5. f \in Seq(Entry) /\ Len(f) = Len(e)
    BY SMT, <1>1, <2>2, <2>3, <2>4
  <2>6. f[Len(e)].level = d - 1 /\ f[Len(e)].value = e[Len(e)].value
    BY SMT, <1>1, <2>2, <2>3 DEF Inner
  <2>7. \A i \in 1 .. Len(e) - 1 : f[i] = e[i]
    BY SMT, <1>1, <2>2, <2>3
  <2>8. WellFormed(f, d - 1)
    <3>1. ASSUME NEW i \in 1 .. Len(f) PROVE f[i].level <= d - 1
      <4>1. CASE i = Len(e)
        BY SMT, <1>1, <2>6, <4>1
      <4>2. CASE i # Len(e)
        BY SMT, <1>1, <2>1, <2>5, <2>7, <4>2
      <4> QED BY <4>1, <4>2
    <3>2. ASSUME NEW i \in 1 .. Len(f), NEW j \in 1 .. Len(f), i < j PROVE f[i].level < f[j].level
      <4>1. i \in 1 .. Len(e) - 1 /\ f[i] = e[i] /\ i \in 1 .. Len(e) /\ j \in 1 .. Len(e)
        BY SMT, <1>1, <2>5, <2>7, <3>2
      <4>2. CASE j = Len(e)
        BY <2>1, <2>6, <4>1, <4>2
      <4>3. CASE j # Len(e)
        <5>1. f[j] = e[j]
          BY SMT, <1>1, <2>7, <4>1, <4>3
        <5> QED BY <1>1, <3>2, <4>1, <5>1 DEF WellFormed
      <4> QED BY <4>2, <4>3
    <3> QED BY <2>5, <3>1, <3>2 DEF WellFormed
  <2>9. ViewOf(f, d - 1) = ViewOf(e, d)
    <3>1. f # <<>> /\ LastOf(f).level <= d - 1 /\ LastOf(f).value = e[Len(e)].value
      BY SMT, <1>1, <2>1, <2>5, <2>6 DEF LastOf
    <3>2. ViewOf(f, d - 1) = e[Len(e)].value
      BY SMT, <1>1, <2>5, <3>1, LastView
    <3>3. ViewOf(e, d) = e[Len(e)].value
      BY SMT, <1>1, <2>1, LastView DEF LastOf
    <3> QED BY <3>2, <3>3
  <2>10. ASSUME NEW n \in 0 .. d - 1, n # d - 1 PROVE ViewOf(f, n) = ViewOf(e, n)
    <3>1. \A i \in 1 .. Len(e) : f[i].level <= n <=> e[i].level <= n
      BY SMTT(20), <1>1, <2>1, <2>6, <2>7, <2>10
    <3>2. Seen(f, n) = Seen(e, n)
      BY SMT, <1>1, <2>5, <3>1 DEF Seen
    <3>3. \A i \in Seen(f, n) : f[i].value = e[i].value
      BY SMTT(20), <1>1, <2>5, <2>6, <2>7 DEF Seen
    <3> QED BY SMT, <1>1, <2>5, <3>2, <3>3, SameView
  <2>11. ASSUME NEW n \in 1 .. d - 1
         PROVE  (\E i \in 1 .. Len(f) : f[i].level = n) <=>
                  (\E i \in 1 .. Len(e) : e[i].level = n) \/ n = d - 1
    <3>1. e[Len(e)].level # n
      BY SMT, <1>1, <2>1
    <3>2. \A i \in 1 .. Len(e) : e[i].level = n => i \in 1 .. Len(f) /\ f[i].level = n
      BY SMT, <1>1, <2>5, <2>7, <3>1
    <3>3. \A i \in 1 .. Len(f) : f[i].level = n => n = d - 1 \/ (i \in 1 .. Len(e) /\ e[i].level = n)
      <4> TAKE i \in 1 .. Len(f)
      <4>1. CASE i = Len(e)
        BY <2>6, <4>1
      <4>2. CASE i # Len(e)
        <5>1. i \in 1 .. Len(e) - 1 /\ i \in 1 .. Len(e)
          BY SMT, <1>1, <2>5, <4>2
        <5> QED BY <2>7, <5>1
      <4> QED BY <4>1, <4>2
    <3> QED BY <2>2, <2>5, <2>6, <3>2, <3>3
  <2> QED BY <1>2, <1>5, <2>8, <2>9, <2>10, <2>11 DEF f
<1> QED BY <1>3, <1>4, <1>5

\* A commit: the transaction below sees what the topmost one saw.
LEMMA CommitStep ==
  ASSUME OverlayInv, commit_transaction
  PROVE  /\ OverlayInv'
         /\ Depth(Top) > 0 /\ ~CloseRefused(Top) /\ Depth(Top)' = Depth(Top) - 1
         /\ UNCHANGED <<num_client_transactions, execution_mode, panicked>>
         /\ \A k \in Keys : \A n \in 0 .. Depth(Top) - 1 : ViewOf(changes'[k], n) =
              ViewOf(changes[k], IF n = Depth(Top) - 1 THEN Depth(Top) ELSE n)
<1> DEFINE d == Depth(Top)
<1>1. /\ d \in Nat /\ Top \in Live /\ Live' = Live /\ Live \subseteq Maps
      /\ \A k \in Keys : MapOf[k] \in Maps
      /\ UNCHANGED <<num_client_transactions, execution_mode, children>>
      /\ ~CloseRefused(Top) /\ d > 0
  BY OverlayFacts, CloseWorks DEF commit_transaction, Live
<1>2. panicked' = panicked
  <2>1. ~CloseBreaks(FALSE)
    BY <1>1, CloseWorks
  <2>2. ASSUME NEW k \in Keys, Dirty(k), has_predecessor(k) PROVE ~(Len(changes[k]) < 2)
    <3>1. Len(changes[k]) \in Nat /\ Len(changes[k]) >= 2
      BY SMT, <2>2, Predecessor, OverlayFacts
    <3> QED BY SMT, <3>1
  <2>3. ~CloseBreaks(TRUE)
    BY <2>1, <2>2 DEF CloseBreaks
  <2> QED BY <2>3 DEF commit_transaction, OverlayInv, OverlayType
<1>3. ASSUME NEW m \in Live
      PROVE  /\ Len(dirty_keys'[m]) = d - 1 /\ dirty_keys'[m] \in Seq(SUBSET Keys)
             /\ \A n \in 1 .. d - 1 : dirty_keys'[m][n] =
                  IF n = d - 1 THEN dirty_keys[m][n] \cup dirty_keys[m][d] ELSE dirty_keys[m][n]
  <2> DEFINE s == dirty_keys[m]
             g == FrontOf(s)
  <2>1. s \in Seq(SUBSET Keys) /\ Len(s) = d /\ s # <<>> /\ dirty_keys'[m] = DirtyCommitted(s)
    BY SMT, <1>1, <1>3 DEF OverlayInv, OverlayType, Depth, commit_transaction
  <2> HIDE DEF s
  <2>2. CASE d = 1
    BY SMT, <2>1, <2>2 DEF DirtyCommitted, s
  <2>3. CASE d # 1
    <3>1. g \in Seq(SUBSET Keys) /\ Len(g) = d - 1 /\ \A n \in 1 .. d - 1 : g[n] = s[n]
      <4>1. g \in Seq(SUBSET Keys) /\ Len(g) = Len(s) - 1 /\ \A n \in 1 .. Len(s) - 1 : g[n] = s[n]
        BY <2>1, FrontFacts
      <4> QED BY <2>1, <4>1
    <3>2. dirty_keys'[m] = [g EXCEPT ![d - 1] = @ \cup s[d]]
      BY SMT, <1>1, <2>1, <2>3 DEF DirtyCommitted, LastOf
    <3> HIDE DEF g
    <3>3. d - 1 \in 1 .. d - 1 /\ DOMAIN g = 1 .. d - 1 /\ g[d - 1] \cup s[d] \in SUBSET Keys
      <4>1. d - 1 \in 1 .. d - 1 /\ d \in 1 .. d
        BY SMT, <1>1, <2>3
      <4>2. g[d - 1] \in SUBSET Keys /\ s[d] \in SUBSET Keys
        BY SMT, <2>1, <3>1, <4>1
      <4> QED BY SMT, <3>1, <4>1, <4>2
    <3>4. dirty_keys'[m] \in Seq(SUBSET Keys) /\ Len(dirty_keys'[m]) = d - 1
      BY SMT, <3>1, <3>2, <3>3
    <3>5. \A n \in 1 .. d - 1 : dirty_keys'[m][n] = IF n = d - 1 THEN g[n] \cup s[d] ELSE g[n]
      BY <3>2, <3>3
    <3> QED BY <3>1, <3>4, <3>5 DEF s
  <2> QED BY <2>2, <2>3
<1>4. Depth(Top)' = d - 1 /\ \A m \in Live' : Depth(m)' = d - 1
  BY <1>1, <1>3 DEF Depth
<1>5. ASSUME NEW k \in Keys
      PROVE  /\ WellFormed(changes'[k], d - 1)
             /\ \A n \in 0 .. d - 1 : ViewOf(changes'[k], n) =
                  ViewOf(changes[k], IF n = d - 1 THEN d ELSE n)
             /\ \A n \in 1 .. d - 1 :
                  (\E i \in 1 .. Len(changes'[k]) : changes'[k][i].level = n) <=>
                    \/ \E i \in 1 .. Len(changes[k]) : changes[k][i].level = n
                    \/ n = d - 1 /\ Dirty(k)
             /\ MapOf[k] \notin Live => changes'[k] = <<>>
  <2>1. changes'[k] = Committed(k)
    BY DEF commit_transaction
  <2> QED BY SMT, <1>1, <2>1, CommittedKey
<1>6. ASSUME NEW k \in Keys, MapOf[k] \in Live PROVE DirtyOK(k)'
  <2>1. DirtyOK(k) /\ Len(dirty_keys[MapOf[k]]) = d
    BY <1>6 DEF OverlayInv, Depth
  <2>2. Dirty(k) <=> k \in dirty_keys[MapOf[k]][d]
    BY SMT, <1>1, <1>6, <2>1 DEF Dirty, LastOf
  <2>3. ASSUME NEW n \in 1 .. d - 1
        PROVE  k \in dirty_keys'[MapOf[k]][n] <=>
                   \E i \in 1 .. Len(changes'[k]) : changes'[k][i].level = n
    <3>1. n \in 1 .. d
      BY SMT, <1>1
    <3>2. k \in dirty_keys[MapOf[k]][n] <=> \E i \in 1 .. Len(changes[k]) : changes[k][i].level = n
      BY <2>1, <3>1 DEF DirtyOK
    <3>3. k \in dirty_keys'[MapOf[k]][n] <=>
            k \in dirty_keys[MapOf[k]][n] \/ (n = d - 1 /\ k \in dirty_keys[MapOf[k]][d])
      BY <1>3, <1>6
    <3> QED BY SMTT(20), <1>5, <2>2, <3>2, <3>3
  <2> QED BY <1>4, <2>3 DEF DirtyOK
<1>7. OverlayType'
  <2>1. changes' \in [Keys -> Seq(Entry)]
    <3>1. \A k \in Keys : changes'[k] \in Seq(Entry)
      BY <1>5 DEF WellFormed
    <3> QED BY <3>1 DEF commit_transaction
  <2>2. dirty_keys' \in [Maps -> Seq(SUBSET Keys)]
    <3>1. ASSUME NEW m \in Maps PROVE DirtyCommitted(dirty_keys[m]) \in Seq(SUBSET Keys)
      <4> DEFINE s == dirty_keys[m]
      <4>1. s \in Seq(SUBSET Keys)
        BY DEF OverlayInv, OverlayType
      <4> SUFFICES DirtyCommitted(s) \in Seq(SUBSET Keys)
        OBVIOUS
      <4> HIDE DEF s
      <4>2. CASE Len(s) <= 1
        BY SMT, <4>2 DEF DirtyCommitted
      <4>3. CASE ~(Len(s) <= 1)
        <5>1. /\ FrontOf(s) \in Seq(SUBSET Keys) /\ Len(FrontOf(s)) = Len(s) - 1
              /\ LastOf(s) \in SUBSET Keys /\ Len(s) - 1 \in 1 .. Len(s) - 1
          BY SMT, <4>1, <4>3, FrontFacts DEF LastOf
        <5>2. FrontOf(s)[Len(s) - 1] \cup LastOf(s) \in SUBSET Keys
          BY SMT, <5>1
        <5>3. [FrontOf(s) EXCEPT ![Len(s) - 1] = @ \cup LastOf(s)] \in Seq(SUBSET Keys)
          BY SMT, <5>1, <5>2
        <5> QED BY <4>3, <5>3 DEF DirtyCommitted
      <4> QED BY <4>2, <4>3
    <3> QED BY <3>1 DEF commit_transaction
  <2> QED BY <1>1, <1>2, <2>1, <2>2 DEF OverlayInv, OverlayType
<1> QED BY <1>1, <1>2, <1>4, <1>5, <1>6, <1>7 DEF OverlayInv

\* Handing over to the runtime: all that is open becomes protected.
LEMMA EnterStep ==
  ASSUME OverlayInv, enter_runtime, execution_mode[Top] = "Client"
  PROVE  /\ OverlayInv'
         /\ UNCHANGED <<changes, dirty_keys, panicked>>
         /\ num_client_transactions'[Top] = Depth(Top) /\ execution_mode'[Top] = "Runtime"
<1>1. /\ Live' = Live /\ Live \subseteq Maps /\ Top \in Live
      /\ UNCHANGED <<changes, dirty_keys, children>>
      /\ \A m \in Maps : Depth(m)' = Depth(m) /\ Depth(m) \in Nat
  BY OverlayFacts DEF enter_runtime, Live, Depth
<1>2. panicked' = panicked
  BY DEF enter_runtime, OverlayInv, OverlayType
<1>3. \A m \in Live : /\ num_client_transactions'[m] = Depth(Top)
                      /\ execution_mode'[m] = "Runtime"
  BY <1>1 DEF enter_runtime, OverlayInv
<1>4. OverlayType'
  BY <1>1, <1>2 DEF enter_runtime, OverlayInv, OverlayType
<1>5. \A k \in Keys : DirtyOK(k) => DirtyOK(k)'
  BY <1>1 DEF DirtyOK, Depth
<1> QED BY <1>1, <1>2, <1>3, <1>4, <1>5 DEF OverlayInv

\* Taking over from the runtime.
LEMMA ExitStep ==
  ASSUME OverlayInv, exit_runtime, execution_mode[Top] = "Runtime"
  PROVE  /\ OverlayInv'
         /\ UNCHANGED <<changes, dirty_keys, num_client_transactions, panicked>>
         /\ execution_mode'[Top] = "Client"
<1>1. /\ Live' = Live /\ Live \subseteq Maps /\ Top \in Live
      /\ UNCHANGED <<changes, dirty_keys, num_client_transactions, children>>
      /\ \A m \in Maps : Depth(m)' = Depth(m)
  BY OverlayFacts DEF exit_runtime, Live, Depth
<1>2. panicked' = panicked
  BY DEF exit_runtime, OverlayInv, OverlayType
<1>3. \A m \in Live : execution_mode'[m] = "Client"
  BY <1>1 DEF exit_runtime
<1>4. OverlayType'
  BY <1>1, <1>2 DEF exit_runtime, OverlayInv, OverlayType
<1>5. \A k \in Keys : DirtyOK(k) => DirtyOK(k)'
  BY <1>1 DEF DirtyOK, Depth
<1> QED BY <1>1, <1>2, <1>3, <1>4, <1>5 DEF OverlayInv

\* A new overlay.
LEMMA NewOverlay ==
  ASSUME OverlayInit
  PROVE  OverlayInv /\ ~panicked
<1>1. Top \in Maps /\ \A k \in Keys : MapOf[k] \in Maps
  BY OverlayAssumption DEF Maps
<1>2. OverlayType
  <2>1. <<>> \in Seq(Entry) /\ <<>> \in Seq(SUBSET Keys)
    BY SMT
  <2>2. changes \in [Keys -> Seq(Entry)] /\ dirty_keys \in [Maps -> Seq(SUBSET Keys)]
    BY <2>1 DEF OverlayInit
  <2> QED BY <2>2 DEF OverlayInit, OverlayType
<1>3. Depth(Top) = 0 /\ Live \subseteq Maps
  BY <1>1 DEF OverlayInit, Depth, Live, Maps
<1>4. \A k \in Keys : WellFormed(changes[k], 0) /\ DirtyOK(k)
  BY SMT, <1>3 DEF OverlayInit, WellFormed, DirtyOK
<1> QED BY SMT, <1>1, <1>2, <1>3, <1>4 DEF OverlayInv, OverlayInit, Depth

\* Taking the changes leaves a new overlay.
LEMMA DrainStep ==
  ASSUME OverlayInv, drain, Depth(Top) = 0
  PROVE  /\ OverlayInv' /\ UNCHANGED panicked /\ Depth(Top)' = 0
         /\ num_client_transactions'[Top] = 0 /\ execution_mode'[Top] = "Client"
         /\ \A k \in Keys : changes'[k] = <<>>
<1>1. Top \in Maps /\ \A k \in Keys : MapOf[k] \in Maps
  BY OverlayAssumption DEF Maps
<1>2. panicked' = panicked
  BY SMT, OverlayFacts DEF drain, OverlayInv, OverlayType, Live
<1>3. OverlayType'
  BY SMT, <1>2 DEF drain, OverlayInv, OverlayType
<1>4. Depth(Top)' = 0 /\ (Live \subseteq Maps)'
  BY <1>1 DEF drain, Depth, Live, Maps
<1>5. \A k \in Keys : WellFormed(changes'[k], 0) /\ DirtyOK(k)'
  BY SMT, <1>4 DEF drain, WellFormed, DirtyOK
<1> QED BY <1>1, <1>2, <1>3, <1>4, <1>5 DEF OverlayInv, drain, Depth
=============================================================================
