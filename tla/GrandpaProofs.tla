--------------------------- MODULE GrandpaProofs ---------------------------
(***************************************************************************)
(* Proofs about ForkTree and GrandpaImport, for any tree of blocks and any *)
(* changes they announce.                                                  *)
(***************************************************************************)
EXTENDS GrandpaImport, FiniteSetTheorems, WellFoundedInduction, TLAPS

\* Most steps are first-order; those that need arithmetic, or sequences, say so.
USE Zenon

-----------------------------------------------------------------------------
(* Blocks and trees of them.                                               *)

\* A nonempty set of blocks has a lowest one.
LEMMA LowestBlock ==
  ASSUME NEW T \in SUBSET Blocks, T # {}
  PROVE  \E x \in T : \A y \in T : Number[x] <= Number[y]
<1> DEFINE R == StrictSubsetOrdering(Nat)
           I == {0 .. Number[x] : x \in T}
<1>1. \A x \in T : Number[x] \in Nat
  BY ChainAssumption
<1>2. I \subseteq FiniteSubsetsOf(Nat)
  <2>1. ASSUME NEW x \in T PROVE IsFiniteSet(0 .. Number[x]) /\ 0 .. Number[x] \subseteq Nat
    BY SMT, <1>1, FS_Interval
  <2> QED BY <2>1 DEF FiniteSubsetsOf
<1>3. IsWellFoundedOn(R, FiniteSubsetsOf(Nat))
  BY FS_StrictSubsetOrderingWellFounded
<1>4. I # {}
  OBVIOUS
<1> HIDE DEF I, R
<1>5. PICK s \in I : \A t \in I : <<t, s>> \notin R
  BY <1>2, <1>3, <1>4, WFMin
<1>6. PICK x \in T : s = 0 .. Number[x]
  BY DEF I
<1>7. ASSUME NEW y \in T, ~(Number[x] <= Number[y]) PROVE FALSE
  <2>1. 0 .. Number[y] \in I
    BY DEF I
  <2>2. /\ 0 .. Number[y] \subseteq 0 .. Number[x]
        /\ Number[x] \in 0 .. Number[x] /\ Number[x] \notin 0 .. Number[y]
    BY SMT, <1>1, <1>7
  <2>3. <<0 .. Number[y], s>> \in R
    <3> DEFINE u == 0 .. Number[x]
               v == 0 .. Number[y]
    <3>1. u \in SUBSET Nat /\ v \in SUBSET Nat
      BY SMT, <1>1
    <3>2. v \subseteq u /\ v # u
      BY <2>2
    <3> HIDE DEF u, v
    <3> QED BY <1>6, <3>1, <3>2 DEF R, StrictSubsetOrdering, u, v
  <2> QED BY <1>5, <2>1, <2>3
<1> QED BY <1>7

\* Ancestry: what a branch is.
LEMMA UnderFacts ==
  /\ \A a, b \in Blocks : is_descendent_of(a, b) => Number[a] < Number[b] /\ a # b
  /\ \A a, b, c \in Blocks : Under(a, b) /\ Under(b, c) => Under(a, c)
  /\ \A a, b, c \in Blocks : is_descendent_of(a, b) /\ Under(b, c) => is_descendent_of(a, c)
  /\ \A a, b, c \in Blocks : Under(a, b) /\ is_descendent_of(b, c) => is_descendent_of(a, c)
  /\ \A a, b, c \in Blocks : Under(a, c) /\ Under(b, c) => Under(a, b) \/ Under(b, a)
  /\ \A a, b \in Blocks : Under(a, b) => Number[a] <= Number[b]
<1>1. \A a, b \in Blocks : is_descendent_of(a, b) => Number[a] < Number[b] /\ a # b
  BY SMT, ChainAssumption DEF is_descendent_of
<1>2. \A a, b, c \in Blocks : is_descendent_of(a, b) /\ is_descendent_of(b, c) => is_descendent_of(a, c)
  BY ChainAssumption DEF is_descendent_of
<1>3. \A a, b, c \in Blocks : Under(a, c) /\ Under(b, c) => Under(a, b) \/ Under(b, a)
  BY ChainAssumption DEF is_descendent_of, Under
<1>4. \A b \in Blocks : Number[b] \in Nat
  BY ChainAssumption
<1> QED BY SMT, <1>1, <1>2, <1>3, <1>4 DEF Under

\* Every node is a root or below one.
LEMMA RootAbove ==
  ASSUME NEW t \in Tree, NEW n \in t.nodes
  PROVE  \E r \in roots(t) : Under(r, n)
<1> DEFINE T == {m \in t.nodes : Under(m, n)}
<1>1. T \in SUBSET Blocks /\ n \in T /\ t.nodes \subseteq Blocks
  BY DEF Tree, Under
<1>2. PICK r \in T : \A m \in T : Number[r] <= Number[m]
  BY <1>1, LowestBlock
<1>3. ASSUME NEW m \in Ancestors[r] \cap t.nodes PROVE FALSE
  <2>1. is_descendent_of(m, r) /\ m \in Blocks /\ r \in Blocks /\ n \in Blocks
    BY <1>1 DEF is_descendent_of
  <2>2. m \in T /\ Number[m] < Number[r]
    BY <1>2, <2>1, UnderFacts DEF Under
  <2>3. Number[m] \in Nat /\ Number[r] \in Nat
    BY <2>1, ChainAssumption
  <2> QED BY SMT, <1>2, <2>2, <2>3
<1> QED BY <1>2, <1>3 DEF roots

\* Every node below another is below one of its children, or is one.
LEMMA ChildAbove ==
  ASSUME NEW t \in Tree, NEW h \in t.nodes, NEW n \in t.nodes, is_descendent_of(h, n)
  PROVE  \E c \in children(t, h) : Under(c, n)
<1> DEFINE T == {m \in t.nodes : is_descendent_of(h, m) /\ Under(m, n)}
<1>1. T \in SUBSET Blocks /\ n \in T /\ t.nodes \subseteq Blocks /\ h \in Blocks /\ n \in Blocks
  BY DEF Tree, Under
<1>2. PICK c \in T : \A m \in T : Number[c] <= Number[m]
  BY <1>1, LowestBlock
<1>3. ASSUME NEW q \in t.nodes, is_descendent_of(q, c) PROVE Under(q, h)
  <2>1. q \in Blocks /\ c \in Blocks /\ is_descendent_of(h, c) /\ Under(c, n)
    BY <1>1, <1>2
  <2>2. Under(q, h) \/ Under(h, q)
    BY <1>1, <1>3, <2>1, UnderFacts DEF Under
  <2>3. CASE Under(h, q) /\ q # h
    <3>1. is_descendent_of(h, q) /\ Under(q, n) /\ Number[q] < Number[c]
      BY <1>1, <1>3, <2>1, <2>3, UnderFacts DEF Under
    <3>2. Number[q] \in Nat /\ Number[c] \in Nat
      BY <2>1, ChainAssumption
    <3> QED BY SMT, <1>2, <3>1, <3>2
  <2> QED BY <2>2, <2>3 DEF Under
<1>4. h \in Parents(t, c)
  BY <1>2, <1>3 DEF Parents
<1> QED BY <1>2, <1>4 DEF children


\* Two roots are on no common branch.
LEMMA RootsApart ==
  ASSUME NEW t \in Tree, NEW r \in roots(t), NEW s \in roots(t), NEW n \in Blocks,
         Under(r, n), Under(s, n)
  PROVE  r = s
<1>1. r \in t.nodes /\ s \in t.nodes /\ r \in Blocks /\ s \in Blocks
  BY DEF roots, Tree
<1>2. Under(r, s) \/ Under(s, r)
  BY <1>1, UnderFacts
<1> QED BY <1>1, <1>2 DEF roots, Under, is_descendent_of

\* The nodes that are still of interest once `b' is final.
OnBranch(t, b) == {n \in t.nodes : Under(b, n) \/ Under(n, b)}

\* finalize_with_descendent_if takes at most one node, a root of the branch of
\* the final block that satisfies the predicate, and loses no other node of
\* that branch; if it takes one it leaves the nodes of that branch only, and if
\* it reports no change the tree has the same nodes.
THEOREM FinalizeKeepsBranch ==
  ASSUME NEW t \in Tree, NEW b \in Blocks, NEW P,
         finalize_with_descendent_if(t, b, P).err = "none"
  PROVE  LET r == finalize_with_descendent_if(t, b, P)
         IN  /\ r.tree \in Tree /\ r.tree.best = Number[b] /\ r.changed \in BOOLEAN
             /\ r.data \subseteq {n \in roots(t) \cap P : Under(n, b)}
             /\ \A m, n \in r.data : m = n
             /\ OnBranch(t, b) \ r.data \subseteq r.tree.nodes
             /\ r.tree.nodes \subseteq t.nodes \ r.data
             /\ r.data # {} => r.changed /\ r.tree.nodes = OnBranch(t, b) \ r.data
             /\ ~r.changed => r.tree.nodes = t.nodes
<1> DEFINE hit == {n \in roots(t) \cap P : Under(n, b)}
           R == IF hit = {} THEN roots(t) ELSE UNION {children(t, h) : h \in hit}
           keep == Retained(R, b)
           r == finalize_with_descendent_if(t, b, P)
<1>1. /\ t.nodes \subseteq Blocks /\ roots(t) \subseteq t.nodes
      /\ \A h : children(t, h) \subseteq t.nodes
  BY DEF Tree, roots, children
<1>2. ~(Number[b] <= t.best) /\ ~(\E h \in hit : Skips(t, h, b))
  BY DEF finalize_with_descendent_if
<1>3. r = [tree |-> [nodes |-> Subtrees(t, keep), best |-> Number[b]], err |-> "none",
           data |-> hit, changed |-> hit # {} \/ keep # R]
  BY <1>2 DEF finalize_with_descendent_if
<1>4. R \subseteq t.nodes /\ R \subseteq Blocks
  BY <1>1
<1>5. \A m \in R : m \in keep <=> Under(b, m) \/ Under(m, b)
  <2>1. ASSUME NEW m \in R PROVE is_descendent_of(b, m) => Number[m] > Number[b]
    <3>1. m \in Blocks /\ Number[m] \in Nat /\ Number[b] \in Nat
      BY <1>4, ChainAssumption
    <3> QED BY <3>1, UnderFacts
  <2> QED BY <2>1 DEF Retained, Under
<1>6. \A m, n \in hit : m = n
  BY RootsApart
<1>7. Subtrees(t, keep) \subseteq t.nodes
  BY DEF Subtrees
<1>8. CASE hit = {}
  <2>1. ASSUME NEW n \in OnBranch(t, b) PROVE n \in Subtrees(t, keep)
    <3>1. n \in t.nodes /\ n \in Blocks /\ (Under(b, n) \/ Under(n, b))
      BY <1>1 DEF OnBranch
    <3>2. PICK m \in roots(t) : Under(m, n)
      BY <3>1, RootAbove
    <3>3. m \in Blocks
      BY <1>1
    <3>4. Under(b, m) \/ Under(m, b)
      BY <3>1, <3>2, <3>3, UnderFacts
    <3> QED BY <1>5, <1>8, <3>1, <3>2, <3>4 DEF Subtrees
  <2>2. ASSUME keep = R PROVE Subtrees(t, keep) = t.nodes
    BY <1>7, <1>8, <2>2, RootAbove DEF Subtrees
  <2>3. /\ r.tree.nodes = Subtrees(t, keep) /\ r.tree.best = Number[b] /\ r.data = {}
        /\ r.tree = [nodes |-> Subtrees(t, keep), best |-> Number[b]]
        /\ r.changed = (keep # R)
    BY SMT, <1>3, <1>8
  <2>4. r.tree \in Tree
    <3>1. Number[b] \in Nat /\ Subtrees(t, keep) \subseteq Blocks
      BY <1>1, <1>7, ChainAssumption
    <3> QED BY <2>3, <3>1 DEF Tree
  <2> HIDE DEF hit, R, keep, r
  <2>5. /\ OnBranch(t, b) \ r.data \subseteq r.tree.nodes
        /\ r.tree.nodes \subseteq t.nodes \ r.data
        /\ ~r.changed => r.tree.nodes = t.nodes
    BY <1>7, <2>1, <2>2, <2>3
  <2> QED BY <2>3, <2>4, <2>5 DEF r
<1>9. CASE hit # {}
  <2>1. PICK h \in hit : hit = {h}
    BY <1>6, <1>9
  <2>2. h \in roots(t) /\ h \in t.nodes /\ h \in Blocks /\ Under(h, b) /\ R = children(t, h)
    BY <1>1, <2>1
  <2>3. \A c \in children(t, h) : ~Under(c, b) /\ is_descendent_of(h, c)
    <3>1. ASSUME NEW c \in children(t, h) PROVE ~Under(c, b)
      <4>1. Under(c, b) => Number[c] <= Number[b]
        BY <1>1, UnderFacts
      <4> QED BY <1>2, <2>1, <4>1 DEF Skips
    <3> QED BY <3>1 DEF children, Parents
  <2>4. ASSUME NEW n \in t.nodes, n # h PROVE n \in Subtrees(t, keep) <=> Under(b, n) \/ Under(n, b)
    <3>1. n \in Blocks
      BY <1>1
    <3>2. ASSUME n \in Subtrees(t, keep) PROVE Under(b, n)
      <4>1. PICK c \in keep : Under(c, n)
        BY <3>2 DEF Subtrees
      <4>2. c \in R /\ c \in Blocks
        BY <1>4, <4>1 DEF Retained
      <4>3. Under(b, c)
        BY <1>5, <2>2, <2>3, <4>1, <4>2
      <4> QED BY <3>1, <4>1, <4>2, <4>3, UnderFacts
    <3>3. ASSUME Under(b, n) \/ Under(n, b) PROVE n \in Subtrees(t, keep)
      <4>1. Under(h, n)
        <5>1. Under(h, n) \/ Under(n, h)
          BY <2>2, <3>1, <3>3, UnderFacts
        <5> QED BY <2>2, <2>4, <5>1 DEF roots, Under, is_descendent_of
      <4>2. is_descendent_of(h, n)
        BY <2>4, <4>1 DEF Under
      <4>3. PICK c \in children(t, h) : Under(c, n)
        BY <2>2, <4>2, ChildAbove
      <4>4. c \in Blocks /\ (Under(b, c) \/ Under(c, b))
        BY <1>1, <3>1, <3>3, <4>3, UnderFacts
      <4> QED BY <1>5, <2>2, <4>3, <4>4 DEF Subtrees
    <3> QED BY <3>2, <3>3
  <2>5. h \notin Subtrees(t, keep)
    <3>1. ASSUME h \in Subtrees(t, keep) PROVE FALSE
      <4>1. PICK c \in keep : Under(c, h)
        BY <3>1 DEF Subtrees
      <4>2. c \in R /\ c \in Blocks /\ is_descendent_of(h, c)
        BY <1>4, <2>2, <2>3, <4>1 DEF Retained
      <4>3. is_descendent_of(h, h)
        BY <2>2, <4>1, <4>2, UnderFacts
      <4> QED BY <2>2, <4>3, UnderFacts
    <3> QED BY <3>1
  <2>6. Subtrees(t, keep) = OnBranch(t, b) \ {h}
    BY <1>7, <2>4, <2>5 DEF OnBranch
  <2>7. /\ r.tree = [nodes |-> OnBranch(t, b) \ {h}, best |-> Number[b]] /\ r.data = {h}
        /\ r.changed = TRUE
    <3> HIDE DEF hit, R, keep, r
    <3> QED BY <1>3, <1>9, <2>1, <2>6
  <2>8. r.tree \in Tree
    <3>1. Number[b] \in Nat /\ OnBranch(t, b) \ {h} \subseteq Blocks
      BY <1>1, ChainAssumption DEF OnBranch
    <3> QED BY SMT, <2>7, <3>1 DEF Tree
  <2>9. h \in roots(t) \cap P /\ Under(h, b)
    BY <2>1
  <2> HIDE DEF hit, R, keep, r
  <2>10. OnBranch(t, b) \ {h} \subseteq t.nodes \ {h}
    BY DEF OnBranch
  <2>11. /\ r.tree.nodes = OnBranch(t, b) \ {h} /\ r.tree.best = Number[b]
    BY SMT, <2>7
  <2> QED BY <2>7, <2>8, <2>9, <2>10, <2>11 DEF r
<1> QED BY <1>8, <1>9


-----------------------------------------------------------------------------
(* The authority set of a node that has not synced a state: in memory, on   *)
(* disk, and put aside.                                                     *)

\* The same set up to the number of the last finalized block.
Same(s, t) ==
  /\ s.who = t.who /\ s.set_id = t.set_id /\ s.standard.nodes = t.standard.nodes
  /\ s.forced = t.forced /\ s.changes = t.changes

\* Applied and Viable for any blocks S on disk and `fin' finalized.
AppliedIn(ch, S) == {f \in ForcedBlocks(ch) \cap S :
                       \E e \in S : Under(f, e) /\ Number[e] >= effective_number(ch, f)}
ViableIn(ch, S, fin, c) ==
  /\ \/ is_descendent_of(fin, c)
     \/ ch[c].kind = "standard" /\ Under(c, fin) /\ effective_number(ch, c) > Number[fin]
  /\ \A f \in AppliedIn(ch, S) : Under(f, c) /\ Number[c] > effective_number(ch, f)
\* The pending changes N and F are right for S and `fin', and none of F is late.
Has(ch, N, F, S, fin) ==
  /\ N \cup F \subseteq S
  /\ \A c \in S : ViableIn(ch, S, fin, c) => /\ ch[c].kind = "standard" => c \in N
                                             /\ ch[c].kind = "forced" => c \in F
  /\ \A f \in F : ch[f].kind = "forced" /\ f \notin AppliedIn(ch, S)
HasIn(s, S) == Has(change, s.standard.nodes, s.forced, S, finalized)

IsActivity(x) ==
  /\ DOMAIN x = {"pc", "block", "just", "old", "applied", "set_id"}
  /\ x.block \in Blocks /\ x.pc # "old"
Importing(x) == x.pc \in {"make", "write"}
\* Blocks on disk come with their ancestors; those being imported are new, are
\* children of such blocks, and each has one importer.
ChainInv ==
  /\ setup \in Setups
  /\ imported \subseteq Blocks /\ finalized \in imported
  /\ \A b \in imported : Ancestors[b] \subseteq imported
  /\ imp = [i \in Importers |-> imp[i]]
  /\ \A i \in Importers :
       /\ IsActivity(imp[i])
       /\ Importing(imp[i]) => imp[i].block \notin imported /\ ParentIn(imp[i].block, imported)
       /\ \A k \in Importers \ {i} : Importing(imp[i]) /\ Importing(imp[k]) =>
                                       imp[i].block # imp[k].block
\* The importer that has the lock, and no other, has put a set aside, that on disk.
LockInv ==
  /\ auth \in AuthoritySets /\ disk.auth \in AuthoritySets
  /\ disk = [auth |-> disk.auth, paused |-> disk.paused]
  /\ \A i \in Importers :
       /\ lock # i => imp[i].old = {}
       /\ lock = i => /\ imp[i].pc = "write"
                      /\ \E s \in AuthoritySets : imp[i].old = {s} /\ Same(s, disk.auth)
  /\ lock \in Importers \cup {Free}
  /\ lock = Free => Same(auth, disk.auth)
Plain(ch, F, b) ==
  /\ ch[b].kind = "none"
  /\ \A f \in F : ~(Under(f, b) /\ Number[b] >= effective_number(ch, f))
\* What is pending on disk is right for the blocks on disk; in memory, once the
\* block is written for which the lock is held.  A block that is written
\* without the set makes no difference to it.
PendingInv ==
  /\ HasIn(disk.auth, imported)
  /\ \A i \in Importers : lock = i => HasIn(auth, imported \cup {imp[i].block})
  /\ \A i \in Importers : imp[i].pc = "write" /\ lock # i =>
       Plain(change, auth.forced, imp[i].block) /\ Plain(change, disk.auth.forced, imp[i].block)
IInv == ChainInv /\ LockInv /\ PendingInv


\* What importing a block does to the set: it puts a forced change in place, or
\* adds the change the block announces.
LEMMA ChangesFacts ==
  ASSUME NEW s \in AuthoritySets, NEW ch \in [Blocks -> Digest], NEW b \in Blocks,
         Changes(s, ch, b).err = "none"
  PROVE  LET c == Changes(s, ch, b)
             F == s.forced \cup (IF ch[b].kind = "forced" THEN {b} ELSE {})
         IN  /\ c.set \in AuthoritySets
             /\ c.applied = "forced" =>
                  /\ c.set.standard.nodes = {} /\ c.set.forced = {}
                  /\ \E f \in F : effective_number(ch, f) = Number[b] /\ Under(f, b)
             /\ c.applied # "forced" =>
                  /\ c.set.standard.nodes
                       = s.standard.nodes \cup (IF ch[b].kind = "standard" THEN {b} ELSE {})
                  /\ c.set.forced = F
                  /\ \A f \in F : ~(effective_number(ch, f) = Number[b] /\ Under(f, b))
                  /\ ch[b].kind = "none" => c.set = s
<1> DEFINE c == Changes(s, ch, b)
           F == s.forced \cup (IF ch[b].kind = "forced" THEN {b} ELSE {})
           added == add_pending_change(s, ch, b)
           a == added.set
           forced == apply_forced_changes(a, ch, b)
           enacts == enacts_standard_change(a, ch, b)
<1>0. /\ ch[b] \in Digest /\ s.standard \in Tree /\ s.standard.nodes \subseteq Blocks
      /\ s.forced \subseteq Blocks /\ s.set_id \in Nat /\ s.changes \in Seq(Nat \X Nat)
      /\ ch[b].kind \in {"none", "standard", "forced"}
  BY DEF AuthoritySets, Tree, Digest
<1>1. /\ added.err = "none" /\ forced.err = "none"
      /\ forced.forced # {} => c.set = forced.set /\ c.applied = "forced"
      /\ forced.forced = {} => c.set = a /\ c.applied = enacts.tree
  <2>1. c = IF added.err # "none" THEN [set |-> s, err |-> added.err, applied |-> "none"]
            ELSE IF forced.err # "none" THEN [set |-> s, err |-> forced.err, applied |-> "none"]
            ELSE IF forced.forced # {}
            THEN [set |-> forced.set, err |-> "none", applied |-> "forced"]
            ELSE IF enacts.err # "none" THEN [set |-> s, err |-> enacts.err, applied |-> "none"]
            ELSE [set |-> a, err |-> "none", applied |-> enacts.tree]
    BY DEF Changes
  <2>2. c.err = "none"
    OBVIOUS
  <2> HIDE DEF c, added, forced, enacts, a
  <2> QED BY <2>1, <2>2
<1>2. /\ a \in AuthoritySets /\ a.forced = F
      /\ a.standard.nodes = s.standard.nodes \cup (IF ch[b].kind = "standard" THEN {b} ELSE {})
      /\ ch[b].kind = "none" => a = s
  <2>1. CASE ch[b].kind = "none"
    BY <2>1 DEF add_pending_change, Set
  <2>2. CASE ch[b].kind = "standard"
    <3>1. added = add_standard_change(s, b)
      BY <2>2 DEF add_pending_change
    <3>2. /\ import(s.standard, b).tree = [s.standard EXCEPT !.nodes = @ \cup {b}]
          /\ a = [s EXCEPT !.standard = import(s.standard, b).tree]
      BY SMT, <1>1, <3>1 DEF add_standard_change, import, Ok, Err, Set, Failed
    <3>3. import(s.standard, b).tree \in Tree
      BY SMT, <1>0, <3>2 DEF Tree
    <3> QED BY <1>0, <2>2, <3>2, <3>3 DEF AuthoritySets, Tree
  <2>3. CASE ch[b].kind = "forced"
    <3>1. added = add_forced_change(s, b)
      BY <2>3 DEF add_pending_change
    <3>2. a = [s EXCEPT !.forced = @ \cup {b}]
      BY SMT, <1>1, <3>1 DEF add_forced_change, Set, Failed
    <3>3. s.forced \cup {b} \subseteq Blocks /\ F = s.forced \cup {b}
      BY <1>0, <2>3
    <3> HIDE DEF F
    <3>4. a.forced = F /\ a.standard = s.standard /\ a \in AuthoritySets
      BY <3>2, <3>3 DEF AuthoritySets
    <3> QED BY <2>3, <3>4
  <2> QED BY <1>0, <2>1, <2>2, <2>3
<1>3. enacts.tree # "forced"
  BY DEF enacts_standard_change, finalizes_any_with_descendent_if, Ok, Err
<1> HIDE DEF c, added, a, enacts
<1>4. CASE forced.forced = {}
  <2>1. ForcedAt(a, ch, b) = {}
    BY <1>1, <1>4 DEF apply_forced_changes
  <2>2. c.set = a /\ c.applied # "forced"
    BY <1>1, <1>3, <1>4
  <2> QED BY <1>2, <2>1, <2>2 DEF ForcedAt, c
<1>5. CASE forced.forced # {}
  <2>1. /\ ForcedAt(a, ch, b) # {}
        /\ forced.set = [who |-> CHOOSE x \in ForcedAt(a, ch, b) : TRUE, set_id |-> a.set_id + 1,
                         standard |-> NewTree, forced |-> {},
                         changes |-> append(a.changes, a.set_id,
                                            ch[CHOOSE x \in ForcedAt(a, ch, b) : TRUE].median)]
    BY <1>1, <1>5 DEF apply_forced_changes
  <2>2. PICK f \in ForcedAt(a, ch, b) : f = CHOOSE x \in ForcedAt(a, ch, b) : TRUE
    BY <2>1
  <2>3. f \in F /\ effective_number(ch, f) = Number[b] /\ Under(f, b) /\ f \in Blocks
    BY <1>0, <1>2, <2>2 DEF ForcedAt
  <2>4. ch[f].median \in Nat /\ a.set_id \in Nat /\ a.changes \in Seq(Nat \X Nat)
    BY <1>2, <2>3 DEF Digest, AuthoritySets
  <2>5. append(a.changes, a.set_id, ch[f].median) \in Seq(Nat \X Nat)
    BY SMT, <2>4 DEF append
  <2>6. NewTree \in Tree /\ NewTree.nodes = {}
    BY DEF NewTree, Tree
  <2>7. forced.set \in AuthoritySets /\ forced.set.standard.nodes = {} /\ forced.set.forced = {}
    BY SMT, <2>1, <2>2, <2>3, <2>4, <2>5, <2>6 DEF AuthoritySets
  <2>8. c.set = forced.set /\ c.applied = "forced"
    BY <1>1, <1>5
  <2> QED BY <2>3, <2>7, <2>8 DEF c
<1> QED BY <1>4, <1>5

\* What finalizing a block does to it: if there is nothing to write the set is
\* the same.
LEMMA StandardFacts ==
  ASSUME NEW s \in AuthoritySets, NEW ch \in [Blocks -> Digest], NEW b \in Blocks,
         apply_standard_changes(s, ch, b).err = "none"
  PROVE  LET r == apply_standard_changes(s, ch, b)
         IN  /\ r.set \in AuthoritySets /\ r.changed \in BOOLEAN
             /\ ~r.changed => Same(r.set, s)
             /\ r.set.standard.nodes \subseteq s.standard.nodes /\ r.set.forced \subseteq s.forced
             /\ \A n \in OnBranch(s.standard, b) :
                  effective_number(ch, n) > Number[b] \/ ~Under(n, b) => n \in r.set.standard.nodes
             /\ \A f \in s.forced : effective_number(ch, f) > Number[b] /\ is_descendent_of(b, f) =>
                  f \in r.set.forced
<1> DEFINE P == {c \in Blocks : effective_number(ch, c) <= Number[b]}
           u == finalize_with_descendent_if(s.standard, b, P)
           r == apply_standard_changes(s, ch, b)
           kept == {f \in s.forced : effective_number(ch, f) > Number[b] /\ is_descendent_of(b, f)}
           c == CHOOSE x \in u.data : TRUE
           pruned == [s EXCEPT !.standard = u.tree, !.forced = IF u.changed THEN kept ELSE @]
<1>1. /\ s.standard \in Tree /\ s.standard.nodes \subseteq Blocks /\ s.forced \subseteq Blocks
      /\ s.set_id \in Nat /\ s.changes \in Seq(Nat \X Nat) /\ s.who \in Blocks
  BY DEF AuthoritySets, Tree
<1>2. u.err = "none"
  BY DEF apply_standard_changes
<1>3. /\ u.tree \in Tree /\ u.changed \in BOOLEAN
      /\ u.data \subseteq {n \in roots(s.standard) \cap P : Under(n, b)}
      /\ OnBranch(s.standard, b) \ u.data \subseteq u.tree.nodes
      /\ u.tree.nodes \subseteq s.standard.nodes
      /\ u.data # {} => u.changed
      /\ ~u.changed => u.tree.nodes = s.standard.nodes
  <2> HIDE DEF P
  <2> QED BY SMT, <1>1, <1>2, FinalizeKeepsBranch
<1>4. IF u.data = {}
      THEN r = [set |-> pruned, err |-> "none", new |-> {}, changed |-> u.changed]
      ELSE r = [set |-> [pruned EXCEPT !.who = c, !.set_id = @ + 1,
                                      !.changes = append(@, s.set_id, Number[b])],
                err |-> "none", new |-> u.data, changed |-> TRUE]
  BY <1>2 DEF apply_standard_changes
<1>5. \A n \in u.data : n \in Blocks /\ effective_number(ch, n) <= Number[b] /\ Under(n, b)
  BY <1>3
<1>6. ASSUME NEW n \in OnBranch(s.standard, b), effective_number(ch, n) > Number[b] \/ ~Under(n, b)
      PROVE  n \in u.tree.nodes
  <2>1. n \in Blocks /\ effective_number(ch, n) \in Nat /\ Number[b] \in Nat
    <3>1. n \in Blocks
      BY <1>1 DEF OnBranch
    <3> QED BY SMT, <3>1, ChainAssumption DEF effective_number, Digest
  <2>2. n \notin u.data
    <3> HIDE DEF u
    <3> QED BY SMT, <1>5, <1>6, <2>1
  <2> QED BY <1>3, <2>2
<1> HIDE DEF u, r, P
<1>7. /\ pruned \in AuthoritySets /\ pruned.standard = u.tree
      /\ pruned.forced = IF u.changed THEN kept ELSE s.forced
      /\ pruned.who = s.who /\ pruned.set_id = s.set_id /\ pruned.changes = s.changes
  BY <1>1, <1>3 DEF AuthoritySets
<1> HIDE DEF pruned, kept
<1>8. /\ r.set \in AuthoritySets /\ r.set.standard = u.tree /\ r.set.forced = pruned.forced
      /\ r.changed = u.changed
      /\ ~u.changed => r.set = pruned
  <2>1. CASE u.data = {}
    BY SMT, <1>3, <1>4, <1>7, <2>1
  <2>2. CASE u.data # {}
    <3>1. c \in Blocks /\ Number[b] \in Nat
      BY <1>5, <2>2, ChainAssumption
    <3> HIDE DEF c
    <3>2. append(s.changes, s.set_id, Number[b]) \in Seq(Nat \X Nat)
      BY SMT, <1>1, <3>1 DEF append
    <3>3. r.set = [pruned EXCEPT !.who = c, !.set_id = @ + 1,
                                !.changes = append(@, s.set_id, Number[b])]
          /\ r.changed = TRUE
      BY SMT, <1>4, <2>2
    <3>4. /\ r.set = [who |-> c, set_id |-> s.set_id + 1, standard |-> pruned.standard,
                      forced |-> pruned.forced,
                      changes |-> append(s.changes, s.set_id, Number[b])]
          /\ pruned.standard \in Tree /\ pruned.forced \subseteq Blocks
      <4>1. /\ pruned = [who |-> s.who, set_id |-> s.set_id, standard |-> pruned.standard,
                         forced |-> pruned.forced, changes |-> s.changes]
            /\ pruned.standard \in Tree /\ pruned.forced \subseteq Blocks
        BY <1>7 DEF AuthoritySets
      <4> DEFINE n == s.set_id + 1
                 l == append(s.changes, s.set_id, Number[b])
      <4>2. r.set = [pruned EXCEPT !.who = c, !.set_id = n, !.changes = l]
        BY <1>7, <3>3
      <4> HIDE DEF n, l
      <4>3. r.set = [who |-> c, set_id |-> n, standard |-> pruned.standard,
                     forced |-> pruned.forced, changes |-> l]
        BY <4>1, <4>2
      <4> QED BY <4>1, <4>3 DEF n, l
    <3>5. r.set \in AuthoritySets /\ r.set.standard = pruned.standard
          /\ r.set.forced = pruned.forced
      BY SMT, <1>1, <3>1, <3>2, <3>4 DEF AuthoritySets
    <3> QED BY <1>3, <1>7, <2>2, <3>3, <3>5
  <2> QED BY <2>1, <2>2
<1>9. ~r.changed => Same(r.set, s)
  BY <1>3, <1>7, <1>8 DEF Same
<1>10. r.set.forced \subseteq s.forced /\ \A f \in kept : f \in r.set.forced
  BY <1>7, <1>8 DEF kept
<1> QED BY <1>3, <1>6, <1>8, <1>9, <1>10 DEF r, kept


-----------------------------------------------------------------------------
(* The pending changes and the chain.                                       *)

\* A change takes effect at its block or above.
LEMMA EffectiveFacts ==
  ASSUME NEW ch \in [Blocks -> Digest], NEW c \in Blocks
  PROVE  effective_number(ch, c) \in Nat /\ Number[c] \in Nat /\ Number[c] <= effective_number(ch, c)
BY SMT, ChainAssumption DEF effective_number, Digest

\* With more blocks no more changes are viable.
LEMMA ViableShrinks ==
  ASSUME NEW ch, NEW S, NEW T, S \subseteq T, NEW fin, NEW c, ViableIn(ch, T, fin, c)
  PROVE  ViableIn(ch, S, fin, c)
<1>1. AppliedIn(ch, S) \subseteq AppliedIn(ch, T)
  BY DEF AppliedIn
<1> QED BY <1>1 DEF ViableIn

\* A block that announces nothing and is below no change that is due.
LEMMA HasPlain ==
  ASSUME NEW ch, NEW S, NEW b, NEW N, NEW F, NEW fin, Has(ch, N, F, S, fin), Plain(ch, F, b)
  PROVE  Has(ch, N, F, S \cup {b}, fin)
<1>1. \A c : ViableIn(ch, S \cup {b}, fin, c) => ViableIn(ch, S, fin, c)
  BY ViableShrinks
<1>2. ASSUME NEW f \in F PROVE f \notin AppliedIn(ch, S \cup {b})
  BY DEF Has, Plain, AppliedIn
<1> QED BY <1>1, <1>2 DEF Has, Plain

\* A forced change that is not late is due at no block above the next one.
LEMMA DueAtChild ==
  ASSUME NEW ch \in [Blocks -> Digest], NEW S \in SUBSET Blocks, NEW b \in Blocks,
         ParentIn(b, S), NEW f \in S, f # b, ch[f].kind = "forced", f \notin AppliedIn(ch, S),
         Under(f, b), Number[b] >= effective_number(ch, f)
  PROVE  effective_number(ch, f) = Number[b]
<1>1. PICK p \in S : Ancestors[b] = Line(p)
  BY DEF ParentIn
<1>2. p \in Blocks /\ f \in Blocks /\ Number[p] \in Nat /\ Number[b] \in Nat
  BY ChainAssumption
<1>3. Number[b] = Number[p] + 1
  BY <1>1, <1>2, HeightAssumption
<1>4. Under(f, p)
  BY <1>1 DEF Under, is_descendent_of, Line
<1>5. ~(Number[p] >= effective_number(ch, f))
  BY <1>2, <1>4 DEF AppliedIn, ForcedBlocks
<1>6. effective_number(ch, f) \in Nat
  BY <1>2, EffectiveFacts
<1> QED BY SMT, <1>2, <1>3, <1>5, <1>6

\* A new block whose change is added while no forced change is due at it.
LEMMA HasAnnounced ==
  ASSUME NEW ch \in [Blocks -> Digest], NEW S \in SUBSET Blocks, NEW b \in Blocks, b \notin S,
         ParentIn(b, S), \A a \in S : Ancestors[a] \subseteq S, NEW N, NEW F, NEW fin,
         Has(ch, N, F, S, fin),
         \A f \in F \cup (IF ch[b].kind = "forced" THEN {b} ELSE {}) :
           ~(effective_number(ch, f) = Number[b] /\ Under(f, b))
  PROVE  Has(ch, N \cup (IF ch[b].kind = "standard" THEN {b} ELSE {}),
             F \cup (IF ch[b].kind = "forced" THEN {b} ELSE {}), S \cup {b}, fin)
<1> DEFINE M == N \cup (IF ch[b].kind = "standard" THEN {b} ELSE {})
           G == F \cup (IF ch[b].kind = "forced" THEN {b} ELSE {})
<1>1. ASSUME NEW f \in F PROVE ~(Under(f, b) /\ Number[b] >= effective_number(ch, f))
  <2>1. f \in S /\ f # b /\ ch[f].kind = "forced" /\ f \notin AppliedIn(ch, S)
    BY DEF Has
  <2> QED BY SMT, <2>1, DueAtChild
<1>2. ASSUME NEW f \in F PROVE ch[f].kind = "forced" /\ f \notin AppliedIn(ch, S \cup {b})
  BY <1>1 DEF Has, AppliedIn
<1>3. ASSUME ch[b].kind = "forced" PROVE b \notin AppliedIn(ch, S \cup {b})
  <2>1. ~(effective_number(ch, b) = Number[b])
    BY <1>3 DEF Under
  <2>2. ~(Number[b] >= effective_number(ch, b))
    BY SMT, <2>1, EffectiveFacts
  <2>3. \A e \in S : ~Under(b, e)
    BY DEF Under, is_descendent_of
  <2> QED BY <2>2, <2>3 DEF AppliedIn
<1>4. \A c : ViableIn(ch, S \cup {b}, fin, c) => ViableIn(ch, S, fin, c)
  BY ViableShrinks
<1>5. M \cup G \subseteq S \cup {b}
  BY DEF Has
<1>6. \A f \in G : ch[f].kind = "forced" /\ f \notin AppliedIn(ch, S \cup {b})
  BY <1>2, <1>3
<1>7. ASSUME NEW c \in S \cup {b}, ViableIn(ch, S \cup {b}, fin, c)
      PROVE  (ch[c].kind = "standard" => c \in M) /\ (ch[c].kind = "forced" => c \in G)
  <2>1. CASE c = b
    BY <2>1
  <2>2. CASE c \in S
    BY <1>4, <1>7, <2>2 DEF Has
  <2> QED BY <2>1, <2>2
<1> HIDE DEF M, G
<1>8. Has(ch, M, G, S \cup {b}, fin)
  BY <1>5, <1>6, <1>7 DEF Has
<1> QED BY <1>8 DEF M, G

\* A new block that puts a forced change in place leaves no change viable.
LEMMA HasForced ==
  ASSUME NEW ch \in [Blocks -> Digest], NEW S \in SUBSET Blocks, NEW b \in Blocks, b \notin S,
         \A a \in S : Ancestors[a] \subseteq S, NEW N, NEW F, NEW fin, Has(ch, N, F, S, fin),
         NEW f \in F \cup (IF ch[b].kind = "forced" THEN {b} ELSE {}),
         effective_number(ch, f) = Number[b], Under(f, b)
  PROVE  Has(ch, {}, {}, S \cup {b}, fin)
<1>1. f \in S \cup {b} /\ ch[f].kind = "forced" /\ f \in Blocks /\ (f \in S => f \notin AppliedIn(ch, S))
  BY DEF Has
<1>2. Number[b] \in Nat
  BY ChainAssumption
<1>3. f \in AppliedIn(ch, S \cup {b})
  BY SMT, <1>1, <1>2 DEF AppliedIn, ForcedBlocks
<1>4. ASSUME NEW c \in S \cup {b}, ViableIn(ch, S \cup {b}, fin, c) PROVE FALSE
  <2>1. Under(f, c) /\ Number[c] > Number[b]
    BY <1>3, <1>4 DEF ViableIn
  <2>2. c \in S /\ c \in Blocks /\ Number[c] \in Nat
    BY SMT, <1>2, <2>1, ChainAssumption
  <2>3. f \in S
    <3>1. CASE f = b
      BY <2>1, <2>2, <3>1 DEF Under, is_descendent_of
    <3> QED BY <1>1, <3>1
  <2>4. f \in AppliedIn(ch, S)
    BY SMT, <1>1, <1>2, <2>1, <2>2, <2>3 DEF AppliedIn, ForcedBlocks
  <2> QED BY <1>1, <2>3, <2>4
<1> QED BY <1>4 DEF Has

\* Finalizing a block.
LEMMA HasFinalized ==
  ASSUME NEW s \in AuthoritySets, NEW ch \in [Blocks -> Digest], NEW b \in Blocks,
         NEW S \in SUBSET Blocks, NEW fin \in Blocks, is_descendent_of(fin, b),
         Has(ch, s.standard.nodes, s.forced, S, fin),
         apply_standard_changes(s, ch, b).err = "none"
  PROVE  LET r == apply_standard_changes(s, ch, b)
         IN  Has(ch, r.set.standard.nodes, r.set.forced, S, b)
<1> DEFINE r == apply_standard_changes(s, ch, b)
<1>1. /\ r.set.standard.nodes \subseteq s.standard.nodes /\ r.set.forced \subseteq s.forced
      /\ \A n \in OnBranch(s.standard, b) :
           effective_number(ch, n) > Number[b] \/ ~Under(n, b) => n \in r.set.standard.nodes
      /\ \A f \in s.forced : effective_number(ch, f) > Number[b] /\ is_descendent_of(b, f) =>
           f \in r.set.forced
  BY StandardFacts
<1> HIDE DEF r
<1>2. Number[b] \in Nat /\ Number[fin] \in Nat /\ Number[fin] < Number[b]
  BY ChainAssumption, UnderFacts
<1>3. ASSUME NEW c \in S, ViableIn(ch, S, b, c) PROVE ViableIn(ch, S, fin, c)
  <2>1. c \in Blocks /\ effective_number(ch, c) \in Nat
    BY EffectiveFacts
  <2>2. CASE is_descendent_of(b, c)
    <3>1. is_descendent_of(fin, c)
      BY <2>1, <2>2, UnderFacts DEF Under
    <3> QED BY <1>3, <3>1 DEF ViableIn
  <2>3. CASE ch[c].kind = "standard" /\ Under(c, b) /\ effective_number(ch, c) > Number[b]
    <3>1. Under(c, fin) \/ is_descendent_of(fin, c)
      BY <2>1, <2>3, UnderFacts DEF Under
    <3>2. effective_number(ch, c) > Number[fin]
      BY SMT, <1>2, <2>1, <2>3
    <3> QED BY <1>3, <2>3, <3>1, <3>2 DEF ViableIn
  <2> QED BY <1>3, <2>2, <2>3 DEF ViableIn
<1>4. ASSUME NEW c \in S, ViableIn(ch, S, b, c), ch[c].kind = "standard"
      PROVE  c \in r.set.standard.nodes
  <2>1. c \in s.standard.nodes /\ c \in Blocks
    BY <1>3, <1>4 DEF Has
  <2>2. CASE is_descendent_of(b, c)
    <3>1. ~Under(c, b)
      BY <2>1, <2>2, UnderFacts
    <3> QED BY <1>1, <2>1, <2>2, <3>1 DEF OnBranch, Under
  <2>3. CASE Under(c, b) /\ effective_number(ch, c) > Number[b]
    BY <1>1, <2>1, <2>3 DEF OnBranch
  <2> QED BY <1>4, <2>2, <2>3 DEF ViableIn
<1>5. ASSUME NEW c \in S, ViableIn(ch, S, b, c), ch[c].kind = "forced"
      PROVE  c \in r.set.forced
  <2>1. c \in s.forced /\ c \in Blocks
    BY <1>3, <1>5 DEF Has
  <2>2. is_descendent_of(b, c)
    BY <1>5 DEF ViableIn
  <2>3. Number[c] > Number[b] /\ effective_number(ch, c) \in Nat /\ Number[c] \in Nat
        /\ Number[c] <= effective_number(ch, c)
    BY <2>1, <2>2, UnderFacts, EffectiveFacts, ChainAssumption
  <2>4. effective_number(ch, c) > Number[b]
    BY SMT, <1>2, <2>3
  <2> QED BY <1>1, <2>1, <2>2, <2>4
<1>6. r.set.standard.nodes \cup r.set.forced \subseteq S
  BY <1>1 DEF Has
<1>7. \A f \in r.set.forced : ch[f].kind = "forced" /\ f \notin AppliedIn(ch, S)
  BY <1>1 DEF Has
<1> QED BY <1>4, <1>5, <1>6, <1>7 DEF Has, r


-----------------------------------------------------------------------------
(* Every step preserves the invariant.                                      *)

\* The digests and the blocks of a setup are typed, and genesis announces nothing.
LEMMA SetupFacts ==
  ASSUME setup \in Setups
  PROVE  change \in [Blocks -> Digest] /\ setup.blocks \subseteq Blocks /\ change[Genesis].kind = "none"
BY SetupsAssumption DEF change

\* Some importers go on to something that is not an import.
Leaves ==
  /\ imp' = [k \in Importers |-> imp'[k]]
  /\ \A k \in Importers : \/ imp'[k] = imp[k]
                          \/ /\ lock # k /\ IsActivity(imp'[k]) /\ ~Importing(imp'[k])
                             /\ imp'[k].old = {}

\* Importers that stop importing leave the chain on disk in order.
LEMMA LeavesChain ==
  ASSUME IInv, Leaves, UNCHANGED <<setup, imported>>, finalized' \in imported
  PROVE  ChainInv'
<1>1. ASSUME NEW k \in Importers
      PROVE  IsActivity(imp'[k]) /\ (Importing(imp'[k]) => imp'[k] = imp[k])
  BY DEF Leaves, IInv, ChainInv
<1>2. ASSUME NEW i \in Importers
      PROVE  /\ IsActivity(imp[i])'
             /\ Importing(imp[i])' => imp'[i].block \notin imported' /\ ParentIn(imp'[i].block, imported')
             /\ \A k \in Importers \ {i} : Importing(imp[i])' /\ Importing(imp[k])' =>
                                             imp'[i].block # imp'[k].block
  BY <1>1 DEF IInv, ChainInv, Importing, IsActivity
<1> QED BY <1>2 DEF Leaves, IInv, ChainInv

\* Nothing else changes: the invariant is preserved.
LEMMA LeaveStep ==
  ASSUME IInv, Leaves, UNCHANGED <<setup, imported, finalized, auth, lock>>,
         disk' = [auth |-> disk.auth, paused |-> disk'.paused]
  PROVE  IInv'
<1>1. ChainInv'
  BY LeavesChain DEF IInv, ChainInv
<1>2. disk'.auth = disk.auth
  BY SMT
<1>3. ASSUME NEW k \in Importers
      PROVE  /\ lock # k => imp'[k].old = {}
             /\ lock = k => imp'[k] = imp[k]
             /\ imp'[k].pc = "write" => imp'[k] = imp[k]
  BY DEF Leaves, IInv, LockInv, Importing
<1>4. LockInv'
  BY <1>2, <1>3 DEF IInv, LockInv
<1>5. PendingInv'
  BY <1>2, <1>3 DEF IInv, PendingInv, HasIn, change
<1> QED BY <1>1, <1>4, <1>5 DEF IInv

\* One importer goes on to something that is not an import.
LEMMA Becomes ==
  ASSUME IInv, NEW i \in Importers, NEW x, IsActivity(x), ~Importing(x), x.old = {}, lock # i,
         imp' = [imp EXCEPT ![i] = x]
  PROVE  Leaves
<1>1. imp = [k \in Importers |-> imp[k]]
  BY DEF IInv, ChainInv
<1>2. \A k \in Importers : imp'[k] = IF k = i THEN x ELSE imp[k]
  BY <1>1
<1>3. imp' = [k \in Importers |-> imp'[k]]
  BY <1>1
<1> QED BY <1>2, <1>3 DEF Leaves

\* An importer that is done.
LEMMA DoneLeaves ==
  ASSUME IInv, NEW i \in Importers, lock # i, Done(i)
  PROVE  Leaves
<1>1. IsActivity(Idle) /\ ~Importing(Idle) /\ Idle.old = {}
  BY GenesisAssumption DEF IsActivity, Importing, Idle
<1> QED BY <1>1, Becomes DEF Done

\* An importer that is not in the middle of a write has put no set aside and does not hold the lock.
LEMMA NotLocked ==
  ASSUME IInv, NEW i \in Importers, imp[i].pc # "write" \/ imp[i].old = {} \/ Unlocked
  PROVE  lock # i /\ imp[i].old = {}
BY DEF IInv, LockInv, Unlocked, Free, Importers, Queue, Author

\* A change of some fields of what an importer does.
LEMMA GoesOn ==
  ASSUME IInv, NEW i \in Importers, imp[i].pc # "write", NEW pc, NEW n,
         pc \notin {"make", "write", "old"},
         imp' = [imp EXCEPT ![i].set_id = n, ![i].pc = pc]
  PROVE  Leaves
<1>1. /\ IsActivity(imp[i]) /\ lock # i /\ imp[i].old = {}
      /\ imp = [k \in Importers |-> imp[k]]
  BY NotLocked DEF IInv, ChainInv
<1> DEFINE x == [imp[i] EXCEPT !.set_id = n, !.pc = pc]
<1>2. imp' = [imp EXCEPT ![i] = x]
  BY <1>1
<1>3. /\ DOMAIN x = {"pc", "block", "just", "old", "applied", "set_id"}
      /\ x.pc = pc /\ x.block = imp[i].block /\ x.old = imp[i].old
  BY <1>1 DEF IsActivity
<1>4. IsActivity(x) /\ ~Importing(x) /\ x.old = {}
  BY <1>1, <1>3 DEF IsActivity, Importing
<1> HIDE DEF x
<1> QED BY <1>1, <1>2, <1>4, Becomes

\* The next step of the same import.
LEMMA GotoLeaves ==
  ASSUME IInv, NEW i \in Importers, imp[i].pc # "write", NEW pc \in {"verify", "finalize"}, Goto(i, pc)
  PROVE  Leaves
<1>1. /\ IsActivity(imp[i]) /\ lock # i /\ imp[i].old = {}
      /\ imp = [k \in Importers |-> imp[k]]
  BY NotLocked DEF IInv, ChainInv
<1> DEFINE x == [imp[i] EXCEPT !.pc = pc]
<1>2. imp' = [imp EXCEPT ![i] = x]
  BY <1>1 DEF Goto
<1>3. IsActivity(x) /\ ~Importing(x) /\ x.old = {}
  BY <1>1 DEF IsActivity, Importing
<1> HIDE DEF x
<1> QED BY <1>1, <1>2, <1>3, Becomes

\* Sets that are the same are equal but for the number of the finalized block.
LEMMA SameFacts ==
  ASSUME NEW s \in AuthoritySets, NEW t \in AuthoritySets, Same(s, t)
  PROVE  [s EXCEPT !.standard.best = 0] = [t EXCEPT !.standard.best = 0]
<1> DEFINE a == [s.standard EXCEPT !.best = 0]
           b == [t.standard EXCEPT !.best = 0]
<1>1. s.standard \in Tree /\ t.standard \in Tree /\ s.standard.nodes = t.standard.nodes
  BY DEF AuthoritySets, Same
<1>2. a = b
  BY <1>1 DEF Tree
<1>3. [s EXCEPT !.standard.best = 0] = [s EXCEPT !.standard = a]
      /\ [t EXCEPT !.standard.best = 0] = [t EXCEPT !.standard = b]
  OBVIOUS
<1> HIDE DEF a, b
<1>4. [s EXCEPT !.standard = a] = [t EXCEPT !.standard = a]
  BY DEF AuthoritySets, Same
<1> QED BY <1>2, <1>3, <1>4

\* A block is finalized.
LEMMA FinalStep ==
  ASSUME IInv, Leaves, Unlocked, NEW b \in Blocks, Finalizes(b), UNCHANGED <<setup, imported, lock>>
  PROVE  IInv'
<1> DEFINE r == apply_standard_changes(auth, change, b)
<1>1. /\ change \in [Blocks -> Digest] /\ auth \in AuthoritySets /\ finalized \in Blocks
      /\ imported \in SUBSET Blocks /\ disk.auth \in AuthoritySets /\ Same(auth, disk.auth)
      /\ disk = [auth |-> disk.auth, paused |-> disk.paused]
      /\ Has(change, auth.standard.nodes, auth.forced, imported, finalized)
  <2>1. Same(auth, disk.auth) /\ HasIn(disk.auth, imported)
    BY DEF IInv, LockInv, PendingInv, Unlocked
  <2>2. Has(change, auth.standard.nodes, auth.forced, imported, finalized)
    BY <2>1 DEF HasIn, Same
  <2> QED BY <2>1, <2>2, SetupFacts DEF IInv, ChainInv, LockInv
<1>2. /\ r.err = "none" /\ is_descendent_of(finalized, b) /\ b \in imported
      /\ finalized' = b /\ auth' = r.set
      /\ disk' = IF ~r.changed THEN disk ELSE [auth |-> r.set, paused |-> disk.paused /\ r.new = {}]
  BY DEF Finalizes
<1>3. /\ r.set \in AuthoritySets /\ r.changed \in BOOLEAN
      /\ ~r.changed => Same(r.set, auth)
      /\ r.set.forced \subseteq auth.forced
  BY <1>1, <1>2, StandardFacts
<1>4. Has(change, r.set.standard.nodes, r.set.forced, imported, b)
  BY <1>1, <1>2, HasFinalized
<1> HIDE DEF r
<1>5. /\ disk'.auth \in AuthoritySets /\ Same(auth', disk'.auth)
      /\ disk' = [auth |-> disk'.auth, paused |-> disk'.paused]
  <2>1. CASE r.changed
    BY <1>2, <1>3, <2>1 DEF Same
  <2>2. CASE ~r.changed
    BY <1>1, <1>2, <1>3, <2>2 DEF Same
  <2> QED BY <2>1, <2>2
<1>6. UNCHANGED change
  BY DEF change
<1>7. ChainInv'
  BY <1>2, LeavesChain
<1>8. ASSUME NEW k \in Importers
      PROVE  /\ lock # k /\ imp'[k].old = {}
             /\ imp'[k].pc = "write" => imp'[k] = imp[k]
  BY NotLocked DEF Leaves, Importing
<1>9. LockInv'
  BY <1>2, <1>3, <1>5, <1>8 DEF IInv, LockInv
<1>10. HasIn(disk.auth, imported)'
  BY <1>2, <1>4, <1>5, <1>6 DEF HasIn, Same
<1>11. ASSUME NEW k \in Importers, imp'[k].pc = "write"
       PROVE  /\ Plain(change', auth'.forced, imp'[k].block)
              /\ Plain(change', disk'.auth.forced, imp'[k].block)
  <2>1. Plain(change, auth.forced, imp[k].block) /\ imp'[k] = imp[k]
    BY <1>8, <1>11 DEF IInv, PendingInv
  <2>2. auth'.forced \subseteq auth.forced /\ disk'.auth.forced = auth'.forced
    BY <1>2, <1>3, <1>5 DEF Same
  <2> QED BY <1>6, <2>1, <2>2 DEF Plain
<1>12. PendingInv'
  BY <1>8, <1>10, <1>11 DEF PendingInv
<1> QED BY <1>7, <1>9, <1>12 DEF IInv


\* A block that is not on disk is below none that is, nor below the next one.
LEMMA NewBlock ==
  ASSUME NEW S, \A a \in S : Ancestors[a] \subseteq S, NEW b, b \notin S
  PROVE  /\ \A c \in S : ~Under(b, c)
         /\ \A c : ParentIn(c, S) /\ c # b => ~Under(b, c)
<1>1. \A c : ParentIn(c, S) => Ancestors[c] \subseteq S
  BY DEF ParentIn, Line
<1> QED BY <1>1 DEF Under, is_descendent_of

\* A new block starts to be imported.
LEMMA ImportStep ==
  ASSUME IInv, NEW i \in Importers, NEW b \in Blocks, import_block(i, b)
  PROVE  IInv'
<1>1. /\ imp[i].pc = "idle" /\ b \notin imported /\ ParentIn(b, imported)
      /\ \A k \in Importers \ {i} : imp[k].block # b
      /\ UNCHANGED <<setup, imported, finalized, auth, lock, disk>>
  BY DEF import_block
<1>2. PICK j : imp' = [imp EXCEPT ![i] = [Idle EXCEPT !.pc = "make", !.block = b, !.just = j]]
  BY DEF import_block
<1> DEFINE x == [Idle EXCEPT !.pc = "make", !.block = b, !.just = j]
<1>3. IsActivity(x) /\ x.pc = "make" /\ x.block = b /\ x.old = {}
  BY DEF IsActivity, Idle
<1> HIDE DEF x
<1>4. imp = [k \in Importers |-> imp[k]] /\ lock # i
  BY <1>1, NotLocked DEF IInv, ChainInv
<1>5. /\ imp' = [k \in Importers |-> imp'[k]]
      /\ \A k \in Importers : imp'[k] = IF k = i THEN x ELSE imp[k]
  BY <1>2, <1>4 DEF x
<1>6. ChainInv'
  <2>1. ASSUME NEW k \in Importers
        PROVE  /\ IsActivity(imp[k])'
               /\ Importing(imp[k])' => imp'[k].block \notin imported' /\ ParentIn(imp'[k].block, imported')
               /\ \A l \in Importers \ {k} : Importing(imp[k])' /\ Importing(imp[l])' =>
                                               imp'[k].block # imp'[l].block
    BY SMT, <1>1, <1>3, <1>5 DEF IInv, ChainInv, Importing, IsActivity
  <2> QED BY <1>1, <1>5, <2>1 DEF IInv, ChainInv
<1>7. LockInv'
  BY <1>1, <1>3, <1>4, <1>5 DEF IInv, LockInv
<1>8. PendingInv'
  BY <1>1, <1>3, <1>4, <1>5 DEF IInv, PendingInv, HasIn, change
<1> QED BY <1>6, <1>7, <1>8 DEF IInv

\* The changes of a block are made in memory.
LEMMA MakeStep ==
  ASSUME IInv, NEW i \in Importers, make_authorities_changes(i)
  PROVE  IInv'
<1> DEFINE b == imp[i].block
           c == Changes(auth, change, b)
           kept == change[b].kind # "none" \/ c.applied = "forced"
           old == IF kept THEN {auth} ELSE {}
<1>1. /\ imp[i].pc = "make" /\ lock = Free /\ UNCHANGED <<setup, imported, finalized, disk>>
      /\ IF c.err # "none" THEN Done(i) /\ UNCHANGED <<auth, lock>>
         ELSE /\ imp' = [imp EXCEPT ![i].pc = "write", ![i].applied = c.applied, ![i].old = old]
              /\ auth' = c.set
              /\ lock' = IF kept THEN i ELSE lock
  BY DEF make_authorities_changes, Unlocked
<1> HIDE DEF c, b
<1>2. /\ change \in [Blocks -> Digest] /\ auth \in AuthoritySets /\ b \in Blocks
      /\ imported \in SUBSET Blocks /\ disk.auth \in AuthoritySets /\ Same(auth, disk.auth)
      /\ disk = [auth |-> disk.auth, paused |-> disk.paused]
      /\ b \notin imported /\ ParentIn(b, imported) /\ UNCHANGED change
      /\ \A a \in imported : Ancestors[a] \subseteq imported
      /\ Has(change, auth.standard.nodes, auth.forced, imported, finalized)
      /\ \A k \in Importers : lock # k /\ imp[k].old = {}
  <2>1. Same(auth, disk.auth) /\ HasIn(disk.auth, imported)
    BY <1>1 DEF IInv, LockInv, PendingInv
  <2>2. Has(change, auth.standard.nodes, auth.forced, imported, finalized)
    BY <2>1 DEF HasIn, Same
  <2>3. b \notin imported /\ ParentIn(b, imported) /\ b \in Blocks
    BY <1>1 DEF IInv, ChainInv, Importing, IsActivity, b
  <2>4. \A k \in Importers : lock # k /\ imp[k].old = {}
    BY <1>1, NotLocked DEF Unlocked
  <2>5. UNCHANGED change
    BY <1>1 DEF change
  <2> QED BY <2>1, <2>2, <2>3, <2>4, <2>5, SetupFacts DEF IInv, ChainInv, LockInv
<1>3. CASE c.err # "none"
  <2>1. Leaves
    BY <1>1, <1>2, <1>3, DoneLeaves
  <2> QED BY <1>1, <1>2, <1>3, <2>1, LeaveStep
<1>4. CASE c.err = "none"
  <2> DEFINE F == auth.forced \cup (IF change[b].kind = "forced" THEN {b} ELSE {})
             x == [imp[i] EXCEPT !.pc = "write", !.applied = c.applied, !.old = old]
  <2>1. /\ c.set \in AuthoritySets
        /\ c.applied = "forced" =>
             /\ c.set.standard.nodes = {} /\ c.set.forced = {}
             /\ \E f \in F : effective_number(change, f) = Number[b] /\ Under(f, b)
        /\ c.applied # "forced" =>
             /\ c.set.standard.nodes
                  = auth.standard.nodes \cup (IF change[b].kind = "standard" THEN {b} ELSE {})
             /\ c.set.forced = F
             /\ \A f \in F : ~(effective_number(change, f) = Number[b] /\ Under(f, b))
             /\ change[b].kind = "none" => c.set = auth
    BY SMT, <1>2, <1>4, ChangesFacts DEF c
  <2>2. /\ imp' = [k \in Importers |-> imp'[k]]
        /\ \A k \in Importers : imp'[k] = IF k = i THEN x ELSE imp[k]
    <3>1. imp = [k \in Importers |-> imp[k]]
      BY DEF IInv, ChainInv
    <3>2. imp' = [imp EXCEPT ![i] = x]
      BY <1>1, <1>4, <3>1
    <3> HIDE DEF x
    <3> QED BY <3>1, <3>2
  <2>3. IsActivity(x) /\ x.pc = "write" /\ x.block = b /\ x.old = old
    <3>1. IsActivity(imp[i]) /\ imp[i].block = b
      BY DEF IInv, ChainInv, b
    <3> HIDE DEF old
    <3> QED BY <3>1 DEF IsActivity
  <2> HIDE DEF x
  <2>4. HasIn(c.set, imported \cup {b})
    <3>1. CASE c.applied = "forced"
      <4>1. PICK f \in F : effective_number(change, f) = Number[b] /\ Under(f, b)
        BY <2>1, <3>1
      <4>2. Has(change, {}, {}, imported \cup {b}, finalized)
        BY <1>2, <4>1, HasForced
      <4> QED BY <2>1, <3>1, <4>2 DEF HasIn
    <3>2. CASE c.applied # "forced"
      BY SMT, <1>2, <2>1, <3>2, HasAnnounced DEF HasIn
    <3> QED BY <3>1, <3>2
  <2>5. ~kept => c.set = auth /\ Plain(change, auth.forced, b)
    <3>1. ASSUME ~kept PROVE c.set = auth /\ Plain(change, auth.forced, b)
      <4>1. c.applied # "forced" /\ change[b].kind = "none"
        BY <3>1
      <4>2. \A f \in auth.forced : ~(Under(f, b) /\ Number[b] >= effective_number(change, f))
        <5>1. ASSUME NEW f \in auth.forced, Under(f, b), Number[b] >= effective_number(change, f)
              PROVE  FALSE
          <6>1. /\ f \in imported /\ f # b /\ change[f].kind = "forced"
                /\ f \notin AppliedIn(change, imported)
            BY <1>2 DEF Has
          <6>2. effective_number(change, f) = Number[b]
            BY SMT, <1>2, <5>1, <6>1, DueAtChild
          <6> QED BY <2>1, <4>1, <5>1, <6>2
        <5> QED BY <5>1
      <4> QED BY <2>1, <4>1, <4>2 DEF Plain
    <3> QED BY <3>1
  <2>6. c.set.forced \subseteq auth.forced \cup {b}
    BY <2>1
  <2> HIDE DEF kept, F
  <2>7. ChainInv'
    <3>1. ASSUME NEW k \in Importers
          PROVE  /\ IsActivity(imp[k])'
                 /\ Importing(imp[k])' => imp'[k].block \notin imported' /\ ParentIn(imp'[k].block, imported')
                 /\ \A l \in Importers \ {k} : Importing(imp[k])' /\ Importing(imp[l])' =>
                                                 imp'[k].block # imp'[l].block
      <4>1. /\ Importing(imp[i]) /\ imp[i].block = b
            /\ \A l \in Importers : imp'[l].block = imp[l].block /\ (Importing(imp[l])' => Importing(imp[l]))
        BY <1>1, <2>2, <2>3 DEF Importing, b
      <4> QED BY SMT, <1>1, <2>2, <2>3, <4>1 DEF IInv, ChainInv
    <3> QED BY <1>1, <2>2, <3>1 DEF IInv, ChainInv
  <2>8. LockInv'
    <3>1. disk' = disk /\ auth' = c.set /\ lock' = (IF kept THEN i ELSE Free) /\ old = (IF kept THEN {auth} ELSE {})
      BY <1>1, <1>4 DEF kept
    <3> HIDE DEF old
    <3>2. CASE kept
      BY <1>2, <2>1, <2>2, <2>3, <3>1, <3>2 DEF LockInv, Free, Importers, Queue, Author
    <3>3. CASE ~kept
      BY <1>2, <2>1, <2>2, <2>3, <2>5, <3>1, <3>3 DEF LockInv, Free, Importers, Queue, Author
    <3> QED BY <3>2, <3>3
  <2>9. PendingInv'
    <3>1. /\ disk' = disk /\ auth' = c.set /\ lock' = (IF kept THEN i ELSE Free)
          /\ UNCHANGED <<imported, finalized>>
      BY <1>1, <1>4 DEF kept
    <3>2. HasIn(disk.auth, imported)'
      BY <1>2, <3>1 DEF IInv, PendingInv, HasIn
    <3>3. ASSUME NEW k \in Importers, lock' = k PROVE HasIn(auth, imported \cup {imp[k].block})'
      <4>1. k = i
        BY <3>1, <3>3 DEF Free, Importers, Queue, Author
      <4> QED BY <1>2, <2>2, <2>3, <2>4, <3>1, <4>1 DEF HasIn
    <3>4. ASSUME NEW k \in Importers, imp'[k].pc = "write", lock' # k
          PROVE  /\ Plain(change', auth'.forced, imp'[k].block)
                 /\ Plain(change', disk'.auth.forced, imp'[k].block)
      <4>1. CASE k = i
        <5>1. ~kept /\ imp'[k].block = b
          BY <2>2, <2>3, <3>1, <3>4, <4>1
        <5> QED BY <1>2, <2>5, <3>1, <5>1 DEF Same
      <4>2. CASE k # i
        <5>1. imp'[k] = imp[k] /\ imp[k].pc = "write"
          BY <2>2, <3>4, <4>2
        <5>2. Plain(change, auth.forced, imp[k].block) /\ Plain(change, disk.auth.forced, imp[k].block)
          BY <1>2, <5>1 DEF IInv, PendingInv
        <5>3. imp[k].block # b /\ ParentIn(imp[k].block, imported)
          BY <1>1, <4>2, <5>1 DEF IInv, ChainInv, Importing, b
        <5>4. ~Under(b, imp[k].block)
          BY <1>2, <5>3, NewBlock
        <5>5. Plain(change, c.set.forced, imp[k].block)
          BY <2>6, <5>2, <5>4 DEF Plain
        <5> QED BY <1>2, <3>1, <5>1, <5>2, <5>5
      <4> QED BY <4>1, <4>2
    <3> QED BY <3>2, <3>3, <3>4 DEF PendingInv
  <2> QED BY <2>7, <2>8, <2>9 DEF IInv
<1> QED BY <1>3, <1>4


\* A block is written, with the set if the lock is held for it.
LEMMA WriteStep ==
  ASSUME IInv, NEW i \in Importers, WriteBlock(i)
  PROVE  IInv'
<1> DEFINE b == imp[i].block
           n == IF imp[i].applied = "forced" THEN auth.set_id ELSE 0
           x == [imp[i] EXCEPT !.pc = "send", !.old = {}, !.set_id = n]
<1>1. /\ imp[i].pc = "write" /\ b \notin imported /\ imported' = imported \cup {b}
      /\ disk' = IF imp[i].old = {} THEN disk
                 ELSE [auth |-> auth, paused |-> disk.paused /\ imp[i].applied # "forced"]
      /\ lock' = IF imp[i].old = {} THEN lock ELSE Free
      /\ imp' = [imp EXCEPT ![i].pc = "send", ![i].old = {}, ![i].set_id = n]
      /\ UNCHANGED <<setup, finalized, auth>>
  BY DEF WriteBlock
<1> HIDE DEF b, n
<1>2. /\ b \in Blocks /\ ParentIn(b, imported) /\ UNCHANGED change
      /\ \A a \in imported : Ancestors[a] \subseteq imported
      /\ auth \in AuthoritySets /\ disk.auth \in AuthoritySets
      /\ disk = [auth |-> disk.auth, paused |-> disk.paused] /\ lock \in Importers \cup {Free}
  <2>1. UNCHANGED change
    BY <1>1 DEF change
  <2>2. b \in Blocks /\ ParentIn(b, imported)
    BY <1>1 DEF IInv, ChainInv, Importing, IsActivity, b
  <2> QED BY <2>1, <2>2 DEF IInv, ChainInv, LockInv
<1>3. /\ imp' = [k \in Importers |-> imp'[k]]
      /\ \A k \in Importers : imp'[k] = IF k = i THEN x ELSE imp[k]
  <2>1. imp = [k \in Importers |-> imp[k]]
    BY DEF IInv, ChainInv
  <2>2. imp' = [imp EXCEPT ![i] = x]
    BY <1>1, <2>1
  <2> HIDE DEF x
  <2> QED BY <2>1, <2>2
<1>4. IsActivity(x) /\ x.pc = "send" /\ x.old = {}
  <2>1. IsActivity(imp[i])
    BY DEF IInv, ChainInv
  <2> QED BY <2>1 DEF IsActivity
<1> HIDE DEF x
<1>5. ASSUME NEW k \in Importers \ {i}, Importing(imp[k])
      PROVE  imp[k].block # b /\ imp[k].block \notin imported'
  BY <1>1, <1>5 DEF IInv, ChainInv, Importing, b
<1>6. ChainInv'
  <2>1. ASSUME NEW k \in Importers
        PROVE  /\ IsActivity(imp[k])'
               /\ Importing(imp[k])' => imp'[k].block \notin imported' /\ ParentIn(imp'[k].block, imported')
               /\ \A l \in Importers \ {k} : Importing(imp[k])' /\ Importing(imp[l])' =>
                                               imp'[k].block # imp'[l].block
    <3>1. ~Importing(x)
      BY <1>4 DEF Importing
    <3>2. \A a : ParentIn(a, imported) => ParentIn(a, imported')
      BY <1>1 DEF ParentIn
    <3> QED BY <1>3, <1>4, <1>5, <3>1, <3>2 DEF IInv, ChainInv
  <2>2. \A a \in imported' : Ancestors[a] \subseteq imported'
    BY SMT, <1>1, <1>2 DEF ParentIn, Line
  <2>3. setup' \in Setups /\ imported' \subseteq Blocks /\ finalized' \in imported'
    BY <1>1, <1>2 DEF IInv, ChainInv
  <2> QED BY <1>3, <2>1, <2>2, <2>3 DEF ChainInv
<1>7. CASE imp[i].old = {}
  <2>1. lock # i /\ UNCHANGED <<lock, disk>>
    BY <1>1, <1>7, NotLocked
  <2>2. LockInv'
    BY <1>1, <1>3, <1>4, <2>1 DEF IInv, LockInv
  <2>3. Plain(change, auth.forced, b) /\ Plain(change, disk.auth.forced, b)
    BY <1>1, <2>1 DEF IInv, PendingInv, b
  <2>4. HasIn(disk.auth, imported)'
    BY <1>1, <1>2, <2>1, <2>3, HasPlain DEF IInv, PendingInv, HasIn
  <2>5. ASSUME NEW k \in Importers, lock' = k PROVE HasIn(auth, imported \cup {imp[k].block})'
    <3>1. imp'[k] = imp[k] /\ lock = k
      BY <1>3, <2>1, <2>5
    <3>2. HasIn(auth, imported \cup {imp[k].block})
      BY <3>1 DEF IInv, PendingInv
    <3>3. Has(change, auth.standard.nodes, auth.forced, (imported \cup {imp[k].block}) \cup {b}, finalized)
      BY <2>3, <3>2, HasPlain DEF HasIn
    <3>4. (imported \cup {imp[k].block}) \cup {b} = imported' \cup {imp'[k].block}
      BY <1>1, <3>1
    <3> QED BY <1>1, <1>2, <3>3, <3>4 DEF HasIn
  <2>6. ASSUME NEW k \in Importers, imp'[k].pc = "write", lock' # k
        PROVE  Plain(change', auth'.forced, imp'[k].block) /\ Plain(change', disk'.auth.forced, imp'[k].block)
    BY <1>1, <1>2, <1>3, <1>4, <2>1, <2>6 DEF IInv, PendingInv
  <2>7. PendingInv'
    BY <2>4, <2>5, <2>6 DEF PendingInv
  <2> QED BY <1>6, <2>2, <2>7 DEF IInv
<1>8. CASE imp[i].old # {}
  <2>1. /\ lock = i /\ lock' = Free /\ disk'.auth = auth
        /\ disk' = [auth |-> disk'.auth, paused |-> disk'.paused]
    BY <1>1, <1>8 DEF IInv, LockInv
  <2>2. Free \notin Importers
    BY DEF Free, Importers, Queue, Author
  <2>3. LockInv'
    <3>1. ASSUME NEW k \in Importers PROVE imp'[k].old = {} /\ lock' # k
      BY <1>3, <1>4, <2>1, <2>2 DEF IInv, LockInv
    <3>2. Same(auth', disk'.auth)
      BY <1>1, <2>1 DEF Same
    <3> QED BY <1>1, <1>2, <2>1, <3>1, <3>2 DEF LockInv
  <2>4. HasIn(auth, imported \cup {b})
    BY <2>1 DEF IInv, PendingInv, b
  <2>5. HasIn(disk.auth, imported)'
    BY <1>1, <1>2, <2>1, <2>4 DEF HasIn
  <2>6. ASSUME NEW k \in Importers, imp'[k].pc = "write"
        PROVE  Plain(change', auth'.forced, imp'[k].block) /\ Plain(change', disk'.auth.forced, imp'[k].block)
    <3>1. k # i /\ imp'[k] = imp[k]
      BY <1>3, <1>4, <2>6
    <3>2. Plain(change, auth.forced, imp[k].block)
      BY <2>1, <2>6, <3>1 DEF IInv, PendingInv
    <3> QED BY <1>1, <1>2, <2>1, <3>1, <3>2
  <2>7. PendingInv'
    BY <2>1, <2>2, <2>5, <2>6 DEF PendingInv
  <2> QED BY <1>6, <2>3, <2>7 DEF IInv
<1> QED BY <1>7, <1>8

\* A block cannot be written: the set that was put aside is back.
LEMMA FailStep ==
  ASSUME IInv, NEW i \in Importers, WriteFails(i)
  PROVE  IInv'
<1>1. /\ imp[i].pc = "write" /\ Done(i) /\ UNCHANGED <<setup, imported, finalized, disk>>
      /\ auth' = IF imp[i].old = {} THEN auth ELSE Only(imp[i].old)
      /\ lock' = IF imp[i].old = {} THEN lock ELSE Free
  BY DEF WriteFails
<1>2. disk = [auth |-> disk.auth, paused |-> disk.paused]
  BY DEF IInv, LockInv
<1>3. CASE imp[i].old = {}
  <2>1. lock # i
    BY <1>3, NotLocked
  <2>2. Leaves
    BY <1>1, <2>1, DoneLeaves
  <2> QED BY <1>1, <1>2, <1>3, <2>2, LeaveStep
<1>4. CASE imp[i].old # {}
  <2>1. lock = i /\ Free \notin Importers
    BY <1>4 DEF IInv, LockInv, Free, Importers, Queue, Author
  <2>2. PICK s \in AuthoritySets : imp[i].old = {s} /\ Same(s, disk.auth)
    BY <2>1 DEF IInv, LockInv
  <2>3. auth' = s /\ lock' = Free
    BY <1>1, <1>4, <2>2 DEF Only
  <2>4. /\ imp' = [k \in Importers |-> imp'[k]]
        /\ \A k \in Importers : imp'[k] = IF k = i THEN Idle ELSE imp[k]
    <3>1. imp = [k \in Importers |-> imp[k]]
      BY DEF IInv, ChainInv
    <3> QED BY <1>1, <3>1 DEF Done
  <2>5. IsActivity(Idle) /\ ~Importing(Idle) /\ Idle.old = {} /\ Idle.pc = "idle"
    BY GenesisAssumption DEF IsActivity, Importing, Idle
  <2>6. ChainInv'
    <3>1. ASSUME NEW k \in Importers
          PROVE  /\ IsActivity(imp[k])'
                 /\ Importing(imp[k])' => imp'[k].block \notin imported' /\ ParentIn(imp'[k].block, imported')
                 /\ \A l \in Importers \ {k} : Importing(imp[k])' /\ Importing(imp[l])' =>
                                                 imp'[k].block # imp'[l].block
      BY SMT, <1>1, <2>4, <2>5 DEF IInv, ChainInv
    <3> QED BY <1>1, <2>4, <3>1 DEF IInv, ChainInv
  <2>7. LockInv'
    BY <1>1, <2>1, <2>2, <2>3, <2>4, <2>5 DEF IInv, LockInv
  <2>8. UNCHANGED change /\ auth'.forced = disk.auth.forced
    BY <1>1, <2>2, <2>3 DEF change, Same
  <2>9. ASSUME NEW k \in Importers, imp'[k].pc = "write"
        PROVE  Plain(change', auth'.forced, imp'[k].block) /\ Plain(change', disk'.auth.forced, imp'[k].block)
    BY <1>1, <2>1, <2>4, <2>5, <2>8, <2>9 DEF IInv, PendingInv
  <2>10. HasIn(disk.auth, imported)'
    BY <1>1, <2>8 DEF IInv, PendingInv, HasIn
  <2>11. PendingInv'
    BY <2>1, <2>3, <2>9, <2>10 DEF PendingInv
  <2> QED BY <2>6, <2>7, <2>11 DEF IInv
<1> QED BY <1>3, <1>4


\* The node starts again.
LEMMA RestartStep ==
  ASSUME IInv, Restart
  PROVE  IInv'
<1>1. /\ auth' = disk.auth /\ lock' = Free /\ imp' = [i \in Importers |-> Idle]
      /\ UNCHANGED <<setup, imported, finalized, disk>>
  BY DEF Restart
<1>2. IsActivity(Idle) /\ ~Importing(Idle) /\ Idle.old = {} /\ Idle.pc = "idle"
  BY GenesisAssumption DEF IsActivity, Importing, Idle
<1>3. Free \notin Importers
  BY DEF Free, Importers, Queue, Author
<1>4. \A i \in Importers : imp'[i] = Idle
  BY <1>1
<1>5. ChainInv'
  BY <1>1, <1>2, <1>4 DEF IInv, ChainInv
<1>6. LockInv'
  BY <1>1, <1>2, <1>3, <1>4 DEF IInv, LockInv, Same
<1>7. PendingInv'
  BY <1>1, <1>2, <1>3, <1>4 DEF IInv, PendingInv, HasIn, change
<1> QED BY <1>5, <1>6, <1>7 DEF IInv

\* A step of an importer.
LEMMA ImporterStep ==
  ASSUME IInv, NEW i \in Importers, Step(i)
  PROVE  IInv'
<1>0. /\ disk = [auth |-> disk.auth, paused |-> disk.paused] /\ setup.blocks \subseteq Blocks
      /\ imp[i].block \in Blocks
  BY SetupFacts DEF IInv, ChainInv, LockInv, IsActivity
<1>1. CASE \E b \in setup.blocks : import_block(i, b)
  BY <1>0, <1>1, ImportStep
<1>2. CASE make_authorities_changes(i)
  BY <1>2, MakeStep
<1>3. CASE WriteBlock(i)
  BY <1>3, WriteStep
<1>4. CASE WriteFails(i)
  BY <1>4, FailStep
<1>5. CASE SendCommands(i)
  <2>1. /\ imp[i].pc = "send" /\ UNCHANGED <<setup, imported, finalized, auth, lock, disk>>
        /\ Done(i) \/ Goto(i, "verify")
    BY <1>5 DEF SendCommands
  <2>2. Leaves
    BY <2>1, NotLocked, DoneLeaves, GotoLeaves
  <2> QED BY <1>0, <2>1, <2>2, LeaveStep
<1>6. CASE ReadSetId(i)
  <2>1. /\ imp[i].pc = "verify" /\ UNCHANGED <<setup, imported, finalized, auth, lock, disk>>
        /\ imp' = [imp EXCEPT ![i].set_id = auth.set_id, ![i].pc = "authorities"]
    BY <1>6 DEF ReadSetId
  <2>2. Leaves
    BY ZenonT(30), <2>1, GoesOn
  <2> QED BY <1>0, <2>1, <2>2, LeaveStep
<1>7. CASE Verify(i)
  <2>1. /\ imp[i].pc = "authorities" /\ UNCHANGED <<setup, imported, finalized, auth, lock, disk>>
        /\ Done(i) \/ Goto(i, "finalize")
    BY <1>7 DEF Verify
  <2>2. Leaves
    BY <2>1, NotLocked, DoneLeaves, GotoLeaves
  <2> QED BY <1>0, <2>1, <2>2, LeaveStep
<1>8. CASE FinalizeBlock(i)
  <2> DEFINE x == [Idle EXCEPT !.pc = "command", !.set_id = auth'.set_id]
  <2>1. /\ imp[i].pc = "finalize" /\ Unlocked /\ UNCHANGED <<setup, imported, lock>>
        /\ Finalizes(imp[i].block) \/ UNCHANGED <<finalized, auth, disk>>
        /\ Done(i) \/ imp' = [imp EXCEPT ![i] = x]
    BY <1>8 DEF FinalizeBlock
  <2>2. IsActivity(x) /\ ~Importing(x) /\ x.old = {}
    BY GenesisAssumption DEF IsActivity, Importing, Idle
  <2> HIDE DEF x
  <2>3. Leaves
    BY <2>1, <2>2, NotLocked, DoneLeaves, Becomes
  <2>4. CASE Finalizes(imp[i].block)
    BY <1>0, <2>1, <2>3, <2>4, FinalStep
  <2>5. CASE UNCHANGED <<finalized, auth, disk>>
    BY <1>0, <2>1, <2>3, <2>5, LeaveStep
  <2> QED BY <2>1, <2>4, <2>5
<1>9. CASE FinalizeFails(i) \/ SendChange(i)
  <2>1. /\ imp[i].pc # "write" /\ UNCHANGED <<setup, imported, finalized, auth, lock, disk>> /\ Done(i)
    BY <1>9 DEF FinalizeFails, SendChange
  <2>2. Leaves
    BY <2>1, NotLocked, DoneLeaves
  <2> QED BY <1>0, <2>1, <2>2, LeaveStep
<1> QED BY <1>1, <1>2, <1>3, <1>4, <1>5, <1>6, <1>7, <1>8, <1>9 DEF Step

\* There are no blocks to import below the finalized one.
LEMMA NothingOld ==
  ASSUME IInv, NEW b
  PROVE  ~ImportOld(Queue, b) /\ ~WriteOld(Queue) /\ ~WriteOldFails(Queue)
<1>1. imp[Queue].pc # "old"
  BY DEF IInv, ChainInv, IsActivity, Importers
<1>2. is_descendent_of(b, finalized) => b \in imported
  BY DEF IInv, ChainInv, is_descendent_of
<1> QED BY <1>1, <1>2 DEF ImportOld, WriteOld, WriteOldFails

\* The set a node that has not synced a state starts with.
LEMMA StartSet ==
  ASSUME Init, setup.warp = Genesis
  PROVE  /\ imported = {Genesis} /\ finalized = Genesis /\ Genesis \in Blocks
         /\ Ancestors[Genesis] = {} /\ StandardOn(change, Genesis) = {}
         /\ auth = genesis /\ auth \in AuthoritySets
         /\ auth.who = Genesis /\ auth.set_id = 0 /\ auth.changes = <<>>
         /\ auth.standard.nodes = {} /\ auth.forced = {}
<1>1. /\ setup \in Setups /\ imported = {Genesis} /\ finalized = Genesis
      /\ auth = [genesis EXCEPT !.who = Prescribed(imported, finalized).who,
                                !.set_id = Prescribed(imported, finalized).set_id]
  BY DEF Init
<1>2. Ancestors[Genesis] = {} /\ Genesis \in Blocks
  BY ChainAssumption, GenesisAssumption, UnderFacts DEF Under, is_descendent_of
<1>3. change \in [Blocks -> Digest] /\ change[Genesis].kind = "none"
  BY <1>1, SetupFacts
<1>4. StandardOn(change, Genesis) = {}
  BY <1>2, <1>3 DEF StandardOn, Line
<1>5. Prescribed(imported, finalized) = [set_id |-> 0, who |-> Genesis]
  <2>1. {f \in ForcedBlocks(change) : \E e \in imported : Under(f, e) /\ Number[e] >= effective_number(change, f)} = {}
    BY <1>1, <1>2, <1>3 DEF ForcedBlocks, Under, is_descendent_of
  <2>2. {c \in StandardOn(change, Genesis) : effective_number(change, c) <= Number[Genesis]} = {}
    BY <1>4
  <2>3. Cardinality({}) = 0
    BY FS_EmptySet
  <2>4. Prescribed(imported, finalized) = After(0, Genesis, {})
    BY <1>1, <2>1, <2>2 DEF Prescribed, PrescribedSet
  <2> QED BY SMT, <2>3, <2>4 DEF After
<1>6. /\ genesis \in AuthoritySets /\ genesis.standard.nodes = {} /\ genesis.forced = {}
      /\ genesis.who = Genesis /\ genesis.set_id = 0 /\ genesis.changes = <<>>
  <2>1. NewTree \in Tree /\ NewTree.nodes = {}
    BY DEF NewTree, Tree
  <2>2. <<>> \in Seq(Nat \X Nat)
    BY SMT
  <2> QED BY <1>2, <2>1, <2>2 DEF genesis, AuthoritySets
<1>7. auth = genesis
  <2>1. /\ Prescribed(imported, finalized).who = genesis.who
        /\ Prescribed(imported, finalized).set_id = genesis.set_id
    BY SMT, <1>5, <1>6
  <2>2. \A n, w : w = genesis.who /\ n = genesis.set_id =>
            [genesis EXCEPT !.who = w, !.set_id = n]
              = [genesis EXCEPT !.who = genesis.who, !.set_id = genesis.set_id]
    OBVIOUS
  <2>3. [genesis EXCEPT !.who = genesis.who, !.set_id = genesis.set_id] = genesis
    BY <1>6 DEF AuthoritySets
  <2> QED BY <1>1, <2>1, <2>2, <2>3
<1> QED BY <1>1, <1>2, <1>4, <1>6, <1>7

\* Nothing a node that has not synced a state does, in any order and with any
\* failures and stops, breaks the invariant.
THEOREM Invariance == Spec => [](setup.warp = Genesis => IInv)
<1>1. Init /\ setup.warp = Genesis => IInv
  <2> SUFFICES ASSUME Init, setup.warp = Genesis PROVE IInv
    OBVIOUS
  <2>1. /\ setup \in Setups /\ lock = Free
        /\ imp = [i \in Importers |-> Idle] /\ disk = [auth |-> auth, paused |-> FALSE]
    BY DEF Init
  <2>2. /\ imported = {Genesis} /\ finalized = Genesis
        /\ Ancestors[Genesis] = {} /\ Genesis \in Blocks
    BY StartSet
  <2>3. change \in [Blocks -> Digest] /\ change[Genesis].kind = "none"
    BY <2>1, SetupFacts
  <2>5. auth \in AuthoritySets /\ auth.standard.nodes = {} /\ auth.forced = {}
    BY StartSet
  <2>6. IsActivity(Idle) /\ ~Importing(Idle) /\ Idle.old = {} /\ Idle.pc = "idle"
    BY GenesisAssumption DEF IsActivity, Importing, Idle
  <2>7. Free \notin Importers /\ \A i \in Importers : imp[i] = Idle
    BY <2>1 DEF Free, Importers, Queue, Author
  <2>8. ChainInv
    BY <2>1, <2>2, <2>6, <2>7 DEF ChainInv
  <2>9. LockInv
    BY <2>1, <2>5, <2>6, <2>7 DEF LockInv, Same
  <2>10. HasIn(disk.auth, imported)
    <3>1. disk.auth = auth
      BY <2>1
    <3> QED BY <2>2, <2>3, <2>5, <3>1 DEF HasIn, Has
  <2>11. PendingInv
    BY <2>1, <2>6, <2>7, <2>10 DEF PendingInv
  <2> QED BY <2>8, <2>9, <2>11 DEF IInv
<1>2. IInv /\ [Next]_vars => IInv'
  <2> SUFFICES ASSUME IInv, [Next]_vars PROVE IInv'
    OBVIOUS
  <2>0. /\ disk = [auth |-> disk.auth, paused |-> disk.paused] /\ setup.blocks \subseteq Blocks
        /\ imp = [i \in Importers |-> imp[i]] /\ Queue \in Importers
    BY SetupFacts DEF IInv, ChainInv, LockInv, Importers
  <2>1. CASE \E i \in Importers : Step(i)
    BY <2>1, ImporterStep
  <2>2. ASSUME NEW b \in setup.blocks, import_justification(Queue, b) PROVE IInv'
    <3>1. imp[Queue].pc = "idle" /\ UNCHANGED <<setup, imported, finalized, auth, lock, disk>>
      BY <2>2 DEF import_justification
    <3>2. PICK j : imp' = [imp EXCEPT ![Queue] = [Idle EXCEPT !.pc = "verify", !.block = b, !.just = j]]
      BY <2>2 DEF import_justification
    <3> DEFINE x == [Idle EXCEPT !.pc = "verify", !.block = b, !.just = j]
    <3>3. IsActivity(x) /\ ~Importing(x) /\ x.old = {}
      BY <2>0 DEF IsActivity, Importing, Idle
    <3> HIDE DEF x
    <3>4. Leaves
      BY <2>0, <3>1, <3>2, <3>3, NotLocked, Becomes DEF x
    <3> QED BY <2>0, <3>1, <3>4, LeaveStep
  <2>3. ASSUME NEW b \in setup.blocks, VoterFinalizes(b) PROVE IInv'
    <3>1. Unlocked /\ Finalizes(b) /\ UNCHANGED <<setup, imported, lock, imp>> /\ b \in Blocks
      BY <2>0, <2>3 DEF VoterFinalizes
    <3>2. Leaves
      BY <2>0, <3>1 DEF Leaves
    <3> QED BY <3>1, <3>2, FinalStep
  <2>4. CASE handle_voter_command
    <3>1. /\ UNCHANGED <<setup, imported, finalized, auth, lock, imp>>
          /\ disk' = [disk EXCEPT !.paused = voter'.paused]
      BY <2>4 DEF handle_voter_command
    <3>2. Leaves
      BY <2>0, <3>1 DEF Leaves
    <3>3. disk' = [auth |-> disk.auth, paused |-> disk'.paused]
      BY <2>0, <3>1
    <3> QED BY <3>1, <3>2, <3>3, LeaveStep
  <2>5. CASE Restart
    BY <2>5, RestartStep
  <2>6. CASE UNCHANGED vars
    <3>1. UNCHANGED <<setup, imported, finalized, auth, lock, imp, disk>>
      BY <2>6 DEF vars
    <3>2. Leaves
      BY <2>0, <3>1 DEF Leaves
    <3> QED BY <2>0, <3>1, <3>2, LeaveStep
  <2> QED BY <2>1, <2>2, <2>3, <2>4, <2>5, <2>6, NothingOld DEF Next
<1>3. [Next]_vars => UNCHANGED setup
  BY DEF Next, vars, Step, import_block, make_authorities_changes, WriteBlock, WriteFails,
         SendCommands, ReadSetId, Verify, FinalizeBlock, FinalizeFails, SendChange, ImportOld,
         import_justification, VoterFinalizes, WriteOld, WriteOldFails, handle_voter_command, Restart
<1>4. (setup.warp = Genesis => IInv) /\ [Next]_vars => (setup.warp = Genesis => IInv)'
  BY <1>2, <1>3
<1> QED BY <1>1, <1>4, PTL DEF Spec

\* Whatever the importers and the voter interleave, the set in memory is the one
\* on disk whenever no importer holds the lock: make_authorities_changes keeps it
\* exactly when it changes the set, and restores the set on any failure.
THEOREM SharedSetInSync == Spec => [](setup.warp = Genesis => InSync)
<1>1. IInv => InSync
  <2> SUFFICES ASSUME IInv, Unlocked
               PROVE  [auth EXCEPT !.standard.best = 0] = [disk.auth EXCEPT !.standard.best = 0]
    BY DEF InSync
  <2>1. auth \in AuthoritySets /\ disk.auth \in AuthoritySets /\ Same(auth, disk.auth)
    BY DEF IInv, LockInv, Unlocked
  <2> QED BY <2>1, SameFacts
<1> QED BY <1>1, Invariance, PTL

\* On any tree of blocks, with any standard and forced changes on its branches,
\* every announced change that can still be enacted is on disk with its block,
\* and no other: neither the pruning of finality nor a failed import, a crash or
\* an import at the same time loses one.
THEOREM PendingChangesKept == Spec => [](setup.warp = Genesis => NoChangeLost)
<1>1. IInv => NoChangeLost
  <2> SUFFICES ASSUME IInv PROVE NoChangeLost
    OBVIOUS
  <2>1. Has(change, disk.auth.standard.nodes, disk.auth.forced, imported, finalized)
    BY DEF IInv, PendingInv, HasIn
  <2>2. Applied = AppliedIn(change, imported)
    BY DEF Applied, AppliedIn, Eff
  <2>3. \A c : Viable(c) => ViableIn(change, imported, finalized, c)
    BY <2>2 DEF Viable, ViableIn, Eff
  <2> QED BY <2>1, <2>3 DEF Has, NoChangeLost
<1> QED BY <1>1, Invariance, PTL

-----------------------------------------------------------------------------
(* Without forced changes: counting the changes of a chain.                *)

\* A chain announces a standard change only after the one before it took effect:
\* schedule_change of frame/grandpa fails with ChangePending until then.
OneAtATime(ch) ==
  \A c, d \in Blocks : /\ ch[c].kind = "standard" /\ ch[d].kind = "standard"
                       /\ is_descendent_of(c, d)
                       => effective_number(ch, c) < Number[d]

\* The changes of the chain of `b' that have taken effect at it, and below it.
EnactedBy(ch, b) == {c \in StandardOn(ch, b) : effective_number(ch, c) <= Number[b]}
DueBelow(ch, b) == {c \in StandardOn(ch, b) : effective_number(ch, c) < Number[b]}

\* The blocks of a chain are finitely many and each has its own number.
LEMMA LineFacts ==
  ASSUME NEW b \in Blocks
  PROVE  /\ Line(b) \subseteq Blocks /\ IsFiniteSet(Line(b))
         /\ \A c \in Line(b) : Under(c, b) /\ Number[c] <= Number[b]
         /\ \A c, d \in Line(b) : Number[c] = Number[d] => c = d
         /\ \A c, d \in Line(b) : c = d \/ is_descendent_of(c, d) \/ is_descendent_of(d, c)
<1>1. Line(b) \subseteq Blocks  BY ChainAssumption DEF Line
<1>2. \A c \in Line(b) : Under(c, b) /\ Number[c] <= Number[b]
  <2>1. \A c \in Line(b) : Under(c, b)  BY DEF Line, Under, is_descendent_of
  <2> QED  BY <1>1, <2>1, UnderFacts
<1>3. \A c, d \in Line(b) : c = d \/ is_descendent_of(c, d) \/ is_descendent_of(d, c)
  BY <1>1, <1>2, UnderFacts DEF Under
<1>4. ASSUME NEW c \in Line(b), NEW d \in Line(b), Number[c] = Number[d]  PROVE c = d
  <2>1. ~(Number[c] < Number[d]) /\ ~(Number[d] < Number[c])
    BY SMT, <1>1, <1>4, ChainAssumption
  <2> QED  BY <1>1, <1>3, <2>1, UnderFacts
<1>5. IsFiniteSet(Line(b))
  <2> DEFINE f == [c \in Line(b) |-> Number[c]]
  <2>1. Number[b] \in Int /\ 0 \in Int /\ \A c \in Line(b) : Number[c] \in 0 .. Number[b]
    BY SMT, <1>1, <1>2, ChainAssumption
  <2>2. f \in Injection(Line(b), 0 .. Number[b])
    BY <1>4, <2>1 DEF Injection, IsInjective
  <2>3. IsFiniteSet(0 .. Number[b])  BY <2>1, FS_Interval
  <2> QED  BY <2>2, <2>3, FS_Injection
<1> QED  BY <1>1, <1>2, <1>3, <1>4, <1>5

\* The changes of a chain are finitely many.
LEMMA ChainCounts ==
  ASSUME NEW ch, NEW b \in Blocks, NEW T \in SUBSET StandardOn(ch, b)
  PROVE  IsFiniteSet(T) /\ Cardinality(T) \in Nat
<1>1. T \subseteq Line(b)  BY DEF StandardOn
<1>2. IsFiniteSet(T)  BY <1>1, LineFacts, FS_Subset
<1> QED  BY <1>2, FS_CardinalityType

\* What has taken effect at a block has taken effect below its descendants, and
\* if those are no more, they are the same.
LEMMA EffectGrows ==
  ASSUME NEW ch \in [Blocks -> Digest], NEW fin \in Blocks, NEW b \in Blocks,
         is_descendent_of(fin, b)
  PROVE  /\ EnactedBy(ch, fin) \subseteq DueBelow(ch, b)
         /\ DueBelow(ch, b) \subseteq EnactedBy(ch, b)
         /\ Cardinality(EnactedBy(ch, fin)) \in Nat /\ Cardinality(DueBelow(ch, b)) \in Nat
         /\ Cardinality(EnactedBy(ch, fin)) <= Cardinality(DueBelow(ch, b))
         /\ Cardinality(DueBelow(ch, b)) <= Cardinality(EnactedBy(ch, fin)) =>
              DueBelow(ch, b) = EnactedBy(ch, fin)
<1>1. Line(fin) \subseteq Line(b) /\ Number[fin] < Number[b]
  BY ChainAssumption, UnderFacts DEF Line, is_descendent_of
<1>2. Number[fin] \in Nat /\ Number[b] \in Nat  BY ChainAssumption
<1>3. \A c \in Line(b) : c \in Blocks /\ effective_number(ch, c) \in Nat
  BY LineFacts, EffectiveFacts
<1>4. EnactedBy(ch, fin) \subseteq DueBelow(ch, b)
  <2>1. \A c \in Line(b) : effective_number(ch, c) <= Number[fin] => effective_number(ch, c) < Number[b]
    BY SMT, <1>1, <1>2, <1>3
  <2> QED  BY <1>1, <2>1 DEF EnactedBy, DueBelow, StandardOn
<1>5. DueBelow(ch, b) \subseteq EnactedBy(ch, b)
  <2>1. \A c \in Line(b) : effective_number(ch, c) < Number[b] => effective_number(ch, c) <= Number[b]
    BY SMT, <1>2, <1>3
  <2> QED  BY <2>1 DEF EnactedBy, DueBelow, StandardOn
<1>6. /\ IsFiniteSet(DueBelow(ch, b)) /\ Cardinality(DueBelow(ch, b)) \in Nat
  BY ChainCounts DEF DueBelow
<1>7. Cardinality(EnactedBy(ch, fin)) \in Nat
  BY ChainCounts DEF EnactedBy
<1>8. /\ Cardinality(EnactedBy(ch, fin)) <= Cardinality(DueBelow(ch, b))
      /\ Cardinality(DueBelow(ch, b)) = Cardinality(EnactedBy(ch, fin)) =>
           DueBelow(ch, b) = EnactedBy(ch, fin)
  BY <1>4, <1>6, FS_Subset
<1>9. Cardinality(DueBelow(ch, b)) <= Cardinality(EnactedBy(ch, fin)) =>
        Cardinality(DueBelow(ch, b)) = Cardinality(EnactedBy(ch, fin))
  BY SMT, <1>6, <1>7, <1>8
<1> QED  BY <1>4, <1>5, <1>6, <1>7, <1>8, <1>9

\* The changes of a chain take effect in the order they are announced in.
LEMMA EffectOrder ==
  ASSUME NEW ch \in [Blocks -> Digest], OneAtATime(ch), NEW b \in Blocks,
         NEW c \in StandardOn(ch, b), NEW d \in StandardOn(ch, b)
  PROVE  /\ Number[c] < Number[d] => effective_number(ch, c) < effective_number(ch, d)
         /\ effective_number(ch, c) < effective_number(ch, d) => Number[c] < Number[d]
         /\ effective_number(ch, c) = effective_number(ch, d) => c = d
<1>1. /\ c \in Blocks /\ d \in Blocks /\ c \in Line(b) /\ d \in Line(b)
      /\ ch[c].kind = "standard" /\ ch[d].kind = "standard"
  BY LineFacts DEF StandardOn
<1>2. /\ effective_number(ch, c) \in Nat /\ Number[c] \in Nat /\ Number[c] <= effective_number(ch, c)
      /\ effective_number(ch, d) \in Nat /\ Number[d] \in Nat /\ Number[d] <= effective_number(ch, d)
  BY <1>1, EffectiveFacts
<1>3. c = d \/ is_descendent_of(c, d) \/ is_descendent_of(d, c)
  BY <1>1, LineFacts
<1>4. ASSUME is_descendent_of(c, d)
      PROVE  Number[c] < Number[d] /\ effective_number(ch, c) < Number[d]
  BY <1>1, <1>4, UnderFacts DEF OneAtATime
<1>5. ASSUME is_descendent_of(d, c)
      PROVE  Number[d] < Number[c] /\ effective_number(ch, d) < Number[c]
  BY <1>1, <1>5, UnderFacts DEF OneAtATime
<1>6. CASE c = d  BY SMT, <1>2, <1>6
<1>7. CASE is_descendent_of(c, d)  BY SMT, <1>2, <1>4, <1>7
<1>8. CASE is_descendent_of(d, c)  BY SMT, <1>2, <1>5, <1>8
<1> QED  BY <1>3, <1>6, <1>7, <1>8

\* Which set follows when a block is finalized.
LEMMA NextSet ==
  ASSUME NEW s \in AuthoritySets, NEW ch \in [Blocks -> Digest], NEW b \in Blocks,
         apply_standard_changes(s, ch, b).err = "none"
  PROVE  LET P == {c \in Blocks : effective_number(ch, c) <= Number[b]}
             r == apply_standard_changes(s, ch, b)
         IN  /\ r.new = {n \in roots(s.standard) \cap P : Under(n, b)}
             /\ r.set.standard.nodes \subseteq s.standard.nodes \ r.new
             /\ r.new = {} => /\ r.set.who = s.who /\ r.set.set_id = s.set_id
                             /\ r.set.changes = s.changes
             /\ r.new # {} => /\ r.changed /\ r.set.who \in r.new /\ r.set.set_id = s.set_id + 1
                             /\ r.set.changes = Append(s.changes, <<s.set_id, Number[b]>>)
<1> DEFINE P == {c \in Blocks : effective_number(ch, c) <= Number[b]}
           u == finalize_with_descendent_if(s.standard, b, P)
           r == apply_standard_changes(s, ch, b)
           kept == {f \in s.forced : effective_number(ch, f) > Number[b] /\ is_descendent_of(b, f)}
           c == CHOOSE x \in u.data : TRUE
           forced == IF u.changed THEN kept ELSE s.forced
           pruned == [s EXCEPT !.standard = u.tree, !.forced = forced]
           n == s.set_id + 1
           l == append(s.changes, s.set_id, Number[b])
<1>1. s.standard \in Tree  BY DEF AuthoritySets
<1>2. u.err = "none"
  BY DEF apply_standard_changes
<1>3. /\ u.data = {m \in roots(s.standard) \cap P : Under(m, b)}
      /\ u.tree.nodes \subseteq s.standard.nodes \ u.data /\ u.tree \in Tree
  <2>1. u.tree.nodes \subseteq s.standard.nodes \ u.data /\ u.tree \in Tree
    <3> HIDE DEF P
    <3> QED  BY SMT, <1>1, <1>2, FinalizeKeepsBranch
  <2>2. u.data = {m \in roots(s.standard) \cap P : Under(m, b)}
    BY <1>2 DEF finalize_with_descendent_if
  <2> QED  BY <2>1, <2>2
<1>4. IF u.data = {}
      THEN r = [set |-> pruned, err |-> "none", new |-> {}, changed |-> u.changed]
      ELSE r = [set |-> [pruned EXCEPT !.who = c, !.set_id = @ + 1,
                                      !.changes = append(@, s.set_id, Number[b])],
                err |-> "none", new |-> u.data, changed |-> TRUE]
  BY <1>2 DEF apply_standard_changes
<1> HIDE DEF u, r, P, forced
<1>5. pruned = [who |-> s.who, set_id |-> s.set_id, standard |-> u.tree, forced |-> forced,
                changes |-> s.changes]
  <2>1. forced \subseteq Blocks  BY DEF forced, AuthoritySets
  <2>2. /\ pruned \in AuthoritySets /\ pruned.standard = u.tree /\ pruned.forced = forced
        /\ pruned.who = s.who /\ pruned.set_id = s.set_id /\ pruned.changes = s.changes
    BY <1>3, <2>1 DEF AuthoritySets
  <2> HIDE DEF pruned
  <2>3. pruned = [who |-> pruned.who, set_id |-> pruned.set_id, standard |-> pruned.standard,
                  forced |-> pruned.forced, changes |-> pruned.changes]
    BY <2>2 DEF AuthoritySets
  <2> QED  BY <2>2, <2>3
<1>6. CASE u.data = {}
  <2>1. r.set = pruned /\ r.new = {}  BY SMT, <1>4, <1>6
  <2> HIDE DEF pruned
  <2>2. r.new = u.data /\ r.set.standard = u.tree /\ r.set.who = s.who /\ r.set.set_id = s.set_id
        /\ r.set.changes = s.changes
    BY SMT, <1>5, <1>6, <2>1
  <2> QED  BY <1>3, <2>1, <2>2 DEF r, P
<1>7. CASE u.data # {}
  <2>1. r.set = [pruned EXCEPT !.who = c, !.set_id = @ + 1,
                               !.changes = append(@, s.set_id, Number[b])]
        /\ r.new = u.data /\ r.changed = TRUE
    BY SMT, <1>4, <1>7
  <2>2. c \in u.data  BY <1>7
  <2> HIDE DEF pruned, c
  <2>3. r.set = [who |-> c, set_id |-> n, standard |-> u.tree, forced |-> forced, changes |-> l]
    BY <1>5, <2>1
  <2> HIDE DEF n, l
  <2>4. r.set.standard = u.tree /\ r.set.who = c /\ r.set.set_id = n /\ r.set.changes = l
    BY SMT, <2>3
  <2>5. l = Append(s.changes, <<s.set_id, Number[b]>>) /\ n = s.set_id + 1
    BY DEF l, n, append
  <2> QED  BY <1>3, <1>7, <2>1, <2>2, <2>4, <2>5 DEF r, P
<1> QED  BY <1>6, <1>7

\* Pending changes are standard ones that have not taken effect.
Clean(ch, N, fin) == \A n \in N : ch[n].kind = "standard" /\ n \notin EnactedBy(ch, fin)

\* Finalizing a block that the current set signs enacts exactly the change that
\* takes effect at it, if there is one.
LEMMA EnactsDue ==
  ASSUME NEW s \in AuthoritySets, NEW ch \in [Blocks -> Digest], OneAtATime(ch),
         ForcedBlocks(ch) = {}, NEW S \in SUBSET Blocks, \A a \in S : Ancestors[a] \subseteq S,
         NEW fin \in Blocks, NEW b \in S, is_descendent_of(fin, b),
         Has(ch, s.standard.nodes, s.forced, S, fin), Clean(ch, s.standard.nodes, fin),
         DueBelow(ch, b) = EnactedBy(ch, fin),
         apply_standard_changes(s, ch, b).err = "none"
  PROVE  LET r == apply_standard_changes(s, ch, b)
         IN  /\ r.new = EnactedBy(ch, b) \ EnactedBy(ch, fin)
             /\ Clean(ch, r.set.standard.nodes, b)
<1> DEFINE P == {c \in Blocks : effective_number(ch, c) <= Number[b]}
           r == apply_standard_changes(s, ch, b)
<1>1. /\ r.new = {n \in roots(s.standard) \cap P : Under(n, b)}
      /\ r.set.standard.nodes \subseteq s.standard.nodes \ r.new
  BY NextSet
<1> HIDE DEF r
<1>2. /\ s.standard \in Tree /\ s.standard.nodes \subseteq Blocks /\ b \in Blocks
      /\ roots(s.standard) \subseteq s.standard.nodes
  BY DEF AuthoritySets, Tree, roots
<1>3. Number[b] \in Nat /\ Number[fin] \in Nat /\ Number[fin] < Number[b]
  BY <1>2, ChainAssumption, UnderFacts
<1>4. ASSUME NEW n \in r.new  PROVE n \in EnactedBy(ch, b) \ EnactedBy(ch, fin)
  <2>1. n \in s.standard.nodes /\ n \in P /\ Under(n, b)  BY <1>1, <1>2
  <2>2. ch[n].kind = "standard" /\ n \notin EnactedBy(ch, fin)  BY <2>1 DEF Clean
  <2>3. n \in Line(b)  BY <2>1 DEF Line, Under, is_descendent_of
  <2> QED  BY <2>1, <2>2, <2>3 DEF EnactedBy, StandardOn
<1>5. ASSUME NEW c \in EnactedBy(ch, b) \ EnactedBy(ch, fin)  PROVE c \in r.new
  <2>1. /\ c \in StandardOn(ch, b) /\ c \in Line(b) /\ c \in Blocks /\ ch[c].kind = "standard"
        /\ Under(c, b) /\ c \in S /\ effective_number(ch, c) <= Number[b]
    <3>1. c \in Line(b) /\ ch[c].kind = "standard" /\ effective_number(ch, c) <= Number[b]
      BY DEF EnactedBy, StandardOn
    <3>2. Line(b) \subseteq S  BY DEF Line
    <3> QED  BY <1>2, <3>1, <3>2, LineFacts DEF StandardOn
  <2>2. /\ effective_number(ch, c) \in Nat /\ Number[c] \in Nat
        /\ Number[c] <= effective_number(ch, c)
    BY <2>1, EffectiveFacts
  <2>3. effective_number(ch, c) = Number[b]
    <3>1. ~(effective_number(ch, c) < Number[b])  BY <2>1 DEF DueBelow
    <3> QED  BY SMT, <1>3, <2>1, <2>2, <3>1
  <2>4. ViableIn(ch, S, fin, c)
    <3>1. is_descendent_of(fin, c) \/ Under(c, fin)
      BY <2>1, UnderFacts DEF Under
    <3>2. effective_number(ch, c) > Number[fin]  BY SMT, <1>3, <2>3
    <3>3. AppliedIn(ch, S) = {}  BY DEF AppliedIn
    <3> QED  BY <2>1, <3>1, <3>2, <3>3 DEF ViableIn
  <2>5. c \in s.standard.nodes  BY <2>1, <2>4 DEF Has
  \* Whatever is above it in the tree took effect before and has gone.
  <2>6. PICK q \in roots(s.standard) : Under(q, c)  BY <1>2, <2>5, RootAbove
  <2>7. q = c
    <3> SUFFICES ASSUME is_descendent_of(q, c)  PROVE FALSE  BY <2>6 DEF Under
    <3>1. q \in Blocks /\ ch[q].kind = "standard" /\ q \notin EnactedBy(ch, fin)
      BY <1>2 DEF Clean
    <3>2. effective_number(ch, q) < Number[c]  BY <2>1, <3>1 DEF OneAtATime
    <3>3. effective_number(ch, q) \in Nat  BY <3>1, EffectiveFacts
    <3>4. effective_number(ch, q) < Number[b]  BY SMT, <1>3, <2>1, <2>2, <3>2, <3>3
    <3>5. Under(q, b)  BY <1>2, <2>1, <2>6, <3>1, UnderFacts
    <3>6. q \in DueBelow(ch, b)
      BY <3>1, <3>4, <3>5 DEF DueBelow, StandardOn, Line, Under, is_descendent_of
    <3> QED  BY <3>1, <3>6
  <2> QED  BY <1>1, <2>1, <2>6, <2>7
<1>6. r.new = EnactedBy(ch, b) \ EnactedBy(ch, fin)  BY <1>4, <1>5
<1>7. Clean(ch, r.set.standard.nodes, b)
  BY <1>1, <1>6 DEF Clean
<1> QED  BY <1>6, <1>7 DEF r

\* Which set ended where: the set before the change c of E, and its last block.
Ending(ch, E, c) == <<Cardinality({d \in E : Number[d] < Number[c]}), effective_number(ch, c)>>
\* The set and the record that the changes of the finalized chain make.
Right(ch, who, n, l, fin) ==
  /\ n = Cardinality(EnactedBy(ch, fin))
  /\ who = IF EnactedBy(ch, fin) = {} THEN Genesis ELSE Latest(EnactedBy(ch, fin))
  /\ l \in Seq(Nat \X Nat) /\ Len(l) = n
  /\ \A k \in 1 .. Len(l) : \E c \in EnactedBy(ch, fin) : l[k] = Ending(ch, EnactedBy(ch, fin), c)
  /\ \A c \in EnactedBy(ch, fin) : \E k \in 1 .. Len(l) : l[k] = Ending(ch, EnactedBy(ch, fin), c)
  /\ \A k \in 1 .. Len(l) : l[k][1] = k - 1 /\ l[k][2] <= Number[fin]
  /\ \A k \in 2 .. Len(l) : l[k - 1][2] <= l[k][2]

\* Finality passes blocks at which nothing takes effect.
LEMMA RightSame ==
  ASSUME NEW ch, NEW who, NEW n, NEW l, NEW fin \in Blocks, NEW b \in Blocks,
         Right(ch, who, n, l, fin), EnactedBy(ch, b) = EnactedBy(ch, fin),
         is_descendent_of(fin, b)
  PROVE  Right(ch, who, n, l, b)
<1>1. Number[fin] \in Nat /\ Number[b] \in Nat /\ Number[fin] < Number[b]
  BY ChainAssumption, UnderFacts
<1>2. \A k \in 1 .. Len(l) : l[k][1] = k - 1 /\ l[k][2] <= Number[b]
  <2>1. l \in Seq(Nat \X Nat) /\ \A k \in 1 .. Len(l) : l[k][1] = k - 1 /\ l[k][2] <= Number[fin]
    BY DEF Right
  <2>2. \A k \in 1 .. Len(l) : l[k][2] \in Nat  BY SMT, <2>1
  <2> QED  BY SMT, <1>1, <2>1, <2>2
<1> QED  BY <1>2 DEF Right

\* Finality reaches a block at which a change takes effect.
LEMMA RightNext ==
  ASSUME NEW ch, NEW who, NEW n, NEW l, NEW fin \in Blocks, NEW b \in Blocks,
         Right(ch, who, n, l, fin), is_descendent_of(fin, b),
         NEW c, c \notin EnactedBy(ch, fin), EnactedBy(ch, b) = EnactedBy(ch, fin) \cup {c},
         \A d \in EnactedBy(ch, fin) : Number[d] < Number[c],
         effective_number(ch, c) = Number[b]
  PROVE  Right(ch, c, n + 1, Append(l, <<n, Number[b]>>), b)
<1> DEFINE E == EnactedBy(ch, fin)
           F == EnactedBy(ch, b)
           m == Append(l, <<n, Number[b]>>)
<1>1. Number[fin] \in Nat /\ Number[b] \in Nat /\ Number[fin] < Number[b]
  BY ChainAssumption, UnderFacts
<1>2. IsFiniteSet(E) /\ n \in Nat /\ n = Cardinality(E) /\ F = E \cup {c} /\ c \notin E
  <2>1. E \in SUBSET StandardOn(ch, fin)  BY DEF EnactedBy
  <2>2. n = Cardinality(E)  BY DEF Right
  <2> QED  BY <2>1, <2>2, ChainCounts
<1>3. \A d \in F : d \in Blocks /\ Number[d] \in Nat
  BY LineFacts, ChainAssumption DEF EnactedBy, StandardOn
<1>4. l \in Seq(Nat \X Nat) /\ Len(l) = n  BY DEF Right
<1>5. /\ m \in Seq(Nat \X Nat) /\ Len(m) = n + 1 /\ m[n + 1] = <<n, Number[b]>>
      /\ \A k \in 1 .. n : m[k] = l[k]
  BY SMT, <1>1, <1>2, <1>4
<1>6. \A d \in E : Number[d] < Number[c]  OBVIOUS
<1>7. /\ \A k \in 1 .. n : \E d \in E : l[k] = Ending(ch, E, d)
      /\ \A d \in E : \E k \in 1 .. n : l[k] = Ending(ch, E, d)
      /\ \A k \in 1 .. n : l[k][1] = k - 1 /\ l[k][2] <= Number[fin]
      /\ \A k \in 2 .. n : l[k - 1][2] <= l[k][2]
  BY <1>4 DEF Right
<1> HIDE DEF E, F, m
<1>8. \A d \in E : ~(Number[c] < Number[d]) /\ ~(Number[c] <= Number[d])
  BY SMT, <1>2, <1>3, <1>6
<1>9. Latest(F) = c
  <2>1. \A d \in F : Number[d] <= Number[c]
    BY SMT, <1>2, <1>3, <1>6
  <2>2. \A x \in F : (\A d \in F : Number[d] <= Number[x]) => x = c
    BY <1>2, <1>8
  <2> QED  BY <1>2, <2>1, <2>2 DEF Latest
<1>10. n + 1 = Cardinality(F)  BY <1>2, FS_AddElement
<1>11. \A d \in E : Ending(ch, F, d) = Ending(ch, E, d)
  <2>1. \A d \in E : {x \in F : Number[x] < Number[d]} = {x \in E : Number[x] < Number[d]}
    BY <1>2, <1>8
  <2> QED  BY <2>1 DEF Ending
<1>12. Ending(ch, F, c) = <<n, Number[b]>>
  <2>1. ~(Number[c] < Number[c])  BY SMT, <1>2, <1>3
  <2>2. {x \in F : Number[x] < Number[c]} = E  BY <1>2, <1>6, <2>1
  <2> QED  BY <1>2, <2>2 DEF Ending
<1>13. /\ \A k \in 1 .. n + 1 : k = n + 1 \/ k \in 1 .. n
       /\ \A k \in 1 .. n : k \in 1 .. n + 1
       /\ n + 1 \in 1 .. n + 1 /\ (n + 1) - 1 = n
  BY SMT, <1>2
<1>14. \A k \in 1 .. n + 1 : \E d \in F : m[k] = Ending(ch, F, d)
  <2>1. ASSUME NEW k \in 1 .. n  PROVE \E d \in F : m[k] = Ending(ch, F, d)
    <3>1. PICK d \in E : l[k] = Ending(ch, E, d)  BY <1>7
    <3>2. d \in F /\ m[k] = Ending(ch, F, d)  BY <1>2, <1>5, <1>11, <3>1
    <3> QED  BY <3>2
  <2> QED  BY <1>2, <1>5, <1>12, <1>13, <2>1
<1>15. \A d \in F : \E k \in 1 .. n + 1 : m[k] = Ending(ch, F, d)
  <2>1. ASSUME NEW d \in E  PROVE \E k \in 1 .. n + 1 : m[k] = Ending(ch, F, d)
    BY <1>5, <1>7, <1>11, <1>13
  <2> QED  BY <1>2, <1>5, <1>12, <1>13, <2>1
<1>16. \A k \in 1 .. n : l[k][2] \in Nat  BY SMT, <1>4
<1>17. \A k \in 1 .. n + 1 : m[k][1] = k - 1 /\ m[k][2] <= Number[b]
  <2>1. ASSUME NEW k \in 1 .. n  PROVE m[k][1] = k - 1 /\ m[k][2] <= Number[b]
    <3>1. m[k] = l[k] /\ l[k][1] = k - 1 /\ l[k][2] <= Number[fin] /\ l[k][2] \in Nat
      BY <1>5, <1>7, <1>16
    <3>2. l[k][2] <= Number[b]  BY SMT, <1>1, <3>1
    <3> QED  BY <3>1, <3>2
  <2>2. m[n + 1][1] = n /\ m[n + 1][2] <= Number[b]
    BY SMT, <1>1, <1>5
  <2> QED  BY <1>13, <2>1, <2>2
<1>18. ASSUME NEW k \in 2 .. n + 1  PROVE m[k - 1][2] <= m[k][2]
  <2>1. k - 1 \in 1 .. n /\ (k = n + 1 \/ (k \in 2 .. n /\ k \in 1 .. n))  BY SMT, <1>2
  <2>2. CASE k = n + 1
    <3>1. k - 1 \in 1 .. n + 1  BY <1>13, <2>1
    <3> DEFINE j == k - 1
    <3>3. m[j][2] <= Number[b]  BY <1>17, <3>1
    <3>2. m[k][2] = Number[b]  BY SMT, <1>1, <1>2, <1>5, <2>2
    <3> QED  BY <3>2, <3>3
  <2>3. CASE k \in 2 .. n /\ k \in 1 .. n
    BY <1>5, <1>7, <2>1, <2>3
  <2> QED  BY <2>1, <2>2, <2>3
<1>19. F # {}  BY <1>2
<1>20. Right(ch, c, n + 1, m, b)
  <2>1. Len(m) = n + 1 /\ m \in Seq(Nat \X Nat)  BY <1>5
  <2> QED  BY <1>9, <1>10, <1>14, <1>15, <1>17, <1>18, <1>19, <2>1 DEF Right, F
<1> QED  BY <1>20 DEF m

-----------------------------------------------------------------------------
(* Without forced changes: the set, its record and the voter.              *)

\* The node has synced no state and no change is forced.
Ordinary == setup.warp = Genesis /\ ForcedBlocks(change) = {} /\ OneAtATime(change)

\* The set in memory and on disk is that of the finalized chain.
TrackInv ==
  /\ Right(change, disk.auth.who, disk.auth.set_id, disk.auth.changes, finalized)
  /\ auth.who = disk.auth.who /\ auth.set_id = disk.auth.set_id /\ auth.changes = disk.auth.changes
  /\ Clean(change, auth.standard.nodes, finalized)
  /\ Clean(change, disk.auth.standard.nodes, finalized)

\* What an importer has is signed by those who sign for its block, and what has
\* been checked was signed by the current set or an earlier one.
Busy(st, i, x, n) ==
  /\ x.applied # "forced" /\ x.just \subseteq Signers(st, x.block)
  /\ x.pc = "authorities" => x.set_id \in Nat /\ x.set_id <= n
  /\ x.pc = "finalize" => x.just # {} /\ \A s \in x.just : s.set_id \in Nat /\ s.set_id <= n
  /\ i = Author => x.just = {} /\ x.pc \notin {"verify", "authorities", "finalize", "command"}
BusyInv == \A i \in Importers : Busy(setup, i, imp[i], auth.set_id)

\* The voter in set v has been sent cs, and is being sent what x has to say: the
\* sets after its own, in order, up to the current one.
Told(v, cs, x, n) ==
  /\ v \in Nat /\ v <= n
  /\ cs \in Seq([cmd : {"ChangeAuthorities"}, set_id : Nat])
  /\ \A k \in 1 .. Len(cs) : v < cs[k].set_id /\ cs[k].set_id <= n
  /\ \A k, l \in 1 .. Len(cs) : k < l => cs[k].set_id < cs[l].set_id
  /\ x.pc = "command" => x.set_id = n /\ v < n /\ \A k \in 1 .. Len(cs) : cs[k].set_id < n
  /\ x.pc # "command" => IF cs = <<>> THEN v = n ELSE cs[Len(cs)].set_id = n
VoterInv == Told(voter.set_id, commands, imp[Queue], auth.set_id)
OInv == TrackInv /\ BusyInv /\ VoterInv

\* Without forced changes, the set of the changes due below a block signs for it.
LEMMA SignersAre ==
  ASSUME NEW st, NEW b \in Blocks, ForcedBlocks(st.change) = {}, NEW s \in Signers(st, b)
  PROVE  s.set_id = Cardinality(DueBelow(st.change, b)) /\ s.set_id \in Nat
<1> DEFINE due == DueBelow(st.change, b)
<1>1. s = After(0, Genesis, due)
  BY DEF Signers, DueBelow
<1>2. Cardinality(due) \in Nat  BY ChainCounts DEF DueBelow
<1> HIDE DEF due
<1>3. s.set_id = 0 + Cardinality(due)  BY SMT, <1>1 DEF After
<1>4. s.set_id = Cardinality(due)  BY SMT, <1>2, <1>3
<1> QED  BY <1>2, <1>4 DEF due

\* Importing a block then changes nothing but the pending changes.
LEMMA MakeKeeps ==
  ASSUME NEW s \in AuthoritySets, NEW ch \in [Blocks -> Digest], NEW b \in Blocks,
         Changes(s, ch, b).err = "none", s.forced = {}, ch[b].kind # "forced"
  PROVE  LET c == Changes(s, ch, b)
         IN  /\ c.applied # "forced"
             /\ c.set.who = s.who /\ c.set.set_id = s.set_id /\ c.set.changes = s.changes
             /\ c.set.standard.nodes
                  = s.standard.nodes \cup (IF ch[b].kind = "standard" THEN {b} ELSE {})
<1> DEFINE c == Changes(s, ch, b)
           added == add_pending_change(s, ch, b)
           forced == apply_forced_changes(added.set, ch, b)
           enacts == enacts_standard_change(added.set, ch, b)
           i == import(s.standard, b)
<1>1. /\ c.applied # "forced"
      /\ c.set.standard.nodes
           = s.standard.nodes \cup (IF ch[b].kind = "standard" THEN {b} ELSE {})
  <2> DEFINE F == s.forced \cup (IF ch[b].kind = "forced" THEN {b} ELSE {})
  <2>1. F = {}  OBVIOUS
  <2>2. /\ c.applied = "forced" => \E f \in F : effective_number(ch, f) = Number[b] /\ Under(f, b)
        /\ c.applied # "forced" => c.set.standard.nodes
             = s.standard.nodes \cup (IF ch[b].kind = "standard" THEN {b} ELSE {})
    <3> HIDE DEF c
    <3> QED  BY SMT, ChangesFacts DEF c
  <2> HIDE DEF F
  <2> QED  BY <2>1, <2>2
<1>2. c.set = added.set /\ added.err = "none"
  <2> HIDE DEF added, forced, enacts
  <2>1. c = IF added.err # "none" THEN [set |-> s, err |-> added.err, applied |-> "none"]
            ELSE IF forced.err # "none" THEN [set |-> s, err |-> forced.err, applied |-> "none"]
            ELSE IF forced.forced # {}
            THEN [set |-> forced.set, err |-> "none", applied |-> "forced"]
            ELSE IF enacts.err # "none" THEN [set |-> s, err |-> enacts.err, applied |-> "none"]
            ELSE [set |-> added.set, err |-> "none", applied |-> enacts.tree]
    BY DEF Changes, added, forced, enacts
  <2> HIDE DEF c
  <2> QED  BY SMT, <1>1, <2>1 DEF c
<1> HIDE DEF c
<1>3. added.set = s \/ added.set = [s EXCEPT !.standard = i.tree]
  <2> HIDE DEF i
  <2>1. CASE ch[b].kind = "standard"
    <3>1. added = add_standard_change(s, b)  BY <2>1 DEF add_pending_change
    <3> HIDE DEF added
    <3> QED  BY SMT, <3>1 DEF add_standard_change, Set, Failed, i
  <2>2. CASE ch[b].kind # "standard"
    <3>1. added = Set(s)  BY <2>2 DEF add_pending_change
    <3> HIDE DEF added
    <3> QED  BY SMT, <3>1 DEF Set
  <2> QED  BY <2>1, <2>2
<1> HIDE DEF added, i
<1>4. c.set.who = s.who /\ c.set.set_id = s.set_id /\ c.set.changes = s.changes
  BY <1>2, <1>3 DEF AuthoritySets
<1> QED  BY <1>1, <1>4 DEF c

\* No forced change is pending.
LEMMA NoneForced ==
  ASSUME IInv, Ordinary, Unlocked
  PROVE  /\ auth.forced = {} /\ \A b \in Blocks : change[b].kind # "forced"
         /\ Has(change, auth.standard.nodes, auth.forced, imported, finalized)
<1>1. \A b \in Blocks : change[b].kind # "forced"  BY DEF Ordinary, ForcedBlocks
<1>2. Same(auth, disk.auth) /\ HasIn(disk.auth, imported)
  BY DEF IInv, LockInv, PendingInv, Unlocked
<1>3. Has(change, auth.standard.nodes, auth.forced, imported, finalized)
  BY <1>2 DEF HasIn, Same
<1>4. auth.forced \subseteq Blocks  BY DEF IInv, LockInv, AuthoritySets
<1>5. \A f \in auth.forced : change[f].kind = "forced"  BY <1>3 DEF Has
<1> QED  BY <1>1, <1>3, <1>4, <1>5

\* Finalizing a block for which a set signs that is not later than the current
\* one: it is the current one, and the next set follows as it should.
LEMMA FinalTrack ==
  ASSUME IInv, IInv', Ordinary, TrackInv, Unlocked, NEW b \in Blocks, Finalizes(b),
         NEW s \in Signers(setup, b), s.set_id <= auth.set_id, UNCHANGED <<setup, lock>>
  PROVE  /\ TrackInv' /\ s.set_id = auth.set_id
         /\ auth'.set_id = IF Enacts(b) THEN auth.set_id + 1 ELSE auth.set_id
<1> DEFINE r == apply_standard_changes(auth, change, b)
           E == EnactedBy(change, finalized)
           F == EnactedBy(change, b)
<1>1. /\ change \in [Blocks -> Digest] /\ auth \in AuthoritySets /\ finalized \in Blocks
      /\ imported \in SUBSET Blocks /\ \A a \in imported : Ancestors[a] \subseteq imported
      /\ OneAtATime(change) /\ ForcedBlocks(change) = {} /\ change' = change
  BY SetupFacts DEF IInv, ChainInv, LockInv, Ordinary, change
<1>2. /\ r.err = "none" /\ is_descendent_of(finalized, b) /\ b \in imported
      /\ finalized' = b /\ auth' = r.set /\ (Enacts(b) <=> r.new # {})
  BY DEF Finalizes, Enacts
<1>3. /\ Right(change, auth.who, auth.set_id, auth.changes, finalized)
      /\ Clean(change, auth.standard.nodes, finalized)
  BY DEF TrackInv
<1>4. auth.set_id = Cardinality(E)  BY <1>3 DEF Right
<1>5. s.set_id = Cardinality(DueBelow(change, b))
  BY <1>1, SignersAre DEF change
<1>6. /\ E \subseteq F /\ DueBelow(change, b) = E /\ Cardinality(E) \in Nat
  BY <1>1, <1>2, <1>4, <1>5, EffectGrows
<1>7. r.new = F \ E /\ Clean(change, r.set.standard.nodes, b)
  BY <1>1, <1>2, <1>3, <1>6, NoneForced, EnactsDue
<1>8. /\ r.new = {} => /\ r.set.who = auth.who /\ r.set.set_id = auth.set_id
                       /\ r.set.changes = auth.changes
      /\ r.new # {} => /\ r.set.who \in r.new /\ r.set.set_id = auth.set_id + 1
                       /\ r.set.changes = Append(auth.changes, <<auth.set_id, Number[b]>>)
  BY SMT, <1>1, <1>2, NextSet
<1> HIDE DEF r
<1>9. Right(change, r.set.who, r.set.set_id, r.set.changes, b)
  <2>1. CASE r.new = {}
    <3>1. F = E  BY <1>6, <1>7, <2>1
    <3> QED  BY <1>1, <1>2, <1>3, <1>8, <2>1, <3>1, RightSame
  <2>2. CASE r.new # {}
    <3> DEFINE c == r.set.who
    <3>1. c \in F /\ c \notin E  BY <1>7, <1>8, <2>2
    <3>2. \A d \in F : /\ d \in StandardOn(change, b) /\ d \in Blocks
                       /\ effective_number(change, d) \in Nat
                       /\ effective_number(change, d) <= Number[b]
      BY <1>1, LineFacts, EffectiveFacts DEF EnactedBy, StandardOn
    <3>3. \A d \in F : d \notin E => ~(effective_number(change, d) < Number[b])
      BY <1>6, <3>2 DEF DueBelow
    <3>4. Number[b] \in Nat  BY ChainAssumption
    <3>5. \A d \in F : d \notin E => effective_number(change, d) = Number[b]
      <4> HIDE DEF E, F
      <4> QED  BY SMT, <3>2, <3>3, <3>4
    <3>6. \A d \in E : effective_number(change, d) < Number[b]
      BY <1>6 DEF DueBelow
    <3> HIDE DEF c
    <3>7. F = E \cup {c}
      <4>1. \A d \in F : d \notin E => d = c  BY <1>1, <3>1, <3>2, <3>5, EffectOrder
      <4> QED  BY <1>6, <3>1, <4>1
    <3>8. \A d \in E : Number[d] < Number[c]
      <4>1. \A d \in E : effective_number(change, d) < effective_number(change, c)
        BY <3>1, <3>5, <3>6
      <4> QED  BY <1>1, <1>6, <3>1, <3>2, <4>1, EffectOrder
    <3>9. effective_number(change, c) = Number[b]  BY <3>1, <3>5
    <3> HIDE DEF E, F
    <3>10. Right(change, c, auth.set_id + 1, Append(auth.changes, <<auth.set_id, Number[b]>>), b)
      BY <1>1, <1>2, <1>3, <3>1, <3>7, <3>8, <3>9, RightNext DEF E, F
    <3> QED  BY <1>8, <2>2, <3>10 DEF c
  <2> QED  BY <2>1, <2>2
<1>10. Same(auth', disk'.auth)  BY DEF IInv, LockInv, Unlocked
<1>11. TrackInv'
  BY <1>1, <1>2, <1>7, <1>9, <1>10 DEF TrackInv, Same
<1>12. s.set_id = auth.set_id  BY <1>4, <1>5, <1>6
<1>13. auth'.set_id = IF Enacts(b) THEN auth.set_id + 1 ELSE auth.set_id  BY <1>2, <1>8
<1> QED  BY <1>11, <1>12, <1>13

\* What neither finalizes a block nor touches the set leaves the set right.
LEMMA TrackKept ==
  ASSUME TrackInv, UNCHANGED <<setup, finalized>>,
         auth'.who = auth.who, auth'.set_id = auth.set_id, auth'.changes = auth.changes,
         disk'.auth.who = disk.auth.who, disk'.auth.set_id = disk.auth.set_id,
         disk'.auth.changes = disk.auth.changes,
         Clean(change, auth'.standard.nodes, finalized),
         Clean(change, disk'.auth.standard.nodes, finalized)
  PROVE  TrackInv'
<1>1. change' = change  BY DEF change
<1> QED  BY <1>1 DEF TrackInv

\* One importer goes on; it neither had nor has a command to send.
LEMMA Moves ==
  ASSUME IInv, OInv, NEW i \in Importers, NEW x, imp' = [imp EXCEPT ![i] = x],
         Busy(setup, i, x, auth.set_id), imp[i].pc # "command", x.pc # "command",
         auth'.set_id = auth.set_id, UNCHANGED <<setup, voter, commands>>
  PROVE  BusyInv' /\ VoterInv'
<1>1. /\ imp = [k \in Importers |-> imp[k]] /\ Queue \in Importers
  BY DEF IInv, ChainInv, Importers
<1>2. \A k \in Importers : imp'[k] = IF k = i THEN x ELSE imp[k]  BY <1>1
<1>3. BusyInv'  BY <1>2 DEF OInv, BusyInv
<1>4. Told(voter.set_id, commands, imp[Queue], auth.set_id)  BY DEF OInv, VoterInv
<1>5. Told(voter.set_id, commands, imp'[Queue], auth.set_id)
  <2>1. CASE i = Queue  BY <1>1, <1>2, <1>4, <2>1 DEF Told
  <2>2. CASE i # Queue  BY <1>1, <1>2, <1>4, <2>2
  <2> QED  BY <2>1, <2>2
<1> QED  BY <1>3, <1>5 DEF VoterInv

\* An importer that has nothing to do.
LEMMA IdleBusy ==
  ASSUME NEW st, NEW i, NEW n
  PROVE  Busy(st, i, Idle, n) /\ Idle.pc = "idle"
BY DEF Busy, Idle

\* Only the importers move.
LEMMA OnlyMoves ==
  ASSUME IInv, OInv, NEW i \in Importers, NEW x, imp' = [imp EXCEPT ![i] = x],
         Busy(setup, i, x, auth.set_id), imp[i].pc # "command", x.pc # "command",
         UNCHANGED <<setup, finalized, auth, voter, commands, disk>>
  PROVE  OInv'
<1>1. TrackInv'  BY TrackKept DEF OInv, TrackInv
<1> QED  BY <1>1, Moves DEF OInv

\* Importing starts, with or without a justification.
LEMMA ImportKeeps ==
  ASSUME IInv, Ordinary, OInv, NEW i \in Importers, NEW b \in Blocks,
         import_block(i, b) \/ (i = Queue /\ import_justification(i, b))
  PROVE  OInv'
<1>0. Queue # Author  BY DEF Queue, Author
<1>1. imp[i].pc = "idle" /\ UNCHANGED <<setup, finalized, auth, voter, commands, disk>>
  BY DEF import_block, import_justification
<1>2. PICK j \in SUBSET Signers(setup, b), pc \in {"make", "verify"} :
        /\ imp' = [imp EXCEPT ![i] = [Idle EXCEPT !.pc = pc, !.block = b, !.just = j]]
        /\ i = Author => j = {} /\ pc = "make"
  <2>1. CASE import_block(i, b)
    <3>1. PICK j \in {{}} \cup {{s} : s \in Signers(setup, b)} :
            /\ i = Author => j = {}
            /\ imp' = [imp EXCEPT ![i] = [Idle EXCEPT !.pc = "make", !.block = b, !.just = j]]
      BY <2>1 DEF import_block
    <3>2. j \in SUBSET Signers(setup, b)  BY <3>1
    <3> QED  BY <3>1, <3>2
  <2>2. CASE i = Queue /\ import_justification(i, b)
    <3>1. PICK s \in Signers(setup, b) :
            imp' = [imp EXCEPT ![i] = [Idle EXCEPT !.pc = "verify", !.block = b, !.just = {s}]]
      BY <2>2 DEF import_justification
    <3>2. {s} \in SUBSET Signers(setup, b)  BY <3>1
    <3> QED  BY <1>0, <2>2, <3>1, <3>2
  <2> QED  BY <2>1, <2>2
<1> DEFINE x == [Idle EXCEPT !.pc = pc, !.block = b, !.just = j]
<1>3. x.pc = pc /\ x.block = b /\ x.just = j /\ x.applied = "none"  BY DEF Idle
<1> HIDE DEF x
<1>4. Busy(setup, i, x, auth.set_id)  BY <1>2, <1>3 DEF Busy
<1> QED  BY <1>1, <1>2, <1>3, <1>4, OnlyMoves DEF x

\* The changes of a block are made in memory.
LEMMA MakeKept ==
  ASSUME IInv, Ordinary, OInv, NEW i \in Importers, make_authorities_changes(i)
  PROVE  OInv'
<1> DEFINE b == imp[i].block
           c == Changes(auth, change, b)
           kept == change[b].kind # "none" \/ c.applied = "forced"
           old == IF kept THEN {auth} ELSE {}
<1>1. /\ imp[i].pc = "make" /\ Unlocked /\ UNCHANGED <<setup, finalized, voter, commands, disk>>
      /\ IF c.err # "none" THEN Done(i) /\ UNCHANGED auth
         ELSE /\ imp' = [imp EXCEPT ![i].pc = "write", ![i].applied = c.applied, ![i].old = old]
              /\ auth' = c.set
  BY DEF make_authorities_changes
<1> HIDE DEF c
<1>2. CASE c.err # "none"
  BY <1>1, <1>2, IdleBusy, OnlyMoves DEF Done
<1>3. CASE c.err = "none"
  <2>1. /\ change \in [Blocks -> Digest] /\ auth \in AuthoritySets /\ b \in Blocks
        /\ b \notin imported /\ Ancestors[finalized] \subseteq imported /\ finalized \in imported
    <3>1. b \notin imported /\ b \in Blocks
      BY <1>1 DEF IInv, ChainInv, Importing, IsActivity
    <3> QED  BY <3>1, SetupFacts DEF IInv, ChainInv, LockInv
  <2>2. /\ c.applied # "forced"
        /\ c.set.who = auth.who /\ c.set.set_id = auth.set_id /\ c.set.changes = auth.changes
        /\ c.set.standard.nodes
             = auth.standard.nodes \cup (IF change[b].kind = "standard" THEN {b} ELSE {})
    <3>1. auth.forced = {} /\ change[b].kind # "forced"  BY <1>1, <2>1, NoneForced
    <3> QED  BY SMT, <1>3, <2>1, <3>1, MakeKeeps DEF c
  <2>3. b \notin EnactedBy(change, finalized)
    BY <2>1 DEF EnactedBy, StandardOn, Line
  <2>4. Clean(change, c.set.standard.nodes, finalized)
    BY <2>2, <2>3 DEF OInv, TrackInv, Clean
  <2>5. TrackInv'
    BY <1>1, <1>3, <2>2, <2>4, TrackKept DEF OInv, TrackInv
  <2> DEFINE x == [imp[i] EXCEPT !.pc = "write", !.applied = c.applied, !.old = old]
  <2>6. imp' = [imp EXCEPT ![i] = x]
    <3>1. imp = [k \in Importers |-> imp[k]]  BY DEF IInv, ChainInv
    <3> QED  BY <1>1, <1>3, <3>1
  <2>7. x.pc = "write" /\ x.block = b /\ x.applied = c.applied /\ x.just = imp[i].just
    <3>1. IsActivity(imp[i])  BY DEF IInv, ChainInv
    <3> HIDE DEF old
    <3> QED  BY <3>1 DEF IsActivity
  <2> HIDE DEF x
  <2>8. Busy(setup, i, x, auth.set_id)
    BY <2>2, <2>7 DEF OInv, BusyInv, Busy
  <2>9. BusyInv' /\ VoterInv'
    BY <1>1, <1>3, <2>2, <2>6, <2>7, <2>8, Moves
  <2> QED  BY <2>5, <2>9 DEF OInv
<1> QED  BY <1>2, <1>3

\* The block is written, or is not.
LEMMA WriteKept ==
  ASSUME IInv, Ordinary, OInv, NEW i \in Importers, WriteBlock(i) \/ WriteFails(i)
  PROVE  OInv'
<1>1. CASE WriteBlock(i)
  <2> DEFINE n == IF imp[i].applied = "forced" THEN auth.set_id ELSE 0
             x == [imp[i] EXCEPT !.pc = "send", !.old = {}, !.set_id = n]
  <2>1. /\ imp[i].pc = "write" /\ UNCHANGED <<setup, finalized, auth, voter, commands>>
        /\ disk' = IF imp[i].old = {} THEN disk
                   ELSE [auth |-> auth, paused |-> disk.paused /\ imp[i].applied # "forced"]
        /\ imp' = [imp EXCEPT ![i].pc = "send", ![i].old = {}, ![i].set_id = n]
    BY <1>1 DEF WriteBlock
  <2>2. disk'.auth = disk.auth \/ disk'.auth = auth  BY SMT, <2>1
  <2>3. TrackInv'  BY <2>1, <2>2, TrackKept DEF OInv, TrackInv
  <2>4. imp' = [imp EXCEPT ![i] = x]
    <3>1. imp = [k \in Importers |-> imp[k]]  BY DEF IInv, ChainInv
    <3> QED  BY <2>1, <3>1
  <2>5. /\ x.pc = "send" /\ x.block = imp[i].block /\ x.applied = imp[i].applied
        /\ x.just = imp[i].just
    <3>1. IsActivity(imp[i])  BY DEF IInv, ChainInv
    <3> HIDE DEF n
    <3> QED  BY <3>1 DEF IsActivity
  <2> HIDE DEF x
  <2>6. Busy(setup, i, x, auth.set_id)  BY <2>5 DEF OInv, BusyInv, Busy
  <2> QED  BY <2>1, <2>3, <2>4, <2>5, <2>6, Moves DEF OInv
<1>2. CASE WriteFails(i)
  <2>1. /\ imp[i].pc = "write" /\ Done(i) /\ UNCHANGED <<setup, finalized, disk, voter, commands>>
        /\ auth' = IF imp[i].old = {} THEN auth ELSE Only(imp[i].old)
    BY <1>2 DEF WriteFails
  <2>2. auth' = auth \/ Same(auth', disk.auth)
    <3>1. CASE imp[i].old = {}  BY <2>1, <3>1
    <3>2. CASE imp[i].old # {}
      <4>1. PICK s \in AuthoritySets : imp[i].old = {s} /\ Same(s, disk.auth)
        BY <3>2 DEF IInv, LockInv
      <4> QED  BY <2>1, <3>2, <4>1 DEF Only
    <3> QED  BY <3>1, <3>2
  <2>3. /\ auth'.who = auth.who /\ auth'.set_id = auth.set_id /\ auth'.changes = auth.changes
        /\ Clean(change, auth'.standard.nodes, finalized)
    BY <2>2 DEF OInv, TrackInv, Same
  <2>4. TrackInv'  BY <2>1, <2>3, TrackKept DEF OInv, TrackInv
  <2>5. BusyInv' /\ VoterInv'  BY <2>1, <2>3, IdleBusy, Moves DEF Done
  <2> QED  BY <2>4, <2>5 DEF OInv
<1> QED  BY <1>1, <1>2

\* The steps from a block that is written to the end of its justification.
LEMMA CheckKept ==
  ASSUME IInv, Ordinary, OInv, NEW i \in Importers,
         SendCommands(i) \/ ReadSetId(i) \/ Verify(i) \/ FinalizeFails(i)
  PROVE  OInv'
<1>0. /\ IsActivity(imp[i]) /\ imp = [k \in Importers |-> imp[k]] /\ imp[i].block \in Blocks
      /\ Busy(setup, i, imp[i], auth.set_id)
  BY DEF IInv, ChainInv, OInv, BusyInv, IsActivity
<1>1. ASSUME NEW pc, NEW n
      PROVE  LET x == [imp[i] EXCEPT !.set_id = n, !.pc = pc]
             IN  /\ x.pc = pc /\ x.set_id = n /\ x.block = imp[i].block
                 /\ x.applied = imp[i].applied /\ x.just = imp[i].just
  BY <1>0 DEF IsActivity
<1>2. ASSUME NEW pc
      PROVE  LET x == [imp[i] EXCEPT !.pc = pc]
             IN  /\ x.pc = pc /\ x.block = imp[i].block
                 /\ x.applied = imp[i].applied /\ x.just = imp[i].just
  BY <1>0 DEF IsActivity
<1>3. CASE SendCommands(i)
  <2>1. /\ imp[i].pc = "send" /\ UNCHANGED <<setup, finalized, auth, voter, disk>>
        /\ commands' = commands
             \o (IF change[imp[i].block].kind = "forced" THEN <<Pause>> ELSE <<>>)
             \o (IF imp[i].applied = "forced" THEN <<ChangeAuthorities(imp[i].set_id)>>
                 ELSE <<>>)
        /\ Done(i) \/ (imp[i].just # {} /\ Goto(i, "verify"))
    BY <1>3 DEF SendCommands
  <2>2. commands' = commands
    <3>1. imp[i].applied # "forced" /\ change[imp[i].block].kind # "forced"
      BY <1>0 DEF Ordinary, ForcedBlocks, Busy
    <3>2. commands \in Seq([cmd : {"ChangeAuthorities"}, set_id : Nat])
      BY DEF OInv, VoterInv, Told
    <3>3. commands' = commands \o <<>> \o <<>>  BY <2>1, <3>1
    <3> QED  BY SMT, <3>2, <3>3
  <2>3. CASE Done(i)  BY <2>1, <2>2, <2>3, IdleBusy, OnlyMoves DEF Done
  <2>4. CASE imp[i].just # {} /\ Goto(i, "verify")
    <3> DEFINE x == [imp[i] EXCEPT !.pc = "verify"]
    <3>1. imp' = [imp EXCEPT ![i] = x]  BY <1>0, <2>4 DEF Goto
    <3>2. x.pc = "verify" /\ x.block = imp[i].block /\ x.applied = imp[i].applied /\ x.just = imp[i].just
      BY <1>2
    <3> HIDE DEF x
    <3>3. Busy(setup, i, x, auth.set_id)  BY <1>0, <2>4, <3>2 DEF Busy
    <3> QED  BY <2>1, <2>2, <3>1, <3>2, <3>3, OnlyMoves
  <2> QED  BY <2>1, <2>3, <2>4
<1>4. CASE ReadSetId(i)
  <2> DEFINE x == [imp[i] EXCEPT !.set_id = auth.set_id, !.pc = "authorities"]
  <2>1. /\ imp[i].pc = "verify" /\ UNCHANGED <<setup, finalized, auth, voter, commands, disk>>
        /\ imp' = [imp EXCEPT ![i].set_id = auth.set_id, ![i].pc = "authorities"]
    BY <1>4 DEF ReadSetId
  <2>2. imp' = [imp EXCEPT ![i] = x]  BY <1>0, <2>1
  <2>3. /\ x.pc = "authorities" /\ x.set_id = auth.set_id /\ x.block = imp[i].block
        /\ x.applied = imp[i].applied /\ x.just = imp[i].just
    BY <1>1
  <2> HIDE DEF x
  <2>4. auth.set_id \in Nat  BY DEF IInv, LockInv, AuthoritySets
  <2>5. auth.set_id <= auth.set_id  BY SMT, <2>4
  <2>6. Busy(setup, i, x, auth.set_id)  BY <1>0, <2>1, <2>3, <2>4, <2>5 DEF Busy
  <2> QED  BY <2>1, <2>2, <2>3, <2>6, OnlyMoves
<1>5. CASE Verify(i)
  <2>1. /\ imp[i].pc = "authorities" /\ UNCHANGED <<setup, finalized, auth, voter, commands, disk>>
        /\ \/ Done(i)
           \/ imp[i].just = {[set_id |-> imp[i].set_id, who |-> auth.who]} /\ Goto(i, "finalize")
    BY <1>5 DEF Verify
  <2>2. CASE Done(i)  BY <2>1, <2>2, IdleBusy, OnlyMoves DEF Done
  <2>3. CASE imp[i].just = {[set_id |-> imp[i].set_id, who |-> auth.who]} /\ Goto(i, "finalize")
    <3> DEFINE x == [imp[i] EXCEPT !.pc = "finalize"]
               s == [set_id |-> imp[i].set_id, who |-> auth.who]
    <3>1. imp' = [imp EXCEPT ![i] = x]  BY <1>0, <2>3 DEF Goto
    <3>2. x.pc = "finalize" /\ x.block = imp[i].block /\ x.applied = imp[i].applied
          /\ x.just = {s}
      BY <1>2, <2>3
    <3>3. s.set_id = imp[i].set_id  BY SMT
    <3> HIDE DEF x, s
    <3>4. Busy(setup, i, x, auth.set_id)  BY <1>0, <2>1, <2>3, <3>2, <3>3 DEF Busy, s
    <3> QED  BY <2>1, <3>1, <3>2, <3>4, OnlyMoves
  <2> QED  BY <2>1, <2>2, <2>3
<1>6. CASE FinalizeFails(i)
  <2>1. /\ imp[i].pc = "finalize" /\ Done(i)
        /\ UNCHANGED <<setup, finalized, auth, voter, commands, disk>>
    BY <1>6 DEF FinalizeFails
  <2> QED  BY <2>1, IdleBusy, OnlyMoves DEF Done
<1> QED  BY <1>3, <1>4, <1>5, <1>6

-----------------------------------------------------------------------------
(* What the voter is told.                                                  *)
Commands == [cmd : {"ChangeAuthorities"}, set_id : Nat]

\* Commands name sets by their numbers.
LEMMA CommandIds ==
  ASSUME NEW cs \in Seq(Commands), NEW k \in 1 .. Len(cs)
  PROVE  cs[k].set_id \in Nat
<1>1. cs[k] \in Commands  BY SMT
<1> QED  BY SMT, <1>1 DEF Commands

\* A voter that has heard everything.
LEMMA ToldNew ==
  ASSUME NEW n \in Nat, NEW x, x.pc # "command"
  PROVE  Told(n, <<>>, x, n)
<1>1. /\ <<>> \in Seq(Commands) /\ n <= n /\ \A k \in 1 .. Len(<<>>) : FALSE  BY SMT
<1> QED  BY <1>1 DEF Told, Commands

\* A voter that is not behind has heard everything.
LEMMA ToldAll ==
  ASSUME NEW v, NEW cs, NEW x, NEW n \in Nat, Told(v, cs, x, n), n <= v
  PROVE  v = n /\ cs = <<>> /\ x.pc # "command"
<1>1. v \in Nat /\ v <= n  BY DEF Told
<1>2. v = n /\ ~(v < n)  BY SMT, <1>1
<1>3. x.pc # "command"  BY <1>2 DEF Told
<1>4. cs \in Seq(Commands) /\ \A k \in 1 .. Len(cs) : v < cs[k].set_id /\ cs[k].set_id <= n
  BY DEF Told, Commands
<1>5. \A k \in 1 .. Len(cs) : cs[k].set_id \in Nat  BY <1>4, CommandIds
<1>6. \A k \in 1 .. Len(cs) : FALSE  BY SMT, <1>2, <1>4, <1>5
<1>7. cs = <<>>  BY SMT, <1>4, <1>6
<1> QED  BY <1>2, <1>3, <1>7

\* The next set is in place, and an importer is to say so.
LEMMA ToldNext ==
  ASSUME NEW v, NEW cs, NEW x, NEW n \in Nat, Told(v, cs, x, n),
         NEW y, y.pc = "command", y.set_id = n + 1
  PROVE  Told(v, cs, y, n + 1)
<1>1. v \in Nat /\ v <= n  BY DEF Told
<1>2. v < n + 1 /\ v <= n + 1  BY SMT, <1>1
<1>3. cs \in Seq(Commands) /\ \A k \in 1 .. Len(cs) : v < cs[k].set_id /\ cs[k].set_id <= n
  BY DEF Told, Commands
<1>4. \A k \in 1 .. Len(cs) : cs[k].set_id \in Nat  BY <1>3, CommandIds
<1>5. \A k \in 1 .. Len(cs) : v < cs[k].set_id /\ cs[k].set_id <= n + 1 /\ cs[k].set_id < n + 1
  BY SMT, <1>3, <1>4
<1> QED  BY <1>1, <1>2, <1>3, <1>5 DEF Told, Commands

\* It does.
LEMMA ToldMore ==
  ASSUME NEW v, NEW cs, NEW x, NEW n \in Nat, Told(v, cs, x, n), x.pc = "command",
         NEW y, y.pc # "command"
  PROVE  Told(v, Append(cs, ChangeAuthorities(n)), y, n)
<1> DEFINE c == ChangeAuthorities(n)
           ds == Append(cs, c)
<1>1. /\ v \in Nat /\ v <= n /\ v < n /\ cs \in Seq(Commands)
      /\ \A k \in 1 .. Len(cs) : v < cs[k].set_id /\ cs[k].set_id <= n /\ cs[k].set_id < n
      /\ \A k, l \in 1 .. Len(cs) : k < l => cs[k].set_id < cs[l].set_id
  BY DEF Told, Commands
<1>2. c \in Commands /\ c.set_id = n  BY SMT DEF ChangeAuthorities, Commands
<1> HIDE DEF c
<1>3. /\ ds \in Seq(Commands) /\ Len(ds) = Len(cs) + 1 /\ ds[Len(cs) + 1] = c /\ ds # <<>>
      /\ \A k \in 1 .. Len(cs) : ds[k] = cs[k]
  BY SMT, <1>1, <1>2
<1> HIDE DEF ds
<1>4. /\ \A k \in 1 .. Len(ds) : k = Len(cs) + 1 \/ k \in 1 .. Len(cs)
      /\ \A k, l \in 1 .. Len(ds) : k < l => k \in 1 .. Len(cs)
      /\ n <= n
  BY SMT, <1>1, <1>3
<1>5. \A k \in 1 .. Len(ds) : v < ds[k].set_id /\ ds[k].set_id <= n
  BY <1>1, <1>2, <1>3, <1>4
<1>6. ASSUME NEW k \in 1 .. Len(ds), NEW l \in 1 .. Len(ds), k < l
      PROVE  ds[k].set_id < ds[l].set_id
  <2>1. k \in 1 .. Len(cs) /\ ds[k] = cs[k]  BY <1>3, <1>4, <1>6
  <2> QED  BY <1>1, <1>2, <1>3, <1>4, <1>6, <2>1
<1>7. ds[Len(ds)].set_id = n  BY <1>2, <1>3
<1> QED  BY <1>1, <1>3, <1>5, <1>6, <1>7 DEF Told, Commands, ds, c

\* It takes the first of its commands.
LEMMA ToldLess ==
  ASSUME NEW v, NEW cs, NEW x, NEW n \in Nat, Told(v, cs, x, n), cs # <<>>
  PROVE  /\ Told(Head(cs).set_id, Tail(cs), x, n)
         /\ Head(cs).cmd = "ChangeAuthorities"
<1> DEFINE h == Head(cs)
           ds == Tail(cs)
<1>1. /\ cs \in Seq(Commands)
      /\ \A k \in 1 .. Len(cs) : v < cs[k].set_id /\ cs[k].set_id <= n
      /\ \A k, l \in 1 .. Len(cs) : k < l => cs[k].set_id < cs[l].set_id
  BY DEF Told, Commands
<1>2. /\ h \in Commands /\ h = cs[1] /\ 1 \in 1 .. Len(cs) /\ ds \in Seq(Commands)
      /\ \A k \in 1 .. Len(ds) : ds[k] = cs[k + 1] /\ k + 1 \in 1 .. Len(cs) /\ 1 < k + 1
      /\ \A k, l \in 1 .. Len(ds) : k < l => k + 1 < l + 1
      /\ ds # <<>> => ds[Len(ds)] = cs[Len(cs)]
      /\ ds = <<>> => cs[Len(cs)] = h
  BY SMT, <1>1
<1>3. h.set_id \in Nat /\ h.cmd = "ChangeAuthorities"  BY SMT, <1>2 DEF Commands
<1> HIDE DEF h, ds
<1>4. \A k \in 1 .. Len(ds) : h.set_id < ds[k].set_id /\ ds[k].set_id <= n
  BY <1>1, <1>2
<1>5. ASSUME NEW k \in 1 .. Len(ds), NEW l \in 1 .. Len(ds), k < l
      PROVE  ds[k].set_id < ds[l].set_id
  <2>1. /\ k + 1 \in 1 .. Len(cs) /\ l + 1 \in 1 .. Len(cs) /\ k + 1 < l + 1
        /\ ds[k] = cs[k + 1] /\ ds[l] = cs[l + 1]
    BY <1>2, <1>5
  <2> DEFINE a == k + 1
             e == l + 1
  <2> HIDE DEF a, e
  <2>2. cs[a].set_id < cs[e].set_id  BY <1>1, <2>1 DEF a, e
  <2> QED  BY <2>1, <2>2 DEF a, e
<1>6. h.set_id <= n  BY <1>1, <1>2
<1>7. x.pc = "command" => /\ x.set_id = n /\ h.set_id < n
                          /\ \A k \in 1 .. Len(ds) : ds[k].set_id < n
  <2>1. x.pc = "command" => x.set_id = n /\ \A k \in 1 .. Len(cs) : cs[k].set_id < n  BY DEF Told
  <2> QED  BY <1>2, <2>1
<1>8. x.pc # "command" => IF ds = <<>> THEN h.set_id = n ELSE ds[Len(ds)].set_id = n
  BY <1>2 DEF Told
<1>9. Told(h.set_id, ds, x, n)
  BY <1>2, <1>3, <1>4, <1>5, <1>6, <1>7, <1>8 DEF Told, Commands
<1> QED  BY <1>3, <1>9 DEF h, ds

-----------------------------------------------------------------------------
(* Finality without forced changes.                                         *)

\* What was checked before stays checked.
LEMMA BusyGrows ==
  ASSUME NEW st, NEW i, NEW x, NEW n \in Nat, NEW m \in Nat, n <= m, Busy(st, i, x, n)
  PROVE  Busy(st, i, x, m)
<1>1. \A k \in Nat : k <= n => k <= m  BY SMT
<1> QED  BY <1>1 DEF Busy

\* An importer finalizes a block.
LEMMA FinalizeKept ==
  ASSUME IInv, IInv', Ordinary, OInv, NEW i \in Importers, FinalizeBlock(i)
  PROVE  OInv'
<1> DEFINE b == imp[i].block
           n == auth.set_id
           x == [Idle EXCEPT !.pc = "command", !.set_id = auth'.set_id]
<1>1. /\ imp[i].pc = "finalize" /\ Unlocked /\ UNCHANGED <<setup, lock, voter, commands>>
      /\ Finalizes(b) \/ (Refinalizes(b) /\ UNCHANGED <<finalized, auth, disk>>)
      /\ IF ~Enacts(b) THEN Done(i) ELSE imp' = [imp EXCEPT ![i] = x]
  BY DEF FinalizeBlock
<1>2. /\ Busy(setup, i, imp[i], n) /\ i = Queue /\ b \in Blocks /\ n \in Nat
      /\ imp = [k \in Importers |-> imp[k]] /\ ForcedBlocks(setup.change) = {}
  <2>1. Busy(setup, i, imp[i], n)  BY DEF OInv, BusyInv
  <2>2. i = Queue  BY <1>1, <2>1 DEF Busy, Importers
  <2> QED  BY <2>1, <2>2 DEF IInv, ChainInv, IsActivity, LockInv, AuthoritySets, Ordinary, change
<1>3. PICK s \in Signers(setup, b) : s.set_id \in Nat /\ s.set_id <= n
  BY <1>1, <1>2 DEF Busy
<1>4. CASE Refinalizes(b) /\ UNCHANGED <<finalized, auth, disk>>
  <2>1. ~Enacts(b)  BY <1>4 DEF Enacts
  <2> QED  BY <1>1, <1>4, <2>1, IdleBusy, OnlyMoves DEF Done
<1>5. CASE Finalizes(b)
  <2>1. TrackInv' /\ auth'.set_id = IF Enacts(b) THEN n + 1 ELSE n
    BY <1>1, <1>2, <1>3, <1>5, FinalTrack DEF OInv
  <2>2. CASE ~Enacts(b)
    <3>1. BusyInv' /\ VoterInv'  BY <1>1, <2>1, <2>2, IdleBusy, Moves DEF Done
    <3> QED  BY <2>1, <3>1 DEF OInv
  <2>3. CASE Enacts(b)
    <3>1. auth'.set_id = n + 1 /\ n <= n + 1 /\ n + 1 \in Nat
      <4>1. n <= n + 1 /\ n + 1 \in Nat  BY SMT, <1>2
      <4> QED  BY <2>1, <2>3, <4>1
    <3>2. /\ x.pc = "command" /\ x.set_id = n + 1 /\ x.applied = "none" /\ x.just = {}
      BY <3>1 DEF Idle
    <3> HIDE DEF x
    <3>3. \A k \in Importers : imp'[k] = IF k = i THEN x ELSE imp[k]
      BY <1>1, <1>2, <2>3
    <3>4. Busy(setup, i, x, n + 1)
      <4>1. Queue # Author  BY DEF Queue, Author
      <4> QED  BY <1>2, <3>2, <4>1 DEF Busy
    <3>5. BusyInv'
      <4> HIDE DEF n
      <4>1. \A k \in Importers : Busy(setup, k, imp[k], n)  BY DEF OInv, BusyInv, n
      <4>2. \A k \in Importers : Busy(setup, k, imp[k], n + 1)  BY <1>2, <3>1, <4>1, BusyGrows
      <4> QED  BY <1>1, <3>1, <3>3, <3>4, <4>2 DEF BusyInv
    <3>6. Told(voter.set_id, commands, x, n + 1)
      BY <1>2, <3>2, ToldNext DEF OInv, VoterInv
    <3>7. VoterInv'  BY <1>1, <1>2, <3>1, <3>3, <3>6 DEF VoterInv
    <3> QED  BY <2>1, <3>5, <3>7 DEF OInv
  <2> QED  BY <2>2, <2>3
<1> QED  BY <1>1, <1>4, <1>5

\* The voter is told of the set an importer has put in place.
LEMMA SendKept ==
  ASSUME IInv, Ordinary, OInv, NEW i \in Importers, SendChange(i)
  PROVE  OInv'
<1>1. /\ imp[i].pc = "command" /\ UNCHANGED <<setup, finalized, auth, voter, disk>>
      /\ commands' = Append(commands, ChangeAuthorities(imp[i].set_id))
      /\ imp' = [imp EXCEPT ![i] = Idle]
  BY DEF SendChange, Done
<1>2. /\ i = Queue /\ auth.set_id \in Nat /\ imp = [k \in Importers |-> imp[k]]
  <2>1. Busy(setup, i, imp[i], auth.set_id)  BY DEF OInv, BusyInv
  <2>2. i = Queue  BY <1>1, <2>1 DEF Busy, Importers
  <2> QED  BY <2>2 DEF IInv, ChainInv, LockInv, AuthoritySets
<1>3. \A k \in Importers : imp'[k] = IF k = i THEN Idle ELSE imp[k]  BY <1>1, <1>2
<1>4. TrackInv'  BY <1>1, TrackKept DEF OInv, TrackInv
<1>5. BusyInv'  BY <1>1, <1>3, IdleBusy DEF OInv, BusyInv
<1>6. Told(voter.set_id, commands, imp[Queue], auth.set_id)  BY DEF OInv, VoterInv
<1>7. imp[i].set_id = auth.set_id  BY <1>1, <1>2, <1>6 DEF Told
<1>8. Told(voter.set_id, commands', Idle, auth.set_id)
  <2>1. Idle.pc # "command"  BY DEF Idle
  <2> QED  BY <1>1, <1>2, <1>6, <1>7, <2>1, ToldMore
<1>9. VoterInv'  BY <1>1, <1>2, <1>3, <1>8 DEF VoterInv
<1> QED  BY <1>4, <1>5, <1>9 DEF OInv

\* The voter finalizes a block, and goes on in the next set if there is one.
LEMMA VoterKept ==
  ASSUME IInv, IInv', Ordinary, OInv, NEW b \in Blocks, VoterFinalizes(b)
  PROVE  OInv'
<1> DEFINE n == auth.set_id
           v == voter.set_id
<1>1. /\ Unlocked /\ Finalizes(b) /\ UNCHANGED <<setup, lock, imp, commands>>
      /\ voter' = IF Enacts(b) THEN [set_id |-> auth'.set_id, paused |-> FALSE] ELSE voter
  BY DEF VoterFinalizes
<1>2. PICK s \in Signers(setup, b) : s.set_id = v  BY DEF VoterFinalizes
<1>3. Told(v, commands, imp[Queue], n) /\ n \in Nat
  BY DEF OInv, VoterInv, IInv, LockInv, AuthoritySets
<1>4. v \in Nat /\ v <= n  BY <1>3 DEF Told
<1>5. TrackInv' /\ v = n /\ auth'.set_id = IF Enacts(b) THEN n + 1 ELSE n
  BY <1>1, <1>2, <1>4, FinalTrack DEF OInv
<1>6. commands = <<>> /\ imp[Queue].pc # "command"
  <2>1. n <= v  BY SMT, <1>3, <1>5
  <2> DEFINE x == imp[Queue]
  <2>2. Told(v, commands, x, n) /\ n \in Nat  BY <1>3
  <2> HIDE DEF n, v, x
  <2>3. commands = <<>> /\ x.pc # "command"  BY SMT, <2>1, <2>2, ToldAll
  <2> QED  BY <2>3 DEF x
<1>7. voter'.set_id = auth'.set_id
  <2>1. CASE Enacts(b)  BY SMT, <1>1, <2>1
  <2>2. CASE ~Enacts(b)  BY <1>1, <1>5, <2>2
  <2> QED  BY <2>1, <2>2
<1>8. auth'.set_id \in Nat /\ n <= auth'.set_id
  <2>1. n + 1 \in Nat /\ n <= n + 1 /\ n <= n  BY SMT, <1>3
  <2> QED  BY <1>3, <1>5, <2>1
<1>9. VoterInv'
  <2>1. Told(auth'.set_id, <<>>, imp[Queue], auth'.set_id)  BY <1>6, <1>8, ToldNew
  <2> QED  BY <1>1, <1>6, <1>7, <2>1 DEF VoterInv
<1>10. BusyInv'
  <2>1. \A k \in Importers : Busy(setup, k, imp[k], n)  BY DEF OInv, BusyInv
  <2>2. \A k \in Importers : Busy(setup, k, imp[k], auth'.set_id)  BY <1>3, <1>8, <2>1, BusyGrows
  <2> QED  BY <1>1, <2>2 DEF BusyInv
<1> QED  BY <1>5, <1>9, <1>10 DEF OInv

\* The voter handles a command.
LEMMA HandleKept ==
  ASSUME IInv, Ordinary, OInv, handle_voter_command
  PROVE  OInv'
<1>1. /\ commands # <<>> /\ commands' = Tail(commands)
      /\ UNCHANGED <<setup, finalized, auth, imp>>
      /\ voter' = IF Head(commands).cmd = "Pause" THEN [voter EXCEPT !.paused = TRUE]
                  ELSE [set_id |-> Head(commands).set_id, paused |-> FALSE]
      /\ disk' = [disk EXCEPT !.paused = voter'.paused]
  BY DEF handle_voter_command
<1>2. disk = [auth |-> disk.auth, paused |-> disk.paused]  BY DEF IInv, LockInv
<1>3. disk'.auth = disk.auth  BY <1>1, <1>2
<1>4. TrackInv'  BY <1>1, <1>3, TrackKept DEF OInv, TrackInv
<1>5. BusyInv'  BY <1>1 DEF OInv, BusyInv
<1>6. /\ Told(Head(commands).set_id, Tail(commands), imp[Queue], auth.set_id)
      /\ Head(commands).cmd = "ChangeAuthorities"
  BY <1>1, ToldLess DEF OInv, VoterInv, IInv, LockInv, AuthoritySets
<1>7. voter'.set_id = Head(commands).set_id  BY SMT, <1>1, <1>6
<1>8. VoterInv'  BY <1>1, <1>6, <1>7 DEF VoterInv
<1> QED  BY <1>4, <1>5, <1>8 DEF OInv

\* The node starts again, with the set on disk.
LEMMA RestartKept ==
  ASSUME IInv, Ordinary, OInv, Restart
  PROVE  OInv'
<1>1. /\ auth' = disk.auth /\ imp' = [i \in Importers |-> Idle] /\ commands' = <<>>
      /\ voter' = [set_id |-> disk.auth.set_id, paused |-> disk.paused]
      /\ UNCHANGED <<setup, finalized, disk>>
  BY DEF Restart
<1>2. TrackInv'  BY <1>1, TrackKept DEF OInv, TrackInv
<1>3. Queue \in Importers /\ \A i \in Importers : imp'[i] = Idle  BY <1>1 DEF Importers
<1>4. BusyInv'  BY <1>3, IdleBusy DEF BusyInv
<1>5. voter'.set_id = disk.auth.set_id /\ disk.auth.set_id \in Nat
  <2>1. disk.auth.set_id \in Nat  BY DEF IInv, LockInv, AuthoritySets
  <2> QED  BY SMT, <1>1, <2>1
<1>6. VoterInv'
  <2>1. Idle.pc # "command"  BY DEF Idle
  <2>2. Told(disk.auth.set_id, <<>>, Idle, disk.auth.set_id)  BY <1>5, <2>1, ToldNew
  <2> QED  BY <1>1, <1>3, <1>5, <2>2 DEF VoterInv
<1> QED  BY <1>2, <1>4, <1>6 DEF OInv

\* Without forced changes, nothing a node does breaks OInv.
THEOREM OrdinaryInvariance == Spec => [](Ordinary => OInv)
<1>1. Init /\ Ordinary => OInv
  <2> SUFFICES ASSUME Init, Ordinary PROVE OInv
    OBVIOUS
  <2>1. /\ imp = [i \in Importers |-> Idle] /\ disk = [auth |-> auth, paused |-> FALSE]
        /\ voter = [set_id |-> auth.set_id, paused |-> FALSE] /\ commands = <<>>
    BY DEF Init
  <2>2. /\ finalized = Genesis /\ StandardOn(change, Genesis) = {}
        /\ auth.who = Genesis /\ auth.set_id = 0 /\ auth.changes = <<>>
        /\ auth.standard.nodes = {}
    BY StartSet DEF Ordinary
  <2>3. EnactedBy(change, Genesis) = {}  BY <2>2 DEF EnactedBy
  <2>4. /\ <<>> \in Seq(Nat \X Nat) /\ Len(<<>>) = 0 /\ 0 \in Nat
        /\ \A k \in 1 .. Len(<<>>) : FALSE
        /\ \A k \in 2 .. Len(<<>>) : FALSE
    BY SMT
  <2>5. Cardinality({}) = 0  BY FS_EmptySet
  <2>6. Right(change, Genesis, 0, <<>>, Genesis)
    BY <2>3, <2>4, <2>5 DEF Right
  <2>7. disk.auth = auth /\ voter.set_id = 0  BY SMT, <2>1, <2>2
  <2>8. TrackInv  BY <2>2, <2>6, <2>7 DEF TrackInv, Clean
  <2>9. Queue \in Importers /\ \A i \in Importers : imp[i] = Idle  BY <2>1 DEF Importers
  <2>10. BusyInv  BY <2>9, IdleBusy DEF BusyInv
  <2>11. VoterInv
    <3>1. Idle.pc # "command"  BY DEF Idle
    <3>2. Told(0, <<>>, Idle, 0)  BY <2>4, <3>1, ToldNew
    <3> QED  BY <2>1, <2>2, <2>7, <2>9, <3>2 DEF VoterInv
  <2> QED  BY <2>8, <2>10, <2>11 DEF OInv
<1>2. IInv /\ IInv' /\ Ordinary /\ OInv /\ [Next]_vars => OInv'
  <2> SUFFICES ASSUME IInv, IInv', Ordinary, OInv, [Next]_vars PROVE OInv'
    OBVIOUS
  <2>0. setup.blocks \subseteq Blocks /\ Queue \in Importers
    BY SetupFacts DEF IInv, ChainInv, Importers
  <2>1. ASSUME NEW i \in Importers, Step(i) PROVE OInv'
    <3>1. CASE \E b \in setup.blocks : import_block(i, b)  BY <2>0, <3>1, ImportKeeps
    <3>2. CASE make_authorities_changes(i)  BY <3>2, MakeKept
    <3>3. CASE WriteBlock(i) \/ WriteFails(i)  BY <3>3, WriteKept
    <3>4. CASE SendCommands(i) \/ ReadSetId(i) \/ Verify(i) \/ FinalizeFails(i)  BY <3>4, CheckKept
    <3>5. CASE FinalizeBlock(i)  BY <3>5, FinalizeKept
    <3>6. CASE SendChange(i)  BY <3>6, SendKept
    <3> QED  BY <2>1, <3>1, <3>2, <3>3, <3>4, <3>5, <3>6 DEF Step
  <2>2. ASSUME NEW b \in setup.blocks, import_justification(Queue, b) PROVE OInv'
    BY <2>0, <2>2, ImportKeeps
  <2>3. ASSUME NEW b \in setup.blocks, VoterFinalizes(b) PROVE OInv'
    BY <2>0, <2>3, VoterKept
  <2>4. CASE handle_voter_command  BY <2>4, HandleKept
  <2>5. CASE Restart  BY <2>5, RestartKept
  <2>6. CASE UNCHANGED vars
    <3>1. UNCHANGED <<setup, finalized, auth, imp, voter, commands, disk>>  BY <2>6 DEF vars
    <3>2. TrackInv'  BY <3>1, TrackKept DEF OInv, TrackInv
    <3> QED  BY <3>1, <3>2 DEF OInv, BusyInv, VoterInv
  <2> QED  BY <2>1, <2>2, <2>3, <2>4, <2>5, <2>6, NothingOld DEF Next
<1>3. [Next]_vars => UNCHANGED setup
  BY DEF Next, vars, Step, import_block, make_authorities_changes, WriteBlock, WriteFails,
         SendCommands, ReadSetId, Verify, FinalizeBlock, FinalizeFails, SendChange, ImportOld,
         import_justification, VoterFinalizes, WriteOld, WriteOldFails, handle_voter_command, Restart
<1>4. Ordinary => setup.warp = Genesis  BY DEF Ordinary
<1>5. [Next]_vars /\ Ordinary' => Ordinary
  BY <1>3 DEF Ordinary, change
<1>6. (setup.warp = Genesis => IInv) /\ (setup.warp = Genesis => IInv)' /\ (Ordinary => OInv)
        /\ [Next]_vars => (Ordinary => OInv)'
  <2> SUFFICES ASSUME (setup.warp = Genesis => IInv), (setup.warp = Genesis => IInv)',
                      (Ordinary => OInv), [Next]_vars, Ordinary'
               PROVE  OInv'
    OBVIOUS
  <2>1. Ordinary /\ UNCHANGED setup  BY <1>3, <1>5
  <2>2. setup.warp = Genesis /\ setup'.warp = Genesis  BY <1>4, <2>1
  <2> QED  BY <1>2, <2>1, <2>2
<1> QED  BY <1>1, <1>6, Invariance, PTL DEF Spec

\* On any chain whose changes come one at a time, and are not forced: whatever
\* the importers and the voter interleave, and wherever the node stops, the set
\* on disk is that of the finalized block on disk.
THEOREM SetSafety == Spec => [](Ordinary => SetFollowsChain)
<1>1. Ordinary /\ OInv => SetFollowsChain
  <2> SUFFICES ASSUME Ordinary, OInv PROVE SetFollowsChain
    OBVIOUS
  <2> DEFINE E == EnactedBy(change, finalized)
             s == disk.auth
  <2>1. Prescribed(imported, finalized) = After(0, Genesis, E)
    BY DEF Prescribed, PrescribedSet, Ordinary, EnactedBy
  <2>2. s.set_id = Cardinality(E) /\ s.who = (IF E = {} THEN Genesis ELSE Latest(E))
        /\ Len(s.changes) = s.set_id /\ s.changes \in Seq(Nat \X Nat)
    BY DEF OInv, TrackInv, Right
  <2> HIDE DEF E, s
  <2>3. Cardinality(E) \in Nat  BY SMT, <2>2
  <2>4. 0 + Cardinality(E) = Cardinality(E)  BY SMT, <2>3
  <2>5. After(0, Genesis, E) = [set_id |-> s.set_id, who |-> s.who]
    BY <2>2, <2>4 DEF After
  <2> QED  BY <2>1, <2>5 DEF SetFollowsChain, Current, s
<1> QED  BY <1>1, OrdinaryInvariance, PTL

\* And once its commands are handled the voter votes in that set.
THEOREM VoterSafety == Spec => [](Ordinary => VoterFollows)
<1>1. OInv => VoterFollows
  <2>1. Queue \in Importers  BY DEF Importers
  <2> QED  BY <2>1 DEF OInv, VoterInv, Told, VoterFollows, Quiet
<1> QED  BY <1>1, OrdinaryInvariance, PTL

\* And the record has the last block of every earlier set, in order.
THEOREM ChangesSafety == Spec => [](Ordinary => ChangesExact)
<1>1. IInv /\ Ordinary /\ OInv => ChangesExact
  <2> SUFFICES ASSUME IInv, Ordinary, OInv PROVE ChangesExact
    OBVIOUS
  <2> DEFINE E == EnactedBy(change, finalized)
             l == disk.auth.changes
             n == Cardinality({}) + Cardinality({})
  <2>1. /\ change \in [Blocks -> Digest] /\ change[Genesis].kind = "none" /\ finalized \in Blocks
        /\ setup.warp = Genesis /\ Genesis \in Blocks
    BY SetupFacts, GenesisAssumption DEF IInv, ChainInv, Ordinary
  <2>2. Right(change, disk.auth.who, disk.auth.set_id, l, finalized)
    BY DEF OInv, TrackInv
  <2>3. Applied = {}  BY DEF Applied, Ordinary
  <2>4. Ended = {Ending(change, E, c) : c \in E}
    <3>1. n = 0  BY SMT, FS_EmptySet
    <3> DEFINE B == UNION {BeforeForced(change, f) : f \in Applied}
               A == {c \in E : \A f \in Applied : Number[c] > Eff(f)}
    <3>2. B = {} /\ A = E  BY <2>3
    <3>3. E = {c \in StandardOn(change, finalized) : Eff(c) <= Number[finalized]}
      BY DEF EnactedBy, Eff
    <3> HIDE DEF E
    <3>4. Ended = {<<0 + Cardinality({d \in B : Number[d] < Number[c]}), Eff(c)>> : c \in B}
            \cup {<<Cardinality(B) + Cardinality(Applied) + Cardinality({d \in A : Number[d] < Number[c]}),
                    Eff(c)>> : c \in A}
            \cup {<<Cardinality(B), change[f].median>> : f \in Applied}
      BY <3>3 DEF Ended
    <3> HIDE DEF B, A, n
    <3>5. Ended = {<<n + Cardinality({d \in E : Number[d] < Number[c]}), Eff(c)>> : c \in E}
      BY <2>3, <3>2, <3>4 DEF n
    <3>6. \A c \in E : Cardinality({d \in E : Number[d] < Number[c]}) \in Nat
      <4>1. \A c \in E : {d \in E : Number[d] < Number[c]} \in SUBSET StandardOn(change, finalized)
        BY <3>3
      <4> QED  BY <2>1, <4>1, ChainCounts
    <3>7. \A c \in E : <<n + Cardinality({d \in E : Number[d] < Number[c]}), Eff(c)>> = Ending(change, E, c)
      <4>1. \A c \in E : n + Cardinality({d \in E : Number[d] < Number[c]})
                            = Cardinality({d \in E : Number[d] < Number[c]})
        BY SMT, <3>1, <3>6
      <4> QED  BY <4>1 DEF Ending, Eff
    <3> QED  BY <3>5, <3>7
  <2>5. \A c \in E : effective_number(change, c) > Number[Genesis]
    <3>1. \A c \in E : c \in Blocks /\ c # Genesis
      BY <2>1, LineFacts DEF EnactedBy, StandardOn
    <3>2. \A c \in E : /\ Number[Genesis] < Number[c] /\ Number[c] <= effective_number(change, c)
                       /\ Number[c] \in Nat /\ effective_number(change, c) \in Nat
      BY <2>1, <3>1, EffectiveFacts, GenesisAssumption, UnderFacts DEF Under
    <3>3. Number[Genesis] \in Nat  BY <2>1, ChainAssumption
    <3> HIDE DEF E
    <3> QED  BY SMT, <3>2, <3>3
  <2>6. \A e \in Ended : e[2] > Number[setup.warp]
    <3> HIDE DEF E
    <3>1. \A c : Ending(change, E, c)[2] = effective_number(change, c)  BY DEF Ending
    <3> QED  BY <2>1, <2>4, <2>5, <3>1
  <2>7. l \in Seq(Nat \X Nat) /\ DOMAIN l = 1 .. Len(l)
    <3>1. l \in Seq(Nat \X Nat)  BY <2>2 DEF Right
    <3> QED  BY SMT, <3>1
  <2>8. {l[k] : k \in DOMAIN l} = Ended
    <3>1. /\ \A k \in 1 .. Len(l) : \E c \in E : l[k] = Ending(change, E, c)
          /\ \A c \in E : \E k \in 1 .. Len(l) : l[k] = Ending(change, E, c)
      BY <2>2 DEF Right
    <3> HIDE DEF E
    <3> QED  BY <2>4, <2>7, <3>1
  <2>9. \A k \in DOMAIN l : k > 1 => l[k - 1][1] < l[k][1] /\ l[k - 1][2] <= l[k][2]
    <3>1. /\ \A k \in 1 .. Len(l) : l[k][1] = k - 1
          /\ \A k \in 2 .. Len(l) : l[k - 1][2] <= l[k][2]
      BY <2>2 DEF Right
    <3>2. Len(l) \in Nat  BY SMT, <2>7
    <3> HIDE DEF l
    <3>3. ASSUME NEW k \in DOMAIN l, k > 1
          PROVE  k \in 1 .. Len(l) /\ k - 1 \in 1 .. Len(l) /\ k \in 2 .. Len(l) /\ (k - 1) - 1 < k - 1
      BY SMT, <2>7, <3>2, <3>3
    <3>4. ASSUME NEW k \in DOMAIN l, k > 1
          PROVE  l[k - 1][1] < l[k][1] /\ l[k - 1][2] <= l[k][2]
      <4> DEFINE j == k - 1
      <4>1. j \in 1 .. Len(l) /\ k \in 1 .. Len(l) /\ k \in 2 .. Len(l) /\ j - 1 < k - 1  BY <3>3, <3>4
      <4>2. l[j][1] = j - 1 /\ l[k][1] = k - 1
        <5> HIDE DEF j
        <5> QED  BY <3>1, <4>1
      <4> QED  BY <3>1, <4>1, <4>2
    <3> QED  BY <3>4
  <2> QED  BY <2>6, <2>8, <2>9 DEF ChangesExact
<1>2. Ordinary => setup.warp = Genesis  BY DEF Ordinary
<1> QED  BY <1>1, <1>2, Invariance, OrdinaryInvariance, PTL
====
