--------------------------- MODULE ChainFinality ---------------------------
(***************************************************************************)
(* What the rest of the network does to the blocks of AuthoritySet: it     *)
(* finalizes one chain, that of setup.main, and never past the block where *)
(* a standard change is due before the old set has finalized it, as        *)
(* finalize_block assumes.  setup.change gives the digests.                *)
(***************************************************************************)
EXTENDS AuthoritySet

Line(b) == Ancestors[b] \cup {b}
\* A block is one above its parent.
ASSUME HeightAssumption ==
  \A b, p \in Blocks : Ancestors[b] = Line(p) => Number[b] = Number[p] + 1
Latest(S) == CHOOSE c \in S : \A d \in S : Number[d] <= Number[c]
ParentIn(b, S) == \E p \in S : Ancestors[b] = Line(p)

\* The authorities after the standard changes E, starting from set n of `who'.
After(n, who, E) == [set_id |-> n + Cardinality(E), who |-> IF E = {} THEN who ELSE Latest(E)]
StandardOn(change, b) == {c \in Line(b) : change[c].kind = "standard"}
ForcedBlocks(change) == {f \in Blocks : change[f].kind = "forced"}
\* The set a forced change f puts in place, and those that come after it.
BeforeForced(change, f) ==
  {c \in StandardOn(change, f) : effective_number(change, c) <= change[f].median}
AfterForced(change, f, E) ==
  After(Cardinality(BeforeForced(change, f)) + 1, f,
        {c \in E : Number[c] > effective_number(change, f)})

\* Who signs for `b': the set whose changes are due below it.  Below a forced
\* change, either the set before it, whose voters pause at the block that
\* announces it and finalize none of the changes it discards, or the new one,
\* which starts at the median.
Signers(setup, b) ==
  LET change == setup.change
      due == {c \in StandardOn(change, b) : effective_number(change, c) < Number[b]}
      forced == {f \in ForcedBlocks(change) : Under(f, setup.main)}
      OldSigns(f) ==
        /\ Number[b] < Number[f]
        /\ \A c \in StandardOn(change, f) :
             effective_number(change, c) <= change[f].median \/ Number[b] < effective_number(change, c)
      old == IF \A f \in forced : OldSigns(f) THEN {After(0, Genesis, due)} ELSE {}
      new == {AfterForced(change, f, due) : f \in {g \in forced : Number[b] > change[g].median}}
  IN  IF Under(b, setup.main) THEN old \cup new ELSE {}

\* The current set of a node that has imported S and finalized `fin'.
PrescribedSet(change, S, fin) ==
  LET E == {c \in StandardOn(change, fin) : effective_number(change, c) <= Number[fin]}
      forced == {f \in ForcedBlocks(change) :
                   \E e \in S : Under(f, e) /\ Number[e] >= effective_number(change, f)}
  IN  IF forced = {} THEN After(0, Genesis, E)
      ELSE AfterForced(change, CHOOSE f \in forced : TRUE, E)
=============================================================================
