---------------------------- MODULE AuthoritySet ----------------------------
(***************************************************************************)
(* AuthoritySet of client/finality-grandpa/src/authorities.rs: the current *)
(* authorities and set id, the changes announced by blocks and not yet     *)
(* enacted, and the last block of each earlier set.  A list of authorities *)
(* is named by the block that announced it; a pending change is that       *)
(* block, what it announces being looked up in `change', the digests of    *)
(* the blocks.  Forced changes are kept as a set: at most one of them is   *)
(* on the branch of a block, so the order they are sorted in is never      *)
(* observed.                                                               *)
(***************************************************************************)
EXTENDS ForkTree, Sequences

CONSTANT Genesis
ASSUME GenesisAssumption == Genesis \in Blocks /\ \A b \in Blocks : Under(Genesis, b)

\* The digest of a block: nothing, a scheduled or a forced change.
Digest == [kind : {"none", "standard", "forced"}, delay : Nat, median : Nat]
NoChange == [kind |-> "none", delay |-> 0, median |-> 0]

AuthoritySets == [who : Blocks, set_id : Nat, standard : Tree, forced : SUBSET Blocks,
                  changes : Seq(Nat \X Nat)]
genesis == [who |-> Genesis, set_id |-> 0, standard |-> NewTree, forced |-> {}, changes |-> <<>>]

effective_number(change, c) == Number[c] + change[c].delay
\* Changes as they leave the set, with the error of the operation.
Set(s) == [set |-> s, err |-> "none"]
Failed(s, e) == [set |-> s, err |-> e]

add_standard_change(s, b) ==
  LET i == import(s.standard, b)
  IN  IF i.err = "none" THEN Set([s EXCEPT !.standard = i.tree]) ELSE Failed(s, i.err)

\* One forced change on a branch.
add_forced_change(s, b) ==
  IF b \in s.forced THEN Failed(s, "DuplicateAuthoritySetChange")
  ELSE IF \E f \in s.forced : is_descendent_of(f, b)
  THEN Failed(s, "MultiplePendingForcedAuthoritySetChanges")
  ELSE Set([s EXCEPT !.forced = @ \cup {b}])

add_pending_change(s, change, b) ==
  CASE change[b].kind = "forced"   -> add_forced_change(s, b)
    [] change[b].kind = "standard" -> add_standard_change(s, b)
    [] OTHER                       -> Set(s)

append(changes, set_id, number) == Append(changes, <<set_id, number>>)

\* The forced change of the branch of `b' that takes effect at its height.
ForcedAt(s, change, b) ==
  {f \in s.forced : effective_number(change, f) = Number[b] /\ Under(f, b)}
\* Standard changes it has to wait for.
DependsOn(s, change, f) ==
  {r \in roots(s.standard) : /\ effective_number(change, r) <= change[f].median
                             /\ is_descendent_of(r, f)}

\* Mutant: the old set ends at the block that is imported.
apply_forced_changes_here(s, change, b) ==
  LET due == ForcedAt(s, change, b)
      f == CHOOSE x \in due : TRUE
  IN  IF due = {} THEN [set |-> s, err |-> "none", forced |-> {}]
      ELSE IF DependsOn(s, change, f) # {}
      THEN [set |-> s, err |-> "ForcedAuthoritySetChangeDependencyUnsatisfied", forced |-> {}]
      ELSE [set |-> [who |-> f, set_id |-> s.set_id + 1, standard |-> NewTree, forced |-> {},
                     changes |-> append(s.changes, s.set_id, Number[b])],
            err |-> "none", forced |-> due]

\* Importing `b' applies a forced change that is due: the new set starts with
\* no pending changes of any kind.  `forced' is the change applied.
apply_forced_changes(s, change, b) ==
  LET due == ForcedAt(s, change, b)
      f == CHOOSE x \in due : TRUE
  IN  IF due = {} THEN [set |-> s, err |-> "none", forced |-> {}]
      ELSE IF DependsOn(s, change, f) # {}
      THEN [set |-> s, err |-> "ForcedAuthoritySetChangeDependencyUnsatisfied", forced |-> {}]
      ELSE [set |-> [who |-> f, set_id |-> s.set_id + 1, standard |-> NewTree, forced |-> {},
                     changes |-> append(s.changes, s.set_id, change[f].median)],
            err |-> "none", forced |-> due]

\* Finalizing `b' enacts the standard change at the root of its branch that is
\* due, and drops the changes of the other branches.  `new' is the change
\* enacted, `changed' says whether the set must be written.
apply_standard_changes(s, change, b) ==
  LET r == finalize_with_descendent_if(s.standard, b,
                                       {c \in Blocks : effective_number(change, c) <= Number[b]})
      kept == {f \in s.forced : effective_number(change, f) > Number[b] /\ is_descendent_of(b, f)}
      c == CHOOSE x \in r.data : TRUE
      pruned == [s EXCEPT !.standard = r.tree, !.forced = IF r.changed THEN kept ELSE @]
  IN  IF r.err # "none" THEN [set |-> s, err |-> r.err, new |-> {}, changed |-> FALSE]
      ELSE IF r.data = {}
      THEN [set |-> pruned, err |-> "none", new |-> {}, changed |-> r.changed]
      ELSE [set |-> [pruned EXCEPT !.who = c, !.set_id = @ + 1,
                                   !.changes = append(@, s.set_id, Number[b])],
            err |-> "none", new |-> r.data, changed |-> TRUE]

\* Whether finalizing `b' will enact a change: "root", "deeper" when others
\* come first, or "none".
enacts_standard_change(s, change, b) ==
  finalizes_any_with_descendent_if(s.standard, b,
                                   {c \in Blocks : effective_number(change, c) = Number[b]})

\* The changes `b' makes to the set when it is imported: it may announce one,
\* a forced one may be due, or finalizing it would enact a standard one.
Changes(s, change, b) ==
  LET added == add_pending_change(s, change, b)
      forced == apply_forced_changes(added.set, change, b)
      enacts == enacts_standard_change(added.set, change, b)
  IN  IF added.err # "none" THEN [set |-> s, err |-> added.err, applied |-> "none"]
      ELSE IF forced.err # "none" THEN [set |-> s, err |-> forced.err, applied |-> "none"]
      ELSE IF forced.forced # {}
      THEN [set |-> forced.set, err |-> "none", applied |-> "forced"]
      ELSE IF enacts.err # "none" THEN [set |-> s, err |-> enacts.err, applied |-> "none"]
      ELSE [set |-> added.set, err |-> "none", applied |-> enacts.tree]

\* Where the binary search of `insert' puts a block number, counted from 0.
InsertAt(changes, number) == Cardinality({i \in DOMAIN changes : changes[i][2] < number})
InsertedId(changes, number) ==
  LET idx == InsertAt(changes, number) IN IF idx = 0 THEN 0 ELSE changes[idx][1] + 1
\* The assertion of `insert': the set it numbers is not there yet.
InsertAsserts(changes, number) ==
  LET idx == InsertAt(changes, number)
  IN  idx = Len(changes) \/ changes[idx + 1][1] # InsertedId(changes, number)
insert(changes, number) ==
  LET idx == InsertAt(changes, number)
  IN  SubSeq(changes, 1, idx) \o << <<InsertedId(changes, number), number>> >>
        \o SubSeq(changes, idx + 1, Len(changes))
=============================================================================
