------------------------------ MODULE ForkTree ------------------------------
(***************************************************************************)
(* The fork tree of utils/fork-tree: a forest of blocks, ordered by the    *)
(* ancestry the client reports, from which finality takes nodes in order.  *)
(* The callers import a block after its ancestors, so the parent           *)
(* find_node_index_where finds for a node is its deepest ancestor in the   *)
(* tree, and stays so: only roots and whole subtrees are ever removed.  A  *)
(* tree is therefore the set of its nodes and best_finalized_number, -1    *)
(* standing for None.  The order of siblings is left out: no caller        *)
(* depends on it.  A predicate on nodes is the set of nodes that satisfy   *)
(* it, a result a record with the tree it leaves.                          *)
(***************************************************************************)
EXTENDS Integers, FiniteSets

CONSTANTS Blocks,      \* all blocks there are, on every fork
          Number,      \* the height of each
          Ancestors    \* the proper ancestors of each

\* What a chain of blocks gives: ancestors are lower, ancestors of ancestors
\* are ancestors, and of two ancestors of a block one is the other's.
ASSUME ChainAssumption ==
  /\ Number \in [Blocks -> Nat]
  /\ Ancestors \in [Blocks -> SUBSET Blocks]
  /\ \A b \in Blocks : \A a \in Ancestors[b] :
       /\ Number[a] < Number[b]
       /\ Ancestors[a] \subseteq Ancestors[b]
       /\ \A c \in Ancestors[b] : a = c \/ a \in Ancestors[c] \/ c \in Ancestors[a]

is_descendent_of(base, b) == base \in Ancestors[b]
\* The ancestry test most operations make: the same block, or a descendant.
Under(base, b) == base = b \/ is_descendent_of(base, b)

Tree == [nodes : SUBSET Blocks, best : Nat \cup {-1}]
NewTree == [nodes |-> {}, best |-> -1]

roots(t) == {n \in t.nodes : Ancestors[n] \cap t.nodes = {}}
Parents(t, n) == {p \in t.nodes : /\ is_descendent_of(p, n)
                                  /\ \A q \in t.nodes : is_descendent_of(q, n) => Under(q, p)}
children(t, n) == {c \in t.nodes : n \in Parents(t, c)}
Subtrees(t, R) == {n \in t.nodes : \E r \in R : Under(r, n)}

Ok(t) == [tree |-> t, err |-> "none"]
Err(t, e) == [tree |-> t, err |-> e]

\* A block at or below the last finalized number cannot be added, nor one twice.
import(t, b) ==
  IF Number[b] <= t.best THEN Err(t, "Revert")
  ELSE IF b \in t.nodes THEN Err(t, "Duplicate")
  ELSE Ok([t EXCEPT !.nodes = @ \cup {b}])

\* A child of `n' on the way to `b': finalizing `b' at `n' would skip it.
Skips(t, n, b) == \E c \in children(t, n) : Number[c] <= Number[b] /\ Under(c, b)

\* Whether finalizing `b' finalizes some node of P: "root" when that node is a
\* root, "deeper" when others come first, "none" when there is no such node.
finalizes_any_with_descendent_if(t, b, P) ==
  LET on == {n \in t.nodes \cap P : Under(n, b)}
      first == {n \in on : \A m \in on : Under(n, m)}
  IN  IF Number[b] <= t.best THEN Err("none", "Revert")
      ELSE IF \E n \in first : Skips(t, n, b) THEN Err("none", "UnfinalizedAncestor")
      ELSE IF first \cap roots(t) # {} THEN Ok("root")
      ELSE IF first # {} THEN Ok("deeper") ELSE Ok("none")

\* Mutant: the final block itself is dropped when its change is not due.
RetainedOthers(R, b) == {r \in R : (Number[r] > Number[b] /\ is_descendent_of(b, r)) \/ is_descendent_of(r, b)}

\* What stays of the candidate roots R once `b' is final.
Retained(R, b) ==
  {r \in R : \/ Number[r] > Number[b] /\ is_descendent_of(b, r)
             \/ r = b
             \/ is_descendent_of(r, b)}

\* Finalizes `b': takes the root in P that `b' descends from, whose children
\* become the roots, and drops the branches `b' is not on.
finalize_with_descendent_if(t, b, P) ==
  LET hit == {r \in roots(t) \cap P : Under(r, b)}
      R == IF hit = {} THEN roots(t) ELSE UNION {children(t, r) : r \in hit}
      keep == Retained(R, b)
  IN  IF Number[b] <= t.best
      THEN [tree |-> t, err |-> "Revert", data |-> {}, changed |-> FALSE]
      ELSE IF \E r \in hit : Skips(t, r, b)
      THEN [tree |-> t, err |-> "UnfinalizedAncestor", data |-> {}, changed |-> FALSE]
      ELSE [tree |-> [nodes |-> Subtrees(t, keep), best |-> Number[b]], err |-> "none",
            data |-> hit, changed |-> hit # {} \/ keep # R]

\* Takes a root that is final; its children become the roots.
finalize_root(t, b) ==
  IF b \in roots(t) THEN [nodes |-> Subtrees(t, children(t, b)), best |-> Number[b]] ELSE t

\* Finalizes `b' and what comes before it, in any order of the tree.
finalize_with_ancestors(t, b) ==
  LET opened == {n \in t.nodes : is_descendent_of(n, b)}
      R == roots([t EXCEPT !.nodes = @ \ opened])
  IN  IF Number[b] <= t.best THEN Err(t, "Revert")
      ELSE IF b \in roots(t) THEN Ok(finalize_root(t, b))
      ELSE IF b \in R
      THEN Ok([nodes |-> Subtrees(t, children(t, b)), best |-> Number[b]])
      ELSE Ok([nodes |-> Subtrees(t, {r \in R : Number[r] > Number[b] /\ is_descendent_of(b, r)}),
               best |-> Number[b]])
=============================================================================
