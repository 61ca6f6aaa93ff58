----------------------------- MODULE MCStateDb -----------------------------
(* A small tree of blocks for StateDb: two forks from the root, one of     *)
(* which forks again.                                                      *)
EXTENDS StateDb

CONSTANTS g, a1, b1, a2, b2, c2, a3, x

MCBlocks == {g, a1, b1, a2, b2, c2, a3}
MCParent == (a1 :> g) @@ (b1 :> g) @@ (a2 :> a1) @@ (b2 :> b1) @@ (c2 :> a1) @@ (a3 :> a2)
MCTrie == (g :> {x}) @@ (a1 :> {}) @@ (b1 :> {x}) @@ (a2 :> {x}) @@ (b2 :> {x}) @@ (c2 :> {}) @@ (a3 :> {})

Setup(f, blocks, pins) ==
    [flavour |-> f, maxBlocks |-> 1, first |-> 0, blocks |-> blocks, pins |-> pins,
     orphans |-> FALSE]
Wide == {g, a1, b1, a2, b2, c2}
Deep == {g, a1, b1, a2, a3}
MCSetups ==
    {Setup("Mem", Wide, 1), Setup("DbBacked", Wide, 0),
     Setup("Mem", Deep, 2), Setup("DbBacked", Deep, 1), Setup("Archive", Deep, 1)}

\* The first state is that of a state sync, at number 1.
MCSyncSetups == {[Setup("DbBacked", Deep, 0) EXCEPT !.first = 1]}
=============================================================================
