----------------------------- MODULE MCSandbox -----------------------------
(***************************************************************************)
(* Instances of Sandbox for TLC.                                           *)
(***************************************************************************)
EXTENDS Sandbox, TLC
CONSTANTS t1, t2

\* One that keeps to its own blocks, and one that frees any block and one of
\* whose thunks has no result.
MCRuntimes == {[careful |-> TRUE, bad |-> {}], [careful |-> FALSE, bad |-> {t2}]}

Symmetry == Permutations(Blocks) \cup Permutations(Messages)
=============================================================================
