-------------------------- MODULE MCGrandpaImport --------------------------
(***************************************************************************)
(* GrandpaImport on one tree of blocks, with the changes they announce     *)
(* chosen by setups.                                                       *)
(***************************************************************************)
EXTENDS GrandpaImport, TLC
CONSTANTS g, a1, a2, a3, a4, a5, b2, b3

MCBlocks == {g, a1, a2, a3, a4, a5, b2, b3}
MCNumber == g :> 0 @@ a1 :> 1 @@ a2 :> 2 @@ a3 :> 3 @@ a4 :> 4 @@ a5 :> 5 @@ b2 :> 2 @@ b3 :> 3
MCAncestors == g :> {} @@ a1 :> {g} @@ a2 :> {g, a1} @@ a3 :> {g, a1, a2}
                 @@ a4 :> {g, a1, a2, a3} @@ a5 :> {g, a1, a2, a3, a4}
                 @@ b2 :> {g, a1} @@ b3 :> {g, a1, b2}

Standard(d) == [kind |-> "standard", delay |-> d, median |-> 0]
Forced(d, m) == [kind |-> "forced", delay |-> d, median |-> m]
Setup(digests, blocks, main, warp) ==
  [change |-> [b \in MCBlocks |-> IF b \in DOMAIN digests THEN digests[b] ELSE NoChange],
   blocks |-> blocks, main |-> main, warp |-> warp]

\* Two changes in a row, the second announced on both forks.
InARow == Setup(a1 :> Standard(1) @@ a3 :> Standard(0) @@ b3 :> Standard(0),
                {a1, a2, a3, b2, b3}, a3, g)
\* Competing changes, the one that wins with a delay.
Competing(main) == Setup(a2 :> Standard(1) @@ b2 :> Standard(0), {a1, a2, a3, b2, b3}, main, g)
\* A forced change that depends on a standard one, and a standard one after it.
Stalled == Setup(a1 :> Standard(0) @@ a3 :> Forced(1, 1) @@ a5 :> Standard(0) @@ b2 :> Standard(0),
                 {a1, a2, a3, a4, a5, b2}, a5, g)
\* The state of a3 was synced.
Warped == Setup(a1 :> Standard(0) @@ a2 :> Standard(0), {a1, a2, a3, a4}, a4, a3)
WarpedActive == Setup(a1 :> Standard(0) @@ a2 :> Standard(0) @@ a4 :> Standard(0), {a1, a2, a3, a4}, a4, a3)
MCSetups == {InARow, Competing(a3), Competing(b3), Stalled, Warped}
MCGapSetups == {WarpedActive}
=============================================================================
