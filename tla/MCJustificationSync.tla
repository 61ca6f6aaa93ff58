------------------------ MODULE MCJustificationSync ------------------------
(***************************************************************************)
(* JustificationSync on a chain with one fork.                             *)
(***************************************************************************)
EXTENDS JustificationSync, TLC
CONSTANTS g, a1, a2, a3, a4, b2, p1, p2

MCBlocks == {g, a1, a2, a3, a4, b2}
MCNumber == g :> 0 @@ a1 :> 1 @@ a2 :> 2 @@ a3 :> 3 @@ a4 :> 4 @@ b2 :> 2
MCAncestors == g :> {} @@ a1 :> {g} @@ a2 :> {g, a1} @@ a3 :> {g, a1, a2}
                 @@ a4 :> {g, a1, a2, a3} @@ b2 :> {g, a1}

Standard(d) == [kind |-> "standard", delay |-> d, median |-> 0]
Forced(d, m) == [kind |-> "forced", delay |-> d, median |-> m]
Setup(digests, blocks, main, voter) ==
  [change |-> [b \in MCBlocks |-> IF b \in DOMAIN digests THEN digests[b] ELSE NoChange],
   blocks |-> blocks, main |-> main, voter |-> voter]

\* Two changes in a row and one on a fork.
InARow(voter) == Setup(a1 :> Standard(0) @@ a2 :> Standard(1) @@ b2 :> Standard(0),
                       {a1, a2, a3, b2}, a3, voter)
\* Competing changes, and a voter that may finalize first.
Competing == Setup(a2 :> Standard(0) @@ b2 :> Standard(0), {a1, a2, a3, b2}, a3, TRUE)
\* A forced change clears the requests.
Stalled == Setup(a2 :> Forced(1, 0) @@ a4 :> Standard(0) @@ b2 :> Standard(0),
                 {a1, a2, a3, a4, b2}, a4, FALSE)
MCSetups == {InARow(FALSE), Competing, Stalled}
MCVoterSetups == {InARow(TRUE)}
=============================================================================
