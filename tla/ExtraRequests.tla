---------------------------- MODULE ExtraRequests ---------------------------
(***************************************************************************)
(* ExtraRequests of client/network/sync/src/extra_requests.rs: the         *)
(* justifications the node asks its peers for, in the order of a fork      *)
(* tree.  A request is the block it is for.  pending_requests is a set:    *)
(* the matcher goes over all of it, and a request is in it once.           *)
(***************************************************************************)
EXTENDS ForkTree

CONSTANT Peers

Requests == [tree : Tree, seen : Nat, pending : SUBSET Blocks,
             active : SUBSET (Peers \X Blocks), failed : SUBSET (Peers \X Blocks),
             importing : SUBSET Blocks]
NewRequests == [tree |-> NewTree, seen |-> 0, pending |-> {}, active |-> {}, failed |-> {},
                importing |-> {}]

\* importing_requests and best_seen_finalized_number are not reset.
reset(x) == [NewRequests EXCEPT !.seen = x.seen, !.importing = x.importing]

\* A new root can be asked for at once.
schedule(x, b) ==
  LET i == import(x.tree, b)
  IN  IF i.err # "none" THEN x
      ELSE [x EXCEPT !.tree = i.tree,
                     !.pending = IF b \in roots(i.tree) THEN @ \cup {b} ELSE @]

AskedOf(x, p) == {b \in Blocks : <<p, b>> \in x.active}
Dropped(x, p) == {e \in x.active : e[1] # p}

peer_disconnected(x, p) ==
  [x EXCEPT !.active = Dropped(x, p), !.pending = @ \cup AskedOf(x, p)]

\* `found' says whether the peer had the justification.
on_response(x, p, found) ==
  IF found THEN [x EXCEPT !.active = Dropped(x, p), !.importing = @ \cup AskedOf(x, p)]
  ELSE [x EXCEPT !.active = Dropped(x, p), !.pending = @ \cup AskedOf(x, p),
                 !.failed = @ \cup {<<p, b>> : b \in AskedOf(x, p)}]

\* Mutant: the requests that have become roots are not queued.
try_finalize_root_only(x, b, ok, reschedule_on_failure) ==
  LET t == finalize_root(x.tree, b)
      y == [x EXCEPT !.importing = @ \ {b}]
  IN  IF b \notin x.importing THEN x
      ELSE IF ~ok THEN [y EXCEPT !.pending = IF reschedule_on_failure THEN @ \cup {b} ELSE @]
      ELSE IF b \notin roots(x.tree) THEN y
      ELSE [y EXCEPT !.tree = t, !.failed = {}, !.active = {}, !.pending = {}, !.seen = Number[b]]

\* The justification of `b' was imported, or could not be.
try_finalize_root(x, b, ok, reschedule_on_failure) ==
  LET t == finalize_root(x.tree, b)
      y == [x EXCEPT !.importing = @ \ {b}]
  IN  IF b \notin x.importing THEN x
      ELSE IF ~ok THEN [y EXCEPT !.pending = IF reschedule_on_failure THEN @ \cup {b} ELSE @]
      ELSE IF b \notin roots(x.tree) THEN y
      ELSE [y EXCEPT !.tree = t, !.failed = {}, !.active = {}, !.pending = roots(t),
                     !.seen = Number[b]]

\* `b' was finalized, by an import that was asked for or by other means.
on_block_finalized(x, b) ==
  LET t == IF Number[b] > x.seen THEN finalize_with_ancestors(x.tree, b).tree ELSE x.tree
      R == roots(t)
  IN  IF b \in x.importing THEN try_finalize_root(x, b, TRUE, FALSE)
      ELSE [x EXCEPT !.tree = t,
                     !.seen = IF Number[b] > @ THEN Number[b] ELSE @,
                     !.pending = @ \cap R,
                     !.active = {e \in @ : e[2] \in R},
                     !.failed = {e \in @ : e[2] \in R}]

\* Matcher::next may send `b' to `p'.
CanAsk(x, p, b) ==
  /\ b \in x.pending /\ AskedOf(x, p) = {} /\ <<p, b>> \notin x.failed
next(x, p, b) == [x EXCEPT !.pending = @ \ {b}, !.active = @ \cup {<<p, b>>}]
=============================================================================
