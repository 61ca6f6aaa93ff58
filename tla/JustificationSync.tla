-------------------------- MODULE JustificationSync -------------------------
(***************************************************************************)
(* How a node gets the justifications that enact its pending authority set *)
(* changes: blocks are imported, GrandpaBlockImport says which of them     *)
(* need one, ChainSync (client/network/sync) asks peers for it, the import *)
(* queue imports what they send, and both the result of an import and the  *)
(* finality notifications come back to ChainSync, each in its own order.   *)
(* An import is one step here; GrandpaImport has its interleavings.        *)
(***************************************************************************)
EXTENDS ChainFinality, ExtraRequests

CONSTANTS Full,            \* the peers that have the justifications
          Setups,
          MaxDisconnects,  \* how often a peer may leave
          MaxRestarts      \* how often the node may stop

VARIABLES setup, imported, finalized,
          auth,            \* the authority set
          extra,           \* the requests of ChainSync
          asked,           \* what each peer is busy answering
          justifications,  \* received, waiting for the import queue
          results,         \* of the import queue, on their way to ChainSync
          finality,        \* notifications, on their way to ChainSync
          disconnects, restarts
vars == <<setup, imported, finalized, auth, extra, asked, justifications, results, finality,
          disconnects, restarts>>

change == setup.change
Eff(c) == effective_number(change, c)

Init ==
  /\ setup \in Setups
  /\ imported = {Genesis} /\ finalized = Genesis
  /\ auth = genesis
  /\ extra = NewRequests
  /\ asked = {} /\ justifications = {}
  /\ results = <<>> /\ finality = <<>>
  /\ disconnects = 0 /\ restarts = 0

(***************************************************************************)
(* The import queue.                                                       *)
(***************************************************************************)
\* Finalizing `b' from set s, if it is signed by the current set of s.
Verified(s, b) == [set_id |-> s.set_id, who |-> s.who] \in Signers(setup, b)
Finalized(s, b) == apply_standard_changes(s, change, b)
Notified(b) == Append(finality, b)
Result(kind, b, flag) == [kind |-> kind, block |-> b, flag |-> flag]

\* A block arrives, with or without its justification.  Its result says whether
\* it enacts a change that a justification is still needed for.
ImportBlock(b, justified) ==
  LET c == Changes(auth, change, b)
      final == /\ justified /\ c.applied # "deeper" /\ Verified(c.set, b)
               /\ Finalized(c.set, b).err = "none"
      needs == c.applied \in {"root", "deeper"} /\ ~final
  IN  /\ b \notin imported /\ ParentIn(b, imported) /\ Number[b] > Number[finalized]
      /\ justified => Under(b, setup.main)
      /\ c.err = "none"
      /\ imported' = imported \cup {b}
      /\ auth' = IF final THEN Finalized(c.set, b).set ELSE c.set
      /\ finalized' = IF final THEN b ELSE finalized
      /\ finality' = IF final THEN Notified(b) ELSE finality
      /\ results' = results \o (IF c.applied = "forced" THEN <<Result("clear", b, TRUE)>> ELSE <<>>)
                            \o (IF needs THEN <<Result("needs", b, TRUE)>> ELSE <<>>)
      /\ UNCHANGED <<setup, extra, asked, justifications, disconnects, restarts>>

\* A justification is verified against the current set and its block finalized.
ImportJustification(b) ==
  LET again == Under(b, finalized)
      ok == /\ Verified(auth, b)
            /\ again \/ (is_descendent_of(finalized, b) /\ Finalized(auth, b).err = "none")
  IN  /\ b \in justifications
      /\ justifications' = justifications \ {b}
      /\ results' = Append(results, Result("justification", b, ok))
      /\ IF ok /\ ~again
         THEN finalized' = b /\ auth' = Finalized(auth, b).set /\ finality' = Notified(b)
         ELSE UNCHANGED <<finalized, auth, finality>>
      /\ UNCHANGED <<setup, imported, extra, asked, disconnects, restarts>>

\* The voter finalizes a block without ChainSync having asked for anything.
VoterFinalizes(b) ==
  /\ setup.voter
  /\ b \in imported /\ is_descendent_of(finalized, b) /\ Verified(auth, b)
  /\ Finalized(auth, b).err = "none"
  /\ finalized' = b /\ auth' = Finalized(auth, b).set /\ finality' = Notified(b)
  /\ UNCHANGED <<setup, imported, extra, asked, justifications, results, disconnects, restarts>>

(***************************************************************************)
(* ChainSync.                                                              *)
(***************************************************************************)
on_justification_import(x, b, success) == try_finalize_root(x, b, success, TRUE)
\* What the import queue reports: a block, or a justification.
OnResult ==
  /\ results # <<>>
  /\ LET r == Head(results)
     IN  extra' = CASE r.kind = "clear" -> reset(extra)
                    [] r.kind = "needs" -> schedule(extra, r.block)
                    [] OTHER -> on_justification_import(extra, r.block, r.flag)
  /\ results' = Tail(results)
  /\ UNCHANGED <<setup, imported, finalized, auth, asked, justifications, finality,
                 disconnects, restarts>>

OnFinality ==
  /\ finality # <<>>
  /\ extra' = on_block_finalized(extra, Head(finality))
  /\ finality' = Tail(finality)
  /\ UNCHANGED <<setup, imported, finalized, auth, asked, justifications, results,
                 disconnects, restarts>>

Available(p) == \A e \in asked : e[1] # p
justification_requests(p, b) ==
  /\ Available(p) /\ CanAsk(extra, p, b)
  /\ extra' = next(extra, p, b)
  /\ asked' = asked \cup {<<p, b>>}
  /\ UNCHANGED <<setup, imported, finalized, auth, justifications, results, finality,
                 disconnects, restarts>>

\* A peer answers; the answer to a request that was dropped meanwhile is not
\* used.
on_block_justification(p, b) ==
  LET found == p \in Full /\ Under(b, setup.main)
  IN  /\ <<p, b>> \in asked
      /\ asked' = asked \ {<<p, b>>}
      /\ extra' = on_response(extra, p, found)
      /\ justifications' = IF found THEN justifications \cup AskedOf(extra, p) ELSE justifications
      /\ UNCHANGED <<setup, imported, finalized, auth, results, finality, disconnects, restarts>>

\* EXTRA_RETRY_WAIT has passed since `p' had no answer.
RetryWait(p, b) ==
  /\ <<p, b>> \in extra.failed
  /\ extra' = [extra EXCEPT !.failed = @ \ {<<p, b>>}]
  /\ UNCHANGED <<setup, imported, finalized, auth, asked, justifications, results, finality,
                 disconnects, restarts>>

\* A peer leaves, or its request times out; it comes back.
Disconnected(p) ==
  /\ disconnects < MaxDisconnects /\ ~Available(p)
  /\ disconnects' = disconnects + 1
  /\ asked' = {e \in asked : e[1] # p}
  /\ extra' = peer_disconnected(extra, p)
  /\ UNCHANGED <<setup, imported, finalized, auth, justifications, results, finality, restarts>>

(***************************************************************************)
(* The node starts again.                                                  *)
(***************************************************************************)
\* The blocks on_start asks for: where a pending change is due, if that block
\* is there and not final.
DueBlocks(c) ==
  {e \in imported : Under(c, e) /\ Number[e] = Eff(c) /\ Number[e] > Number[finalized]}
InOrder(s) == \A i, j \in DOMAIN s : i < j => Number[s[i]] <= Number[s[j]]
\* Mutant: nothing is asked for when the node starts.
RestartSilent ==
  /\ restarts < MaxRestarts
  /\ restarts' = restarts + 1
  /\ extra' = NewRequests
  /\ asked' = {} /\ justifications' = {} /\ finality' = <<>> /\ results' = <<>>
  /\ UNCHANGED <<setup, imported, finalized, auth, disconnects>>

Restart ==
  /\ restarts < MaxRestarts
  /\ restarts' = restarts + 1
  /\ extra' = NewRequests
  /\ asked' = {} /\ justifications' = {} /\ finality' = <<>>
  /\ LET due == {c \in auth.standard.nodes : DueBlocks(c) # {}}
     IN  \E pick \in [due -> imported] : \E s \in [1 .. Cardinality(due) -> due] :
           /\ \A c \in due : pick[c] \in DueBlocks(c)
           /\ \A c \in due : \E k \in DOMAIN s : s[k] = c
           /\ InOrder(s)
           /\ results' = [k \in DOMAIN s |-> Result("needs", pick[s[k]], TRUE)]
  /\ UNCHANGED <<setup, imported, finalized, auth, disconnects>>

Sync ==
  \/ OnResult \/ OnFinality
  \/ \E p \in Peers, b \in setup.blocks :
       justification_requests(p, b) \/ on_block_justification(p, b) \/ RetryWait(p, b)
  \/ \E b \in setup.blocks : ImportJustification(b)
Next ==
  \/ Sync
  \/ \E b \in setup.blocks : (\E j \in BOOLEAN : ImportBlock(b, j)) \/ VoterFinalizes(b)
  \/ \E p \in Peers : Disconnected(p)
  \/ Restart
\* A request times out if it is not answered, and every peer is eventually free
\* within the EXTRA_RETRY_WAIT of what it has failed; the matcher goes over all
\* requests and rotates them, so it does not pass over a peer that is free.
Fairness ==
  /\ WF_vars(OnResult) /\ WF_vars(OnFinality)
  /\ WF_vars(\E b \in setup.blocks : ImportJustification(b))
  /\ []<>(asked = {})
  /\ \A b \in Blocks \ {Genesis}, p \in Full : SF_vars(justification_requests(p, b))
Spec == Init /\ [][Next]_vars /\ Fairness

(***************************************************************************)
(* Properties.                                                             *)
(***************************************************************************)
\* The types of the variables.
TypeOK ==
  /\ setup \in Setups /\ imported \subseteq Blocks /\ finalized \in imported
  /\ auth \in AuthoritySets /\ extra \in Requests
  /\ asked \subseteq Peers \X Blocks /\ justifications \subseteq Blocks

\* "This structure will guarantee that extras are fetched in-order": what is
\* queued for the peers or asked of one has no request before it, and nothing
\* that is first is forgotten: it is queued, asked for, or being imported.
RootsRequested ==
  LET asking == extra.pending \cup {e[2] : e \in extra.active}
  IN  /\ asking \subseteq roots(extra.tree)
      /\ roots(extra.tree) \subseteq asking \cup extra.importing

\* A change of the chain that wins is enacted once the block where it is due is
\* there, even if the node votes in no set itself: the justifications are asked
\* for, in order, until none is missing.
Due(c) == /\ c \in auth.standard.nodes
          /\ \E e \in imported : Under(c, e) /\ Under(e, setup.main) /\ Number[e] = Eff(c)
CatchesUp == []<>(\A c \in Blocks : ~Due(c))
=============================================================================
