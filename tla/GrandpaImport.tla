--------------------------- MODULE GrandpaImport ---------------------------
(***************************************************************************)
(* How a node's authority set follows the chain: GrandpaBlockImport        *)
(* (client/finality-grandpa/src/import.rs), used by several importers at   *)
(* once (the import queue and the block author each own a clone),          *)
(* finalize_block (environment.rs), called by them and by the voter, and   *)
(* the voter task that follows their commands (lib.rs).  They share one    *)
(* AuthoritySet behind SharedData, whose lock an importer keeps over the   *)
(* write of a block that changes the set.  The database commits a block or *)
(* a finalization together with the encoded set; the node may stop between *)
(* any two steps and load what is there.                                   *)
(***************************************************************************)
EXTENDS ChainFinality

CONSTANT Setups
\* The genesis block announces nothing.
ASSUME SetupsAssumption ==
  /\ Setups \subseteq [change : [Blocks -> Digest], blocks : SUBSET Blocks, main : Blocks,
                      warp : Blocks]
  /\ \A s \in Setups : s.change[Genesis].kind = "none"

Queue == "queue"     \* the import queue: blocks and justifications of peers
Author == "author"   \* the node's own blocks
Importers == {Queue, Author}
Free == "free"

VARIABLES setup,      \* what the blocks announce and which chain wins
          imported,   \* blocks in the database
          finalized,  \* the last finalized one
          auth,       \* the shared authority set
          lock,       \* the importer that keeps it locked over an await
          imp,        \* what each importer is doing
          voter,      \* the set the voter task votes in, and whether it is paused
          commands,   \* voter commands sent and not yet handled
          disk,       \* the authority set and the state of the voter on disk
          panicked    \* an assertion has failed
vars == <<setup, imported, finalized, auth, lock, imp, voter, commands, disk, panicked>>

change == setup.change
Prescribed(S, fin) == PrescribedSet(change, S, fin)

(***************************************************************************)
(* Importers.                                                              *)
(***************************************************************************)
Only(S) == CHOOSE x \in S : TRUE
Idle == [pc |-> "idle", block |-> Genesis, just |-> {}, old |-> {}, applied |-> "none",
         set_id |-> 0]
\* A node that has synced the state of setup.warp has that block, final, and
\* nothing between genesis and it.
Init ==
  /\ setup \in Setups
  /\ imported = {Genesis, setup.warp}
  /\ finalized = setup.warp
  /\ LET p == Prescribed(imported, finalized)
     IN  auth = [genesis EXCEPT !.who = p.who, !.set_id = p.set_id]
  /\ lock = Free
  /\ imp = [i \in Importers |-> Idle]
  /\ voter = [set_id |-> auth.set_id, paused |-> FALSE]
  /\ commands = <<>>
  /\ disk = [auth |-> auth, paused |-> FALSE]
  /\ panicked = FALSE

Unlocked == lock = Free
Done(i) == imp' = [imp EXCEPT ![i] = Idle]
Goto(i, pc) == imp' = [imp EXCEPT ![i].pc = pc]

\* import_block: a new block is authored, or arrives, perhaps with a
\* justification.
import_block(i, b) ==
  /\ imp[i].pc = "idle" /\ b \notin imported /\ ParentIn(b, imported)
  /\ Number[b] > Number[finalized]
  /\ \A k \in Importers \ {i} : imp[k].block # b
  /\ \E j \in {{}} \cup {{s} : s \in Signers(setup, b)} : (i = Author => j = {}) /\
       imp' = [imp EXCEPT ![i] = [Idle EXCEPT !.pc = "make", !.block = b, !.just = j]]
  /\ UNCHANGED <<setup, imported, finalized, auth, lock, voter, commands, disk, panicked>>

\* Mutant: the lock is released before the block is written.
make_authorities_changes_unlocked(i) ==
  LET b == imp[i].block  c == Changes(auth, change, b)
      kept == change[b].kind # "none" \/ c.applied = "forced"
  IN  /\ imp[i].pc = "make" /\ Unlocked
      /\ IF c.err # "none" THEN Done(i) /\ UNCHANGED auth
         ELSE /\ imp' = [imp EXCEPT ![i].pc = "write", ![i].applied = c.applied,
                                    ![i].old = IF kept THEN {auth} ELSE {}]
              /\ auth' = c.set
      /\ UNCHANGED <<setup, imported, finalized, lock, voter, commands, disk, panicked>>

\* make_authorities_changes: the lock is kept if the set has changed, and the
\* old set put aside; on an error nothing is left behind.
make_authorities_changes(i) ==
  LET b == imp[i].block  c == Changes(auth, change, b)
      kept == change[b].kind # "none" \/ c.applied = "forced"
  IN  /\ imp[i].pc = "make" /\ Unlocked
      /\ IF c.err # "none" THEN Done(i) /\ UNCHANGED <<auth, lock>>
         ELSE /\ imp' = [imp EXCEPT ![i].pc = "write", ![i].applied = c.applied,
                                    ![i].old = IF kept THEN {auth} ELSE {}]
              /\ auth' = c.set
              /\ lock' = IF kept THEN i ELSE lock
      /\ UNCHANGED <<setup, imported, finalized, voter, commands, disk, panicked>>

\* The client writes the block, and with it the set; a new set starts with a
\* live voter.
WriteBlock(i) ==
  LET b == imp[i].block
  IN  /\ imp[i].pc = "write"
      /\ b \notin imported /\ Number[b] > Number[finalized]
      /\ imported' = imported \cup {b}
      /\ disk' = IF imp[i].old = {} THEN disk
                 ELSE [auth |-> auth, paused |-> disk.paused /\ imp[i].applied # "forced"]
      /\ lock' = IF imp[i].old = {} THEN lock ELSE Free
      /\ imp' = [imp EXCEPT ![i].pc = "send", ![i].old = {},
                           ![i].set_id = IF imp[i].applied = "forced" THEN auth.set_id ELSE 0]
      /\ UNCHANGED <<setup, finalized, auth, voter, commands, panicked>>

\* Mutant: the old set is not restored.
WriteFailsKeeping(i) ==
  /\ imp[i].pc = "write"
  /\ lock' = IF imp[i].old = {} THEN lock ELSE Free
  /\ Done(i)
  /\ UNCHANGED <<setup, imported, finalized, auth, voter, commands, disk, panicked>>

\* It refuses the block (it is there already, or no longer above the finalized
\* one) or fails: the old set is restored.
WriteFails(i) ==
  /\ imp[i].pc = "write"
  /\ auth' = IF imp[i].old = {} THEN auth ELSE Only(imp[i].old)
  /\ lock' = IF imp[i].old = {} THEN lock ELSE Free
  /\ Done(i)
  /\ UNCHANGED <<setup, imported, finalized, voter, commands, disk, panicked>>

Pause == [cmd |-> "Pause", set_id |-> 0]
ChangeAuthorities(n) == [cmd |-> "ChangeAuthorities", set_id |-> n]

\* The commands of the block, then its justification; one for a change that
\* cannot be enacted yet is dropped.
SendCommands(i) ==
  LET b == imp[i].block
  IN  /\ imp[i].pc = "send"
      /\ commands' = commands
           \o (IF change[b].kind = "forced" THEN <<Pause>> ELSE <<>>)
           \o (IF imp[i].applied = "forced" THEN <<ChangeAuthorities(imp[i].set_id)>>
               ELSE <<>>)
      /\ IF imp[i].just = {} \/ imp[i].applied = "deeper" THEN Done(i)
         ELSE Goto(i, "verify")
      /\ UNCHANGED <<setup, imported, finalized, auth, lock, voter, disk, panicked>>

\* A justification that was requested arrives on its own.
import_justification(i, b) ==
  /\ imp[i].pc = "idle" /\ b \in imported
  /\ \E s \in Signers(setup, b) :
       imp' = [imp EXCEPT ![i] = [Idle EXCEPT !.pc = "verify", !.block = b, !.just = {s}]]
  /\ UNCHANGED <<setup, imported, finalized, auth, lock, voter, commands, disk, panicked>>

\* It is verified against the set id and the authorities, read one after the
\* other.
ReadSetId(i) ==
  /\ imp[i].pc = "verify" /\ Unlocked
  /\ imp' = [imp EXCEPT ![i].set_id = auth.set_id, ![i].pc = "authorities"]
  /\ UNCHANGED <<setup, imported, finalized, auth, lock, voter, commands, disk, panicked>>
Verify(i) ==
  /\ imp[i].pc = "authorities" /\ Unlocked
  /\ IF imp[i].just = {[set_id |-> imp[i].set_id, who |-> auth.who]}
     THEN Goto(i, "finalize") ELSE Done(i)
  /\ UNCHANGED <<setup, imported, finalized, auth, lock, voter, commands, disk, panicked>>

(***************************************************************************)
(* finalize_block, from taking the lock to releasing it.                   *)
(***************************************************************************)
Refinalizes(b) == Number[b] <= Number[finalized] /\ Under(b, finalized)
\* The database takes the block as final, and the set if it has changed.
Finalizes(b) ==
  LET r == apply_standard_changes(auth, change, b)
  IN  /\ ~Refinalizes(b) /\ is_descendent_of(finalized, b) /\ b \in imported
      /\ r.err = "none"
      /\ finalized' = b
      /\ auth' = r.set
      /\ disk' = IF ~r.changed THEN disk
                 ELSE [auth |-> r.set, paused |-> disk.paused /\ r.new = {}]
Enacts(b) == ~Refinalizes(b) /\ apply_standard_changes(auth, change, b).new # {}

\* Mutant: the voter is not told.
FinalizeBlockSilent(i) ==
  LET b == imp[i].block
  IN  /\ imp[i].pc = "finalize" /\ Unlocked
      /\ \/ Finalizes(b)
         \/ Refinalizes(b) /\ UNCHANGED <<finalized, auth, disk>>
      /\ Done(i)
      /\ UNCHANGED <<setup, imported, lock, voter, commands, panicked>>

\* An importer's call; a new set is told to the voter after the lock is gone.
\* That a block which was to enact a change did is asserted.
FinalizeBlock(i) ==
  LET b == imp[i].block
  IN  /\ imp[i].pc = "finalize" /\ Unlocked
      /\ \/ Finalizes(b)
         \/ Refinalizes(b) /\ UNCHANGED <<finalized, auth, disk>>
      /\ IF ~Enacts(b) THEN Done(i)
         ELSE imp' = [imp EXCEPT ![i] = [Idle EXCEPT !.pc = "command", !.set_id = auth'.set_id]]
      /\ panicked' = (panicked \/ (imp[i].applied = "root" /\ ~Enacts(b)))
      /\ UNCHANGED <<setup, imported, lock, voter, commands>>
\* Any failure restores the old set.
FinalizeFails(i) ==
  /\ imp[i].pc = "finalize" /\ Unlocked
  /\ ~Refinalizes(imp[i].block)
  /\ Done(i)
  /\ UNCHANGED <<setup, imported, finalized, auth, lock, voter, commands, disk, panicked>>
SendChange(i) ==
  /\ imp[i].pc = "command"
  /\ commands' = Append(commands, ChangeAuthorities(imp[i].set_id))
  /\ Done(i)
  /\ UNCHANGED <<setup, imported, finalized, auth, lock, voter, disk, panicked>>

(***************************************************************************)
(* Importing the blocks below a synced state.                              *)
(***************************************************************************)
\* The change of an old block is only added to the record of sets, and the lock
\* released before the block is written.
ImportOld(i, b) ==
  LET known == change[b].kind # "none"
      s == [auth EXCEPT !.changes = insert(@, Number[b])]
  IN  /\ imp[i].pc = "idle" /\ b \notin imported /\ ParentIn(b, imported)
      /\ is_descendent_of(b, finalized)
      /\ known => Unlocked
      /\ panicked' = (panicked \/ (known /\ ~InsertAsserts(auth.changes, Number[b])))
      /\ auth' = IF known THEN s ELSE auth
      /\ imp' = [imp EXCEPT ![i] = [Idle EXCEPT !.pc = "old", !.block = b,
                                                !.old = IF known THEN {s} ELSE {}]]
      /\ UNCHANGED <<setup, imported, finalized, lock, voter, commands, disk>>
WriteOld(i) ==
  /\ imp[i].pc = "old" /\ imp[i].block \notin imported
  /\ imported' = imported \cup {imp[i].block}
  /\ disk' = IF imp[i].old = {} THEN disk ELSE [disk EXCEPT !.auth = Only(imp[i].old)]
  /\ Done(i)
  /\ UNCHANGED <<setup, finalized, auth, lock, voter, commands, panicked>>

\* The block is refused; what was added to the record stays.
WriteOldFails(i) ==
  /\ imp[i].pc = "old"
  /\ Done(i)
  /\ UNCHANGED <<setup, imported, finalized, auth, lock, voter, commands, disk, panicked>>

(***************************************************************************)
(* The voter task.                                                         *)
(***************************************************************************)
\* A round completes: the set the voter is in has signed for `b'.  If that
\* enacts a change the voter goes on with the new set at once.
VoterFinalizes(b) ==
  /\ ~voter.paused /\ Unlocked
  /\ \E s \in Signers(setup, b) : s.set_id = voter.set_id
  /\ Finalizes(b)
  /\ voter' = IF Enacts(b) THEN [set_id |-> auth'.set_id, paused |-> FALSE] ELSE voter
  /\ UNCHANGED <<setup, imported, lock, imp, commands, panicked>>

handle_voter_command ==
  /\ commands # <<>>
  /\ LET c == Head(commands)
     IN  /\ c.cmd = "ChangeAuthorities" => Unlocked
         /\ voter' = IF c.cmd = "Pause" THEN [voter EXCEPT !.paused = TRUE]
                     ELSE [set_id |-> c.set_id, paused |-> FALSE]
         /\ disk' = [disk EXCEPT !.paused = voter'.paused]
  /\ commands' = Tail(commands)
  /\ UNCHANGED <<setup, imported, finalized, auth, lock, imp, panicked>>

\* The node stops, by itself if an assertion fails, and starts from the database.
Restart ==
  /\ panicked' = FALSE
  /\ auth' = disk.auth
  /\ lock' = Free
  /\ imp' = [i \in Importers |-> Idle]
  /\ voter' = [set_id |-> disk.auth.set_id, paused |-> disk.paused]
  /\ commands' = <<>>
  /\ UNCHANGED <<setup, imported, finalized, disk>>

Step(i) ==
  \/ \E b \in setup.blocks : import_block(i, b)
  \/ make_authorities_changes(i) \/ WriteBlock(i) \/ WriteFails(i) \/ SendCommands(i)
  \/ ReadSetId(i) \/ Verify(i) \/ FinalizeBlock(i) \/ FinalizeFails(i) \/ SendChange(i)
Next ==
  \/ /\ ~panicked
     /\ \/ \E i \in Importers : Step(i)
        \/ \E b \in setup.blocks : ImportOld(Queue, b) \/ import_justification(Queue, b)
                                   \/ VoterFinalizes(b)
        \/ WriteOld(Queue) \/ WriteOldFails(Queue)
        \/ handle_voter_command
  \/ Restart
Spec == Init /\ [][Next]_vars

(***************************************************************************)
(* Properties.                                                             *)
(***************************************************************************)
\* The types of the variables.
TypeOK ==
  /\ setup \in Setups /\ imported \subseteq Blocks /\ finalized \in Blocks
  /\ auth \in AuthoritySets
  /\ lock \in Importers \cup {Free}
  /\ imp \in [Importers -> [pc : {"idle", "make", "write", "send", "verify", "authorities",
                                   "finalize", "command", "old"},
                             block : Blocks, just : SUBSET [set_id : Nat, who : Blocks],
                             old : SUBSET AuthoritySets,
                             applied : {"none", "root", "deeper", "forced"}, set_id : Nat]]
  /\ voter \in [set_id : Nat, paused : BOOLEAN]
  /\ disk \in [auth : AuthoritySets, paused : BOOLEAN]
  /\ panicked \in BOOLEAN

Current(s) == [set_id |-> s.set_id, who |-> s.who]
\* The set on disk is at all times the one the blocks on disk prescribe, so
\* a node that stops anywhere starts again in the right set.
SetFollowsChain == Current(disk.auth) = Prescribed(imported, finalized)

Eff(c) == effective_number(change, c)
Applied == {f \in ForcedBlocks(change) \cap imported :
              \E e \in imported : Under(f, e) /\ Number[e] >= Eff(f)}
\* A change that can still be enacted: its branch is alive, it is not due yet,
\* and no forced change has put an end to it.
Viable(c) ==
  /\ \/ is_descendent_of(finalized, c)
     \/ change[c].kind = "standard" /\ Under(c, finalized) /\ Eff(c) > Number[finalized]
  /\ \A f \in Applied : Under(f, c) /\ Number[c] > Eff(f)
\* No announced change is lost or invented: those on disk were announced by
\* blocks on disk, and every one that can still be enacted is there.
NoChangeLost ==
  /\ disk.auth.standard.nodes \cup disk.auth.forced \subseteq imported
  /\ \A c \in imported : Viable(c) =>
       /\ change[c].kind = "standard" => c \in disk.auth.standard.nodes
       /\ change[c].kind = "forced" => c \in disk.auth.forced

\* The record has the change of an old block that is not written, or could not be.
OldAhead == \E b \in Ancestors[setup.warp] \ imported :
              \E k \in DOMAIN auth.changes : auth.changes[k][2] = Number[b]
\* While no importer holds the lock the set in memory is the one on disk, up to
\* the number of the last finalized block, which is not written by itself.
InSync ==
  Unlocked /\ ~OldAhead =>
    [auth EXCEPT !.standard.best = 0] = [disk.auth EXCEPT !.standard.best = 0]

\* Which set ended where, on the chain the node has finalized.
Ended ==
  LET E == {c \in StandardOn(change, finalized) : Eff(c) <= Number[finalized]}
      B == UNION {BeforeForced(change, f) : f \in Applied}
      A == {c \in E : \A f \in Applied : Number[c] > Eff(f)}
      n == Cardinality(B) + Cardinality(Applied)
      Ends(S, base) == {<<base + Cardinality({d \in S : Number[d] < Number[c]}), Eff(c)>> : c \in S}
  IN  Ends(B, 0) \cup Ends(A, n)
        \cup {<<Cardinality(B), change[f].median>> : f \in Applied}
\* The record of sets has exactly the last block of every earlier set, in
\* order; below a synced state, of the sets whose blocks have been imported.
ChangesExact ==
  LET s == disk.auth.changes
  IN  /\ {s[k] : k \in DOMAIN s}
            = {e \in Ended : \/ e[2] > Number[setup.warp]
                             \/ \E b \in imported : /\ Number[b] = e[2] /\ Under(b, setup.warp)
                                                   /\ change[b].kind # "none"}
      /\ \A k \in DOMAIN s : k > 1 => s[k - 1][1] < s[k][1] /\ s[k - 1][2] <= s[k][2]

Quiet == /\ commands = <<>> /\ Unlocked
         /\ \A i \in Importers : imp[i].pc \notin {"send", "command"}
\* Once its commands are handled the voter is in the current set, as long as no
\* forced change competes with a standard one.
VoterFollows == Quiet /\ Applied = {} => voter.set_id = auth.set_id
\* "returns Ok when no authority set change should be enacted; qed;": a block
\* whose justification was kept because it must enact a change does so when it
\* is finalized, and the record of sets has no two entries for a block.
AssertionsHold == ~panicked
=============================================================================
