------------------------------ MODULE StateDb ------------------------------
(***************************************************************************)
(* client/state-db, and the part of client/db that drives it: which trie   *)
(* nodes of which blocks can be read.                                      *)
(*                                                                         *)
(* Blocks that are not canonical yet live in a memory overlay (nc), which  *)
(* is rebuilt from a journal when the node starts.  A canonicalized block  *)
(* moves to the pruning window (win): the nodes it inserts go to the       *)
(* database, the nodes it deletes are written down in a death row and      *)
(* leave the database when the block leaves the window.  The import thread *)
(* builds one database transaction (op.tx) from several calls, which all   *)
(* change the memory first; the transaction is then committed and the      *)
(* calls applied, or it fails and they are reverted.  Other threads pin    *)
(* and unpin states at every point in between, and the node may crash at   *)
(* every point.                                                            *)
(*                                                                         *)
(* A setup names the queue's flavour ("Mem" and "DbBacked" when pruning is *)
(* constrained to maxBlocks, "Archive" for the archive of canonical        *)
(* states), the number of the first block, the blocks there are, a bound   *)
(* on the references the other threads hold (pins), and whether children   *)
(* of discarded blocks are imported (orphans).                             *)
(*                                                                         *)
(* A trie is a set of nodes: the root, which no two blocks share (it is    *)
(* named by the block), and the nodes of Trie[b].  The changeset of a      *)
(* block is the difference with its parent's trie.                         *)
(***************************************************************************)
EXTENDS Integers, Sequences, FiniteSets, SequencesExt

CONSTANTS
    Blocks,         \* every block there may ever be
    Root,           \* the first block imported: genesis, or a state sync target
    Parent,         \* [Blocks \ {Root} -> Blocks]
    Trie,           \* Trie[b]: the nodes of b's state besides its root
    Nobody,         \* no block: the parent of Root
    MaxPerLevel,    \* MAX_BLOCKS_PER_LEVEL
    Setups          \* how a behaviour is set up, see below

VARIABLES
    setup,      \* the configuration of this behaviour
    disk,       \* the database: what survives a crash
    nc,         \* NonCanonicalOverlay
    win,        \* RefWindow
    pinned,     \* StateDbSync::pinned, with its reference counts
    op,         \* the import thread: its phase and the transaction it builds
    pinKind,    \* history: what was known of a pinned block, see Pin
    panicked,   \* history: which expect has failed
    missing     \* history: BlockMissing has been returned

vars == <<setup, disk, nc, win, pinned, op, pinKind, panicked, missing>>

-----------------------------------------------------------------------------
(* Blocks, tries, reference counts.                                        *)

(* A block and its ancestors.                                              *)
Ancestry[b \in Blocks] == {b} \cup IF b = Root THEN {} ELSE Ancestry[Parent[b]]
Line == [b \in Blocks |-> Ancestry[b]]
Depth == [b \in Blocks |-> Cardinality(Line[b]) - 1]
Number(b) == setup.first + Depth[b]
ParentOf(b) == IF b = Root THEN Nobody ELSE Parent[b]

Nodes == Blocks \cup UNION {Trie[b] : b \in Blocks}
State(b) == {b} \cup Trie[b]
Inserted(b) == IF b = Root THEN State(b) ELSE State(b) \ State(Parent[b])
Deleted(b) == IF b = Root THEN {} ELSE State(Parent[b]) \ State(b)

Uses(S, k) == Cardinality({b \in S : k \in Inserted(b)})
insert_values(values, S) == [k \in Nodes |-> values[k] + Uses(S, k)]
discard_values(values, S) ==
    [k \in Nodes |-> IF Uses(S, k) < values[k] THEN values[k] - Uses(S, k) ELSE 0]

(* The database counts references when the queue is DbBacked, otherwise a  *)
(* second insertion of a node is lost in the first.                        *)
Put(nodes, K) == [k \in Nodes |->
    IF k \notin K THEN nodes[k]
    ELSE IF setup.flavour = "DbBacked" THEN nodes[k] + 1 ELSE 1]

(* Mutant of Take: a deletion takes all references of a node.              *)
TakeAll(nodes, K) == [k \in Nodes |-> IF k \in K THEN 0 ELSE nodes[k]]

Take(nodes, K) == [k \in Nodes |->
    IF k \in K /\ nodes[k] > 0
    THEN IF setup.flavour = "DbBacked" THEN nodes[k] - 1 ELSE 0
    ELSE nodes[k]]

Drop(f, S) == [x \in DOMAIN f \ S |-> f[x]]
With(f, x, v) == [y \in DOMAIN f \cup {x} |-> IF y = x THEN v ELSE f[y]]

Never == [hash |-> Nobody, number |-> -1]
EmptyDisk == [canon |-> Never, pruned |-> -1, journal |-> <<>>, rows |-> <<>>,
              nodes |-> [k \in Nodes |-> 0], known |-> {}]

-----------------------------------------------------------------------------
(* The non-canonical overlay.                                              *)

HashesIn(level) == {level[i].hash : i \in DOMAIN level}
InLevels(levels) == UNION {HashesIn(levels[i]) : i \in DOMAIN levels}

front_block_number(n) == n.last.number + 1

(* -1 stands for None; before the first canonicalization is applied the    *)
(* code counts the pending ones.                                           *)
best_canonical(n) ==
    IF n.last = Never /\ n.pcanon # <<>> THEN Len(n.pcanon)
    ELSE n.last.number + Len(n.pcanon)

(* Mutant of available_index: the next index, which a removal may have left *)
(* in use.                                                                 *)
available_index_next(level) == Len(level)

(* Least journal index no block of the level uses.                         *)
available_index(level) ==
    CHOOSE i \in 0 .. Len(level) :
        /\ i \notin {level[j].index : j \in DOMAIN level}
        /\ \A j \in 0 .. (i - 1) : j \in {level[l].index : l \in DOMAIN level}

nc_have_block(n, b) ==
    b \in n.parents \cup Range(n.pins) /\ b \notin Range(n.pcanon)

(* The blocks of levels that hang below b, every link of the chain being   *)
(* in the levels.                                                          *)
Below(levels, b) ==
    {d \in InLevels(levels) :
        /\ b \in Line[d] \ {d}
        /\ (Line[d] \ Line[b]) \subseteq InLevels(levels)}

Without(levels, S) ==
    [i \in DOMAIN levels |-> SelectSeq(levels[i], LAMBDA o : o.hash \notin S)]

(* NonCanonicalOverlay::new reads the journal, number by number, until one *)
(* has no record.                                                          *)
JournalLevel(d, number) ==
    LET at == {i \in 0 .. MaxPerLevel - 1 : <<number, i>> \in DOMAIN d.journal}
    IN  [j \in 1 .. Cardinality(at) |->
            LET i == CHOOSE i \in at : Cardinality({x \in at : x < i}) = j - 1
            IN  [hash |-> d.journal[<<number, i>>], index |-> i]]

RecoveredOverlay(d) ==
    LET depth == CHOOSE k \in 0 .. Cardinality(Blocks) :
                    /\ \A j \in 1 .. k : JournalLevel(d, d.canon.number + j) # <<>>
                    /\ JournalLevel(d, d.canon.number + k + 1) = <<>>
        levels == IF d.canon = Never THEN <<>>
                  ELSE [j \in 1 .. depth |-> JournalLevel(d, d.canon.number + j)]
    IN  [last |-> d.canon, levels |-> levels, parents |-> InLevels(levels),
         pcanon |-> <<>>, pins |-> <<>>,
         values |-> insert_values([k \in Nodes |-> 0], InLevels(levels)),
         pinned |-> {}, pinnedIns |-> <<>>]


(* insert: the two early errors, then the level, its limit and duplicates. *)
insert_refused(n, b) ==
    LET front == front_block_number(n)
        off   == Number(b) - front
    IN  \/ /\ n.last # Never
           /\ \/ off < 0 \/ off > Len(n.levels)
              \/ off = 0 /\ n.last.hash # ParentOf(b)
              \/ off > 0 /\ ParentOf(b) \notin n.parents
        \/ /\ off + 1 \in DOMAIN n.levels
           /\ \/ Len(n.levels[off + 1]) >= MaxPerLevel
              \/ b \in HashesIn(n.levels[off + 1])

(* With an empty overlay the parent is taken to be canonical: revert does  *)
(* not take that back.                                                     *)
insert_assumes(n, b) == n.levels = <<>> /\ n.last = Never /\ Number(b) > 0

insert(n, b) ==
    LET last   == IF insert_assumes(n, b)
                  THEN [hash |-> ParentOf(b), number |-> Number(b) - 1] ELSE n.last
        i      == IF n.levels = <<>> THEN 1 ELSE Number(b) - front_block_number(n) + 1
        levels == IF i > Len(n.levels) THEN Append(n.levels, <<>>) ELSE n.levels
        entry  == [hash |-> b, index |-> available_index(levels[i])]
    IN  [n EXCEPT !.last = last,
                  !.levels = [levels EXCEPT ![i] = Append(@, entry)],
                  !.parents = @ \cup {b},
                  !.values = insert_values(@, {b}),
                  !.pins = Append(@, b)]

IndexOf(n, b) ==
    (CHOOSE e \in UNION {Range(n.levels[i]) : i \in DOMAIN n.levels} : e.hash = b).index

(* canonicalize: the root of the next level, or InvalidBlock; its siblings *)
(* and everything below them lose their journals.                          *)
canonicalize_refused(n, b) ==
    LET i == Len(n.pcanon) + 1
    IN  i \notin DOMAIN n.levels \/ b \notin HashesIn(n.levels[i])

Discarded(n, b) ==
    LET i      == Len(n.pcanon) + 1
        others == HashesIn(n.levels[i]) \ {b}
    IN  HashesIn(n.levels[i])
            \cup UNION {Below(SubSeq(n.levels, i + 1, Len(n.levels)), o) : o \in others}

(* Mutant of apply_canonicalization: only a block that is pinned itself    *)
(* keeps its nodes.                                                        *)
apply_canonicalization_shallow(n, b) ==
    LET level == HashesIn(Head(n.levels))
        rest  == Tail(n.levels)
        lost  == UNION {Below(rest, o) : o \in level \ {b}}
        gone  == level \cup lost
        kept  == gone \cap n.pinned
    IN  [n EXCEPT !.levels = Without(rest, lost),
                  !.pinnedIns = [o \in DOMAIN n.pinnedIns \cup kept |->
                                    IF o \in kept THEN 1 ELSE n.pinnedIns[o]],
                  !.parents = @ \ (gone \ kept),
                  !.values = discard_values(@, gone \ kept)]

(* One round of apply_canonicalizations: the front level goes, with what   *)
(* hangs below the blocks that lost.  A block that is pinned, or has a     *)
(* pinned block below it, keeps its nodes, with a count of those pins.     *)
apply_canonicalization(n, b) ==
    LET level    == HashesIn(Head(n.levels))
        rest     == Tail(n.levels)
        lost     == UNION {Below(rest, o) : o \in level \ {b}}
        gone     == level \cup lost
        below(o) == {o} \cup IF o = b THEN {} ELSE {d \in lost : o \in Line[d]}
        pins     == [o \in gone |-> Cardinality(below(o) \cap n.pinned)]
        kept     == {o \in gone : pins[o] # 0}
    IN  [n EXCEPT !.levels = Without(rest, lost),
                  !.pinnedIns = [o \in DOMAIN n.pinnedIns \cup kept |->
                                    IF o \in kept THEN pins[o] ELSE n.pinnedIns[o]],
                  !.parents = @ \ (gone \ kept),
                  !.values = discard_values(@, gone \ kept)]

(* expect: "Hash validity is checked in `canonicalize`".                   *)
RECURSIVE AppliesCleanly(_, _)
AppliesCleanly(n, hashes) ==
    hashes = <<>> \/ /\ n.levels # <<>> /\ Head(hashes) \in HashesIn(Head(n.levels))
                     /\ AppliesCleanly(apply_canonicalization(n, Head(hashes)), Tail(hashes))

nc_apply_pending(n) ==
    LET m == FoldLeft(apply_canonicalization, n, n.pcanon)
    IN  [m EXCEPT !.pcanon = <<>>, !.pins = <<>>,
                  !.last = IF n.pcanon = <<>> THEN @
                           ELSE [hash |-> n.pcanon[Len(n.pcanon)],
                                 number |-> @.number + Len(n.pcanon)]]

(* revert_insertions looks for the level whose last block is the pending   *)
(* one (there is at most one), from the front, and expects every level it  *)
(* passes to have a last block; an emptied level takes the last one along. *)
LevelOf(n, b) == CHOOSE i \in DOMAIN n.levels : b \in HashesIn(n.levels[i])
RevertsCleanly(n) ==
    \A j \in DOMAIN n.pins : \A i \in 1 .. LevelOf(n, n.pins[j]) : n.levels[i] # <<>>

(* Mutant of nc_revert_pending: pending canonicalizations stay.            *)
nc_revert_pending_partly(n) ==
    LET b == n.pins[1]
        i == LevelOf(n, b)
        levels == [n.levels EXCEPT ![i] = Front(@)]
    IN  IF n.pins = <<>> THEN n
        ELSE [n EXCEPT !.pins = <<>>,
                       !.parents = @ \ {b},
                       !.values = discard_values(@, {b}),
                       !.levels = IF levels[i] = <<>> THEN Front(levels) ELSE levels]

nc_revert_pending(n) ==
    LET b == n.pins[1]
        i == LevelOf(n, b)
        levels == [n.levels EXCEPT ![i] = Front(@)]
    IN  IF n.pins = <<>> THEN [n EXCEPT !.pcanon = <<>>]
        ELSE [n EXCEPT !.pcanon = <<>>, !.pins = <<>>,
                       !.parents = @ \ {b},
                       !.values = discard_values(@, {b}),
                       !.levels = IF levels[i] = <<>> THEN Front(levels) ELSE levels]

(* remove: a block without children, found from the last level backwards.  *)
remove_refused(n, b) ==
    \/ b \notin InLevels(n.levels)
    \/ LevelOf(n, b) # Len(n.levels) /\ \E d \in n.parents : ParentOf(d) = b

nc_remove(n, b) ==
    LET levels == Without(n.levels, {b})
    IN  [n EXCEPT !.levels = IF levels[Len(levels)] = <<>> THEN Front(levels) ELSE levels,
                  !.parents = @ \ {b},
                  !.values = discard_values(@, {b})]

nc_revert_one(n) ==
    LET top == HashesIn(n.levels[Len(n.levels)])
    IN  [n EXCEPT !.levels = Front(@),
                  !.parents = @ \ top,
                  !.values = discard_values(@, top)]

(* A pin that meets the pending insertion is not recorded.                 *)
nc_pin(n, b) == IF b \in Range(n.pins) THEN n ELSE [n EXCEPT !.pinned = @ \cup {b}]

(* Mutant of nc_unpin: the nodes of the freed blocks stay in memory.       *)
nc_unpin_leaks(n, b) ==
    LET walk == {a \in Line[b] \cap DOMAIN n.pinnedIns :
                    /\ (Line[b] \ Line[a]) \subseteq DOMAIN n.pinnedIns
                    /\ (Line[b] \ Line[a]) \subseteq n.parents}
        freed == {a \in walk : n.pinnedIns[a] = 1}
    IN  IF b \notin n.pinned THEN n
        ELSE [n EXCEPT !.pinned = @ \ {b},
                       !.pinnedIns = [a \in DOMAIN @ \ freed |->
                                        IF a \in walk THEN @[a] - 1 ELSE @[a]],
                       !.parents = @ \ freed]

(* unpin walks up the parents while they are kept for a pin.               *)
nc_unpin(n, b) ==
    LET walk == {a \in Line[b] \cap DOMAIN n.pinnedIns :
                    /\ (Line[b] \ Line[a]) \subseteq DOMAIN n.pinnedIns
                    /\ (Line[b] \ Line[a]) \subseteq n.parents}
        freed == {a \in walk : n.pinnedIns[a] = 1}
    IN  IF b \notin n.pinned THEN n
        ELSE [n EXCEPT !.pinned = @ \ {b},
                       !.pinnedIns = [a \in DOMAIN @ \ freed |->
                                        IF a \in walk THEN @[a] - 1 ELSE @[a]],
                       !.parents = @ \ freed,
                       !.values = discard_values(@, freed)]

-----------------------------------------------------------------------------
(* The pruning window.  rows is death_rows of the Mem queue and cache of   *)
(* the DbBacked one, index is death_index of the Mem queue.                *)

Least(i, j) == IF i < j THEN i ELSE j
cache_capacity == IF setup.maxBlocks < 1 THEN 1 ELSE setup.maxBlocks

QueueLen(w) == Len(w.rows) + w.uncached
window_size(w) == QueueLen(w) - w.pprune
DeathRow(b) == [hash |-> b, deleted |-> Deleted(b)]

(* The next batch of journal records, as far as they are in the database.  *)
load_batch_from_db(w, d) ==
    LET start  == w.base + Len(w.rows)
        batch  == Least(w.uncached, cache_capacity)
        loaded == CHOOSE k \in 0 .. batch :
                    /\ \A j \in 0 .. k - 1 : start + j \in DOMAIN d.rows
                    /\ k = batch \/ start + k \notin DOMAIN d.rows
    IN  [w EXCEPT !.rows = @ \o [j \in 1 .. loaded |-> DeathRow(d.rows[start + j - 1])],
                  !.uncached = @ - loaded]

import(w, b) ==
    LET hit  == {k \in Inserted(b) : k \in DOMAIN w.index}
        rows == [i \in DOMAIN w.rows |->
                    [w.rows[i] EXCEPT !.deleted =
                        @ \ {k \in hit : w.index[k] = w.base + i - 1}]]
    IN  IF setup.flavour = "DbBacked"
        THEN IF w.uncached = 0 /\ Len(w.rows) < cache_capacity
             THEN [w EXCEPT !.rows = Append(@, DeathRow(b))]
             ELSE [w EXCEPT !.uncached = @ + 1]
        ELSE [w EXCEPT !.rows = Append(rows, DeathRow(b)),
                       !.index = [k \in (DOMAIN @ \ hit) \cup Deleted(b) |->
                                    IF k \in Deleted(b) THEN w.base + Len(w.rows)
                                    ELSE @[k]]]

EmptyWindow(base) == [rows |-> <<>>, index |-> <<>>, uncached |-> 0, base |-> base,
                      pcanon |-> 0, pprune |-> 0]

(* Mutant of FirstUnpruned: the last pruned block, not the one after it.   *)
FirstUnprunedLate(d) == IF d.pruned = -1 THEN 0 ELSE d.pruned

(* The block after LAST_PRUNED, or 0.                                      *)
FirstUnpruned(d) == d.pruned + 1

(* RefWindow::new: the Mem queue reads every record from base on, the      *)
(* DbBacked one counts them and loads the first.                           *)
RecoveredWindow(d) ==
    LET base  == FirstUnpruned(d)
        empty == EmptyWindow(base)
        count == CHOOSE k \in 0 .. Cardinality(DOMAIN d.rows) :
                    /\ \A j \in 0 .. k - 1 : base + j \in DOMAIN d.rows
                    /\ base + k \notin DOMAIN d.rows
    IN  CASE setup.flavour = "Archive" -> EmptyWindow(0)
          [] setup.flavour = "DbBacked" ->
                load_batch_from_db(
                    [empty EXCEPT !.uncached = IF d.canon = Never THEN 0
                                               ELSE d.canon.number + 1 - base], d)
          [] setup.flavour = "Mem" ->
                FoldLeft(import, empty, [j \in 1 .. count |-> d.rows[base + j - 1]])

(* RefWindow::get of a row of the queue, and the cases it tells apart.     *)
GetLoads(w, i) ==
    /\ setup.flavour = "DbBacked"
    /\ i >= Len(w.rows)
    /\ i - Len(w.rows) < Least(w.uncached, cache_capacity)
Loaded(w, i, d) == IF GetLoads(w, i) THEN load_batch_from_db(w, d) ELSE w

Got(w, i, d) ==
    IF i < Len(w.rows) THEN w.rows[i + 1].hash
    ELSE IF ~GetLoads(w, i) /\ i < QueueLen(w) /\ w.base + i \in DOMAIN d.rows
         THEN d.rows[w.base + i]
         ELSE Nobody

(* note_canonical refuses a number that does not extend the queue; an      *)
(* empty queue that never pruned starts at whatever number comes.          *)
note_canonical_base(w, number) ==
    IF w.base = 0 /\ QueueLen(w) = 0 /\ number > 0 THEN number ELSE w.base
note_canonical_refused(w, number) ==
    note_canonical_base(w, number) + QueueLen(w) # number
note_canonical(w, b, number) ==
    [import([w EXCEPT !.base = note_canonical_base(w, number)], b)
        EXCEPT !.pcanon = @ + 1]

(* StateDbSync::prune: rows leave until the window has its size, one of    *)
(* them is pinned, or its record is not in the database yet.  result is    *)
(* "ok" or BlockMissing, w the window and d the transaction so far.        *)
RECURSIVE prune(_, _)
prune(w, d) ==
    LET v == Loaded(w, w.pprune, disk)
        h == Got(v, v.pprune, disk)
        row == IF v.pprune < Len(v.rows) THEN v.rows[v.pprune + 1].deleted ELSE Deleted(h)
        number == v.base + v.pprune
    IN  IF window_size(w) <= setup.maxBlocks THEN [w |-> w, d |-> d, result |-> "ok"]
        ELSE IF h = Nobody
             THEN [w |-> v, d |-> d,
                   result |-> IF v.pprune >= QueueLen(v) - v.pcanon THEN "ok" ELSE "missing"]
        ELSE IF pinned[h] > 0 THEN [w |-> v, d |-> d, result |-> "ok"]
        ELSE prune([v EXCEPT !.pprune = @ + 1],
                   [d EXCEPT !.nodes = Take(@, row), !.pruned = number,
                             !.rows = Drop(@, {number})])

(* apply_pending also looks at the next row, which may load a batch.       *)
win_apply_pending(w) ==
    LET gone == UNION {w.rows[i].deleted : i \in 1 .. w.pprune}
        v    == [w EXCEPT !.rows = SubSeq(@, w.pprune + 1, Len(@)),
                          !.index = Drop(@, gone),
                          !.base = @ + w.pprune, !.pcanon = 0, !.pprune = 0]
    IN  IF setup.flavour = "DbBacked" /\ v.rows = <<>> THEN Loaded(v, 0, disk) ELSE v

(* revert_recent_add; keys that a reverted block had saved from an older   *)
(* row stay out of it.                                                     *)
win_revert_pending(w) ==
    LET fromRows == IF w.uncached >= w.pcanon THEN 0 ELSE w.pcanon - w.uncached
        rows     == SubSeq(w.rows, 1, Len(w.rows) - fromRows)
    IN  [w EXCEPT !.rows = rows,
                  !.uncached = @ - (w.pcanon - fromRows),
                  !.index = Drop(@, {k \in DOMAIN @ : @[k] >= w.base + Len(rows)}),
                  !.pcanon = 0, !.pprune = 0]

(* Mutant of win_have_block: rows that are about to be pruned count.       *)
win_have_block_pruned(w, b) ==
    LET i == Number(b) - w.base
    IN  IF QueueLen(w) = 0 \/ i < 0 \/ i >= QueueLen(w) THEN "not"
        ELSE IF i >= Len(w.rows) THEN "may"
        ELSE IF w.rows[i + 1].hash = b THEN "have" ELSE "not"

(* RefWindow::have_block: "not", "have" or "may".                          *)
win_have_block(w, b) ==
    LET i == Number(b) - w.base
    IN  IF window_size(w) <= 0 \/ i < w.pprune \/ i >= QueueLen(w) THEN "not"
        ELSE IF i >= Len(w.rows) THEN "may"
        ELSE IF w.rows[i + 1].hash = b THEN "have" ELSE "not"

-----------------------------------------------------------------------------
(* What client/db asks of the state database.                              *)

Stored == {k \in Nodes : disk.nodes[k] > 0}
Readable == {k \in Nodes : nc.values[k] > 0} \cup Stored

(* Backend::have_state_at; a row that may be there is decided by its root. *)
have_state_at(b) ==
    IF setup.flavour = "Archive" THEN b \in Readable
    ELSE IF Number(b) > best_canonical(nc) THEN nc_have_block(nc, b)
    ELSE \/ win_have_block(win, b) = "have"
         \/ win_have_block(win, b) = "may" /\ b \in Readable

can_pin(b) ==
    \/ nc_have_block(nc, b)
    \/ /\ setup.flavour # "Archive"
       /\ \/ win_have_block(win, b) = "have"
          \/ win_have_block(win, b) = "may" /\ b \in Stored

(* A block of the overlay that hangs from the last canonical block; the    *)
(* others hang from a discarded block that a pin kept.                     *)
Rooted(b) ==
    /\ b \in InLevels(nc.levels)
    /\ \E c \in Line[b] : /\ c = nc.last.hash
                          /\ Line[b] \ Line[c] \subseteq InLevels(nc.levels)

LastFinalized ==
    IF nc.pcanon # <<>> THEN nc.pcanon[Len(nc.pcanon)] ELSE disk.canon.hash

-----------------------------------------------------------------------------
(* The import thread.  phase: "idle"; "final" while finalized blocks are   *)
(* added; "insert" after the block was; "last" when that block has to be   *)
(* finalized with it; "failed"; "committed"; "drop" for remove and revert. *)

Idle == [phase |-> "idle", tx |-> EmptyDisk]

Tx == IF op.phase = "idle" THEN disk ELSE op.tx

(* StateDbSync::canonicalize_block, its commit added to the transaction.   *)
canonicalize_block(b, phase) ==
    LET number == front_block_number(nc) + Len(nc.pcanon)
        n      == [nc EXCEPT !.pcanon = Append(@, b)]
        slots  == {<<Number(o), IndexOf(nc, o)>> : o \in Discarded(nc, b)}
        d      == [Tx EXCEPT !.canon = [hash |-> b, number |-> number],
                             !.journal = Drop(@, slots),
                             !.nodes = Put(@, Inserted(b))]
        r      == prune(note_canonical(win, b, number),
                        [d EXCEPT !.rows = With(@, number, b)])
    IN  IF canonicalize_refused(nc, b)
        THEN op' = [op EXCEPT !.phase = "failed"] /\ UNCHANGED <<nc, win, missing>>
        ELSE /\ nc' = n
             /\ IF setup.flavour = "Archive"
                THEN /\ op' = [phase |-> phase, tx |-> d]
                     /\ UNCHANGED <<win, missing>>
                ELSE IF note_canonical_refused(win, number)
                THEN /\ op' = [op EXCEPT !.phase = "failed"]
                     /\ UNCHANGED <<win, missing>>
                ELSE /\ win' = r.w
                     /\ missing' = (missing \/ r.result = "missing")
                     /\ op' = IF r.result = "ok" THEN [phase |-> phase, tx |-> r.d]
                              ELSE [op EXCEPT !.phase = "failed"]

(* note_finalized of a block of the operation's finalized_blocks:          *)
(* ensure_sequential_finalization, have_state_at and best_canonical.       *)
Finalize(b) ==
    /\ op.phase \in {"idle", "final"}
    /\ b \in disk.known /\ b # Root
    /\ Parent[b] = LastFinalized
    /\ have_state_at(b) /\ Number(b) > best_canonical(nc)
    /\ canonicalize_block(b, "final")
    /\ UNCHANGED <<setup, disk, pinned, pinKind, panicked>>

(* The block of the operation: new, above the finalized block, with the    *)
(* parent's state there.  An import that is final has finalized the parent *)
(* first; the root always is.  orphans: whether the client is handed       *)
(* children of blocks that canonicalization has discarded.                 *)
Insert(b, final) ==
    /\ b \in setup.blocks \ disk.known
    /\ IF b = Root THEN op.phase = "idle" /\ final
       ELSE /\ Parent[b] \in disk.known
            /\ Number(b) > disk.canon.number
            /\ \/ op.phase = "idle" /\ have_state_at(Parent[b])
               \/ op.phase = "final" /\ final
            /\ final => Parent[b] = LastFinalized
            /\ setup.orphans \/ Parent[b] = nc.last.hash \/ Rooted(Parent[b])
    /\ IF insert_refused(nc, b)
       THEN op' = [op EXCEPT !.phase = "failed"] /\ UNCHANGED nc
       ELSE /\ nc' = insert(nc, b)
            /\ op' = [phase |-> IF final THEN "last" ELSE "insert",
                      tx |-> [Tx EXCEPT
                                !.known = @ \cup {b},
                                !.canon = IF insert_assumes(nc, b) THEN insert(nc, b).last ELSE @,
                                !.journal = With(@, <<Number(b), IndexOf(insert(nc, b), b)>>, b)]]
    /\ UNCHANGED <<setup, disk, win, pinned, pinKind, panicked, missing>>

FinalizeInserted ==
    /\ op.phase = "last"
    /\ canonicalize_block(nc.pins[1], "insert")
    /\ UNCHANGED <<setup, disk, pinned, pinKind, panicked>>

Commit ==
    /\ op.phase \in {"final", "insert"}
    /\ disk' = op.tx
    /\ op' = [op EXCEPT !.phase = "committed"]
    /\ UNCHANGED <<setup, nc, win, pinned, pinKind, panicked, missing>>

(* A crash, or a panic that takes the node down: memory is rebuilt.        *)
Restart ==
    /\ nc' = RecoveredOverlay(disk)
    /\ win' = RecoveredWindow(disk)
    /\ pinned' = [b \in Blocks |-> 0]
    /\ op' = Idle
    /\ pinKind' = [b \in Blocks |-> "none"]
    /\ UNCHANGED <<setup, disk, missing>>

Crash == Restart /\ UNCHANGED panicked

ApplyPending ==
    /\ op.phase = "committed"
    /\ IF AppliesCleanly(nc, nc.pcanon) /\ win.pprune <= Len(win.rows)
       THEN /\ nc' = nc_apply_pending(nc)
            /\ win' = win_apply_pending(win)
            /\ op' = Idle
            /\ UNCHANGED <<setup, disk, pinned, pinKind, panicked, missing>>
       ELSE Restart /\ panicked' = panicked \cup {"apply"}

(* The commit, or an earlier step of try_commit_operation, failed.         *)
RevertPending ==
    /\ op.phase \in {"final", "insert", "last", "failed"}
    /\ IF RevertsCleanly(nc)
       THEN /\ nc' = nc_revert_pending(nc)
            /\ win' = win_revert_pending(win)
            /\ op' = Idle
            /\ UNCHANGED <<setup, disk, pinned, pinKind, panicked, missing>>
       ELSE Restart /\ panicked' = panicked \cup {"revert"}

(* remove_leaf_block and one round of revert: the overlay changes at once, *)
(* the database in a commit of its own.  revert is a command line tool of  *)
(* its own and ends when that commit fails, as with a crash; a failure of  *)
(* remove_leaf_block's commit, after which the overlay and the journal     *)
(* differ, is left out.  Any leaf is removed: which block is the best one, *)
(* and therefore stays, is not modelled.                                   *)
Leaves == {b \in disk.known : \A d \in disk.known \ {Root} : Parent[d] # b}

GivenUp(S) ==
    [b \in Blocks |-> IF b \in S /\ pinned[b] > 0 THEN "removed" ELSE pinKind[b]]

RemoveLeaf(b) ==
    /\ op.phase = "idle"
    /\ b \in Leaves /\ have_state_at(b) /\ Number(b) > disk.canon.number
    /\ LET d == [disk EXCEPT !.known = @ \ {b}]
       IN  IF remove_refused(nc, b)
           THEN op' = [phase |-> "drop", tx |-> d] /\ UNCHANGED <<nc, pinKind>>
           ELSE /\ nc' = nc_remove(nc, b)
                /\ pinKind' = GivenUp({b})
                /\ op' = [phase |-> "drop",
                          tx |-> [d EXCEPT !.journal =
                                    Drop(@, {<<Number(b), IndexOf(nc, b)>>})]]
    /\ UNCHANGED <<setup, disk, win, pinned, panicked, missing>>

RevertOne(b) ==
    /\ op.phase = "idle"
    /\ nc.levels # <<>>
    /\ b \in Leaves /\ \A l \in Leaves : Number(l) <= Number(b)
    /\ b # Root /\ have_state_at(Parent[b])
    /\ LET top == nc.levels[Len(nc.levels)]
           slots == {<<Number(e.hash), e.index>> : e \in Range(top)}
       IN  /\ nc' = nc_revert_one(nc)
           /\ pinKind' = GivenUp(HashesIn(top))
           /\ op' = [phase |-> "drop", tx |-> [disk EXCEPT !.known = @ \ {b},
                                                           !.journal = Drop(@, slots)]]
    /\ UNCHANGED <<setup, disk, win, pinned, panicked, missing>>

DropDone ==
    /\ op.phase = "drop"
    /\ disk' = op.tx
    /\ op' = Idle
    /\ UNCHANGED <<setup, nc, win, pinned, pinKind, panicked, missing>>

-----------------------------------------------------------------------------
(* The other threads: state_at pins, dropping the state unpins.  pinKind   *)
(* notes whether the block's own insertion was still pending when it was   *)
(* pinned, or the block already discarded and only kept for the sake of a  *)
(* pinned descendant: in neither case the overlay counts the pin.          *)

Pin(b) ==
    /\ b \in disk.known
    /\ MapThenSumSet(LAMBDA a : pinned[a], Blocks) < setup.pins
    /\ can_pin(b)
    /\ pinned' = [pinned EXCEPT ![b] = @ + 1]
    /\ IF pinned[b] = 0
       THEN /\ nc' = nc_pin(nc, b)
            /\ pinKind' = [pinKind EXCEPT ![b] =
                            IF b \in Range(nc.pins) THEN "pending"
                            ELSE IF b \in DOMAIN nc.pinnedIns THEN "discarded" ELSE "held"]
       ELSE UNCHANGED <<nc, pinKind>>
    /\ UNCHANGED <<setup, disk, win, op, panicked, missing>>

Unpin(b) ==
    /\ pinned[b] > 0
    /\ pinned' = [pinned EXCEPT ![b] = @ - 1]
    /\ IF pinned[b] = 1
       THEN nc' = nc_unpin(nc, b) /\ pinKind' = [pinKind EXCEPT ![b] = "none"]
       ELSE UNCHANGED <<nc, pinKind>>
    /\ UNCHANGED <<setup, disk, win, op, panicked, missing>>

Init ==
    /\ setup \in Setups
    /\ disk = EmptyDisk
    /\ nc = RecoveredOverlay(EmptyDisk)
    /\ win = RecoveredWindow(EmptyDisk)
    /\ pinned = [b \in Blocks |-> 0]
    /\ op = Idle
    /\ pinKind = [b \in Blocks |-> "none"]
    /\ panicked = {} /\ missing = FALSE

Next ==
    \/ \E b \in Blocks : Finalize(b)
    \/ \E b \in Blocks, final \in BOOLEAN : Insert(b, final)
    \/ FinalizeInserted
    \/ Commit
    \/ ApplyPending
    \/ RevertPending
    \/ \E b \in Blocks : RemoveLeaf(b)
    \/ \E b \in Blocks : RevertOne(b)
    \/ DropDone
    \/ \E b \in Blocks : Pin(b)
    \/ \E b \in Blocks : Unpin(b)
    \/ Crash

Spec == Init /\ [][Next]_vars

-----------------------------------------------------------------------------
(* Properties.                                                             *)

(* The types of the fields that the properties do not determine.           *)
TypeOK ==
    /\ setup \in Setups
    /\ nc.parents \subseteq Blocks /\ nc.pinned \subseteq Blocks
    /\ nc.values \in [Nodes -> Nat]
    /\ win.uncached \in Nat /\ win.base \in Nat
    /\ disk.nodes \in [Nodes -> Nat]
    /\ pinned \in [Blocks -> 0 .. setup.pins]
    /\ op.phase \in {"idle", "final", "insert", "last", "failed", "committed", "drop"}

(* Every trie node of every block that have_state_at vouches for can be    *)
(* read: at every point between the calls of an operation, its commit and  *)
(* apply_pending or revert_pending, after every crash, whatever was pinned *)
(* (blocks on top of a discarded block that a pin kept are excluded).      *)
StatesReadable ==
    LastFinalized # Nobody => \A b \in Blocks :
        (have_state_at(b) /\ (Rooted(b) \/ b \in Line[LastFinalized]))
            => State(b) \subseteq Readable

(* The last canonical block among the ancestors of b.                      *)
ForkPoint(b) ==
    CHOOSE c \in Line[b] :
        /\ c \in Line[disk.canon.hash]
        /\ \A a \in Line[b] \cap Line[disk.canon.hash] : Depth[a] <= Depth[c]

KeepsState(b) ==
    (disk.canon # Never /\ disk.pruned <= Number(ForkPoint(b))) => State(b) \subseteq Readable

(* A state that a thread has pinned through StateDb::pin stays readable    *)
(* until it is unpinned, whatever is canonicalized, discarded or pruned in *)
(* the meantime, as long as the canonical block that it forks from has not *)
(* been pruned.  Pins that the overlay does not count are excluded.        *)
PinnedReadable == \A b \in Blocks : pinKind[b] = "held" => KeepsState(b)

(* StateDb::pin: "Prevents pruning of specified block and its descendants",*)
(* of every pinned block that was not removed: PinnedReadable without its  *)
(* second exception.                                                       *)
PinPreventsPruning ==
    \A b \in Blocks : pinKind[b] \in {"held", "pending", "discarded"} => KeepsState(b)

(* A crash between operations loses nothing: NonCanonicalOverlay::new and  *)
(* RefWindow::new rebuild from the journals every block of the overlay and *)
(* the whole window, after any insertions, failures, removals and reverts. *)
CrashSafe ==
    (op.phase = "idle" /\ nc.last = disk.canon) =>
        LET n == RecoveredOverlay(disk)
            w == RecoveredWindow(disk)
        IN  /\ \A b \in Blocks : Rooted(b) => b \in InLevels(n.levels)
            /\ QueueLen(w) = QueueLen(win) /\ w.base = win.base

(* The reference counts of the overlay are exact: the nodes in memory are  *)
(* those of the blocks in the levels and of the blocks kept for a pin, so  *)
(* that nothing leaks and nothing is freed twice.                          *)
ValuesExact ==
    nc.values = insert_values([k \in Nodes |-> 0],
                    InLevels(nc.levels) \cup DOMAIN nc.pinnedIns)

(* Neither expect can fail: apply_canonicalizations finds the blocks that  *)
(* canonicalize has checked, and revert_insertions finds the block that    *)
(* insert has added ("Hash is added in `insert` in reverse order").        *)
NoPanic == panicked = {}

(* RefWindow::next_hash and get never find that a row of the window is not *)
(* in the database: "this should not happen under current implementation". *)
NoBlockMissing == ~missing

(* With a database that counts references no node is stored that no state  *)
(* of the window needs, and every node that one of them needs is stored.   *)
NoGarbage ==
    (disk.canon # Never /\ setup.flavour = "DbBacked") =>
        Stored = UNION {State(c) : c \in {a \in Line[disk.canon.hash] : Number(a) >= disk.pruned}}
=============================================================================
