------------------------- MODULE TransactionalStorage -------------------------
(***************************************************************************)
(* What the overlay of storage changes promises to the client and to the   *)
(* runtime: a stack of maps, one for each open transaction on top of the   *)
(* changes that are not in any transaction.  A write changes the topmost   *)
(* map, a commit replaces the map below by it, a rollback drops it.  The   *)
(* maps the client had opened when it entered the runtime are protected:   *)
(* the runtime closes only its own, and what it leaves open is dropped.    *)
(***************************************************************************)
EXTENDS Naturals, Sequences

CONSTANTS
  Keys,     \* keys of all tries and of the offchain storage
  Changes,  \* what can be stored for a key
  Absent    \* the key is not in the overlay

VARIABLES
  views,      \* views[i]: what transaction i - 1 sees, views[1] is the outside
  client,     \* number of transactions the client has opened
  mode        \* who uses the storage: "Client", "Runtime", or "Leaving"

vars == <<views, client, mode>>

NoChanges == [k \in Keys |-> Absent]

Init == views = <<NoChanges>> /\ client = 0 /\ mode = "Client"

Depth == Len(views) - 1
Current == views[Len(views)]
Below == SubSeq(views, 1, Len(views) - 1)

\* Whoever uses the storage may close a transaction of its own.
MayClose == Depth > IF mode = "Client" THEN 0 ELSE client

Start ==
  /\ mode # "Leaving"
  /\ views' = Append(views, Current)
  /\ UNCHANGED <<client, mode>>

\* One operation may write several keys of a map.
Write ==
  /\ views' = Append(Below, Current')
  /\ \A k \in Keys : Current'[k] \in Changes \cup {Current[k]}
  /\ UNCHANGED <<client, mode>>

Commit ==
  /\ mode # "Leaving" /\ MayClose
  /\ views' = [Below EXCEPT ![Len(Below)] = Current]
  /\ UNCHANGED <<client, mode>>

Rollback ==
  /\ MayClose
  /\ views' = Below
  /\ UNCHANGED <<client, mode>>

Enter ==
  /\ mode = "Client"
  /\ mode' = "Runtime" /\ client' = Depth
  /\ UNCHANGED views

Leave ==
  /\ mode = "Runtime" /\ mode' = "Leaving"
  /\ UNCHANGED <<views, client>>

\* Only when nothing of the runtime is open does the client go on.
Left ==
  /\ mode = "Leaving" /\ Depth = client
  /\ mode' = "Client"
  /\ UNCHANGED <<views, client>>

\* The changes are taken, once no transaction is open.
Drain ==
  /\ mode = "Client" /\ Depth = 0
  /\ views' = <<NoChanges>> /\ client' = 0
  /\ UNCHANGED mode

Next == Start \/ Write \/ Commit \/ Rollback \/ Enter \/ Leave \/ Left \/ Drain

Spec == Init /\ [][Next]_vars
=============================================================================
