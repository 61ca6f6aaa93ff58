----------------------------- MODULE RuntimeSpawn -----------------------------
(***************************************************************************)
(* The runtime's parallel tasks (client/executor/src/native_executor.rs,   *)
(* RuntimeInstanceSpawn): a runtime call spawns tasks, each on an instance *)
(* of its own, and joins them for their results.  Every caller (the call   *)
(* itself, Root, and each task while it runs) has a RuntimeInstanceSpawn   *)
(* of its own: a counter that names its tasks and a map from these handles *)
(* to the receiving ends of the tasks' channels.  The scheduler runs a     *)
(* spawned task when one of its Workers threads is free; a task that joins *)
(* another one blocks the thread it runs on.                               *)
(***************************************************************************)
EXTENDS Naturals, FiniteSets

CONSTANTS
  Tasks,      \* the tasks that can be alive at once
  Root,       \* the call from outside, on a thread of its own
  Workers,    \* threads of the scheduler
  Nested,     \* whether tasks spawn tasks themselves
  MaxHandles, \* tasks spawned by one caller
  NoTask

ASSUME SpawnAssumption ==
  /\ Root \notin Tasks /\ NoTask \notin Tasks \cup {Root}
  /\ IsFiniteSet(Tasks)
  /\ Workers \in Nat \ {0} /\ MaxHandles \in Nat
  /\ Nested \in BOOLEAN

Callers == Tasks \cup {Root}
Handles == 0 .. MaxHandles - 1

VARIABLES
  doing,    \* what a caller does: "queued" until a worker takes the task
  counter,  \* RuntimeInstanceSpawn::counter
  tasks,    \* RuntimeInstanceSpawn::tasks: the task behind a handle's receiver
  channel,  \* a task's channel: nothing yet, its output, or the sender is gone
  waits,    \* the receiver a join has taken out of the map: [handle, task]
  outcome,  \* how the caller's own execution ended
  spawned,  \* history: the task that spawn_call returned a handle for
  joined    \* history: [handle, task] of the joins that returned an output

spawnVars == <<doing, counter, tasks, channel, waits, outcome, spawned, joined>>

NoTasks == [h \in Handles |-> NoTask]
Receipts == [handle : Handles, task : Tasks]

\* Every variable has its type.
SpawnTypeOK ==
  /\ doing \in [Callers -> {"ended", "queued", "running", "joining"}]
  /\ counter \in [Callers -> 0 .. MaxHandles]
  /\ tasks \in [Callers -> [Handles -> Tasks \cup {NoTask}]]
  /\ channel \in [Tasks -> {"empty", "sent", "dropped"}]
  /\ waits \in [Callers -> Receipts \cup {NoTask}]
  /\ outcome \in [Callers -> {"none", "ok", "failed"}]
  /\ spawned \in [Callers -> [Handles -> Tasks \cup {NoTask}]]
  /\ joined \in [Callers -> SUBSET Receipts]

SpawnInit ==
  /\ doing = [c \in Callers |-> "ended"]
  /\ counter = [c \in Callers |-> 0]
  /\ tasks = [c \in Callers |-> NoTasks]
  /\ channel = [t \in Tasks |-> "dropped"]
  /\ waits = [c \in Callers |-> NoTask]
  /\ outcome = [c \in Callers |-> "none"]
  /\ spawned = [c \in Callers |-> NoTasks]
  /\ joined = [c \in Callers |-> {}]

\* The RuntimeInstanceSpawn a caller starts with.
NewSpawn(c) ==
  /\ counter' = [counter EXCEPT ![c] = 0]
  /\ tasks' = [tasks EXCEPT ![c] = NoTasks]
  /\ spawned' = [spawned EXCEPT ![c] = NoTasks]
  /\ joined' = [joined EXCEPT ![c] = {}]

\* A call from outside registers a RuntimeInstanceSpawn and enters the runtime;
\* tasks of the previous call that nobody joined may still be at work.
Call ==
  /\ doing[Root] = "ended"
  /\ doing' = [doing EXCEPT ![Root] = "running"]
  /\ outcome' = [outcome EXCEPT ![Root] = "none"]
  /\ NewSpawn(Root)
  /\ UNCHANGED <<channel, waits>>

\* A task's name is used again once the task is over and no caller knows of it.
Fresh(t) ==
  /\ doing[t] = "ended"
  /\ \A c \in Callers : \A h \in Handles : spawned[c][h] # t

MaySpawn(c) == doing[c] = "running" /\ (c = Root \/ Nested)

\* Mutant: the handle is the number of tasks in the map.
spawn_callByLen(c, t) ==
  /\ MaySpawn(c) /\ Fresh(t) /\ counter[c] < MaxHandles
  /\ LET handle == Cardinality({h \in Handles : tasks[c][h] # NoTask})
     IN  /\ tasks' = [tasks EXCEPT ![c][handle] = t]
         /\ spawned' = [spawned EXCEPT ![c][handle] = t]
  /\ counter' = [counter EXCEPT ![c] = @ + 1]
  /\ channel' = [channel EXCEPT ![t] = "empty"]
  /\ doing' = [doing EXCEPT ![t] = "queued"]
  /\ outcome' = [outcome EXCEPT ![t] = "none"]
  /\ UNCHANGED <<waits, joined>>

\* spawn_call: the next handle, a channel, the receiver into the map, the task
\* to the scheduler.
spawn_call(c, t) ==
  /\ MaySpawn(c) /\ Fresh(t) /\ counter[c] < MaxHandles
  /\ counter' = [counter EXCEPT ![c] = @ + 1]
  /\ tasks' = [tasks EXCEPT ![c][counter[c]] = t]
  /\ spawned' = [spawned EXCEPT ![c][counter[c]] = t]
  /\ channel' = [channel EXCEPT ![t] = "empty"]
  /\ doing' = [doing EXCEPT ![t] = "queued"]
  /\ outcome' = [outcome EXCEPT ![t] = "none"]
  /\ UNCHANGED <<waits, joined>>

\* Threads of the scheduler that are taken: a join does not give its thread up.
Busy == {t \in Tasks : doing[t] \in {"running", "joining"}}

\* The scheduler gives a queued task a thread: new_async_externalities and the
\* RuntimeInstanceSpawn of the task, both on an empty set of extensions, so
\* that neither registration fails, and a new instance.
StartTask(t) ==
  /\ doing[t] = "queued"
  /\ Cardinality(Busy) < Workers
  /\ doing' = [doing EXCEPT ![t] = "running"]
  /\ NewSpawn(t)
  /\ UNCHANGED <<channel, waits, outcome>>

\* Mutant: join does not look whether the map has the handle.
joinUnchecked(c, h) ==
  /\ doing[c] = "running"
  /\ tasks' = [tasks EXCEPT ![c][h] = NoTask]
  /\ waits' = [waits EXCEPT ![c] = [handle |-> h, task |-> tasks[c][h]]]
  /\ doing' = [doing EXCEPT ![c] = "joining"]
  /\ UNCHANGED <<counter, channel, outcome, spawned, joined>>

\* Mutant: join borrows the receiver and leaves it in the map.
joinKeeps(c, h) ==
  /\ doing[c] = "running"
  /\ tasks[c][h] # NoTask
  /\ waits' = [waits EXCEPT ![c] = [handle |-> h, task |-> tasks[c][h]]]
  /\ doing' = [doing EXCEPT ![c] = "joining"]
  /\ UNCHANGED <<counter, tasks, channel, outcome, spawned, joined>>

\* join of a handle whose receiver the map still has: the receiver leaves the
\* map, and the caller blocks on it with the map unlocked.
join(c, h) ==
  /\ doing[c] = "running"
  /\ tasks[c][h] # NoTask
  /\ tasks' = [tasks EXCEPT ![c][h] = NoTask]
  /\ waits' = [waits EXCEPT ![c] = [handle |-> h, task |-> tasks[c][h]]]
  /\ doing' = [doing EXCEPT ![c] = "joining"]
  /\ UNCHANGED <<counter, channel, outcome, spawned, joined>>

\* recv returns the task's output, and the join with it.
Received(c) ==
  /\ doing[c] = "joining"
  /\ channel[waits[c].task] = "sent"
  /\ joined' = [joined EXCEPT ![c] = @ \cup {waits[c]}]
  /\ waits' = [waits EXCEPT ![c] = NoTask]
  /\ doing' = [doing EXCEPT ![c] = "running"]
  /\ UNCHANGED <<counter, tasks, channel, outcome, spawned>>

\* Mutant: a task that failed sends an empty output.
ChannelAfterDefault(c, result) ==
  IF c = Root THEN channel ELSE [channel EXCEPT ![c] = "sent"]

\* The channel after the caller's own execution ended that way: the output is
\* sent (into nothing if the spawner is gone), a failure drops the sender.
ChannelAfter(c, result) ==
  IF c = Root THEN channel
  ELSE [channel EXCEPT ![c] = IF result = "ok" THEN "sent" ELSE "dropped"]

\* The caller's execution ends, and its RuntimeInstanceSpawn is dropped with
\* the receivers left in it; the tasks it did not join go on.
Ends(c, result) ==
  /\ doing' = [doing EXCEPT ![c] = "ended"]
  /\ outcome' = [outcome EXCEPT ![c] = result]
  /\ channel' = ChannelAfter(c, result)
  /\ tasks' = [tasks EXCEPT ![c] = NoTasks]
  /\ waits' = [waits EXCEPT ![c] = NoTask]
  /\ UNCHANGED <<counter, spawned, joined>>

\* The runtime function returns.
Finish(c) == doing[c] = "running" /\ Ends(c, "ok")

\* The instance cannot be created, or the runtime function traps.
Fail(c) == doing[c] = "running" /\ Ends(c, "failed")

\* join of a handle that is unknown or was joined before: "No task for the
\* handle", a panic in the host function.
JoinUnknown(c, h) == doing[c] = "running" /\ tasks[c][h] = NoTask /\ Ends(c, "failed")

\* Mutant: a join whose sender is gone polls again.
RecvFailsRetries(c) ==
  /\ doing[c] = "joining"
  /\ channel[waits[c].task] = "dropped"
  /\ UNCHANGED spawnVars

\* recv finds the sender gone: "Spawned task panicked for the handle".
RecvFails(c) ==
  /\ doing[c] = "joining"
  /\ channel[waits[c].task] = "dropped"
  /\ Ends(c, "failed")

SpawnNext ==
  \/ Call
  \/ \E c \in Callers :
       \/ \E t \in Tasks : spawn_call(c, t)
       \/ \E h \in Handles : join(c, h) \/ JoinUnknown(c, h)
       \/ Received(c) \/ RecvFails(c)
       \/ Finish(c) \/ Fail(c)
  \/ \E t \in Tasks : StartTask(t)

SpawnSpec == SpawnInit /\ [][SpawnNext]_spawnVars

\* The scheduler does not forget a task while it has a free thread; runtime
\* code returns (its weight is bounded) and a received message is returned.
SpawnFairness ==
  /\ \A t \in Tasks : SF_spawnVars(StartTask(t))
  /\ \A c \in Callers : WF_spawnVars(Finish(c) \/ Fail(c)) /\ WF_spawnVars(Received(c) \/ RecvFails(c))

FairSpawnSpec == SpawnSpec /\ SpawnFairness

-----------------------------------------------------------------------------
\* A join returns the output of the very task that spawn_call gave the handle
\* out for, although handles of different callers are the same numbers and
\* tasks end in any order.
JoinsItsTask ==
  \A c \in Callers : \A r \in joined[c] : spawned[c][r.handle] = r.task

\* "If execution is panicked, the `join` in the original runtime code will
\* panic as well": a caller that ends well has joined no task that failed,
\* through any depth of tasks.
PanicsPropagate ==
  \A c \in Callers : outcome[c] = "ok" =>
    \A r \in joined[c] : outcome[r.task] = "ok"

\* A handle is joined once: what a join waits for or has returned is not in
\* the map any more, and is waited for by nobody else.
JoinedOnce ==
  \A c \in Callers : doing[c] = "joining" =>
    /\ waits[c] \notin joined[c]
    /\ \A d \in Callers : \A h \in Handles : tasks[d][h] # waits[c].task
    /\ \A d \in Callers \ {c} : doing[d] = "joining" => waits[d].task # waits[c].task

\* Every join returns or fails in the end.
JoinsEnd == \A c \in Callers : (doing[c] = "joining") ~> (doing[c] # "joining")
=============================================================================
