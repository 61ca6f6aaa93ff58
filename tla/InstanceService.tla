-------------------------- MODULE InstanceService --------------------------
(***************************************************************************)
(* What RuntimeCache::with_instance promises to its callers, whatever the  *)
(* cache and the pools of instances do: a call runs on an instance made    *)
(* for the runtime it asked for, alone on it, and an instance on which the *)
(* closure failed is gone before anybody can be served by it again.        *)
(***************************************************************************)
CONSTANTS
    Threads,        \* callers
    Ids,            \* identifiers of runtimes
    Insts,          \* names of instances; a dropped one's may be used again
    None            \* none of the above

VARIABLES
    made,           \* the runtime an instance was made for, None: not alive
    serving,        \* the instance the closure of a thread runs on
    wanted,         \* the runtime a thread has asked for
    result          \* the result of a thread's last call

vars == <<made, serving, wanted, result>>

Result == {"ok", "err"}

Init ==
    /\ made = [i \in Insts |-> None]
    /\ serving = [t \in Threads |-> None]
    /\ wanted = [t \in Threads |-> None]
    /\ result = [t \in Threads |-> "ok"]

InUse(i) == \E t \in Threads : serving[t] = i

Ask(t, id) ==
    /\ wanted[t] = None
    /\ wanted' = [wanted EXCEPT ![t] = id]
    /\ UNCHANGED <<made, serving, result>>

\* The closure starts on an idle instance of the right runtime or a new one.
Begin(t, i) ==
    /\ wanted[t] # None
    /\ serving[t] = None
    /\ ~InUse(i)
    /\ made[i] \in {wanted[t], None}
    /\ made' = [made EXCEPT ![i] = wanted[t]]
    /\ serving' = [serving EXCEPT ![t] = i]
    /\ UNCHANGED <<wanted, result>>

\* The call ends, and idle instances may be dropped with it.  A failed
\* closure's instance is.
End(t, r) ==
    /\ wanted[t] # None
    /\ wanted' = [wanted EXCEPT ![t] = None]
    /\ serving' = [serving EXCEPT ![t] = None]
    /\ result' = [result EXCEPT ![t] = r]
    /\ r = "err" /\ serving[t] # None => made'[serving[t]] = None
    /\ \A i \in Insts : \/ made'[i] = made[i]
                        \/ made'[i] = None /\ \A u \in Threads \ {t} : serving[u] # i

\* Idle instances are dropped.
Forget ==
    /\ \A i \in Insts : made'[i] = made[i] \/ (made'[i] = None /\ ~InUse(i))
    /\ UNCHANGED <<serving, wanted, result>>

Next ==
    \/ \E t \in Threads : \/ \E id \in Ids : Ask(t, id)
                          \/ \E i \in Insts : Begin(t, i)
                          \/ \E r \in Result : End(t, r)
    \/ Forget

Spec == Init /\ [][Next]_vars
=============================================================================
