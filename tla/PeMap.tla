------------------------------- MODULE PeMap -------------------------------
(***************************************************************************)
(* What the pe_hashmap of the proc_entry_hashmap kernel modules promises   *)
(* the processes that read and write /proc/example/hello: insert and       *)
(* remove act at one moment between call and return, and a get returns     *)
(* what the key had at some moment between its call and its return.        *)
(***************************************************************************)
CONSTANTS Threads, Keys, Values, Absent

VARIABLES
    map,    \* the value of each key, or Absent
    seen,   \* what the key of a running get has had since the get began
    ret     \* the value a get has found and is about to return

vars == <<map, seen, ret>>

Init ==
    /\ map = [k \in Keys |-> Absent]
    /\ seen = [t \in Threads |-> [k \in Keys |-> {}]]
    /\ ret = [t \in Threads |-> Absent]

\* insert (v a value) or remove (v Absent); running gets of k may see it.
Put(k, v) ==
    /\ map' = [map EXCEPT ![k] = v]
    /\ seen' = [t \in Threads |->
                   [seen[t] EXCEPT ![k] = IF @ = {} THEN {} ELSE @ \cup {v}]]
    /\ UNCHANGED ret

Call(t, k) ==
    /\ \A x \in Keys : seen[t][x] = {}
    /\ seen' = [seen EXCEPT ![t][k] = {map[k]}]
    /\ UNCHANGED <<map, ret>>

Found(t, k, v) ==
    /\ v \in seen[t][k]
    /\ ret' = [ret EXCEPT ![t] = v]
    /\ seen' = [seen EXCEPT ![t][k] = {}]
    /\ UNCHANGED map

Return(t) ==
    /\ ret' = [ret EXCEPT ![t] = Absent]
    /\ UNCHANGED <<map, seen>>

\* The module is unloaded and the map with it.
Destroy ==
    /\ \A t \in Threads, k \in Keys : seen[t][k] = {}
    /\ map' = [k \in Keys |-> Absent]
    /\ UNCHANGED <<seen, ret>>

Next ==
    \/ \E k \in Keys, v \in Values \cup {Absent} : Put(k, v)
    \/ \E t \in Threads, k \in Keys : Call(t, k)
    \/ \E t \in Threads, k \in Keys, v \in Values \cup {Absent} : Found(t, k, v)
    \/ \E t \in Threads : Return(t)
    \/ Destroy

Spec == Init /\ [][Next]_vars
=============================================================================
