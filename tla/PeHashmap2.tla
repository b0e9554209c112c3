----------------------------- MODULE PeHashmap2 -----------------------------
(***************************************************************************)
(* kernel_module/file/proc_entry_hashmap2: a hash map with a spinlock per  *)
(* bucket for the writers and RCU for the readers, used by any number of   *)
(* processes through entry_read and entry_write and torn down when the     *)
(* module is removed.                                                      *)
(*                                                                         *)
(* What a writer does between spin_lock_bh and spin_unlock_bh is one step: *)
(* the lock excludes other writers of the bucket, and of all it writes     *)
(* readers only see the one pointer that publishes or unlinks an entry.    *)
(* A reader's step is one pointer it follows.                              *)
(***************************************************************************)
EXTENDS Naturals, FiniteSets

CONSTANTS
    Threads,    \* processes with /proc/example/hello open
    Keys, Values,
    Entries,    \* the objects of the kmem_cache
    Buckets,
    index,      \* pe_entry_hash(key) & buckets_mask
    NULL

ASSUME PeAssumption ==
    /\ IsFiniteSet(Entries)
    /\ index \in [Keys -> Buckets]
    /\ NULL \notin Entries \cup Values

VARIABLES
    head, num,              \* the buckets
    used,                   \* entries allocated from the cache
    key, value, next,       \* their fields
    pc, arg, entry,         \* per thread: step, key argument, entry pointer
    call_rcu_list,          \* entries waiting for pe_entry_free_rcu
    readers,                \* for each of them, the readers it waits for
    module,                 \* how far the module's removal has come
    map, seen, ret          \* history: the map the callers see (see PeMap)

fields   == <<key, value, next>>
threads  == <<pc, arg, entry>>
rcu      == <<call_rcu_list, readers>>
history  == <<map, seen, ret>>
vars     == <<head, num, used, fields, threads, rcu, module, history>>

Links == Entries \cup {NULL}

\* Types, and the steps a thread can be at.
TypeOK ==
    /\ head \in [Buckets -> Links] /\ num \in [Buckets -> Nat]
    /\ used \subseteq Entries
    /\ key \in [Entries -> Keys \cup {NULL}]
    /\ value \in [Entries -> Values \cup {NULL}]
    /\ next \in [Entries -> Links]
    /\ pc \in [Threads -> {"idle", "insert", "call_rcu", "get", "copy_to_user"}]
    /\ arg \in [Threads -> Keys \cup {NULL}]
    /\ entry \in [Threads -> Links]
    /\ call_rcu_list \subseteq Entries
    /\ readers \in [Entries -> SUBSET Threads]
    /\ module \in {"live", "remove_proc_entry", "flush", "exited"}
    /\ map \in [Keys -> Values \cup {NULL}]
    /\ seen \in [Threads -> [Keys -> SUBSET (Values \cup {NULL})]]
    /\ ret \in [Threads -> Values \cup {NULL}]

Init ==
    /\ head = [b \in Buckets |-> NULL] /\ num = [b \in Buckets |-> 0]
    /\ used = {}
    /\ key = [n \in Entries |-> NULL]
    /\ value = [n \in Entries |-> NULL]
    /\ next = [n \in Entries |-> NULL]
    /\ pc = [t \in Threads |-> "idle"]
    /\ arg = [t \in Threads |-> NULL]
    /\ entry = [t \in Threads |-> NULL]
    /\ call_rcu_list = {}
    /\ readers = [n \in Entries |-> {}]
    /\ module = "live"
    /\ map = [k \in Keys |-> NULL]
    /\ seen = [t \in Threads |-> [k \in Keys |-> {}]]
    /\ ret = [t \in Threads |-> NULL]

-----------------------------------------------------------------------------
\* S holds first and, with every entry, the next one.
Closed(S, first) ==
    /\ first \in S \cup {NULL}
    /\ \A n \in S : next[n] \in S \cup {NULL}

\* The entries of a list: those that following next from its first one meets.
Walk(first) ==
    {n \in Entries : \A S \in SUBSET Entries : Closed(S, first) => n \in S}

Found(k) == {n \in Walk(head[index[k]]) : key[n] = k}

\* The pointer to n, the bucket's or an entry's, now points to m.
Relink(b, n, m) ==
    /\ head' = [head EXCEPT ![b] = IF @ = n THEN m ELSE @]
    /\ next' = [e \in Entries |->
                   IF e = m THEN next[n]
                   ELSE IF e \in Walk(head[b]) /\ next[e] = n THEN m
                   ELSE next[e]]

\* hlist_del_rcu keeps the entry's own next for the readers that are on it.
hlist_del_rcu(b, n) ==
    /\ head' = [head EXCEPT ![b] = IF @ = n THEN next[n] ELSE @]
    /\ next' = [e \in Entries |->
                   IF e \in Walk(head[b]) /\ next[e] = n THEN next[n]
                   ELSE next[e]]

Remember(k, v) ==
    /\ map' = [map EXCEPT ![k] = v]
    /\ seen' = [t \in Threads |->
                   [seen[t] EXCEPT ![k] = IF @ = {} THEN {} ELSE @ \cup {v}]]
    /\ UNCHANGED ret

\* The operation returns: its locals are gone.
Done(t) ==
    /\ pc' = [pc EXCEPT ![t] = "idle"]
    /\ arg' = [arg EXCEPT ![t] = NULL]
    /\ entry' = [entry EXCEPT ![t] = NULL]

\* What is freed holds nothing any more.
Free(S) ==
    /\ used' = used \ S
    /\ key' = [n \in Entries |-> IF n \in S THEN NULL ELSE key[n]]
    /\ value' = [n \in Entries |-> IF n \in S THEN NULL ELSE value[n]]
    /\ next' = [n \in Entries |-> IF n \in S THEN NULL ELSE next[n]]

\* What was unlinked is handed to call_rcu after the unlock.
Retire(t, n) ==
    /\ pc' = [pc EXCEPT ![t] = "call_rcu"]
    /\ arg' = [arg EXCEPT ![t] = NULL]
    /\ entry' = [entry EXCEPT ![t] = n]

-----------------------------------------------------------------------------
\* pe_map_insert up to the lock.  A failed kmem_cache_alloc ends it: no step.
kmem_cache_alloc(t, k, v) ==
    /\ module = "live" /\ pc[t] = "idle"
    /\ \E n \in Entries \ used :
          /\ used' = used \cup {n}
          /\ key' = [key EXCEPT ![n] = k]
          /\ value' = [value EXCEPT ![n] = v]
          /\ entry' = [entry EXCEPT ![t] = n]
    /\ pc' = [pc EXCEPT ![t] = "insert"]
    /\ arg' = [arg EXCEPT ![t] = k]
    /\ UNCHANGED <<head, num, next, rcu, module, history>>

pe_map_insert_MovesToHead(t) ==
    LET new  == entry[t]
        k    == arg[t]
        b    == index[k]
        prev == {e \in Walk(head[b]) : next[e] \in Found(k)}
        rest == IF head[b] \in Found(k) THEN next[head[b]] ELSE head[b]
    IN  /\ pc[t] = "insert"
        /\ next' = [e \in Entries |-> IF e = new THEN rest
                                      ELSE IF e \in prev THEN next[next[e]]
                                      ELSE next[e]]
        /\ head' = [head EXCEPT ![b] = new]
        /\ IF Found(k) = {}
           THEN Done(t) /\ num' = [num EXCEPT ![b] = @ + 1]
           ELSE \E old \in Found(k) : Retire(t, old) /\ UNCHANGED num
        /\ Remember(k, value[new])
        /\ UNCHANGED <<used, key, value, rcu, module>>

\* Its locked part: replace the key's entry, or add the new one at the head.
pe_map_insert(t) ==
    LET new == entry[t]
        k   == arg[t]
        b   == index[k]
    IN  /\ pc[t] = "insert"
        /\ \/ \E old \in Found(k) :
                 /\ Relink(b, old, new)
                 /\ Retire(t, old)
                 /\ UNCHANGED num
           \/ /\ Found(k) = {}
              /\ next' = [next EXCEPT ![new] = head[b]]
              /\ head' = [head EXCEPT ![b] = new]
              /\ num' = [num EXCEPT ![b] = @ + 1]
              /\ Done(t)
        /\ Remember(k, value[new])
        /\ UNCHANGED <<used, key, value, rcu, module>>

\* A remove that finds nothing returns -1: no step.
pe_map_remove(t, k) ==
    /\ module = "live" /\ pc[t] = "idle"
    /\ \E old \in Found(k) :
          /\ hlist_del_rcu(index[k], old)
          /\ Retire(t, old)
    /\ num' = [num EXCEPT ![index[k]] = @ - 1]
    /\ Remember(k, NULL)
    /\ UNCHANGED <<used, key, value, rcu, module>>

InGet == {t \in Threads : pc[t] = "get"}

\* Mutant: the entry is freed without a grace period.
call_rcu_FreesNow(t) ==
    /\ pc[t] = "call_rcu"
    /\ Free({entry[t]})
    /\ Done(t)
    /\ UNCHANGED <<head, num, rcu, module, history>>

\* The last step of insert and remove.
call_rcu(t) ==
    /\ pc[t] = "call_rcu"
    /\ call_rcu_list' = call_rcu_list \cup {entry[t]}
    /\ readers' = [readers EXCEPT ![entry[t]] = InGet]
    /\ Done(t)
    /\ UNCHANGED <<head, num, used, fields, module, history>>

\* The callback, once every reader of that time has left its section.
pe_entry_free_rcu(n) ==
    /\ n \in call_rcu_list /\ readers[n] = {}
    /\ call_rcu_list' = call_rcu_list \ {n}
    /\ Free({n})
    /\ UNCHANGED <<head, num, threads, readers, module, history>>

-----------------------------------------------------------------------------
\* pe_map_get: rcu_read_lock and the load of the bucket's first pointer.
pe_map_get(t, k) ==
    /\ module = "live" /\ pc[t] = "idle"
    /\ pc' = [pc EXCEPT ![t] = "get"]
    /\ arg' = [arg EXCEPT ![t] = k]
    /\ entry' = [entry EXCEPT ![t] = head[index[k]]]
    /\ seen' = [seen EXCEPT ![t][k] = {map[k]}]
    /\ UNCHANGED <<head, num, used, fields, rcu, module, map, ret>>

\* One round of hlist_for_each_entry_rcu.
get_next(t) ==
    /\ pc[t] = "get" /\ entry[t] # NULL
    /\ key[entry[t]] # arg[t]
    /\ entry' = [entry EXCEPT ![t] = next[@]]
    /\ UNCHANGED <<head, num, used, fields, pc, arg, rcu, module, history>>

\* Mutant: the return of -1 forgets rcu_read_unlock.
rcu_read_unlock_OnlyIfFound(t) ==
    LET found == entry[t] # NULL
    IN  /\ pc[t] = "get"
        /\ \/ found /\ key[entry[t]] = arg[t]
              /\ ret' = [ret EXCEPT ![t] = value[entry[t]]]
              /\ pc' = [pc EXCEPT ![t] = "copy_to_user"]
              /\ readers' = [n \in Entries |-> readers[n] \ {t}]
           \/ ~found /\ pc' = [pc EXCEPT ![t] = "idle"] /\ UNCHANGED <<ret, readers>>
        /\ arg' = [arg EXCEPT ![t] = NULL]
        /\ entry' = [entry EXCEPT ![t] = NULL]
        /\ seen' = [seen EXCEPT ![t][arg[t]] = {}]
        /\ UNCHANGED <<head, num, used, fields, call_rcu_list, module, map>>

\* The end of the loop and rcu_read_unlock.  A value goes to the caller.
rcu_read_unlock(t) ==
    LET found == entry[t] # NULL
    IN  /\ pc[t] = "get"
        /\ \/ found /\ key[entry[t]] = arg[t]
              /\ ret' = [ret EXCEPT ![t] = value[entry[t]]]
              /\ pc' = [pc EXCEPT ![t] = "copy_to_user"]
           \/ ~found /\ pc' = [pc EXCEPT ![t] = "idle"] /\ UNCHANGED ret
        /\ arg' = [arg EXCEPT ![t] = NULL]
        /\ entry' = [entry EXCEPT ![t] = NULL]
        /\ readers' = [n \in Entries |-> readers[n] \ {t}]
        /\ seen' = [seen EXCEPT ![t][arg[t]] = {}]
        /\ UNCHANGED <<head, num, used, fields, call_rcu_list, module, map>>

\* The rest of entry_read.
copy_to_user(t) ==
    /\ pc[t] = "copy_to_user"
    /\ ret' = [ret EXCEPT ![t] = NULL]
    /\ Done(t)
    /\ UNCHANGED <<head, num, used, fields, rcu, module, map, seen>>

-----------------------------------------------------------------------------
\* remove_proc_entry: no new calls, and it returns when none is running.
proc_entry_hashmap2_exit ==
    /\ module = "live"
    /\ module' = "remove_proc_entry"
    /\ UNCHANGED <<head, num, used, fields, threads, rcu, history>>

\* pe_map_flush up to rcu_barrier.  The lists go to heads[], which nothing
\* else uses: here they stay in head until they are freed.
pe_map_flush ==
    /\ module = "remove_proc_entry"
    /\ \A t \in Threads : pc[t] = "idle"
    /\ module' = "flush"
    /\ num' = [b \in Buckets |-> 0]
    /\ map' = [k \in Keys |-> NULL]
    /\ UNCHANGED <<head, used, fields, threads, rcu, seen, ret>>

\* Mutant: pe_map_flush does not call rcu_barrier.
pe_map_destroy_NoBarrier ==
    /\ module = "flush"
    /\ InGet = {}
    /\ Free(UNION {Walk(head[b]) : b \in Buckets})
    /\ head' = [b \in Buckets |-> NULL]
    /\ module' = "exited"
    /\ UNCHANGED <<num, threads, rcu, history>>

\* After synchronize_rcu and rcu_barrier: free the lists, destroy the cache.
pe_map_destroy ==
    /\ module = "flush"
    /\ InGet = {}
    /\ call_rcu_list = {}
    /\ Free(UNION {Walk(head[b]) : b \in Buckets})
    /\ head' = [b \in Buckets |-> NULL]
    /\ module' = "exited"
    /\ UNCHANGED <<num, threads, rcu, history>>

-----------------------------------------------------------------------------
Thread(t) ==
    \/ \E k \in Keys, v \in Values : kmem_cache_alloc(t, k, v)
    \/ pe_map_insert(t)
    \/ \E k \in Keys : pe_map_remove(t, k)
    \/ call_rcu(t)
    \/ \E k \in Keys : pe_map_get(t, k)
    \/ get_next(t)
    \/ rcu_read_unlock(t)
    \/ copy_to_user(t)

Exit == proc_entry_hashmap2_exit \/ pe_map_flush \/ pe_map_destroy

Next ==
    \/ \E t \in Threads : Thread(t)
    \/ \E n \in Entries : pe_entry_free_rcu(n)
    \/ Exit

Spec == Init /\ [][Next]_vars

\* A call that has begun goes on, RCU callbacks run, rmmod is carried out.
Running(t) ==
    \/ pe_map_insert(t)
    \/ call_rcu(t)
    \/ get_next(t)
    \/ rcu_read_unlock(t)
    \/ copy_to_user(t)

FairSpec ==
    /\ Spec
    /\ \A t \in Threads : WF_vars(Running(t))
    /\ \A n \in Entries : WF_vars(pe_entry_free_rcu(n))
    /\ WF_vars(pe_map_flush \/ pe_map_destroy)

-----------------------------------------------------------------------------
(***************************************************************************)
(* A reader never stands on freed memory: the entry it follows next from   *)
(* is allocated, whatever is replaced and removed around it.               *)
(***************************************************************************)
NoUseAfterFree ==
    \A t \in InGet : entry[t] \in used \cup {NULL}

(***************************************************************************)
(* The entries linked in a bucket are allocated, one per key, each in the  *)
(* bucket its key hashes to, and num counts them.                          *)
(***************************************************************************)
BucketsOK ==
    module # "exited" =>
    \A b \in Buckets :
        LET list == Walk(head[b])
        IN  /\ list \subseteq used \ call_rcu_list
            /\ \A n \in list : key[n] \in Keys /\ index[key[n]] = b
            /\ \A m, n \in list : key[m] = key[n] => m = n
            /\ module # "flush" => num[b] = Cardinality(list)

(***************************************************************************)
(* kmem_cache_destroy finds the cache empty: every entry was freed, and no *)
(* callback is left to run in code that is being unloaded.                 *)
(***************************************************************************)
CacheEmptyAtExit == module = "exited" => used = {} /\ call_rcu_list = {}

(***************************************************************************)
(* insert, remove and get are linearizable: a get of a key that is there   *)
(* all the time finds it, and returns a value it had during the call.      *)
(***************************************************************************)
Map == INSTANCE PeMap WITH Absent <- NULL

MapSpec == Map!Spec

(***************************************************************************)
(* What was replaced or removed is freed in the end: gets do not postpone  *)
(* it for ever, however they overlap.                                      *)
(***************************************************************************)
Reclaimed ==
    \A n \in Entries : n \in call_rcu_list ~> n \notin call_rcu_list

(***************************************************************************)
(* rmmod returns: remove_proc_entry waits for the calls that are running   *)
(* and rcu_barrier for the callbacks, and neither waits for ever.          *)
(***************************************************************************)
ExitReturns == module = "remove_proc_entry" ~> module = "exited"

(***************************************************************************)
(* Each bucket lists allocated entries of its own keys, one per key, and   *)
(* counts them; and nothing is left in the cache, or in a callback, when   *)
(* pe_map_destroy destroys it.                                             *)
(***************************************************************************)
MapIntact == TypeOK /\ BucketsOK /\ CacheEmptyAtExit

(***************************************************************************)
(* Every retired entry is freed, and rmmod returns: no get stays in its    *)
(* read-side section.                                                      *)
(***************************************************************************)
RcuProgress == Reclaimed /\ ExitReturns

=============================================================================
