----------------------------- MODULE PeHashmap1 -----------------------------
(***************************************************************************)
(* kernel_module/file/proc_entry_hashmap1: the hash map whose readers take *)
(* the bucket's spinlock like its writers.  What happens under the lock is *)
(* one step; a new entry is allocated before the lock is taken, and freed  *)
(* under it when the key turns out to be there already.                    *)
(***************************************************************************)
EXTENDS Naturals, FiniteSets

CONSTANTS
    Procs,          \* processes with /proc/example/hello open
    MapKeys, MapValues,
    Objects,        \* what the kmem_cache can hold
    MapBuckets,
    bucketOf,       \* pe_entry_hash(key) & buckets_mask
    None

ASSUME Pe1Assumption ==
    /\ IsFiniteSet(Objects)
    /\ bucketOf \in [MapKeys -> MapBuckets]
    /\ None \notin MapValues
    /\ None \notin [key : MapKeys, value : MapValues]

VARIABLES
    linked,         \* per bucket: the entries in its list
    count,          \* bucket->num
    inUse,          \* entries allocated from the cache
    content,        \* their key and value
    at, key1, entry1,       \* per process: step, key argument, new_entry
    life,           \* of the module
    map1, seen1, ret1       \* history: the map the callers see (see PeMap)

hist1   == <<map1, seen1, ret1>>
procs1  == <<at, key1, entry1>>
pe1Vars == <<linked, count, inUse, content, procs1, life, hist1>>

Pe1Init ==
    /\ linked = [b \in MapBuckets |-> {}] /\ count = [b \in MapBuckets |-> 0]
    /\ inUse = {} /\ content = [n \in Objects |-> None]
    /\ at = [p \in Procs |-> "idle"]
    /\ key1 = [p \in Procs |-> None] /\ entry1 = [p \in Procs |-> None]
    /\ life = "live"
    /\ map1 = [k \in MapKeys |-> None]
    /\ seen1 = [p \in Procs |-> [k \in MapKeys |-> {}]]
    /\ ret1 = [p \in Procs |-> None]

\* Types.
Pe1TypeOK ==
    /\ linked \in [MapBuckets -> SUBSET Objects]
    /\ inUse \subseteq Objects
    /\ \A n \in Objects : (content[n] # None) = (n \in inUse)
    /\ \A p \in Procs : at[p] = "insert" => entry1[p] \in inUse
    /\ life \in {"live", "exit", "flush", "gone"}

EntryOf(k) == {n \in linked[bucketOf[k]] : content[n].key = k}

Remember1(k, v) ==
    /\ map1' = [map1 EXCEPT ![k] = v]
    /\ seen1' = [p \in Procs |->
                    [seen1[p] EXCEPT ![k] = IF @ = {} THEN {} ELSE @ \cup {v}]]
    /\ UNCHANGED ret1

Idle(p) == life = "live" /\ at[p] = "idle"

Leave(p) ==
    /\ at' = [at EXCEPT ![p] = "idle"]
    /\ key1' = [key1 EXCEPT ![p] = None]
    /\ entry1' = [entry1 EXCEPT ![p] = None]

\* pe_map_insert up to the lock; a failed allocation returns -1.
pe_map1_alloc(p, k, v) ==
    /\ Idle(p)
    /\ \E n \in Objects \ inUse :
          /\ inUse' = inUse \cup {n}
          /\ content' = [content EXCEPT ![n] = [key |-> k, value |-> v]]
          /\ entry1' = [entry1 EXCEPT ![p] = n]
    /\ at' = [at EXCEPT ![p] = "insert"] /\ key1' = [key1 EXCEPT ![p] = k]
    /\ UNCHANGED <<linked, count, life, hist1>>

\* Mutants: new_entry is not freed when the key was found; it is freed, but
\* the old entry keeps its value; it is linked without a search.
pe_map1_insert_Leaks(p) ==
    LET new == entry1[p]
        v   == content[new].value
        b   == bucketOf[key1[p]]
    IN  /\ at[p] = "insert"
        /\ \/ \E old \in EntryOf(key1[p]) :
                 /\ content' = [content EXCEPT ![old].value = v]
                 /\ UNCHANGED <<linked, count, inUse>>
           \/ /\ EntryOf(key1[p]) = {}
              /\ linked' = [linked EXCEPT ![b] = @ \cup {new}]
              /\ count' = [count EXCEPT ![b] = @ + 1]
              /\ UNCHANGED <<inUse, content>>
        /\ Remember1(key1[p], v) /\ Leave(p) /\ UNCHANGED life

pe_map1_insert_KeepsOld(p) ==
    LET new == entry1[p]
        v   == content[new].value
        b   == bucketOf[key1[p]]
    IN  /\ at[p] = "insert"
        /\ IF EntryOf(key1[p]) # {}
           THEN /\ content' = [content EXCEPT ![new] = None]
                /\ inUse' = inUse \ {new}
                /\ UNCHANGED <<linked, count>>
           ELSE /\ linked' = [linked EXCEPT ![b] = @ \cup {new}]
                /\ count' = [count EXCEPT ![b] = @ + 1]
                /\ UNCHANGED <<inUse, content>>
        /\ Remember1(key1[p], v) /\ Leave(p) /\ UNCHANGED life

\* Its locked part: overwrite the value in place, or link the new entry.
pe_map1_insert(p) ==
    LET new == entry1[p]
        v   == content[new].value
        b   == bucketOf[key1[p]]
    IN  /\ at[p] = "insert"
        /\ \/ \E old \in EntryOf(key1[p]) :
                 /\ content' = [content EXCEPT ![old].value = v, ![new] = None]
                 /\ inUse' = inUse \ {new}
                 /\ UNCHANGED <<linked, count>>
           \/ /\ EntryOf(key1[p]) = {}
              /\ linked' = [linked EXCEPT ![b] = @ \cup {new}]
              /\ count' = [count EXCEPT ![b] = @ + 1]
              /\ UNCHANGED <<inUse, content>>
        /\ Remember1(key1[p], v) /\ Leave(p) /\ UNCHANGED life

\* Unlinked and freed under the lock; -1 if there is none.
pe_map1_remove(p, k) ==
    /\ Idle(p)
    /\ \E old \in EntryOf(k) :
          /\ linked' = [linked EXCEPT ![bucketOf[k]] = @ \ {old}]
          /\ inUse' = inUse \ {old}
          /\ content' = [content EXCEPT ![old] = None]
    /\ count' = [count EXCEPT ![bucketOf[k]] = @ - 1]
    /\ Remember1(k, None) /\ UNCHANGED <<procs1, life>>

\* entry_read: called, and waiting for the lock.
entry_read(p, k) ==
    /\ Idle(p)
    /\ at' = [at EXCEPT ![p] = "get"] /\ key1' = [key1 EXCEPT ![p] = k]
    /\ seen1' = [seen1 EXCEPT ![p][k] = {map1[k]}]
    /\ UNCHANGED <<linked, count, inUse, content, entry1, life, map1, ret1>>

\* pe_map_get: the value is read under the lock.
pe_map1_get(p) ==
    /\ at[p] = "get"
    /\ LET n == EntryOf(key1[p]) IN
       /\ ret1' = [ret1 EXCEPT ![p] =
                     IF n = {} THEN None ELSE content[CHOOSE x \in n : TRUE].value]
       /\ at' = [at EXCEPT ![p] = IF n = {} THEN "idle" ELSE "copy_to_user"]
    /\ key1' = [key1 EXCEPT ![p] = None]
    /\ seen1' = [seen1 EXCEPT ![p][key1[p]] = {}]
    /\ UNCHANGED <<linked, count, inUse, content, entry1, life, map1>>

entry_read_returns(p) ==
    /\ at[p] = "copy_to_user"
    /\ ret1' = [ret1 EXCEPT ![p] = None] /\ Leave(p)
    /\ UNCHANGED <<linked, count, inUse, content, life, map1, seen1>>

\* remove_proc_entry lets no new call in and waits for those that run.
proc_entry1_exit ==
    /\ life = "live" /\ life' = "exit"
    /\ UNCHANGED <<linked, count, inUse, content, procs1, hist1>>

\* pe_map_flush, one bucket after the other.
pe_map1_flush(b) ==
    /\ life = "exit" /\ \A p \in Procs : at[p] = "idle"
    /\ count[b] > 0
    /\ linked' = [linked EXCEPT ![b] = {}] /\ count' = [count EXCEPT ![b] = 0]
    /\ inUse' = inUse \ linked[b]
    /\ content' = [n \in Objects |-> IF n \in linked[b] THEN None ELSE content[n]]
    /\ map1' = [k \in MapKeys |-> None]
    /\ UNCHANGED <<procs1, life, seen1, ret1>>

pe_map1_destroy ==
    /\ life = "exit" /\ \A p \in Procs : at[p] = "idle"
    /\ \A b \in MapBuckets : count[b] = 0
    /\ life' = "gone"
    /\ UNCHANGED <<linked, count, inUse, content, procs1, hist1>>

Pe1Next ==
    \/ \E p \in Procs, k \in MapKeys, v \in MapValues : pe_map1_alloc(p, k, v)
    \/ \E p \in Procs : pe_map1_insert(p) \/ pe_map1_get(p) \/ entry_read_returns(p)
    \/ \E p \in Procs, k \in MapKeys : pe_map1_remove(p, k) \/ entry_read(p, k)
    \/ proc_entry1_exit \/ pe_map1_destroy
    \/ \E b \in MapBuckets : pe_map1_flush(b)

-----------------------------------------------------------------------------
\* Every entry of the cache is in one list, the one its key hashes to, and
\* the only one of its key there, or is the new_entry of an insert that has
\* not got the lock yet; and bucket->num counts the list.
CacheAccounted ==
    /\ inUse = (UNION {linked[b] : b \in MapBuckets})
               \cup {entry1[p] : p \in {q \in Procs : at[q] = "insert"}}
    /\ \A b \in MapBuckets :
          /\ count[b] = Cardinality(linked[b])
          /\ \A m, n \in linked[b] :
                bucketOf[content[n].key] = b
                /\ (content[m].key = content[n].key => m = n)

\* kmem_cache_destroy finds nothing in the cache.
CacheEmptyWhenGone == life = "gone" => inUse = {}

\* insert, remove and get act at one moment each, as PeMap says.
LockedMap == INSTANCE PeMap WITH Threads <- Procs, Keys <- MapKeys,
                Values <- MapValues, Absent <- None,
                map <- map1, seen <- seen1, ret <- ret1
LockedMapSpec == LockedMap!Spec

\* The cache is accounted for while the module lives and empty when it goes.
CacheExact == Pe1TypeOK /\ CacheAccounted /\ CacheEmptyWhenGone

=============================================================================
