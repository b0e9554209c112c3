------------------------ MODULE KernelModulesProofs -------------------------
(***************************************************************************)
(* Kernel modules for every value of their constants: the character device *)
(* with mmap, the locked hash map and its test programs, the TCP tracer    *)
(* and the kernel thread examples.  They share no state; each is proved    *)
(* about its own behaviours, which are those of Spec in its variables.     *)
(***************************************************************************)
EXTENDS MCKernelModules, FiniteSetTheorems, SequenceTheorems, TLAPS

LEMMA Parts ==
  Spec => /\ DevInit /\ [][DevNext]_devVars
          /\ Pe1Init /\ [][Pe1Next]_pe1Vars
          /\ WorkersInit /\ [][WorkersNext]_workerVars
          /\ TraceInit /\ [][TraceNext]_traceVars
          /\ KthInit /\ [][KthNext]_kthVars
<1>1. Init => DevInit /\ Pe1Init /\ WorkersInit /\ TraceInit /\ KthInit
  BY DEF Init
<1>2. [Next]_vars => /\ [DevNext]_devVars /\ [Pe1Next]_pe1Vars
                     /\ [WorkersNext]_workerVars /\ [TraceNext]_traceVars
                     /\ [KthNext]_kthVars
  BY DEF Next, vars
<1> QED BY <1>1, <1>2, PTL DEF Spec

-----------------------------------------------------------------------------
(* char_device_mmap *)

\* A mapping keeps the areas, and an area exists while the device does.
DevInv ==
    /\ MappingsSound
    /\ misc = "registered" => areas = {"ctrl", "queue"}
    /\ opened # {} \/ maps # {} => misc = "registered"

(***************************************************************************)
(* What a process has mapped exists as long as the mapping, and is never   *)
(* the first page of the queue, for any size of the queue.                 *)
(***************************************************************************)
THEOREM MappingsAreSound == Spec => []MappingsSound
<1> USE DEF DevInv, MappingsSound, DevTypeOK, MappedAreasExist, QueueStartHidden
<1>1. DevInit => DevInv BY DEF DevInit
<1>2. DevInv /\ [DevNext]_devVars => DevInv'
  <2> SUFFICES ASSUME DevInv, [DevNext]_devVars PROVE DevInv' OBVIOUS
  <2>1. CASE example_module_init BY <2>1 DEF example_module_init
  <2>2. CASE example_module_exit BY <2>2 DEF example_module_exit
  <2>3. ASSUME NEW u \in Users, example_dev_open(u) \/ example_dev_release(u)
        PROVE  DevInv'
    BY <2>3 DEF example_dev_open, example_dev_release
  <2>4. ASSUME NEW u \in Users, NEW off \in 0 .. QueuePages,
               NEW n \in 1 .. QueuePages, example_dev_mmap(u, off, n)
        PROVE  DevInv'
    <3> DEFINE area == IF off >= 1 THEN "queue" ELSE "ctrl"
               x == [user |-> u, area |-> area, pages |-> off .. off + n - 1]
    <3>1. /\ u \in opened /\ maps' = maps \cup {x}
          /\ off + n <= IF area = "ctrl" THEN 1 ELSE QueuePages
          /\ UNCHANGED <<opened, areas, misc>>
      BY <2>4 DEF example_dev_mmap, remap_vmalloc_range, CtrlPages,
                  EXAMPLE_CHAR_DEVICE_MMAP_QUEUE_OFFSET
    <3>2. misc = "registered" /\ areas = {"ctrl", "queue"} BY <3>1
    <3>3. x.user = u /\ x.area = area /\ x.pages = off .. off + n - 1 OBVIOUS
    <3>4. x.area \in {"ctrl", "queue"} BY <3>3
    <3>5. /\ off .. off + n - 1 \subseteq 0 .. QueuePages - 1
          /\ area = "ctrl" => off .. off + n - 1 \subseteq 0 .. CtrlPages - 1
          /\ area = "queue" => 0 \notin off .. off + n - 1
      BY <3>1, DevAssumption DEF CtrlPages
    <3> HIDE DEF x, area
    <3> QED BY <3>1, <3>2, <3>3, <3>4, <3>5
  <2>5. ASSUME NEW x \in maps, munmap(x) PROVE DevInv' BY <2>5 DEF munmap
  <2>6. CASE UNCHANGED devVars BY <2>6 DEF devVars
  <2> QED BY <2>1, <2>2, <2>3, <2>4, <2>5, <2>6 DEF DevNext
<1> QED BY <1>1, <1>2, Parts, PTL

-----------------------------------------------------------------------------
(* proc_entry_hashmap1 *)

Contents == [key : MapKeys, value : MapValues]

Pe1Types ==
    /\ linked \in [MapBuckets -> SUBSET Objects]
    /\ count \in [MapBuckets -> Nat]
    /\ inUse \in SUBSET Objects
    /\ content \in [Objects -> Contents \cup {None}]
    /\ \A n \in Objects : content[n] # None <=> n \in inUse
    /\ at \in [Procs -> {"idle", "insert", "get", "copy_to_user"}]
    /\ key1 \in [Procs -> MapKeys \cup {None}]
    /\ entry1 \in [Procs -> Objects \cup {None}]
    /\ life \in {"live", "exit", "gone"}
    /\ map1 \in [MapKeys -> MapValues \cup {None}]
    /\ seen1 \in [Procs -> [MapKeys -> SUBSET (MapValues \cup {None})]]
    /\ ret1 \in [Procs -> MapValues \cup {None}]

(***************************************************************************)
(* Every allocated object is in one list, its key's, or the new_entry of   *)
(* one insert; one object per key.                                         *)
(***************************************************************************)
Pe1Lists ==
    \A b \in MapBuckets :
        /\ \A n \in linked[b] : n \in inUse /\ bucketOf[content[n].key] = b
        /\ \A m, n \in linked[b] : content[m].key = content[n].key => m = n
        /\ count[b] = Cardinality(linked[b])

Pe1Owners ==
    /\ \A p \in Procs : at[p] = "insert" =>
          /\ entry1[p] \in inUse /\ key1[p] \in MapKeys
          /\ content[entry1[p]].key = key1[p]
          /\ \A b \in MapBuckets : entry1[p] \notin linked[b]
    /\ \A p, q \in Procs :
          at[p] = "insert" /\ at[q] = "insert" /\ entry1[p] = entry1[q] => p = q
    /\ \A n \in inUse :
          \/ \E b \in MapBuckets : n \in linked[b]
          \/ \E p \in Procs : at[p] = "insert" /\ entry1[p] = n

Pe1Phase ==
    life = "gone" => /\ \A p \in Procs : at[p] = "idle"
                     /\ \A b \in MapBuckets : count[b] = 0

\* The map is what the lists hold, as long as somebody can look.
Pe1Map ==
    life = "live" \/ (\E p \in Procs : at[p] # "idle") =>
        \A k \in MapKeys :
            \/ \E n \in linked[bucketOf[k]] :
                  content[n].key = k /\ content[n].value = map1[k]
            \/ map1[k] = None /\ \A n \in linked[bucketOf[k]] : content[n].key # k

Pe1Seen ==
    /\ \A p \in Procs : at[p] = "get" =>
          key1[p] \in MapKeys /\ map1[key1[p]] \in seen1[p][key1[p]]
    /\ \A p \in Procs, k \in MapKeys :
          at[p] # "get" \/ k # key1[p] => seen1[p][k] = {}
    /\ \A p \in Procs : at[p] # "copy_to_user" => ret1[p] = None

Pe1Inv == Pe1Types /\ Pe1Lists /\ Pe1Owners /\ Pe1Phase /\ Pe1Map /\ Pe1Seen

LEMMA Pe1InitKeeps == Pe1Init => Pe1Inv
<1> SUFFICES ASSUME Pe1Init PROVE Pe1Inv OBVIOUS
<1> USE Pe1Assumption DEF Pe1Init
<1>1. Pe1Types BY DEF Pe1Types
<1>2. Pe1Lists BY FS_EmptySet DEF Pe1Lists
<1>3. Pe1Owners BY DEF Pe1Owners
<1>4. Pe1Phase BY DEF Pe1Phase
<1>5. Pe1Map BY DEF Pe1Map
<1>6. Pe1Seen BY DEF Pe1Seen
<1> QED BY <1>1, <1>2, <1>3, <1>4, <1>5, <1>6 DEF Pe1Inv

\* The contents of what is allocated are a key and a value.
LEMMA Pe1Contents ==
  ASSUME Pe1Inv, NEW n \in inUse
  PROVE  /\ n \in Objects /\ content[n] \in Contents
         /\ content[n].key \in MapKeys /\ content[n].value \in MapValues
BY DEF Pe1Inv, Pe1Types, Contents

LEMMA Pe1AllocKeeps ==
  ASSUME Pe1Inv, NEW p \in Procs, NEW k \in MapKeys, NEW v \in MapValues,
         pe_map1_alloc(p, k, v)
  PROVE  Pe1Inv'
<1> USE DEF Pe1Inv
<1>1. PICK n \in Objects \ inUse :
        /\ inUse' = inUse \cup {n}
        /\ content' = [content EXCEPT ![n] = [key |-> k, value |-> v]]
        /\ entry1' = [entry1 EXCEPT ![p] = n]
  BY DEF pe_map1_alloc
<1>2. /\ life = "live" /\ at[p] = "idle"
      /\ at' = [at EXCEPT ![p] = "insert"] /\ key1' = [key1 EXCEPT ![p] = k]
      /\ UNCHANGED <<linked, count, life, map1, seen1, ret1>>
  BY DEF pe_map1_alloc, Idle, hist1
<1>3. /\ content'[n] = [key |-> k, value |-> v] /\ content'[n] \in Contents
      /\ content'[n].key = k
      /\ \A m \in inUse : m # n /\ content'[m] = content[m]
      /\ \A m \in Objects \ {n} : content'[m] = content[m]
  BY <1>1 DEF Pe1Types, Contents
<1>4. /\ at'[p] = "insert" /\ key1'[p] = k /\ entry1'[p] = n
      /\ \A q \in Procs \ {p} :
            at'[q] = at[q] /\ key1'[q] = key1[q] /\ entry1'[q] = entry1[q]
  BY <1>1, <1>2 DEF Pe1Types
<1>5. Pe1Types'
  <2>1. content' \in [Objects -> Contents \cup {None}]
    BY <1>1, <1>3 DEF Pe1Types
  <2>2. \A m \in Objects : content'[m] # None <=> m \in inUse'
    BY <1>1, <1>3, Pe1Assumption DEF Pe1Types, Contents
  <2>3. /\ at' \in [Procs -> {"idle", "insert", "get", "copy_to_user"}]
        /\ key1' \in [Procs -> MapKeys \cup {None}]
        /\ entry1' \in [Procs -> Objects \cup {None}]
    BY <1>1, <1>2 DEF Pe1Types
  <2> QED BY <2>1, <2>2, <2>3, <1>1, <1>2 DEF Pe1Types
<1>6. \A b \in MapBuckets : n \notin linked[b] BY <1>1 DEF Pe1Lists
<1>7. Pe1Lists' BY <1>1, <1>2, <1>3 DEF Pe1Lists
<1>8. Pe1Owners' BY <1>1, <1>2, <1>3, <1>4, <1>6 DEF Pe1Owners
<1>9. Pe1Phase' BY <1>2 DEF Pe1Phase
<1>10. Pe1Map'
  <2>1. \A x \in MapKeys : \A m \in linked[bucketOf[x]] : m \in inUse
    BY Pe1Assumption DEF Pe1Lists
  <2> QED BY <2>1, <1>2, <1>3 DEF Pe1Map
<1>11. Pe1Seen' BY <1>2, <1>4 DEF Pe1Seen
<1> QED BY <1>5, <1>7, <1>8, <1>9, <1>10, <1>11

\* What the callers see of an insert or remove of k.
LEMMA Remember1Keeps ==
  ASSUME Pe1Inv, NEW k \in MapKeys, NEW v \in MapValues \cup {None},
         Remember1(k, v),
         \A q \in Procs :
            /\ at'[q] = "get" <=> at[q] = "get"
            /\ at'[q] = "copy_to_user" <=> at[q] = "copy_to_user"
            /\ at[q] = "get" => key1'[q] = key1[q]
  PROVE  /\ Pe1Seen'
         /\ map1' \in [MapKeys -> MapValues \cup {None}]
         /\ map1'[k] = v /\ \A x \in MapKeys \ {k} : map1'[x] = map1[x]
         /\ seen1' \in [Procs -> [MapKeys -> SUBSET (MapValues \cup {None})]]
         /\ ret1' = ret1
<1> USE DEF Pe1Inv
<1>1. /\ map1' \in [MapKeys -> MapValues \cup {None}]
      /\ map1'[k] = v /\ \A x \in MapKeys \ {k} : map1'[x] = map1[x]
      /\ seen1' \in [Procs -> [MapKeys -> SUBSET (MapValues \cup {None})]]
      /\ \A q \in Procs : \A x \in MapKeys \ {k} : seen1'[q][x] = seen1[q][x]
      /\ \A q \in Procs : seen1[q][k] = {} => seen1'[q][k] = {}
      /\ \A q \in Procs : seen1[q][k] # {} => seen1'[q][k] = seen1[q][k] \cup {v}
      /\ ret1' = ret1
  BY DEF Pe1Types, Remember1
<1>2. Pe1Seen' BY <1>1 DEF Pe1Seen
<1> QED BY <1>1, <1>2

LEMMA Pe1InsertKeeps ==
  ASSUME Pe1Inv, NEW p \in Procs, pe_map1_insert(p)
  PROVE  Pe1Inv'
<1> USE DEF Pe1Inv
<1>1. PICK new, k, b, v : /\ new = entry1[p] /\ k = key1[p] /\ b = bucketOf[k]
                          /\ v = content[new].value
  OBVIOUS
<1>2. /\ at[p] = "insert"
      /\ \/ \E old \in EntryOf(k) :
               /\ content' = [content EXCEPT ![old].value = v, ![new] = None]
               /\ inUse' = inUse \ {new}
               /\ UNCHANGED <<linked, count>>
         \/ /\ EntryOf(k) = {}
            /\ linked' = [linked EXCEPT ![b] = @ \cup {new}]
            /\ count' = [count EXCEPT ![b] = @ + 1]
            /\ UNCHANGED <<inUse, content>>
      /\ Remember1(k, v) /\ Leave(p) /\ UNCHANGED life
  BY <1>1 DEF pe_map1_insert
<1>3. /\ new \in inUse /\ k \in MapKeys /\ b \in MapBuckets
      /\ content[new].key = k /\ \A c \in MapBuckets : new \notin linked[c]
  BY <1>1, <1>2, Pe1Assumption DEF Pe1Owners
<1>4. new \in Objects /\ content[new] \in Contents /\ v \in MapValues
  BY <1>1, <1>3, Pe1Contents
<1>5. /\ at' = [at EXCEPT ![p] = "idle"]
      /\ key1' = [key1 EXCEPT ![p] = None]
      /\ entry1' = [entry1 EXCEPT ![p] = None]
  BY <1>2 DEF Leave
<1>6. /\ at'[p] = "idle"
      /\ \A q \in Procs \ {p} :
            at'[q] = at[q] /\ key1'[q] = key1[q] /\ entry1'[q] = entry1[q]
      /\ at' \in [Procs -> {"idle", "insert", "get", "copy_to_user"}]
      /\ key1' \in [Procs -> MapKeys \cup {None}]
      /\ entry1' \in [Procs -> Objects \cup {None}]
  BY <1>5 DEF Pe1Types
<1>7. /\ Pe1Seen'
      /\ map1' \in [MapKeys -> MapValues \cup {None}]
      /\ map1'[k] = v /\ \A x \in MapKeys \ {k} : map1'[x] = map1[x]
      /\ seen1' \in [Procs -> [MapKeys -> SUBSET (MapValues \cup {None})]]
      /\ ret1' = ret1
  BY <1>2, <1>3, <1>4, <1>6, Remember1Keeps
<1>8. \A q \in Procs \ {p} : at[q] = "insert" => entry1[q] # new
  BY <1>1, <1>2 DEF Pe1Owners
<1>9. Pe1Phase' BY <1>2 DEF Pe1Phase
<1>10. \A x \in MapKeys :
         \/ \E n \in linked[bucketOf[x]] :
               content[n].key = x /\ content[n].value = map1[x]
         \/ map1[x] = None /\ \A n \in linked[bucketOf[x]] : content[n].key # x
  BY <1>2 DEF Pe1Map
<1>11. ASSUME NEW old \in EntryOf(k),
              content' = [content EXCEPT ![old].value = v, ![new] = None],
              inUse' = inUse \ {new}, UNCHANGED <<linked, count>>
       PROVE  Pe1Inv'
  <2>1. /\ old \in linked[b] /\ content[old].key = k /\ old \in inUse
        /\ old # new
    BY <1>1, <1>3 DEF EntryOf, Pe1Lists
  <2>2. old \in Objects /\ content[old] \in Contents BY <2>1, Pe1Contents
  <2>3. /\ content'[old] \in Contents
        /\ content'[old].key = k /\ content'[old].value = v
        /\ content'[new] = None
        /\ \A n \in Objects \ {old, new} : content'[n] = content[n]
        /\ content' \in [Objects -> Contents \cup {None}]
    BY <1>4, <1>11, <2>1, <2>2 DEF Pe1Types, Contents
  <2>4. Pe1Types'
    <3>1. \A n \in Objects : content'[n] # None <=> n \in inUse'
      BY <1>11, <2>1, <2>3, Pe1Assumption DEF Pe1Types, Contents
    <3> QED BY <3>1, <2>3, <1>2, <1>6, <1>7, <1>11 DEF Pe1Types
  <2>5. \A c \in MapBuckets : \A n \in linked[c] :
          n \in inUse' /\ content'[n].key = content[n].key
    <3> SUFFICES ASSUME NEW c \in MapBuckets, NEW n \in linked[c]
                 PROVE  n \in inUse' /\ content'[n].key = content[n].key
      OBVIOUS
    <3>1. n \in Objects /\ n \in inUse /\ n # new
      BY <1>3 DEF Pe1Lists, Pe1Types
    <3> QED
      <4> HIDE DEF Pe1Inv
      <4> QED BY <3>1, <1>11, <2>1, <2>3
  <2>6. Pe1Lists'
    <3> HIDE DEF Pe1Inv
    <3>1. \A c \in MapBuckets : linked'[c] = linked[c] /\ count'[c] = count[c]
      BY <1>11
    <3>2. Pe1Lists BY DEF Pe1Inv
    <3> QED BY <3>1, <3>2, <2>5 DEF Pe1Lists
  <2>7. Pe1Owners'
    <3>1. \A q \in Procs \ {p} : at[q] = "insert" =>
            entry1[q] \in inUse' /\ content'[entry1[q]] = content[entry1[q]]
      <4> SUFFICES ASSUME NEW q \in Procs \ {p}, at[q] = "insert"
                   PROVE  /\ entry1[q] \in inUse'
                          /\ content'[entry1[q]] = content[entry1[q]]
        OBVIOUS
      <4>1. /\ entry1[q] \in inUse /\ entry1[q] \in Objects
            /\ entry1[q] \notin linked[b]
        BY <1>3 DEF Pe1Owners, Pe1Types
      <4> HIDE DEF Pe1Inv
      <4> QED BY <4>1, <1>8, <1>11, <2>1, <2>3
    <3>2. ASSUME NEW n \in inUse'
          PROVE  \/ \E c \in MapBuckets : n \in linked[c]
                 \/ \E q \in Procs : at'[q] = "insert" /\ entry1'[q] = n
      BY <3>2, <1>1, <1>6, <1>11 DEF Pe1Owners
    <3>3. /\ \A q \in Procs : at'[q] = "insert" =>
                q # p /\ at[q] = "insert"
                /\ entry1'[q] = entry1[q] /\ key1'[q] = key1[q]
          /\ linked' = linked
      BY <1>6, <1>11
    <3> QED BY <3>1, <3>2, <3>3 DEF Pe1Owners
  <2>8. Pe1Map'
    <3>1. ASSUME NEW x \in MapKeys
          PROVE  \/ \E n \in linked[bucketOf[x]] :
                       content'[n].key = x /\ content'[n].value = map1'[x]
                 \/ map1'[x] = None
                    /\ \A n \in linked[bucketOf[x]] : content'[n].key # x
      <4>1. bucketOf[x] \in MapBuckets BY Pe1Assumption
      <4>2. CASE x = k BY <4>2, <1>1, <1>7, <2>1, <2>3
      <4>3. CASE x # k
        <5>1. \A n \in linked[bucketOf[x]] :
                content[n].key = x => n # old /\ n # new /\ n \in Objects
          BY <4>1, <4>3, <1>3, <2>1 DEF Pe1Types
        <5> QED BY <4>1, <4>3, <5>1, <1>7, <1>10, <2>3, <2>5
      <4> QED BY <4>2, <4>3
    <3> QED BY <3>1, <1>11 DEF Pe1Map
  <2> QED BY <2>4, <2>6, <2>7, <2>8, <1>7, <1>9
<1>12. ASSUME EntryOf(k) = {},
              linked' = [linked EXCEPT ![b] = @ \cup {new}],
              count' = [count EXCEPT ![b] = @ + 1],
              UNCHANGED <<inUse, content>>
       PROVE  Pe1Inv'
  <2>1. \A n \in linked[b] : content[n].key # k BY <1>1, <1>12 DEF EntryOf
  <2>2. /\ linked'[b] = linked[b] \cup {new} /\ count'[b] = count[b] + 1
        /\ \A c \in MapBuckets \ {b} : linked'[c] = linked[c] /\ count'[c] = count[c]
        /\ linked' \in [MapBuckets -> SUBSET Objects]
        /\ count' \in [MapBuckets -> Nat]
    BY <1>3, <1>4, <1>12 DEF Pe1Types
  <2>3. Pe1Types' BY <2>2, <1>2, <1>6, <1>7, <1>12 DEF Pe1Types
  <2>4. Cardinality(linked'[b]) = Cardinality(linked[b]) + 1
    <3>1. IsFiniteSet(linked[b])
      BY <1>3, Pe1Assumption, FS_Subset DEF Pe1Types
    <3> QED BY <3>1, <1>3, <2>2, FS_AddElement
  <2>5. Pe1Lists'
    <3> SUFFICES ASSUME NEW c \in MapBuckets
                 PROVE  /\ \A n \in linked'[c] :
                             n \in inUse /\ bucketOf[content[n].key] = c
                        /\ \A m, n \in linked'[c] :
                             content[m].key = content[n].key => m = n
                        /\ count'[c] = Cardinality(linked'[c])
      BY <1>12 DEF Pe1Lists
    <3>1. /\ \A n \in linked[c] : n \in inUse /\ bucketOf[content[n].key] = c
          /\ \A m, n \in linked[c] : content[m].key = content[n].key => m = n
          /\ count[c] = Cardinality(linked[c])
      BY DEF Pe1Lists
    <3> HIDE DEF Pe1Inv
    <3>2. CASE c # b BY <3>1, <3>2, <2>2
    <3>3. CASE c = b
      <4>1. linked'[c] = linked[c] \cup {new} BY <3>3, <2>2
      <4>2. count'[c] = Cardinality(linked'[c]) BY <3>1, <3>3, <2>2, <2>4
      <4> QED BY <4>1, <4>2, <3>1, <3>3, <1>1, <1>3, <2>1
    <3> QED BY <3>2, <3>3
  <2>6. Pe1Owners'
    <3>1. ASSUME NEW n \in inUse
          PROVE  \/ \E c \in MapBuckets : n \in linked'[c]
                 \/ \E q \in Procs : at'[q] = "insert" /\ entry1'[q] = n
      BY <1>1, <1>3, <1>6, <2>2 DEF Pe1Owners
    <3>2. \A q \in Procs \ {p} : at[q] = "insert" =>
            \A c \in MapBuckets : entry1[q] \notin linked'[c]
      BY <1>8, <2>2 DEF Pe1Owners
    <3> QED BY <3>1, <3>2, <1>6, <1>12 DEF Pe1Owners
  <2>7. Pe1Map'
    <3>1. ASSUME NEW x \in MapKeys
          PROVE  \/ \E n \in linked'[bucketOf[x]] :
                       content[n].key = x /\ content[n].value = map1'[x]
                 \/ map1'[x] = None
                    /\ \A n \in linked'[bucketOf[x]] : content[n].key # x
      <4>1. bucketOf[x] \in MapBuckets BY Pe1Assumption
      <4>2. CASE x = k BY <4>2, <1>1, <1>3, <1>7, <2>2
      <4>3. CASE x # k
        <5>1. /\ linked[bucketOf[x]] \subseteq linked'[bucketOf[x]]
              /\ linked'[bucketOf[x]] \subseteq linked[bucketOf[x]] \cup {new}
          BY <4>1, <2>2
        <5> QED BY <4>1, <4>3, <5>1, <1>3, <1>7, <1>10
      <4> QED BY <4>2, <4>3
    <3> QED BY <3>1, <1>12 DEF Pe1Map
  <2> QED BY <2>3, <2>5, <2>6, <2>7, <1>7, <1>9
<1> QED BY <1>2, <1>11, <1>12


LEMMA Pe1RemoveKeeps ==
  ASSUME Pe1Inv, NEW p \in Procs, NEW k \in MapKeys, pe_map1_remove(p, k)
  PROVE  Pe1Inv'
<1> USE DEF Pe1Inv
<1>1. PICK old, b : /\ b = bucketOf[k] /\ old \in EntryOf(k)
                    /\ linked' = [linked EXCEPT ![b] = @ \ {old}]
                    /\ inUse' = inUse \ {old}
                    /\ content' = [content EXCEPT ![old] = None]
                    /\ count' = [count EXCEPT ![b] = @ - 1]
  BY DEF pe_map1_remove
<1>2. /\ Remember1(k, None) /\ life = "live" /\ life' = life
      /\ at' = at /\ key1' = key1 /\ entry1' = entry1
  BY DEF pe_map1_remove, Idle, procs1
<1>3. /\ b \in MapBuckets /\ old \in linked[b] /\ content[old].key = k
      /\ old \in inUse /\ old \in Objects
  BY <1>1, Pe1Assumption DEF EntryOf, Pe1Lists, Pe1Types
<1>4. /\ Pe1Seen'
      /\ map1' \in [MapKeys -> MapValues \cup {None}]
      /\ map1'[k] = None /\ \A x \in MapKeys \ {k} : map1'[x] = map1[x]
      /\ seen1' \in [Procs -> [MapKeys -> SUBSET (MapValues \cup {None})]]
      /\ ret1' = ret1
  BY <1>2, Remember1Keeps
<1>5. /\ linked'[b] = linked[b] \ {old} /\ count'[b] = count[b] - 1
      /\ \A c \in MapBuckets \ {b} : linked'[c] = linked[c] /\ count'[c] = count[c]
      /\ linked' \in [MapBuckets -> SUBSET Objects]
  BY <1>1, <1>3 DEF Pe1Types
<1>6. /\ content'[old] = None
      /\ \A n \in Objects \ {old} : content'[n] = content[n]
      /\ content' \in [Objects -> Contents \cup {None}]
  BY <1>1, <1>3 DEF Pe1Types
<1>7. /\ Cardinality(linked[b]) \in Nat /\ Cardinality(linked'[b]) \in Nat
      /\ Cardinality(linked'[b]) = Cardinality(linked[b]) - 1
  <2>1. IsFiniteSet(linked[b]) /\ IsFiniteSet(linked'[b])
    BY <1>3, <1>5, Pe1Assumption, FS_Subset DEF Pe1Types
  <2> QED BY <2>1, <1>3, <1>5, FS_RemoveElement, FS_CardinalityType
<1>8. count'[b] = Cardinality(linked'[b])
  BY <1>3, <1>5, <1>7 DEF Pe1Lists
<1>9. count' \in [MapBuckets -> Nat]
  <2>1. \A c \in MapBuckets : count'[c] \in Nat
    BY <1>5, <1>7, <1>8 DEF Pe1Types
  <2>2. count' = [c \in MapBuckets |-> count'[c]] BY <1>1 DEF Pe1Types
  <2> QED BY <2>1, <2>2
\* old is in the one list, and is nobody's new_entry.
<1>10. /\ \A c \in MapBuckets : old \in linked[c] => c = b
       /\ \A q \in Procs : at[q] = "insert" => entry1[q] # old
  BY <1>1, <1>3 DEF Pe1Lists, Pe1Owners
<1>11. \A c \in MapBuckets : \A n \in linked'[c] :
         n \in linked[c] /\ n # old /\ n \in inUse' /\ content'[n] = content[n]
  <2> SUFFICES ASSUME NEW c \in MapBuckets, NEW n \in linked'[c]
               PROVE  /\ n \in linked[c] /\ n # old /\ n \in inUse'
                      /\ content'[n] = content[n]
    OBVIOUS
  <2>1. n \in linked[c] /\ n # old BY <1>3, <1>5, <1>10
  <2>2. n \in inUse /\ n \in Objects BY <2>1 DEF Pe1Lists, Pe1Types
  <2> QED BY <2>1, <2>2, <1>1, <1>6
<1>12. Pe1Types'
  <2>1. \A n \in Objects : content'[n] # None <=> n \in inUse'
    BY <1>1, <1>6 DEF Pe1Types
  <2>2. inUse' \in SUBSET Objects BY <1>1 DEF Pe1Types
  <2> QED BY <2>1, <2>2, <1>2, <1>4, <1>5, <1>6, <1>9 DEF Pe1Types
<1>13. Pe1Lists'
  <2>1. \A c \in MapBuckets : count'[c] = Cardinality(linked'[c])
    BY <1>5, <1>8 DEF Pe1Lists
  <2> QED BY <2>1, <1>11 DEF Pe1Lists
<1>14. Pe1Owners'
  <2>1. \A q \in Procs : at[q] = "insert" =>
          /\ entry1[q] \in inUse'
          /\ content'[entry1[q]] = content[entry1[q]]
          /\ \A c \in MapBuckets : entry1[q] \notin linked'[c]
    BY <1>1, <1>6, <1>10, <1>11 DEF Pe1Owners, Pe1Types
  <2>2. ASSUME NEW n \in inUse'
        PROVE  \/ \E c \in MapBuckets : n \in linked'[c]
               \/ \E q \in Procs : at[q] = "insert" /\ entry1[q] = n
    BY <2>2, <1>1, <1>5 DEF Pe1Owners
  <2> QED BY <2>1, <2>2, <1>2 DEF Pe1Owners
<1>15. Pe1Phase' BY <1>2 DEF Pe1Phase
<1>16. Pe1Map'
  <2>1. ASSUME NEW x \in MapKeys
        PROVE  \/ \E n \in linked'[bucketOf[x]] :
                     content'[n].key = x /\ content'[n].value = map1'[x]
               \/ map1'[x] = None
                  /\ \A n \in linked'[bucketOf[x]] : content'[n].key # x
    <3>1. bucketOf[x] \in MapBuckets BY Pe1Assumption
    <3>2. CASE x = k
      BY <3>2, <1>1, <1>3, <1>4, <1>5, <1>11 DEF Pe1Lists
    <3>3. CASE x # k
      <4>1. \/ \E n \in linked[bucketOf[x]] :
                  content[n].key = x /\ content[n].value = map1[x]
            \/ map1[x] = None
               /\ \A n \in linked[bucketOf[x]] : content[n].key # x
        BY <1>2 DEF Pe1Map
      <4>2. \A n \in linked[bucketOf[x]] :
              content[n].key = x => n \in linked'[bucketOf[x]]
        BY <3>1, <3>3, <1>3, <1>5
      <4> HIDE DEF Pe1Inv
      <4> QED BY <3>1, <3>3, <4>1, <4>2, <1>4, <1>11
    <3> QED BY <3>2, <3>3
  <2> QED BY <2>1 DEF Pe1Map
<1> QED BY <1>4, <1>12, <1>13, <1>14, <1>15, <1>16

LEMMA Pe1ReadKeeps ==
  ASSUME Pe1Inv, NEW p \in Procs, NEW k \in MapKeys, entry_read(p, k)
  PROVE  Pe1Inv'
<1> USE DEF Pe1Inv
<1>1. /\ life = "live" /\ at[p] = "idle"
      /\ at' = [at EXCEPT ![p] = "get"] /\ key1' = [key1 EXCEPT ![p] = k]
      /\ seen1' = [seen1 EXCEPT ![p][k] = {map1[k]}]
      /\ UNCHANGED <<linked, count, inUse, content, entry1, life, map1, ret1>>
  BY DEF entry_read, Idle
<1>2. /\ at'[p] = "get" /\ key1'[p] = k
      /\ \A q \in Procs \ {p} : at'[q] = at[q] /\ key1'[q] = key1[q]
      /\ at' \in [Procs -> {"idle", "insert", "get", "copy_to_user"}]
      /\ key1' \in [Procs -> MapKeys \cup {None}]
  BY <1>1 DEF Pe1Types
<1>3. /\ seen1'[p][k] = {map1[k]}
      /\ \A x \in MapKeys \ {k} : seen1'[p][x] = seen1[p][x]
      /\ \A q \in Procs \ {p} : seen1'[q] = seen1[q]
      /\ seen1' \in [Procs -> [MapKeys -> SUBSET (MapValues \cup {None})]]
  BY <1>1 DEF Pe1Types
<1>4. Pe1Types' BY <1>1, <1>2, <1>3 DEF Pe1Types
<1>5. Pe1Lists' BY <1>1 DEF Pe1Lists
<1>6. Pe1Owners' BY <1>1, <1>2 DEF Pe1Owners
<1>7. Pe1Phase' BY <1>1 DEF Pe1Phase
<1>8. Pe1Map' BY <1>1 DEF Pe1Map
<1>9. Pe1Seen' BY <1>1, <1>2, <1>3 DEF Pe1Seen
<1> QED BY <1>4, <1>5, <1>6, <1>7, <1>8, <1>9

\* What pe_map1_get finds is what the map holds.
LEMMA Pe1GetFinds ==
  ASSUME Pe1Inv, NEW p \in Procs, pe_map1_get(p)
  PROVE  \E k \in MapKeys :
           /\ k = key1[p] /\ map1[k] \in seen1[p][k]
           /\ ret1' = [ret1 EXCEPT ![p] = map1[k]]
           /\ at' = [at EXCEPT ![p] =
                       IF map1[k] = None THEN "idle" ELSE "copy_to_user"]
<1> USE DEF Pe1Inv
<1>1. PICK k \in MapKeys : k = key1[p] /\ map1[k] \in seen1[p][k]
  BY DEF pe_map1_get, Pe1Seen
<1>2. bucketOf[k] \in MapBuckets BY Pe1Assumption
<1>3. \/ \E n \in EntryOf(k) : content[n].value = map1[k]
      \/ map1[k] = None /\ EntryOf(k) = {}
  BY DEF pe_map1_get, Pe1Map, EntryOf
<1>4. \A m, n \in EntryOf(k) : m = n BY <1>2 DEF EntryOf, Pe1Lists
<1>5. EntryOf(k) # {} =>
        content[CHOOSE x \in EntryOf(k) : TRUE].value = map1[k]
  BY <1>3, <1>4
<1>6. EntryOf(k) # {} => map1[k] # None
  <2>1. \A n \in EntryOf(k) : n \in inUse BY <1>2 DEF EntryOf, Pe1Lists
  <2> QED BY <2>1, <1>3, Pe1Contents, Pe1Assumption
<1>7. /\ ret1' = [ret1 EXCEPT ![p] = IF EntryOf(k) = {} THEN None
                    ELSE content[CHOOSE x \in EntryOf(k) : TRUE].value]
      /\ at' = [at EXCEPT ![p] = IF EntryOf(k) = {} THEN "idle" ELSE "copy_to_user"]
  BY <1>1 DEF pe_map1_get
<1> QED BY <1>1, <1>3, <1>5, <1>6, <1>7

LEMMA Pe1GetKeeps ==
  ASSUME Pe1Inv, NEW p \in Procs, pe_map1_get(p)
  PROVE  Pe1Inv'
<1> USE DEF Pe1Inv
<1>1. PICK k \in MapKeys :
        /\ k = key1[p] /\ map1[k] \in seen1[p][k]
        /\ ret1' = [ret1 EXCEPT ![p] = map1[k]]
        /\ at' = [at EXCEPT ![p] =
                    IF map1[k] = None THEN "idle" ELSE "copy_to_user"]
  BY Pe1GetFinds
<1>2. /\ at[p] = "get" /\ key1' = [key1 EXCEPT ![p] = None]
      /\ seen1' = [seen1 EXCEPT ![p][k] = {}]
      /\ UNCHANGED <<linked, count, inUse, content, entry1, life, map1>>
  BY <1>1 DEF pe_map1_get
<1>3. /\ at'[p] \in {"idle", "copy_to_user"}
      /\ at'[p] = "idle" => map1[k] = None
      /\ ret1'[p] = map1[k]
      /\ \A q \in Procs \ {p} :
            at'[q] = at[q] /\ key1'[q] = key1[q] /\ ret1'[q] = ret1[q]
      /\ at' \in [Procs -> {"idle", "insert", "get", "copy_to_user"}]
      /\ key1' \in [Procs -> MapKeys \cup {None}]
      /\ ret1' \in [Procs -> MapValues \cup {None}]
  BY <1>1, <1>2 DEF Pe1Types
<1>4. /\ seen1'[p][k] = {}
      /\ \A x \in MapKeys \ {k} : seen1'[p][x] = seen1[p][x]
      /\ \A q \in Procs \ {p} : seen1'[q] = seen1[q]
      /\ seen1' \in [Procs -> [MapKeys -> SUBSET (MapValues \cup {None})]]
  BY <1>2 DEF Pe1Types
<1>5. Pe1Types' BY <1>2, <1>3, <1>4 DEF Pe1Types
<1>6. Pe1Lists' BY <1>2 DEF Pe1Lists
<1>7. Pe1Owners' BY <1>2, <1>3 DEF Pe1Owners
<1>8. Pe1Phase' BY <1>2 DEF Pe1Phase
<1>9. Pe1Map' BY <1>2 DEF Pe1Map
<1>10. Pe1Seen'
  <2>1. \A x \in MapKeys : seen1'[p][x] = {} BY <1>1, <1>4 DEF Pe1Seen
  <2> QED BY <2>1, <1>1, <1>2, <1>3, <1>4 DEF Pe1Seen
<1> QED BY <1>5, <1>6, <1>7, <1>8, <1>9, <1>10


LEMMA Pe1ReturnKeeps ==
  ASSUME Pe1Inv, NEW p \in Procs, entry_read_returns(p)
  PROVE  Pe1Inv'
<1> USE DEF Pe1Inv
<1>1. /\ at[p] = "copy_to_user" /\ at' = [at EXCEPT ![p] = "idle"]
      /\ key1' = [key1 EXCEPT ![p] = None]
      /\ entry1' = [entry1 EXCEPT ![p] = None]
      /\ ret1' = [ret1 EXCEPT ![p] = None]
      /\ UNCHANGED <<linked, count, inUse, content, life, map1, seen1>>
  BY DEF entry_read_returns, Leave
<1>2. /\ at'[p] = "idle" /\ ret1'[p] = None
      /\ \A q \in Procs \ {p} : /\ at'[q] = at[q] /\ key1'[q] = key1[q]
                                /\ entry1'[q] = entry1[q] /\ ret1'[q] = ret1[q]
      /\ at' \in [Procs -> {"idle", "insert", "get", "copy_to_user"}]
      /\ key1' \in [Procs -> MapKeys \cup {None}]
      /\ entry1' \in [Procs -> Objects \cup {None}]
      /\ ret1' \in [Procs -> MapValues \cup {None}]
  BY <1>1 DEF Pe1Types
<1>3. Pe1Types' BY <1>1, <1>2 DEF Pe1Types
<1>4. Pe1Lists' BY <1>1 DEF Pe1Lists
<1>5. Pe1Owners' BY <1>1, <1>2 DEF Pe1Owners
<1>6. Pe1Phase' BY <1>1 DEF Pe1Phase
<1>7. Pe1Map' BY <1>1 DEF Pe1Map
<1>8. Pe1Seen' BY <1>1, <1>2 DEF Pe1Seen
<1> QED BY <1>3, <1>4, <1>5, <1>6, <1>7, <1>8

LEMMA Pe1FlushKeeps ==
  ASSUME Pe1Inv, NEW b \in MapBuckets, pe_map1_flush(b)
  PROVE  Pe1Inv'
<1> USE DEF Pe1Inv
<1>1. /\ life = "exit" /\ \A p \in Procs : at[p] = "idle"
      /\ linked' = [linked EXCEPT ![b] = {}] /\ count' = [count EXCEPT ![b] = 0]
      /\ inUse' = inUse \ linked[b]
      /\ content' = [n \in Objects |-> IF n \in linked[b] THEN None ELSE content[n]]
      /\ map1' = [k \in MapKeys |-> None]
      /\ UNCHANGED <<at, key1, entry1, life, seen1, ret1>>
  BY DEF pe_map1_flush, procs1
<1>2. /\ linked'[b] = {} /\ count'[b] = 0
      /\ \A c \in MapBuckets \ {b} : linked'[c] = linked[c] /\ count'[c] = count[c]
      /\ linked' \in [MapBuckets -> SUBSET Objects]
      /\ count' \in [MapBuckets -> Nat]
  BY <1>1 DEF Pe1Types
\* An object is in one list only.
<1>3. \A c \in MapBuckets \ {b} : \A n \in linked[c] :
        n \in inUse' /\ content'[n] = content[n]
  <2> SUFFICES ASSUME NEW c \in MapBuckets \ {b}, NEW n \in linked[c]
               PROVE  n \in inUse' /\ content'[n] = content[n]
    OBVIOUS
  <2>1. n \in inUse /\ n \in Objects /\ n \notin linked[b]
    BY DEF Pe1Lists, Pe1Types
  <2> QED BY <2>1, <1>1
<1>4. Pe1Types'
  <2>1. content' \in [Objects -> Contents \cup {None}] BY <1>1 DEF Pe1Types
  <2>2. \A n \in Objects : content'[n] # None <=> n \in inUse'
    BY <1>1 DEF Pe1Types
  <2>3. inUse' \in SUBSET Objects BY <1>1 DEF Pe1Types
  <2>4. map1' \in [MapKeys -> MapValues \cup {None}] BY <1>1
  <2> QED BY <2>1, <2>2, <2>3, <2>4, <1>1, <1>2 DEF Pe1Types
<1>5. Pe1Lists'
  <2>1. \A c \in MapBuckets : count'[c] = Cardinality(linked'[c])
    BY <1>2, FS_EmptySet DEF Pe1Lists
  <2>2. \A c \in MapBuckets : \A n \in linked'[c] : c # b /\ n \in linked[c]
    BY <1>2
  <2> QED BY <2>1, <2>2, <1>3 DEF Pe1Lists
<1>6. Pe1Owners'
  <2>1. \A n \in inUse' : \E c \in MapBuckets : n \in linked'[c]
    BY <1>1, <1>2 DEF Pe1Owners
  <2> QED BY <2>1, <1>1 DEF Pe1Owners
<1>7. Pe1Phase' BY <1>1 DEF Pe1Phase
<1>8. Pe1Map' BY <1>1 DEF Pe1Map
<1>9. Pe1Seen' BY <1>1 DEF Pe1Seen
<1> QED BY <1>4, <1>5, <1>6, <1>7, <1>8, <1>9

LEMMA Pe1Keeps == Spec => []Pe1Inv
<1>1. Pe1Inv /\ [Pe1Next]_pe1Vars => Pe1Inv'
  <2> SUFFICES ASSUME Pe1Inv, [Pe1Next]_pe1Vars PROVE Pe1Inv' OBVIOUS
  <2> USE DEF Pe1Inv
  <2>1. CASE proc_entry1_exit
    <3>1. /\ life = "live" /\ life' = "exit"
          /\ UNCHANGED <<linked, count, inUse, content, at, key1, entry1,
                         map1, seen1, ret1>>
      BY <2>1 DEF proc_entry1_exit, procs1, hist1
    <3>2. Pe1Types' BY <3>1 DEF Pe1Types
    <3>3. Pe1Lists' BY <3>1 DEF Pe1Lists
    <3>4. Pe1Owners' BY <3>1 DEF Pe1Owners
    <3>5. Pe1Phase' BY <3>1 DEF Pe1Phase
    <3>6. Pe1Map' BY <3>1 DEF Pe1Map
    <3>7. Pe1Seen' BY <3>1 DEF Pe1Seen
    <3> QED BY <3>2, <3>3, <3>4, <3>5, <3>6, <3>7
  <2>2. CASE pe_map1_destroy
    <3>1. /\ life = "exit" /\ life' = "gone"
          /\ \A p \in Procs : at[p] = "idle"
          /\ \A b \in MapBuckets : count[b] = 0
          /\ UNCHANGED <<linked, count, inUse, content, at, key1, entry1,
                         map1, seen1, ret1>>
      BY <2>2 DEF pe_map1_destroy, procs1, hist1
    <3>2. Pe1Types' BY <3>1 DEF Pe1Types
    <3>3. Pe1Lists' BY <3>1 DEF Pe1Lists
    <3>4. Pe1Owners' BY <3>1 DEF Pe1Owners
    <3>5. Pe1Phase' BY <3>1 DEF Pe1Phase
    <3>6. Pe1Map' BY <3>1 DEF Pe1Map
    <3>7. Pe1Seen' BY <3>1 DEF Pe1Seen
    <3> QED BY <3>2, <3>3, <3>4, <3>5, <3>6, <3>7
  <2>3. CASE UNCHANGED pe1Vars
    <3>1. UNCHANGED <<linked, count, inUse, content, at, key1, entry1, life,
                      map1, seen1, ret1>>
      BY <2>3 DEF pe1Vars, procs1, hist1
    <3>2. Pe1Types' BY <3>1 DEF Pe1Types
    <3>3. Pe1Lists' BY <3>1 DEF Pe1Lists
    <3>4. Pe1Owners' BY <3>1 DEF Pe1Owners
    <3>5. Pe1Phase' BY <3>1 DEF Pe1Phase
    <3>6. Pe1Map' BY <3>1 DEF Pe1Map
    <3>7. Pe1Seen' BY <3>1 DEF Pe1Seen
    <3> QED BY <3>2, <3>3, <3>4, <3>5, <3>6, <3>7
  <2> HIDE DEF Pe1Inv
  <2> QED BY <2>1, <2>2, <2>3, Pe1AllocKeeps, Pe1InsertKeeps, Pe1RemoveKeeps,
             Pe1ReadKeeps, Pe1GetKeeps, Pe1ReturnKeeps, Pe1FlushKeeps
          DEF Pe1Next
<1> QED BY <1>1, Pe1InitKeeps, Parts, PTL

LEMMA Pe1InvAccounts == Pe1Inv => CacheExact
<1> SUFFICES ASSUME Pe1Inv PROVE CacheExact OBVIOUS
<1> USE DEF Pe1Inv
<1>1. Pe1TypeOK
  <2>1. \A n \in Objects : (content[n] # None) = (n \in inUse)
    BY DEF Pe1Types
  <2> QED BY <2>1 DEF Pe1TypeOK, Pe1Types, Pe1Owners
<1>2. inUse = (UNION {linked[b] : b \in MapBuckets})
               \cup {entry1[p] : p \in {q \in Procs : at[q] = "insert"}}
  <2> DEFINE Linked == UNION {linked[b] : b \in MapBuckets}
             Fresh == {entry1[p] : p \in {q \in Procs : at[q] = "insert"}}
  <2>1. \A n : n \in Linked <=> \E b \in MapBuckets : n \in linked[b]
    OBVIOUS
  <2>2. \A n : n \in Fresh <=> \E p \in Procs : at[p] = "insert" /\ entry1[p] = n
    OBVIOUS
  <2>3. Linked \subseteq inUse BY <2>1 DEF Pe1Lists
  <2>4. Fresh \subseteq inUse BY <2>2 DEF Pe1Owners
  <2>5. \A n \in inUse : n \in Linked \/ n \in Fresh BY <2>1, <2>2 DEF Pe1Owners
  <2> HIDE DEF Pe1Inv, Linked, Fresh
  <2>6. inUse = Linked \cup Fresh BY <2>3, <2>4, <2>5
  <2> QED BY <2>6 DEF Linked, Fresh
<1>3. CacheAccounted BY <1>2 DEF CacheAccounted, Pe1Lists
<1>4. CacheEmptyWhenGone
  <2> SUFFICES ASSUME life = "gone" PROVE inUse = {} BY DEF CacheEmptyWhenGone
  <2>1. ASSUME NEW b \in MapBuckets PROVE linked[b] = {}
    <3>1. IsFiniteSet(linked[b]) BY Pe1Assumption, FS_Subset DEF Pe1Types
    <3>2. Cardinality(linked[b]) = 0 BY DEF Pe1Lists, Pe1Phase
    <3> QED BY <3>1, <3>2, FS_EmptySet
  <2>2. \A p \in Procs : at[p] = "idle" BY DEF Pe1Phase
  <2> QED BY <2>1, <2>2 DEF Pe1Owners
<1> QED BY <1>1, <1>3, <1>4 DEF CacheExact

(***************************************************************************)
(* insert, remove and get of proc_entry_hashmap1 act at one moment each,   *)
(* under the bucket's spinlock: a get returns what its key had then, and   *)
(* the entry an insert allocated before it had the lock makes no           *)
(* difference.                                                             *)
(***************************************************************************)
THEOREM ImplementsLockedMap == Spec => LockedMapSpec
<1>1. Pe1Init => LockedMap!Init BY DEF Pe1Init, LockedMap!Init
<1>2. Pe1Inv /\ [Pe1Next]_pe1Vars => [LockedMap!Next]_(LockedMap!vars)
  <2> SUFFICES ASSUME Pe1Inv, [Pe1Next]_pe1Vars
               PROVE  LockedMap!Next \/ UNCHANGED <<map1, seen1, ret1>>
    BY DEF LockedMap!vars
  <2> USE DEF Pe1Inv
  <2>1. ASSUME NEW k \in MapKeys, NEW v \in MapValues \cup {None}, Remember1(k, v)
        PROVE  LockedMap!Next
    <3>1. LockedMap!Put(k, v) BY <2>1 DEF Remember1, LockedMap!Put
    <3> QED BY <3>1 DEF LockedMap!Next
  <2>2. ASSUME NEW p \in Procs, pe_map1_insert(p) PROVE LockedMap!Next
    <3>1. at[p] = "insert" /\ Remember1(key1[p], content[entry1[p]].value)
      BY <2>2 DEF pe_map1_insert
    <3>2. key1[p] \in MapKeys /\ entry1[p] \in inUse BY <3>1 DEF Pe1Owners
    <3>3. content[entry1[p]].value \in MapValues BY <3>2, Pe1Contents
    <3> HIDE DEF Pe1Inv
    <3> QED BY <3>1, <3>2, <3>3, <2>1
  <2>3. ASSUME NEW p \in Procs, NEW k \in MapKeys, pe_map1_remove(p, k)
        PROVE  LockedMap!Next
    BY <2>1, <2>3 DEF pe_map1_remove
  <2>4. ASSUME NEW p \in Procs, NEW k \in MapKeys, entry_read(p, k)
        PROVE  LockedMap!Next
    <3>1. \A x \in MapKeys : seen1[p][x] = {} BY <2>4 DEF entry_read, Idle, Pe1Seen
    <3>2. LockedMap!Call(p, k) BY <2>4, <3>1 DEF entry_read, LockedMap!Call
    <3> QED BY <3>2 DEF LockedMap!Next
  <2>5. ASSUME NEW p \in Procs, pe_map1_get(p) PROVE LockedMap!Next
    <3>1. PICK k \in MapKeys : /\ k = key1[p] /\ map1[k] \in seen1[p][k]
                               /\ ret1' = [ret1 EXCEPT ![p] = map1[k]]
      BY <2>5, Pe1GetFinds
    <3>2. LockedMap!Found(p, k, map1[k])
      BY <2>5, <3>1 DEF pe_map1_get, LockedMap!Found
    <3>3. map1[k] \in MapValues \cup {None} BY DEF Pe1Types
    <3> QED BY <3>2, <3>3 DEF LockedMap!Next
  <2>6. ASSUME NEW p \in Procs, entry_read_returns(p) PROVE LockedMap!Next
    <3>1. LockedMap!Return(p)
      BY <2>6 DEF entry_read_returns, LockedMap!Return
    <3> QED BY <3>1 DEF LockedMap!Next
  <2>7. ASSUME NEW b \in MapBuckets, pe_map1_flush(b) PROVE LockedMap!Next
    <3>1. \A p \in Procs, k \in MapKeys : seen1[p][k] = {}
      BY <2>7 DEF pe_map1_flush, Pe1Seen
    <3>2. LockedMap!Destroy BY <2>7, <3>1 DEF pe_map1_flush, LockedMap!Destroy
    <3> QED BY <3>2 DEF LockedMap!Next
  <2>8. ASSUME NEW p \in Procs, NEW k \in MapKeys, NEW v \in MapValues,
               pe_map1_alloc(p, k, v)
        PROVE  UNCHANGED <<map1, seen1, ret1>>
    BY <2>8 DEF pe_map1_alloc, hist1
  <2>9. CASE proc_entry1_exit \/ pe_map1_destroy
    BY <2>9 DEF proc_entry1_exit, pe_map1_destroy, hist1
  <2>10. CASE UNCHANGED pe1Vars BY <2>10 DEF pe1Vars, hist1
  <2> HIDE DEF Pe1Inv
  <2> QED BY <2>2, <2>3, <2>4, <2>5, <2>6, <2>7, <2>8, <2>9, <2>10 DEF Pe1Next
<1> QED BY <1>1, <1>2, Pe1Keeps, Parts, PTL DEF LockedMapSpec, LockedMap!Spec


-----------------------------------------------------------------------------
(* example/main1.cpp *)

Pairs == [key : WorkerKeys, value : WorkerValues]

WTypes ==
    /\ WorkersTypeOK
    /\ wmap \in [WorkerKeys -> WorkerValues \cup {Nil}]
    /\ wseen \in [Workers -> [WorkerKeys -> SUBSET (WorkerValues \cup {Nil})]]
    /\ wparam \in [Workers -> Pairs \cup {Nil}]
    /\ clean \in [Workers -> BOOLEAN]
    /\ \A w \in Workers : wstep[w] \in {"read", "get", "remove"} => wparam[w] # Nil
    /\ program = "none" => errors = {} /\ \A w \in Workers : wstep[w] = "none"

\* The key of worker w is in the map, and a get of w that runs can only find
\* it there.
Finds(w) ==
    /\ wstep[w] \in {"read", "get", "remove"} => wmap[wparam[w].key] # Nil
    /\ wstep[w] = "get" => Nil \notin wseen[w][wparam[w].key]

\* A worker finds its key while nobody else changed it, and in hashmap1's
\* program, where nobody removes, in any case, if its insert did not fail.
WFinds ==
    /\ \A w \in Workers : clean[w] => Finds(w)
    /\ program = "hashmap1" => \A w \in Workers : wstep[w] # "remove"
    /\ program = "hashmap1" /\ "insert" \notin errors => \A w \in Workers : Finds(w)

WErrors == ErrorsOnlyFromCollisions /\ NothingLostWithoutRemove

WInv == WTypes /\ WFinds /\ WErrors

\* What a Put of another worker or of another key leaves alone.
LEMMA PutChanges ==
  ASSUME WInv, NEW k \in WorkerKeys, NEW v \in WorkerValues \cup {Nil}, PM!Put(k, v)
  PROVE  /\ wmap' \in [WorkerKeys -> WorkerValues \cup {Nil}]
         /\ wseen' \in [Workers -> [WorkerKeys -> SUBSET (WorkerValues \cup {Nil})]]
         /\ wmap'[k] = v /\ \A x \in WorkerKeys \ {k} : wmap'[x] = wmap[x]
         /\ \A u \in Workers : \A x \in WorkerKeys :
               /\ x # k => wseen'[u][x] = wseen[u][x]
               /\ wseen'[u][x] \subseteq wseen[u][x] \cup {v}
         /\ wret' = wret
BY DEF WInv, WTypes, PM!Put

LEMMA TouchChanges ==
  ASSUME WInv, NEW w \in Workers, NEW k \in WorkerKeys
  PROVE  /\ Touch(w, k) \in [Workers -> BOOLEAN]
         /\ Touch(w, k)[w] = clean[w]
         /\ \A u \in Workers \ {w} : Touch(w, k)[u] =>
               clean[u] /\ (wparam[u] # Nil => wparam[u].key # k)
BY DEF Touch, WInv, WTypes

LEMMA WInsertKeeps ==
  ASSUME WInv, NEW w \in Workers, NEW k \in WorkerKeys, NEW v \in WorkerValues,
         worker_insert(w, k, v)
  PROVE  WInv'
<1> USE DEF WInv
<1>1. /\ wstep[w] = "insert" /\ running[w]
      /\ wparam' = [wparam EXCEPT ![w] = [key |-> k, value |-> v]]
      /\ wstep' = [wstep EXCEPT ![w] = "read"] /\ program' = program
  BY DEF worker_insert
<1>2. /\ wparam' \in [Workers -> Pairs \cup {Nil}]
      /\ wparam'[w] # Nil /\ wparam'[w].key = k
      /\ \A u \in Workers \ {w} : wparam'[u] = wparam[u] /\ wstep'[u] = wstep[u]
      /\ wstep'[w] = "read"
      /\ wstep' \in [Workers -> {"none", "insert", "read", "get", "remove", "join", "done"}]
  BY <1>1, WorkersAssumption DEF WTypes, WorkersTypeOK, Pairs
<1>3. \A u \in Workers : wstep[u] \in {"read", "get", "remove"} =>
        wparam[u].key \in WorkerKeys
  BY DEF WTypes, Pairs
<1>4. CASE PM!Put(k, v) /\ clean' = [Touch(w, k) EXCEPT ![w] = TRUE]
           /\ UNCHANGED <<running, errors>>
  <2>1. /\ wmap' \in [WorkerKeys -> WorkerValues \cup {Nil}]
        /\ wseen' \in [Workers -> [WorkerKeys -> SUBSET (WorkerValues \cup {Nil})]]
        /\ wmap'[k] = v /\ \A x \in WorkerKeys \ {k} : wmap'[x] = wmap[x]
        /\ \A u \in Workers : \A x \in WorkerKeys :
              /\ x # k => wseen'[u][x] = wseen[u][x]
              /\ wseen'[u][x] \subseteq wseen[u][x] \cup {v}
    BY <1>4, PutChanges
  <2>2. /\ clean' \in [Workers -> BOOLEAN]
        /\ \A u \in Workers \ {w} : clean'[u] => clean[u]
    BY <1>4, TouchChanges
  <2>3. v # Nil BY WorkersAssumption
  <2>4. \A u \in Workers \ {w} : Finds(u) => Finds(u)'
    BY <1>2, <1>3, <2>1, <2>3 DEF Finds
  <2>5. Finds(w)' BY <1>2, <2>1, <2>3 DEF Finds
  <2>6. WTypes'
    <3>1. program # "none" BY <1>1 DEF WTypes
    <3> QED BY <3>1, <1>1, <1>2, <1>4, <2>1, <2>2 DEF WTypes, WorkersTypeOK
  <2>7. WFinds' BY <1>1, <1>2, <1>4, <2>2, <2>4, <2>5 DEF WFinds
  <2>8. WErrors'
    BY <1>1, <1>4 DEF WErrors, ErrorsOnlyFromCollisions, NothingLostWithoutRemove
  <2> QED BY <2>6, <2>7, <2>8
<1>5. CASE /\ running' = [running EXCEPT ![w] = FALSE]
           /\ errors' = errors \cup {"insert"}
           /\ clean' = [clean EXCEPT ![w] = FALSE] /\ UNCHANGED mapVars
  <2>1. wmap' = wmap /\ wseen' = wseen BY <1>5 DEF mapVars
  <2>2. /\ clean' \in [Workers -> BOOLEAN] /\ ~ clean'[w]
        /\ \A u \in Workers \ {w} : clean'[u] = clean[u]
    BY <1>5 DEF WTypes
  <2>3. \A u \in Workers \ {w} : Finds(u) => Finds(u)' BY <1>2, <2>1 DEF Finds
  <2>4. program # "none" BY <1>1 DEF WTypes
  <2>5. WTypes' BY <1>1, <1>2, <1>5, <2>1, <2>2, <2>4 DEF WTypes, WorkersTypeOK
  <2>6. WFinds' BY <1>1, <1>2, <1>5, <2>2, <2>3 DEF WFinds
  <2>7. WErrors'
    BY <1>1, <1>5 DEF WErrors, ErrorsOnlyFromCollisions, NothingLostWithoutRemove
  <2> QED BY <2>5, <2>6, <2>7
<1> QED BY <1>4, <1>5 DEF worker_insert


LEMMA WReadKeeps ==
  ASSUME WInv, NEW w \in Workers, worker_read(w)
  PROVE  WInv'
<1> USE DEF WInv
<1>1. PICK k : k = wparam[w].key OBVIOUS
<1>2. /\ wstep[w] = "read" /\ PM!Call(w, k) /\ wstep' = [wstep EXCEPT ![w] = "get"]
      /\ UNCHANGED <<program, wparam, running, clean, errors>>
  BY <1>1 DEF worker_read
<1>3. k \in WorkerKeys BY <1>1, <1>2 DEF WTypes, Pairs
<1>4. /\ wmap' = wmap /\ wseen'[w][k] = {wmap[k]}
      /\ \A u \in Workers \ {w} : wseen'[u] = wseen[u]
      /\ wseen' \in [Workers -> [WorkerKeys -> SUBSET (WorkerValues \cup {Nil})]]
  BY <1>2, <1>3 DEF WTypes, PM!Call
<1>5. /\ wstep'[w] = "get" /\ \A u \in Workers \ {w} : wstep'[u] = wstep[u]
      /\ wstep' \in [Workers -> {"none", "insert", "read", "get", "remove", "join", "done"}]
  BY <1>2 DEF WTypes, WorkersTypeOK
<1>6. \A u \in Workers : Finds(u) => Finds(u)'
  <2>1. Finds(w) => Finds(w)' BY <1>1, <1>2, <1>4, <1>5 DEF Finds
  <2>2. \A u \in Workers \ {w} : Finds(u) => Finds(u)'
    BY <1>2, <1>4, <1>5 DEF Finds
  <2> QED BY <2>1, <2>2
<1>7. WTypes' BY <1>2, <1>4, <1>5 DEF WTypes, WorkersTypeOK
<1>8. WFinds' BY <1>2, <1>5, <1>6 DEF WFinds
<1>9. WErrors'
  BY <1>2 DEF WErrors, ErrorsOnlyFromCollisions, NothingLostWithoutRemove
<1> QED BY <1>7, <1>8, <1>9

LEMMA WGetKeeps ==
  ASSUME WInv, NEW w \in Workers, worker_get(w)
  PROVE  WInv'
<1> USE DEF WInv
<1>1. PICK k, v : /\ k = wparam[w].key
                  /\ v \in WorkerValues \cup {Nil} /\ PM!Found(w, k, v)
                  /\ errors' = errors \cup
                        (IF v = Nil
                         THEN {IF clean[w] THEN "get" ELSE "collision"} ELSE {})
  BY DEF worker_get
<1>2. /\ wstep[w] = "get" /\ wstep' = [wstep EXCEPT ![w] = NextStep]
      /\ UNCHANGED <<program, wparam, running, clean>>
  BY DEF worker_get
<1>3. k \in WorkerKeys BY <1>1, <1>2 DEF WTypes, Pairs
<1>4. /\ wmap' = wmap /\ v \in wseen[w][k]
      /\ \A u \in Workers \ {w} : wseen'[u] = wseen[u]
      /\ wseen' \in [Workers -> [WorkerKeys -> SUBSET (WorkerValues \cup {Nil})]]
  BY <1>1, <1>3 DEF WTypes, PM!Found
<1>5. /\ wstep'[w] \in {"insert", "remove"}
      /\ program = "hashmap1" => wstep'[w] = "insert"
      /\ \A u \in Workers \ {w} : wstep'[u] = wstep[u]
      /\ wstep' \in [Workers -> {"none", "insert", "read", "get", "remove", "join", "done"}]
      /\ program # "none"
  BY <1>2 DEF WTypes, WorkersTypeOK, NextStep
<1>6. \A u \in Workers : Finds(u) => Finds(u)'
  <2>1. Finds(w) => Finds(w)' BY <1>1, <1>2, <1>4, <1>5 DEF Finds
  <2>2. \A u \in Workers \ {w} : Finds(u) => Finds(u)'
    BY <1>2, <1>4, <1>5 DEF Finds
  <2> QED BY <2>1, <2>2
\* Whom a message surprises is not the only one to have changed its key.
<1>7. Finds(w) => errors' = errors BY <1>1, <1>2, <1>4 DEF Finds
<1>8. /\ errors' \subseteq errors \cup {"collision"} /\ errors \subseteq errors'
  <2>1. CASE clean[w] BY <2>1, <1>7 DEF WFinds
  <2>2. CASE ~ clean[w] BY <2>2, <1>1
  <2> QED BY <2>1, <2>2
<1>9. WTypes' BY <1>2, <1>4, <1>5, <1>8 DEF WTypes, WorkersTypeOK
<1>10. WFinds' BY <1>2, <1>5, <1>6, <1>8 DEF WFinds
<1>11. WErrors'
  <2>1. ErrorsOnlyFromCollisions' BY <1>8 DEF WErrors, ErrorsOnlyFromCollisions
  <2>2. NothingLostWithoutRemove'
    BY <1>2, <1>7, <1>8 DEF WErrors, WFinds, NothingLostWithoutRemove
  <2> QED BY <2>1, <2>2 DEF WErrors
<1> QED BY <1>9, <1>10, <1>11

LEMMA WRemoveKeeps ==
  ASSUME WInv, NEW w \in Workers, worker_remove(w)
  PROVE  WInv'
<1> USE DEF WInv
<1>1. PICK k : k = wparam[w].key OBVIOUS
<1>2. /\ wstep[w] = "remove" /\ wstep' = [wstep EXCEPT ![w] = "insert"]
      /\ UNCHANGED <<program, wparam, running>>
  BY DEF worker_remove
<1>3. k \in WorkerKeys /\ program # "hashmap1" /\ program # "none"
  BY <1>1, <1>2 DEF WTypes, Pairs, WFinds
<1>4. /\ wstep'[w] = "insert" /\ \A u \in Workers \ {w} : wstep'[u] = wstep[u]
      /\ wstep' \in [Workers -> {"none", "insert", "read", "get", "remove", "join", "done"}]
  BY <1>2 DEF WTypes, WorkersTypeOK
<1>5. Finds(w)' BY <1>4 DEF Finds
<1>6. CASE wmap[k] # Nil
  <2>1. PM!Put(k, Nil) /\ clean' = Touch(w, k) /\ errors' = errors
    BY <1>1, <1>6 DEF worker_remove
  <2>2. /\ wmap' \in [WorkerKeys -> WorkerValues \cup {Nil}]
        /\ wseen' \in [Workers -> [WorkerKeys -> SUBSET (WorkerValues \cup {Nil})]]
        /\ wmap'[k] = Nil /\ \A x \in WorkerKeys \ {k} : wmap'[x] = wmap[x]
        /\ \A u \in Workers : \A x \in WorkerKeys :
              x # k => wseen'[u][x] = wseen[u][x]
    BY <2>1, <1>3, PutChanges
  <2>3. /\ clean' \in [Workers -> BOOLEAN]
        /\ \A u \in Workers \ {w} : clean'[u] =>
              clean[u] /\ (wparam[u] # Nil => wparam[u].key # k)
    BY <2>1, <1>3, TouchChanges
  <2>4. ASSUME NEW u \in Workers \ {w}, clean'[u] PROVE Finds(u)'
    <3>1. wstep[u] \in {"read", "get", "remove"} =>
            wparam[u].key \in WorkerKeys \ {k}
      BY <2>3, <2>4 DEF WTypes, Pairs
    <3>2. Finds(u) BY <2>3, <2>4 DEF WFinds
    <3> QED BY <3>1, <3>2, <1>2, <1>4, <2>2 DEF Finds
  <2>5. WTypes' BY <1>2, <1>3, <1>4, <2>1, <2>2, <2>3 DEF WTypes, WorkersTypeOK
  <2>6. WFinds' BY <1>2, <1>3, <1>5, <2>4 DEF WFinds
  <2>7. WErrors'
    BY <1>2, <2>1 DEF WErrors, ErrorsOnlyFromCollisions, NothingLostWithoutRemove
  <2> QED BY <2>5, <2>6, <2>7
<1>7. CASE wmap[k] = Nil
  <2>1. /\ errors' = errors \cup {IF clean[w] THEN "remove" ELSE "collision"}
        /\ wmap' = wmap /\ wseen' = wseen /\ clean' = clean
    BY <1>1, <1>7 DEF worker_remove, mapVars
  <2>2. ~ clean[w] BY <1>1, <1>2, <1>7 DEF WFinds, Finds
  <2>3. errors' = errors \cup {"collision"} BY <2>1, <2>2
  <2>4. \A u \in Workers \ {w} : Finds(u) => Finds(u)'
    BY <1>2, <1>4, <2>1 DEF Finds
  <2>5. WTypes' BY <1>2, <1>3, <1>4, <2>1, <2>3 DEF WTypes, WorkersTypeOK
  <2>6. WFinds' BY <1>2, <1>3, <1>5, <2>1, <2>4 DEF WFinds
  <2>7. WErrors'
    BY <1>2, <1>3, <2>3 DEF WErrors, ErrorsOnlyFromCollisions, NothingLostWithoutRemove
  <2> QED BY <2>5, <2>6, <2>7
<1> QED BY <1>6, <1>7

LEMMA WKeeps == Spec => []WInv
<1>1. WorkersInit => WInv
  <2> SUFFICES ASSUME WorkersInit PROVE WInv OBVIOUS
  <2>1. WTypes
    BY WorkersAssumption DEF WorkersInit, PM!Init, WTypes, WorkersTypeOK
  <2>2. WFinds BY DEF WorkersInit, WFinds, Finds
  <2>3. WErrors
    BY DEF WorkersInit, WErrors, ErrorsOnlyFromCollisions, NothingLostWithoutRemove
  <2> QED BY <2>1, <2>2, <2>3 DEF WInv
<1>2. WInv /\ [WorkersNext]_workerVars => WInv'
  <2> SUFFICES ASSUME WInv, [WorkersNext]_workerVars PROVE WInv' OBVIOUS
  <2> USE DEF WInv
  <2>1. CASE start_workers
    <3>1. /\ program = "none" /\ program' \in {"hashmap1", "hashmap2"}
          /\ wstep' = [w \in Workers |-> "insert"]
          /\ running' = [w \in Workers |-> TRUE]
          /\ UNCHANGED <<wmap, wseen, wret, wparam, clean, errors>>
      BY <2>1 DEF start_workers, main_hashmap1, main_hashmap2, mapVars
    <3>2. WTypes' BY <3>1 DEF WTypes, WorkersTypeOK
    <3>3. WFinds' BY <3>1 DEF WFinds, Finds
    <3>4. WErrors'
      BY <3>1 DEF WTypes, WErrors, ErrorsOnlyFromCollisions, NothingLostWithoutRemove
    <3> QED BY <3>2, <3>3, <3>4
  <2>2. ASSUME NEW w \in Workers, worker_stop(w) \/ worker_done(w) PROVE WInv'
    <3>1. /\ UNCHANGED <<wmap, wseen, program, wparam, clean, errors>>
          /\ \/ running' = [running EXCEPT ![w] = FALSE] /\ wstep' = wstep
             \/ wstep' = [wstep EXCEPT ![w] = "done"] /\ running' = running
          /\ running'[w] = FALSE /\ program # "none"
      BY <2>2 DEF worker_stop, worker_done, mapVars, WTypes, WorkersTypeOK
    <3>2. /\ running' \in [Workers -> BOOLEAN]
          /\ \A u \in Workers \ {w} : running'[u] = running[u] /\ wstep'[u] = wstep[u]
          /\ wstep'[w] \in {wstep[w], "done"}
          /\ wstep' \in [Workers -> {"none", "insert", "read", "get", "remove", "join", "done"}]
      BY <3>1 DEF WTypes, WorkersTypeOK
    <3>3. \A u \in Workers : Finds(u) => Finds(u)' BY <3>1, <3>2 DEF Finds
    <3>4. WTypes' BY <3>1, <3>2 DEF WTypes, WorkersTypeOK
    <3>5. WFinds' BY <3>1, <3>2, <3>3 DEF WFinds
    <3>6. WErrors'
      BY <3>1 DEF WErrors, ErrorsOnlyFromCollisions, NothingLostWithoutRemove
    <3> QED BY <3>4, <3>5, <3>6
  <2>3. CASE UNCHANGED workerVars
    <3>1. UNCHANGED <<wmap, wseen, program, wstep, wparam, running, clean, errors>>
      BY <2>3 DEF workerVars, mapVars
    <3>2. WTypes' BY <3>1 DEF WTypes, WorkersTypeOK
    <3>3. WFinds' BY <3>1 DEF WFinds, Finds
    <3>4. WErrors'
      BY <3>1 DEF WErrors, ErrorsOnlyFromCollisions, NothingLostWithoutRemove
    <3> QED BY <3>2, <3>3, <3>4
  <2> HIDE DEF WInv
  <2> QED BY <2>1, <2>2, <2>3, WInsertKeeps, WReadKeeps, WGetKeeps, WRemoveKeeps
          DEF WorkersNext
<1> QED BY <1>1, <1>2, Parts, PTL

(***************************************************************************)
(* The locked map's cache holds what is in its lists and what an insert    *)
(* has allocated before it got the lock, every list has one entry per key  *)
(* and counts them, and nothing is left when the module goes; and the test *)
(* programs report an error only after a failed insert or for a key that   *)
(* another worker changed meanwhile, for any number of processes, workers, *)
(* keys, values and buckets.                                               *)
(***************************************************************************)
THEOREM HashmapIsSound == Spec => []HashmapSound
<1>1. Pe1Inv /\ WInv => HashmapSound
  BY Pe1InvAccounts DEF HashmapSound, ErrorsExplained, WInv, WTypes, WErrors
<1> QED BY <1>1, Pe1Keeps, WKeeps, PTL


-----------------------------------------------------------------------------
(* tcp_trace *)

TraceTypes ==
    /\ param \in Params \cup {NULL} /\ called \subseteq Kretprobes
    /\ ctx \in [Fns -> [Instances -> Socks \cup {NULL}]]
    /\ stack \in [Tasks -> Seq(Frames)]
    /\ \A t \in Tasks : Len(stack[t]) <= MaxDepth
    /\ freed \subseteq Socks

\* sk is one insmod was asked for.
Asked(sk) ==
    /\ param.local_port \in 1 .. U16 - 1 => sk.num = param.local_port
    /\ param.remote_port \in 1 .. U16 - 1 => sk.dport = param.remote_port
    /\ sk.family = "inet6" => param.enable_ipv6

\* Nothing is kept or displayed before the parameters are known.
TraceStarts ==
    param = NULL => /\ shown = Nothing
                    /\ \A f \in Fns : \A i \in Instances : ctx[f][i] = NULL
                    /\ \A t \in Tasks : stack[t] = << >>

(***************************************************************************)
(* An instance in use holds the socket its call was entered with, or none; *)
(* that socket exists, unless the call is tcp_close; and one that is held  *)
(* passed the filter.                                                      *)
(***************************************************************************)
TraceCalls ==
    /\ \A t \in Tasks : \A j \in 1 .. Len(stack[t]) :
          /\ stack[t][j].ri # 0 =>
                ctx[stack[t][j].fn][stack[t][j].ri] \in {stack[t][j].sk, NULL}
          /\ stack[t][j].fn # "tcp_close" => stack[t][j].sk \notin freed
    /\ \A f \in Fns : \A i \in Instances : ctx[f][i] # NULL => Asked(ctx[f][i])

ShownRight ==
    /\ shown.sk \in Socks \cup {NULL, Garbage}
    /\ NoFreedSockRead /\ ShownPassesFilter /\ GarbageOnlyFromTimers

TraceInv == TraceTypes /\ TraceStarts /\ TraceCalls /\ ShownRight

\* A port that fits a u16 filters for itself.
LEMMA PortFilters == \A port \in 1 .. U16 - 1 : port % U16 = port /\ port # 0
<1>1. U16 \in Nat BY DEF U16
<1> QED BY <1>1

\* What a handler that filters a live socket displays.
LEMMA FilterShows ==
  ASSUME NEW fn, NEW level, NEW sk \in Live \cup {NULL},
         shown' = sock_filter_and_display(fn, sk, level), freed' = freed,
         param' = param
  PROVE  ShownRight' /\ (sock_filter(sk, level) => Asked(sk))
<1>1. sk \in Live => sk \in Socks /\ sk \notin freed /\ sk # NULL /\ sk # Garbage
  BY TraceAssumption DEF Live
<1>2. /\ Nothing.sk = NULL /\ Nothing.how = "none"
      /\ Display(fn, sk, "sock").sk = sk
  BY DEF Nothing, Display
<1>3. sock_filter(sk, level) => Asked(sk)
  <2> SUFFICES ASSUME sock_filter(sk, level) PROVE Asked(sk) OBVIOUS
  <2>1. /\ (param.local_port % U16) \in {0, sk.num}
        /\ (param.remote_port % U16) \in {0, sk.dport}
        /\ sk.family = "inet6" => param.enable_ipv6
    BY DEF sock_filter, init_sock_config_from_param
  <2>2. ASSUME param.local_port \in 1 .. U16 - 1 PROVE sk.num = param.local_port
    <3>1. PICK port, num : port = param.local_port /\ num = sk.num OBVIOUS
    <3>2. port \in 1 .. U16 - 1 /\ (port % U16) \in {0, num} BY <2>1, <2>2, <3>1
    <3>3. num = port BY <3>2, PortFilters
    <3> QED BY <3>1, <3>3
  <2>3. ASSUME param.remote_port \in 1 .. U16 - 1
        PROVE  sk.dport = param.remote_port
    <3>1. PICK port, num : port = param.remote_port /\ num = sk.dport OBVIOUS
    <3>2. port \in 1 .. U16 - 1 /\ (port % U16) \in {0, num} BY <2>1, <2>3, <3>1
    <3>3. num = port BY <3>2, PortFilters
    <3> QED BY <3>1, <3>3
  <2> QED BY <2>1, <2>2, <2>3, Zenon DEF Asked
<1>4. \/ shown' = Nothing
      \/ sk # NULL /\ sock_filter(sk, level) /\ shown' = Display(fn, sk, "sock")
  BY DEF sock_filter_and_display, sock_common_display, sock_filter
<1> USE DEF ShownRight, NoFreedSockRead, ShownPassesFilter, GarbageOnlyFromTimers
<1>5. CASE shown' = Nothing
  <2>1. shown'.sk = NULL /\ shown'.how # "sock" BY <1>2, <1>5
  <2> QED BY <1>3, <2>1, TraceAssumption
<1>6. CASE sk # NULL /\ sock_filter(sk, level) /\ shown' = Display(fn, sk, "sock")
  <2>1. shown'.sk = sk /\ sk \in Socks /\ sk \notin freed /\ sk # Garbage
    BY <1>1, <1>2, <1>6
  <2>2. Asked(sk) BY <1>3, <1>6
  <2>3. ShownPassesFilter' BY <2>1, <2>2 DEF Asked
  <2> QED BY <1>3, <2>1, <2>3
<1> QED BY <1>4, <1>5, <1>6

\* Of the handlers only the timers' take something else for a socket.
LEMMA OnlyTimers ==
  ASSUME NEW p \in Kprobes, p.arg \notin SockArgs(p.fn)
  PROVE  p.fn \in {q.fn : q \in tcp_timers}
<1>1. CASE p \in tcp_conn_request BY <1>1 DEF tcp_conn_request, SockArgs, Kprobe, tcp_timers
<1>2. CASE p \in tcp_v4_syn_recv_sock BY <1>2 DEF tcp_v4_syn_recv_sock, SockArgs, Kprobe, tcp_timers
<1>3. CASE p \in tcp_create_child BY <1>3 DEF tcp_create_child, SockArgs, Kprobe, tcp_timers
<1>4. CASE p \in tcp_set_state BY <1>4 DEF tcp_set_state, SockArgs, Kprobe, tcp_timers
<1>5. CASE p \in tcp_connect BY <1>5 DEF tcp_connect, SockArgs, Kprobe, tcp_timers
<1>6. CASE p \in tcp_done BY <1>6 DEF tcp_done, SockArgs, Kprobe, tcp_timers
<1>7. CASE p \in tcp_reset BY <1>7 DEF tcp_reset, SockArgs, Kprobe, tcp_timers
<1>8. CASE p \in tcp_transmit_skb BY <1>8 DEF tcp_transmit_skb, SockArgs, Kprobe, tcp_timers
<1>9. CASE p \in sock_def_readable BY <1>9 DEF sock_def_readable, SockArgs, Kprobe, tcp_timers
<1>10. CASE p \in tcp_timers BY <1>10
<1> QED BY <1>1, <1>2, <1>3, <1>4, <1>5, <1>6, <1>7, <1>8, <1>9, <1>10 DEF Kprobes


\* The frames of a stack after a call and after a return.
LEMMA Pushed ==
  ASSUME NEW S, NEW s \in Seq(S), NEW x \in S
  PROVE  /\ <<x>> \o s \in Seq(S) /\ Len(<<x>> \o s) = Len(s) + 1
         /\ \A j \in 1 .. Len(<<x>> \o s) :
               (<<x>> \o s)[j] = x \/ \E i \in 1 .. Len(s) : (<<x>> \o s)[j] = s[i]
<1>1. \A j \in 1 .. Len(<<x>> \o s) :
        (<<x>> \o s)[j] = IF j = 1 THEN x ELSE s[j - 1]
  OBVIOUS
<1>2. \A j \in 1 .. Len(<<x>> \o s) : j # 1 => j - 1 \in 1 .. Len(s) OBVIOUS
<1> QED BY <1>1, <1>2

LEMMA Popped ==
  ASSUME NEW S, NEW s \in Seq(S), s # << >>
  PROVE  /\ Tail(s) \in Seq(S) /\ Len(Tail(s)) = Len(s) - 1
         /\ Head(s) = s[1] /\ 1 \in 1 .. Len(s) /\ s[1] \in S
         /\ \A j \in 1 .. Len(Tail(s)) : \E i \in 1 .. Len(s) : Tail(s)[j] = s[i]
<1>1. \A j \in 1 .. Len(Tail(s)) : Tail(s)[j] = s[j + 1] /\ j + 1 \in 1 .. Len(s)
  OBVIOUS
<1> QED BY <1>1

\* Handlers that keep nothing.
LEMMA ProbeKeeps ==
  ASSUME TraceInv, ShownRight', param # NULL,
         UNCHANGED <<param, called, ctx, stack, freed>>
  PROVE  TraceInv'
<1>1. TraceTypes' BY DEF TraceInv, TraceTypes
<1>2. TraceStarts' BY DEF TraceInv, TraceStarts
<1>3. TraceCalls' BY DEF TraceInv, TraceCalls, Asked
<1> QED BY <1>1, <1>2, <1>3 DEF TraceInv

LEMMA LoadKeeps ==
  ASSUME TraceInv, NEW p \in Params, tcp_trace_load(p)
  PROVE  TraceInv'
<1> USE DEF TraceInv
<1>1. /\ param = NULL /\ param' = p /\ called' \subseteq Kretprobes
      /\ UNCHANGED <<ctx, stack, freed, shown>>
  BY TraceAssumption DEF tcp_trace_load
<1>2. /\ shown = Nothing
      /\ \A f \in Fns : \A i \in Instances : ctx[f][i] = NULL
      /\ \A t \in Tasks : stack[t] = << >>
  BY <1>1 DEF TraceStarts
<1>3. shown.sk = NULL /\ shown.how # "sock" BY <1>2 DEF Nothing, Display
<1>4. TraceTypes' BY <1>1 DEF TraceTypes
<1>5. TraceStarts' BY <1>1, TraceAssumption DEF TraceStarts
<1>6. TraceCalls' BY <1>1, <1>2 DEF TraceCalls
<1>7. ShownRight'
  BY <1>1, <1>3, TraceAssumption
     DEF ShownRight, NoFreedSockRead, ShownPassesFilter, GarbageOnlyFromTimers
<1> QED BY <1>4, <1>5, <1>6, <1>7

LEMMA KprobeKeeps ==
  ASSUME TraceInv, NEW p \in Kprobes, NEW sk \in Live, kprobe_handler(p, sk)
  PROVE  TraceInv'
<1>1. param # NULL /\ UNCHANGED <<param, called, ctx, stack, freed>>
  BY DEF kprobe_handler, Quiet
<1>2. CASE p.arg \in SockArgs(p.fn)
  <2>1. shown' = sock_filter_and_display(p.fn, sk, p.level)
    BY <1>2 DEF kprobe_handler
  <2>2. ShownRight' BY <1>1, <2>1, FilterShows
  <2> QED BY <1>1, <2>2, ProbeKeeps
<1>3. CASE p.arg \notin SockArgs(p.fn)
  <2>1. shown' \in {Nothing, Display(p.fn, Garbage, "sock")}
    BY <1>3 DEF kprobe_handler
  <2>2. p.fn \in {q.fn : q \in tcp_timers} BY <1>3, OnlyTimers
  <2>3. \/ shown'.sk = NULL /\ shown'.how # "sock"
        \/ shown'.sk = Garbage /\ shown'.fn = p.fn
    BY <2>1 DEF Nothing, Display
  <2>4. Garbage \notin freed
    BY TraceAssumption DEF TraceInv, TraceTypes
  <2>5. ShownRight'
    BY <1>1, <2>2, <2>3, <2>4, TraceAssumption
       DEF ShownRight, NoFreedSockRead, ShownPassesFilter, GarbageOnlyFromTimers
  <2> QED BY <1>1, <2>5, ProbeKeeps
<1> QED BY <1>2, <1>3

LEMMA EntryKeeps ==
  ASSUME TraceInv, NEW t \in Tasks, NEW k \in called, NEW sk \in Live,
         kretprobe_entry(t, k, sk)
  PROVE  TraceInv'
<1> USE DEF TraceInv
<1>1. PICK f, i : /\ f = k.fn /\ i \in Free(f)
                  /\ ctx' = [ctx EXCEPT ![f][i] =
                               IF sock_filter(sk, k.level) THEN sk ELSE NULL]
                  /\ stack' = [stack EXCEPT ![t] =
                                 <<[fn |-> f, sk |-> sk, ri |-> i]>> \o @]
  BY DEF kretprobe_entry
<1>2. /\ param # NULL /\ Len(stack[t]) < MaxDepth
      /\ shown' = sock_filter_and_display(f, sk, k.level)
      /\ UNCHANGED <<param, called, freed>>
  BY <1>1 DEF kretprobe_entry
<1>3. /\ k \in Kretprobes /\ f \in Fns /\ sk \in Socks /\ sk \notin freed
      /\ i \in Instances
  BY <1>1 DEF TraceTypes, Fns, Live, Free
<1>4. ShownRight' /\ (sock_filter(sk, k.level) => Asked(sk))
  BY <1>2, FilterShows
<1>5. /\ ctx' \in [Fns -> [Instances -> Socks \cup {NULL}]]
      /\ ctx'[f][i] \in {sk, NULL} /\ (ctx'[f][i] # NULL => Asked(sk) /\ ctx'[f][i] = sk)
      /\ \A g \in Fns : \A j \in Instances :
            g # f \/ j # i => ctx'[g][j] = ctx[g][j]
  BY <1>1, <1>3, <1>4 DEF TraceTypes
<1>6. PICK x : x = [fn |-> f, sk |-> sk, ri |-> i] OBVIOUS
<1>7. x \in Frames /\ x.fn = f /\ x.sk = sk /\ x.ri = i
  <2>1. i \in 0 .. MaxActive BY <1>3, TraceAssumption DEF Instances
  <2> QED BY <2>1, <1>3, <1>6 DEF Frames
<1>8. /\ stack[t] \in Seq(Frames) /\ stack'[t] = <<x>> \o stack[t]
      /\ \A u \in Tasks \ {t} : stack'[u] = stack[u]
  BY <1>1, <1>6 DEF TraceTypes
<1>9. /\ stack'[t] \in Seq(Frames) /\ Len(stack'[t]) = Len(stack[t]) + 1
      /\ \A j \in 1 .. Len(stack'[t]) :
            stack'[t][j] = x \/ \E l \in 1 .. Len(stack[t]) : stack'[t][j] = stack[t][l]
  BY <1>7, <1>8, Pushed
<1>10. stack' \in [Tasks -> Seq(Frames)]
  BY <1>1, <1>8, <1>9 DEF TraceTypes
<1>11. \A u \in Tasks : Len(stack'[u]) <= MaxDepth
  <2>1. Len(stack[t]) \in Nat BY <1>8
  <2> QED BY <2>1, <1>2, <1>8, <1>9, TraceAssumption DEF TraceTypes
<1>12. TraceTypes' BY <1>2, <1>5, <1>10, <1>11 DEF TraceTypes
<1>13. TraceStarts' BY <1>2 DEF TraceStarts
\* The other calls keep their instances: this one was free.
<1>14. \A u \in Tasks : \A j \in 1 .. Len(stack[u]) :
         /\ stack[u][j].ri # 0 =>
              ctx'[stack[u][j].fn][stack[u][j].ri] \in {stack[u][j].sk, NULL}
         /\ stack[u][j].fn # "tcp_close" => stack[u][j].sk \notin freed'
  <2> SUFFICES ASSUME NEW u \in Tasks, NEW j \in 1 .. Len(stack[u])
               PROVE  /\ stack[u][j].ri # 0 =>
                           ctx'[stack[u][j].fn][stack[u][j].ri] \in {stack[u][j].sk, NULL}
                      /\ stack[u][j].fn # "tcp_close" => stack[u][j].sk \notin freed'
    OBVIOUS
  <2>1. stack[u] \in Seq(Frames) BY DEF TraceTypes
  <2>2. stack[u][j] \in Frames /\ j \in DOMAIN stack[u] BY <2>1
  <2>3. stack[u][j].fn = f => stack[u][j].ri # i BY <1>1, <2>2 DEF Free
  <2>4. /\ stack[u][j].fn \in Fns
        /\ stack[u][j].ri # 0 => stack[u][j].ri \in Instances
    BY <2>2, TraceAssumption DEF Frames, Instances
  <2> QED BY <2>3, <2>4, <1>2, <1>5 DEF TraceCalls
<1>15. /\ x.ri # 0 => ctx'[x.fn][x.ri] \in {x.sk, NULL}
       /\ x.sk \notin freed'
  BY <1>2, <1>3, <1>5, <1>7
<1>16. \A u \in Tasks : \A j \in 1 .. Len(stack'[u]) :
         /\ stack'[u][j].ri # 0 =>
              ctx'[stack'[u][j].fn][stack'[u][j].ri] \in {stack'[u][j].sk, NULL}
         /\ stack'[u][j].fn # "tcp_close" => stack'[u][j].sk \notin freed'
  <2> SUFFICES ASSUME NEW u \in Tasks, NEW j \in 1 .. Len(stack'[u])
               PROVE  /\ stack'[u][j].ri # 0 =>
                           ctx'[stack'[u][j].fn][stack'[u][j].ri]
                               \in {stack'[u][j].sk, NULL}
                      /\ stack'[u][j].fn # "tcp_close" => stack'[u][j].sk \notin freed'
    OBVIOUS
  <2> HIDE DEF TraceInv
  <2>1. CASE u # t BY <2>1, <1>8, <1>14
  <2>2. CASE u = t
    <3>1. CASE stack'[u][j] = x BY <3>1, <1>15
    <3>2. CASE \E l \in 1 .. Len(stack[t]) : stack'[u][j] = stack[t][l]
      BY <3>2, <1>14
    <3> QED BY <2>2, <3>1, <3>2, <1>9
  <2> QED BY <2>1, <2>2
<1>17. \A g \in Fns : \A j \in Instances : ctx'[g][j] # NULL => Asked(ctx[g][j])'
  <2> SUFFICES ASSUME NEW g \in Fns, NEW j \in Instances, ctx'[g][j] # NULL
               PROVE  \E y : y = ctx'[g][j] /\ Asked(y)
    BY <1>2 DEF Asked
  <2>1. CASE g = f /\ j = i BY <2>1, <1>5
  <2>2. CASE g # f \/ j # i BY <2>2, <1>5 DEF TraceCalls
  <2> QED BY <2>1, <2>2
<1>18. TraceCalls' BY <1>16, <1>17 DEF TraceCalls
<1> QED BY <1>4, <1>12, <1>13, <1>18


LEMMA MissedKeeps ==
  ASSUME TraceInv, NEW t \in Tasks, NEW k \in called, NEW sk \in Live,
         kretprobe_missed(t, k, sk)
  PROVE  TraceInv'
<1> USE DEF TraceInv
<1>1. /\ param # NULL /\ Len(stack[t]) < MaxDepth /\ shown' = Nothing
      /\ stack' = [stack EXCEPT ![t] = <<[fn |-> k.fn, sk |-> sk, ri |-> 0]>> \o @]
      /\ UNCHANGED <<param, called, ctx, freed>>
  BY DEF kretprobe_missed
<1>2. k \in Kretprobes /\ k.fn \in Fns /\ sk \in Socks /\ sk \notin freed
  BY DEF TraceTypes, Fns, Live
<1>3. PICK x : x = [fn |-> k.fn, sk |-> sk, ri |-> 0] OBVIOUS
<1>4. x \in Frames /\ x.sk = sk /\ x.ri = 0
  BY <1>2, <1>3, TraceAssumption DEF Frames
<1>5. /\ stack[t] \in Seq(Frames) /\ stack'[t] = <<x>> \o stack[t]
      /\ \A u \in Tasks \ {t} : stack'[u] = stack[u]
  BY <1>1, <1>3 DEF TraceTypes
<1>6. /\ stack'[t] \in Seq(Frames) /\ Len(stack'[t]) = Len(stack[t]) + 1
      /\ \A j \in 1 .. Len(stack'[t]) :
            stack'[t][j] = x \/ \E l \in 1 .. Len(stack[t]) : stack'[t][j] = stack[t][l]
  BY <1>4, <1>5, Pushed
<1>7. stack' \in [Tasks -> Seq(Frames)] BY <1>1, <1>5, <1>6 DEF TraceTypes
<1>8. \A u \in Tasks : Len(stack'[u]) <= MaxDepth
  <2>1. Len(stack[t]) \in Nat BY <1>5
  <2> QED BY <2>1, <1>1, <1>5, <1>6, TraceAssumption DEF TraceTypes
<1>9. TraceTypes' BY <1>1, <1>7, <1>8 DEF TraceTypes
<1>10. TraceStarts' BY <1>1 DEF TraceStarts
<1>11. TraceCalls' BY <1>1, <1>2, <1>4, <1>5, <1>6 DEF TraceCalls, Asked
<1>12. shown'.sk = NULL /\ shown'.how # "sock" BY <1>1 DEF Nothing, Display
<1>13. ShownRight'
  BY <1>12, TraceAssumption
     DEF ShownRight, NoFreedSockRead, ShownPassesFilter, GarbageOnlyFromTimers
<1> QED BY <1>9, <1>10, <1>11, <1>13

\* What a return handler displays: the socket of its own call, which still
\* exists, or of tcp_close's the address.
LEMMA ReturnShows ==
  ASSUME TraceInv, NEW t \in Tasks, kretprobe_return(t)
  PROVE  \/ shown' = Nothing
         \/ \E x \in Frames : \E how :
               /\ x = Head(stack[t]) /\ shown' = Display(x.fn, x.sk, how)
               /\ Asked(x.sk) /\ (how = "sock" => x.sk \notin freed)
<1> USE DEF TraceInv
<1>1. stack[t] # << >> /\ stack[t] \in Seq(Frames)
  BY DEF kretprobe_return, TraceTypes
<1>2. PICK x : x = Head(stack[t]) OBVIOUS
<1>3. x \in Frames /\ x = stack[t][1] /\ 1 \in 1 .. Len(stack[t])
  BY <1>1, <1>2, Popped
<1>4. /\ x.fn \in Fns /\ x.sk \in Socks /\ x.ri \in 0 .. MaxActive
  BY <1>3 DEF Frames
<1>5. PICK k : k = CHOOSE y \in Kretprobes : y.fn = x.fn OBVIOUS
<1>6. k \in Kretprobes /\ k.fn = x.fn BY <1>4, <1>5 DEF Fns
<1>7. k.atRet = "sock" => x.fn # "tcp_close"
  <2>1. k = tcp_close => k.atRet = "addr" BY DEF tcp_close, Kretprobe
  <2>2. k # tcp_close => k.fn # "tcp_close"
    BY <1>6 DEF Kretprobes, tcp_v4_do_rcv, tcp_rcv_state_process, tcp_rcv_established,
                tcp_recvmsg, tcp_sendmsg, tcp_write_xmit, Kretprobe
  <2> QED BY <2>1, <2>2, <1>6
<1>8. PICK s : s = IF x.ri = 0 THEN NULL ELSE ctx[x.fn][x.ri] OBVIOUS
<1>9. shown' = IF s = NULL THEN Nothing ELSE Display(x.fn, s, k.atRet)
  BY <1>2, <1>5, <1>8 DEF kretprobe_return
<1>10. CASE s # NULL
  <2>1. x.ri # 0 /\ s = ctx[x.fn][x.ri] BY <1>8, <1>10
  <2>2. x.ri \in Instances BY <2>1, <1>4, TraceAssumption DEF Instances
  <2>3. s = x.sk BY <2>1, <1>3, <1>10 DEF TraceCalls
  <2>4. Asked(s) BY <2>1, <2>2, <1>4, <1>10 DEF TraceCalls
  <2>5. k.atRet = "sock" => x.sk \notin freed BY <1>3, <1>7 DEF TraceCalls
  <2> QED BY <1>2, <1>3, <1>9, <1>10, <2>3, <2>4, <2>5
<1> QED BY <1>9, <1>10

LEMMA ReturnKeeps ==
  ASSUME TraceInv, NEW t \in Tasks, kretprobe_return(t)
  PROVE  TraceInv'
<1> USE DEF TraceInv
<1>1. /\ stack[t] # << >> /\ stack' = [stack EXCEPT ![t] = Tail(@)]
      /\ UNCHANGED <<param, called, ctx, freed>>
  BY DEF kretprobe_return
<1>2. /\ stack[t] \in Seq(Frames) /\ stack'[t] = Tail(stack[t])
      /\ \A u \in Tasks \ {t} : stack'[u] = stack[u]
  BY <1>1 DEF TraceTypes
<1>3. /\ stack'[t] \in Seq(Frames) /\ Len(stack'[t]) = Len(stack[t]) - 1
      /\ \A j \in 1 .. Len(stack'[t]) :
            \E l \in 1 .. Len(stack[t]) : stack'[t][j] = stack[t][l]
  <2>1. PICK s \in Seq(Frames) : s = stack[t] /\ s # << >> BY <1>1, <1>2
  <2>2. /\ Tail(s) \in Seq(Frames) /\ Len(Tail(s)) = Len(s) - 1
        /\ \A j \in 1 .. Len(Tail(s)) : \E l \in 1 .. Len(s) : Tail(s)[j] = s[l]
    BY <2>1, Popped
  <2>3. stack'[t] = Tail(s) BY <2>1, <1>2
  <2> QED BY ONLY <2>1, <2>2, <2>3
<1>4. stack' \in [Tasks -> Seq(Frames)] BY <1>1, <1>2, <1>3 DEF TraceTypes
<1>5. \A u \in Tasks : Len(stack'[u]) <= MaxDepth
  <2>1. Len(stack[t]) \in Nat BY <1>2
  <2> QED BY <2>1, <1>1, <1>2, <1>3, TraceAssumption DEF TraceTypes
<1>6. TraceTypes' BY <1>1, <1>4, <1>5 DEF TraceTypes
<1>7. param # NULL BY <1>1 DEF TraceStarts
<1>8. TraceStarts' BY <1>1, <1>7 DEF TraceStarts
<1>9. TraceCalls' BY <1>1, <1>2, <1>3 DEF TraceCalls, Asked
<1>10. ShownRight'
  <2>1. CASE shown' = Nothing
    <3>1. shown'.sk = NULL /\ shown'.how # "sock" BY <2>1 DEF Nothing, Display
    <3> QED BY <3>1, TraceAssumption
            DEF ShownRight, NoFreedSockRead, ShownPassesFilter, GarbageOnlyFromTimers
  <2>2. ASSUME NEW x \in Frames, NEW how, shown' = Display(x.fn, x.sk, how),
               Asked(x.sk), how = "sock" => x.sk \notin freed
        PROVE  ShownRight'
    <3>1. shown'.sk = x.sk /\ shown'.how = how BY <2>2 DEF Display
    <3>2. x.sk \in Socks /\ x.sk # Garbage BY TraceAssumption DEF Frames
    <3>3. ShownPassesFilter' BY <1>1, <2>2, <3>1 DEF ShownPassesFilter, Asked
    <3> QED BY <1>1, <2>2, <3>1, <3>2, <3>3
            DEF ShownRight, NoFreedSockRead, GarbageOnlyFromTimers
  <2> HIDE DEF TraceInv
  <2> QED BY <2>1, <2>2, ReturnShows
<1> QED BY <1>6, <1>8, <1>9, <1>10

LEMMA FreeKeeps ==
  ASSUME TraceInv, NEW t \in Tasks, sock_free(t)
  PROVE  TraceInv'
<1> USE DEF TraceInv
<1>1. PICK sk : sk = Head(stack[t]).sk OBVIOUS
<1>2. /\ stack[t] # << >> /\ Head(stack[t]).fn = "tcp_close"
      /\ Using(sk) = {<<t, 1>>} /\ freed' = freed \cup {sk}
      /\ shown' = Nothing /\ UNCHANGED <<param, called, ctx, stack>>
  BY <1>1 DEF sock_free
<1>3. /\ stack[t] \in Seq(Frames) /\ Head(stack[t]) = stack[t][1]
      /\ stack[t][1] \in Frames
  BY <1>2, Popped DEF TraceTypes
<1>4. sk \in Socks BY <1>1, <1>3 DEF Frames
\* The only call that has the socket is this tcp_close.
<1>5. ASSUME NEW u \in Tasks, NEW j \in 1 .. Len(stack[u]), stack[u][j].sk = sk
      PROVE  stack[u][j].fn = "tcp_close"
  <2>1. stack[u] \in Seq(Frames) /\ Len(stack[u]) <= MaxDepth BY DEF TraceTypes
  <2>2. j \in 1 .. MaxDepth /\ j <= Len(stack[u]) BY <2>1, TraceAssumption
  <2>3. <<u, j>> \in Using(sk) BY <1>5, <2>2 DEF Using
  <2>4. u = t /\ j = 1 BY <1>2, <2>3
  <2> QED BY <1>2, <1>3, <2>4
<1>6. TraceTypes' BY <1>2, <1>4 DEF TraceTypes
<1>7. param # NULL BY <1>2 DEF TraceStarts
<1>8. TraceStarts' BY <1>2, <1>7 DEF TraceStarts
<1>9. \A u \in Tasks : \A j \in 1 .. Len(stack[u]) :
        stack[u][j].fn # "tcp_close" => stack[u][j].sk \notin freed'
  BY <1>2, <1>5 DEF TraceCalls
<1>10. TraceCalls' BY <1>2, <1>9 DEF TraceCalls, Asked
<1>11. shown'.sk = NULL /\ shown'.how # "sock" BY <1>2 DEF Nothing, Display
<1>12. ShownRight'
  BY <1>11, TraceAssumption
     DEF ShownRight, NoFreedSockRead, ShownPassesFilter, GarbageOnlyFromTimers
<1> QED BY <1>6, <1>8, <1>10, <1>12

LEMMA TraceKeeps == Spec => []TraceInv
<1>1. TraceInit => TraceInv
  <2> SUFFICES ASSUME TraceInit PROVE TraceInv OBVIOUS
  <2> USE TraceAssumption DEF TraceInit
  <2>1. TraceTypes BY DEF TraceTypes
  <2>2. TraceStarts BY DEF TraceStarts
  <2>3. TraceCalls BY DEF TraceCalls
  <2>4. shown.sk = NULL /\ shown.how # "sock" BY DEF Nothing, Display
  <2>5. ShownRight
    BY <2>4 DEF ShownRight, NoFreedSockRead, ShownPassesFilter, GarbageOnlyFromTimers
  <2> QED BY <2>1, <2>2, <2>3, <2>5 DEF TraceInv
<1>2. TraceInv /\ [TraceNext]_traceVars => TraceInv'
  <2> SUFFICES ASSUME TraceInv, [TraceNext]_traceVars PROVE TraceInv' OBVIOUS
  <2>1. CASE trace__tcp_reset
    <3>1. /\ param # NULL /\ UNCHANGED <<param, called, ctx, stack, freed>>
          /\ shown' = sock_filter_and_display("tcp_send_reset", NULL, 2)
      BY <2>1 DEF trace__tcp_reset, Quiet
    <3>2. ShownRight' BY <3>1, FilterShows
    <3> QED BY <3>1, <3>2, ProbeKeeps
  <2>2. ASSUME NEW p \in ReturnFilters, NEW sk \in Live \cup {NULL},
               kretprobe_retval(p, sk)
        PROVE  TraceInv'
    <3>1. /\ param # NULL /\ UNCHANGED <<param, called, ctx, stack, freed>>
          /\ shown' = sock_filter_and_display(p.fn, sk, p.level)
      BY <2>2 DEF kretprobe_retval, Quiet
    <3>2. ShownRight' BY <3>1, FilterShows
    <3> QED BY <3>1, <3>2, ProbeKeeps
  <2>3. CASE UNCHANGED traceVars
    <3>1. UNCHANGED <<param, called, ctx, stack, freed, shown>>
      BY <2>3 DEF traceVars
    <3>2. ShownRight'
      BY <3>1 DEF TraceInv, ShownRight, NoFreedSockRead, ShownPassesFilter,
                  GarbageOnlyFromTimers
    <3>3. TraceTypes' BY <3>1 DEF TraceInv, TraceTypes
    <3>4. TraceStarts' BY <3>1 DEF TraceInv, TraceStarts, Nothing, Display
    <3>5. TraceCalls' BY <3>1 DEF TraceInv, TraceCalls, Asked
    <3> QED BY <3>2, <3>3, <3>4, <3>5 DEF TraceInv
  <2> QED BY <2>1, <2>2, <2>3, LoadKeeps, KprobeKeeps, EntryKeeps, MissedKeeps,
             ReturnKeeps, FreeKeeps
          DEF TraceNext
<1> QED BY <1>1, <1>2, Parts, PTL

(***************************************************************************)
(* What tcp_trace displays is a socket that exists, of a port and family   *)
(* insmod was asked for, or comes from one of the three timer handlers,    *)
(* for any number of contexts, sockets, kretprobe instances and nesting.   *)
(***************************************************************************)
THEOREM ShownSocketsAreRight == Spec => []ShowsRightSockets
<1>1. TraceInv => ShowsRightSockets
  BY DEF TraceInv, TraceTypes, ShownRight, ShowsRightSockets, TraceTypeOK
<1> QED BY <1>1, TraceKeeps, PTL

(***************************************************************************)
(* A return handler displays the socket its own call was entered with: a   *)
(* recycled kretprobe_instance never shows what its last user left in it.  *)
(***************************************************************************)
THEOREM ReturnsMatchEntries == Spec => ReturnMatchesEntry
<1> DEFINE Matches ==
      \A t \in Tasks : Len(stack'[t]) < Len(stack[t]) /\ shown'.sk # NULL
                          => shown'.sk = Head(stack[t]).sk
<1>1. TraceInv /\ [TraceNext]_traceVars => [Matches]_traceVars
  <2> SUFFICES ASSUME TraceInv, TraceNext, NEW t \in Tasks,
                      Len(stack'[t]) < Len(stack[t]), shown'.sk # NULL
               PROVE  shown'.sk = Head(stack[t]).sk
    OBVIOUS
  <2> USE DEF TraceInv
  <2>1. stack \in [Tasks -> Seq(Frames)] /\ Len(stack[t]) \in Nat
    BY DEF TraceTypes
  <2>2. stack' # stack BY <2>1
  <2>3. ASSUME NEW u \in Tasks, NEW x \in Frames, stack'[u] = <<x>> \o stack[u],
               \A w \in Tasks \ {u} : stack'[w] = stack[w]
        PROVE  FALSE
    <3>1. Len(stack'[u]) = Len(stack[u]) + 1 /\ Len(stack[u]) \in Nat
      BY <2>1, <2>3, Pushed
    <3> QED BY <2>1, <2>3, <3>1
  <2>4. ASSUME NEW u \in Tasks, NEW k \in called, NEW sk \in Live,
               kretprobe_entry(u, k, sk) \/ kretprobe_missed(u, k, sk)
        PROVE  FALSE
    <3>1. PICK i \in 0 .. MaxActive :
            stack' = [stack EXCEPT ![u] = <<[fn |-> k.fn, sk |-> sk, ri |-> i]>> \o @]
      <4>1. CASE kretprobe_entry(u, k, sk)
        <5>1. Free(k.fn) \subseteq 0 .. MaxActive
          BY TraceAssumption DEF Free, Instances
        <5> QED BY <4>1, <5>1 DEF kretprobe_entry
      <4>2. CASE kretprobe_missed(u, k, sk)
        <5>1. 0 \in 0 .. MaxActive BY TraceAssumption
        <5> QED BY <4>2, <5>1 DEF kretprobe_missed
      <4> QED BY <2>4, <4>1, <4>2
    <3>2. k.fn \in Fns /\ sk \in Socks BY DEF TraceTypes, Fns, Live
    <3>3. [fn |-> k.fn, sk |-> sk, ri |-> i] \in Frames BY <3>2 DEF Frames
    <3> QED BY <2>1, <2>3, <3>1, <3>3
  <2>5. ASSUME NEW u \in Tasks, kretprobe_return(u)
        PROVE  u = t
    BY <2>1, <2>5 DEF kretprobe_return
  <2>6. kretprobe_return(t)
    BY <2>2, <2>4, <2>5 DEF TraceNext, tcp_trace_load, kprobe_handler, trace__tcp_reset,
                            kretprobe_retval, sock_free
  <2>7. Nothing.sk = NULL BY DEF Nothing, Display
  <2>8. \E x, how : x = Head(stack[t]) /\ shown' = Display(x.fn, x.sk, how)
    <3> HIDE DEF TraceInv
    <3> QED BY <2>6, <2>7, ReturnShows
  <2> QED BY <2>8 DEF Display
<1> QED BY <1>1, TraceKeeps, Parts, PTL DEF ReturnMatchesEntry

-----------------------------------------------------------------------------
(* The kernel thread examples.  What an example's functions have left to do  *)
(* is one of a few sequences, but for the loops over NR_THREADS; the lemmas  *)
(* on the sequences come first, then the steps of threads and of the task.   *)

LEMMA Cat ==
  ASSUME NEW S, NEW s \in Seq(S), NEW t \in Seq(S), NEW u \in Seq(S),
         Len(u) = Len(s) + Len(t),
         \A i \in 1 .. Len(s) : u[i] = s[i],
         \A i \in 1 .. Len(t) : u[Len(s) + i] = t[i]
  PROVE  s \o t = u
<1>1. /\ s \o t \in Seq(S) /\ Len(s \o t) = Len(u) /\ Len(u) \in Nat
      /\ Len(s) \in Nat /\ Len(t) \in Nat
  BY ConcatProperties
<1>2. ASSUME NEW i \in 1 .. Len(u) PROVE (s \o t)[i] = u[i]
  <2>1. (s \o t)[i] = IF i <= Len(s) THEN s[i] ELSE t[i - Len(s)]
    BY ConcatProperties, <1>1
  <2>2. CASE i <= Len(s) BY <2>1, <2>2, <1>1
  <2>3. CASE i > Len(s)
    <3>1. i - Len(s) \in 1 .. Len(t) /\ Len(s) + (i - Len(s)) = i BY <2>3, <1>1
    <3> QED BY <2>1, <2>3, <3>1, <1>1
  <2> QED BY <2>2, <2>3, <1>1
<1> QED BY <1>1, <1>2, SeqEqual

LEMMA Conc11 == ASSUME NEW a, NEW b
  PROVE  <<a>> \o <<b>> = <<a, b>>
<1>1. PICK S, s, t, u : S = {a, b} /\ s = <<a>> /\ t = <<b>> /\ u = <<a, b>>
  OBVIOUS
<1>2. /\ Len(s) = 1 /\ Len(t) = 1 /\ Len(u) = Len(s) + Len(t)
      /\ s \in Seq(S) /\ t \in Seq(S) /\ u \in Seq(S)
  BY <1>1
<1>3. /\ \A i \in 1 .. 1 : u[i] = s[i]
      /\ \A i \in 1 .. 1 : u[1 + i] = t[i]
  BY <1>1
<1>4. /\ \A i \in 1 .. Len(s) : u[i] = s[i]
      /\ \A i \in 1 .. Len(t) : u[Len(s) + i] = t[i]
  BY <1>2, <1>3
<1>5. s \o t = u BY <1>2, <1>4, Cat
<1> QED BY <1>1, <1>5

LEMMA Conc12 == ASSUME NEW a, NEW b, NEW c
  PROVE  <<a>> \o <<b, c>> = <<a, b, c>>
<1>1. PICK S, s, t, u : S = {a, b, c} /\ s = <<a>> /\ t = <<b, c>> /\ u = <<a, b, c>>
  OBVIOUS
<1>2. /\ Len(s) = 1 /\ Len(t) = 2 /\ Len(u) = Len(s) + Len(t)
      /\ s \in Seq(S) /\ t \in Seq(S) /\ u \in Seq(S)
  BY <1>1
<1>3. /\ \A i \in 1 .. 1 : u[i] = s[i]
      /\ \A i \in 1 .. 2 : u[1 + i] = t[i]
  BY <1>1
<1>4. /\ \A i \in 1 .. Len(s) : u[i] = s[i]
      /\ \A i \in 1 .. Len(t) : u[Len(s) + i] = t[i]
  BY <1>2, <1>3
<1>5. s \o t = u BY <1>2, <1>4, Cat
<1> QED BY <1>1, <1>5

LEMMA Conc21 == ASSUME NEW a, NEW b, NEW c
  PROVE  <<a, b>> \o <<c>> = <<a, b, c>>
<1>1. PICK S, s, t, u : S = {a, b, c} /\ s = <<a, b>> /\ t = <<c>> /\ u = <<a, b, c>>
  OBVIOUS
<1>2. /\ Len(s) = 2 /\ Len(t) = 1 /\ Len(u) = Len(s) + Len(t)
      /\ s \in Seq(S) /\ t \in Seq(S) /\ u \in Seq(S)
  BY <1>1
<1>3. /\ \A i \in 1 .. 2 : u[i] = s[i]
      /\ \A i \in 1 .. 1 : u[2 + i] = t[i]
  BY <1>1
<1>4. /\ \A i \in 1 .. Len(s) : u[i] = s[i]
      /\ \A i \in 1 .. Len(t) : u[Len(s) + i] = t[i]
  BY <1>2, <1>3
<1>5. s \o t = u BY <1>2, <1>4, Cat
<1> QED BY <1>1, <1>5

LEMMA Conc22 == ASSUME NEW a, NEW b, NEW c, NEW d
  PROVE  <<a, b>> \o <<c, d>> = <<a, b, c, d>>
<1>1. PICK S, s, t, u : S = {a, b, c, d} /\ s = <<a, b>> /\ t = <<c, d>> /\ u = <<a, b, c, d>>
  OBVIOUS
<1>2. /\ Len(s) = 2 /\ Len(t) = 2 /\ Len(u) = Len(s) + Len(t)
      /\ s \in Seq(S) /\ t \in Seq(S) /\ u \in Seq(S)
  BY <1>1
<1>3. /\ \A i \in 1 .. 2 : u[i] = s[i]
      /\ \A i \in 1 .. 2 : u[2 + i] = t[i]
  BY <1>1
<1>4. /\ \A i \in 1 .. Len(s) : u[i] = s[i]
      /\ \A i \in 1 .. Len(t) : u[Len(s) + i] = t[i]
  BY <1>2, <1>3
<1>5. s \o t = u BY <1>2, <1>4, Cat
<1> QED BY <1>1, <1>5

LEMMA Conc31 == ASSUME NEW a, NEW b, NEW c, NEW d
  PROVE  <<a, b, c>> \o <<d>> = <<a, b, c, d>>
<1>1. PICK S, s, t, u : S = {a, b, c, d} /\ s = <<a, b, c>> /\ t = <<d>> /\ u = <<a, b, c, d>>
  OBVIOUS
<1>2. /\ Len(s) = 3 /\ Len(t) = 1 /\ Len(u) = Len(s) + Len(t)
      /\ s \in Seq(S) /\ t \in Seq(S) /\ u \in Seq(S)
  BY <1>1
<1>3. /\ \A i \in 1 .. 3 : u[i] = s[i]
      /\ \A i \in 1 .. 1 : u[3 + i] = t[i]
  BY <1>1
<1>4. /\ \A i \in 1 .. Len(s) : u[i] = s[i]
      /\ \A i \in 1 .. Len(t) : u[Len(s) + i] = t[i]
  BY <1>2, <1>3
<1>5. s \o t = u BY <1>2, <1>4, Cat
<1> QED BY <1>1, <1>5

LEMMA Conc41 == ASSUME NEW a, NEW b, NEW c, NEW d, NEW e
  PROVE  <<a, b, c, d>> \o <<e>> = <<a, b, c, d, e>>
<1>1. PICK S, s, t, u : S = {a, b, c, d, e} /\ s = <<a, b, c, d>> /\ t = <<e>> /\ u = <<a, b, c, d, e>>
  OBVIOUS
<1>2. /\ Len(s) = 4 /\ Len(t) = 1 /\ Len(u) = Len(s) + Len(t)
      /\ s \in Seq(S) /\ t \in Seq(S) /\ u \in Seq(S)
  BY <1>1
<1>3. /\ \A i \in 1 .. 4 : u[i] = s[i]
      /\ \A i \in 1 .. 1 : u[4 + i] = t[i]
  BY <1>1
<1>4. /\ \A i \in 1 .. Len(s) : u[i] = s[i]
      /\ \A i \in 1 .. Len(t) : u[Len(s) + i] = t[i]
  BY <1>2, <1>3
<1>5. s \o t = u BY <1>2, <1>4, Cat
<1> QED BY <1>1, <1>5

\* The steps of a thread that has been told to stop, and of one that has told
\* the module about its work.
Ending == {<< >>, <<"msleep">>}
Past == Ending \cup
    {<<"test_stop">>, <<"test_stop", "msleep">>, <<"set_state", "test_stop">>,
     <<"set_state", "test_stop", "msleep">>, <<"wake_up", "test_stop", "msleep">>}

\* Those of a thread that has work to do.
Working(k) ==
    CASE k = "kthread_example"  -> {<<"work", "test_stop", "msleep">>}
      [] k = "kthread_example1" -> {<<"work", "finished", "test_stop", "msleep">>,
                                    <<"finished", "test_stop", "msleep">>}
      [] k = "kthread_example2" ->
            {<<"work", "finished", "wake_up", "test_stop", "msleep">>,
             <<"finished", "wake_up", "test_stop", "msleep">>}
      [] k = "kthread_example3" -> {<<"work", "up", "test_stop", "msleep">>,
                                    <<"up", "test_stop", "msleep">>}
      [] k = "kthread_example4" ->
            {<<"while_running", "test_stop">>,
             <<"wait_waked", "reset_waked", "while_running", "test_stop">>,
             <<"reset_waked", "while_running", "test_stop">>}
      [] k = "kthread_example5" -> {<<"work", "test_stop">>}

Kths == {"kthread_example", "kthread_example1", "kthread_example2",
         "kthread_example3", "kthread_example4", "kthread_example5"}
Count(k) == IF k = "kthread_example3" THEN NR_THREADS ELSE 1

\* Those of kthread_example3's init and exit.
Ops == {"kthread_run", "down", "kthread_stop", "join"}

\* What init has left to do when it has called kthread_run c times.
InitAt(k, s, c) ==
    CASE k = "kthread_example3" ->
            /\ s \in Seq(Ops) /\ c \in 0 .. NR_THREADS
            /\ Len(s) <= 2 * NR_THREADS - c
            /\ c < NR_THREADS => Len(s) = 2 * NR_THREADS - c
            /\ \A i \in 1 .. Len(s) :
                  s[i] = IF i <= NR_THREADS - c THEN "kthread_run" ELSE "down"
      [] k \in {"kthread_example", "kthread_example5"} ->
            (c = 0 /\ s = <<"kthread_run">>) \/ (c = 1 /\ s = << >>)
      [] k = "kthread_example1" ->
            (c = 0 /\ s = <<"kthread_run", "poll">>) \/ (c = 1 /\ s \in {<<"poll">>, << >>})
      [] k = "kthread_example2" ->
            \/ c = 0 /\ s = <<"kthread_run", "wait_finished">>
            \/ c = 1 /\ s \in {<<"wait_finished">>, << >>}
      [] k = "kthread_example4" ->
            \/ c = 0 /\ s = <<"kthread_run", "need_thread", "mod_timer">>
            \/ c = 1 /\ s \in {<<"need_thread", "mod_timer">>, <<"mod_timer">>, << >>}

\* What exit has left to do when c threads have been joined.
ExitAt(k, s, c) ==
    CASE k = "kthread_example3" ->
            /\ s \in Seq(Ops) /\ c \in 0 .. NR_THREADS /\ Len(s) = NR_THREADS - c
            /\ \A i \in 1 .. Len(s) :
                  s[i] = "kthread_stop" \/ (i = 1 /\ s[i] = "join")
      [] k # "kthread_example3" ->
            \/ c = 1 /\ s = << >>
            \/ c = 0 /\ s \in {<<"kthread_stop">>, <<"join">>}
            \/ c = 0 /\ k = "kthread_example5" /\ s = <<"not_running", "kthread_stop">>
            \/ c = 0 /\ k = "kthread_example4" /\ s \in
                  {<<"del_timer", "not_running", "set_waked", "wake_up", "kthread_stop">>,
                   <<"not_running", "set_waked", "wake_up", "kthread_stop">>,
                   <<"set_waked", "wake_up", "kthread_stop">>,
                   <<"wake_up", "kthread_stop">>}

Flags == [finished : BOOLEAN, running : BOOLEAN, waked : BOOLEAN, sem : Nat]

KthTypes ==
    /\ kth \in Kths \cup {"none"} /\ (kth = "none" <=> stage = "out")
    /\ stage \in {"out", "init", "loaded", "exit", "unloaded", "oops"}
    /\ created \in 0 .. NR_THREADS /\ stopped \in 0 .. created
    /\ state \in [Threads -> {"none", "running", "interruptible", "asleep", "done"}]
    /\ run = [t \in Threads |-> run[t]]
    /\ stop \subseteq Threads
    /\ flags \in Flags
    /\ waiting \subseteq 0 .. Module
    /\ timer \in {"idle", "pending", "expired", "woken"}
    /\ timer # "idle" => kth = "kthread_example4"

\* The module's task: how many threads it has started and joined.
TaskInv ==
    /\ stage = "out" => created = 0 /\ stopped = 0
    /\ stage = "init" => InitAt(kth, ksteps, created) /\ stopped = 0
    /\ stage = "loaded" => created = Count(kth) /\ stopped = 0
    /\ stage = "exit" => created = Count(kth) /\ ExitAt(kth, ksteps, stopped)
    /\ stage = "unloaded" => created = Count(kth) /\ stopped = created
    /\ stage = "oops" => created <= Count(kth)

\* The threads: whoever is past the loop has been told to stop.
ThreadInv ==
    \A t \in Threads :
        /\ t >= created => state[t] = "none"
        /\ t < stopped => state[t] = "done"
        /\ state[t] = "none" => run[t] = << >>
        /\ state[t] = "done" => run[t] = << >>
        /\ state[t] # "none" => run[t] \in Working(kth) \cup Past
        /\ state[t] # "none" /\ run[t] \in Ending => t \in stop

\* The flag of kthread_example1 and kthread_example2.
FlagInv ==
    /\ stage = "out" => ~flags.finished
    /\ kth \in {"kthread_example1", "kthread_example2"} =>
        /\ flags.finished => created = 1 /\ \A t \in Threads : run[t] \in Past
        /\ stage # "init" \/ ksteps = << >> => flags.finished

Up == {t \in Threads : state[t] # "none" /\ run[t] \in Past}

\* The semaphore of kthread_example3: the threads that are past up() are those
\* init has counted and those it has still to count.
SemInv ==
    /\ kth # "kthread_example3" => flags.sem = 0
    /\ kth = "kthread_example3" /\ stage = "init" =>
          Cardinality(Up) = flags.sem + (2 * NR_THREADS - created - Len(ksteps))
    /\ kth = "kthread_example3" /\ stage # "init" =>
          flags.sem = 0 /\ \A t \in Threads : run[t] \in Past

\* The timer of kthread_example4.
TimerInv ==
    /\ stage = "exit" /\ kth = "kthread_example4"
            /\ (ksteps = << >> \/ Head(ksteps) # "del_timer")
          => timer = "idle" \/ late
    /\ stage = "unloaded" => timer = "idle" \/ late

KthIInv == KthTypes /\ TaskInv /\ ThreadInv /\ FlagInv /\ SemInv /\ TimerInv

LEMMA Programs ==
  /\ example_run = <<"work", "test_stop", "msleep">>
  /\ example1_run = <<"work", "finished", "test_stop", "msleep">>
  /\ example2_run = <<"work", "finished", "wake_up", "test_stop", "msleep">>
  /\ example3_run = <<"work", "up", "test_stop", "msleep">>
  /\ example4_run = <<"while_running", "test_stop">>
  /\ example5_run = <<"work", "test_stop">>
<1> USE DEF wait_for_kthread_stop
<1>1. <<"work">> \o <<"test_stop">> = <<"work", "test_stop">> BY Conc11, Zenon
<1>2. <<"work", "test_stop">> \o <<"msleep">> = <<"work", "test_stop", "msleep">>
  BY Conc21, Zenon
<1>3. /\ <<"work", "finished">> \o <<"test_stop">> = <<"work", "finished", "test_stop">>
      /\ <<"work", "up">> \o <<"test_stop">> = <<"work", "up", "test_stop">>
  BY Conc21, Zenon
<1>4. /\ <<"work", "finished", "test_stop">> \o <<"msleep">>
            = <<"work", "finished", "test_stop", "msleep">>
      /\ <<"work", "up", "test_stop">> \o <<"msleep">>
            = <<"work", "up", "test_stop", "msleep">>
  BY Conc31, Zenon
<1>5. <<"work", "finished", "wake_up">> \o <<"test_stop">>
            = <<"work", "finished", "wake_up", "test_stop">>
  BY Conc31, Zenon
<1>6. <<"work", "finished", "wake_up", "test_stop">> \o <<"msleep">>
            = <<"work", "finished", "wake_up", "test_stop", "msleep">>
  BY Conc41, Zenon
<1>7. <<"while_running">> \o <<"test_stop">> = <<"while_running", "test_stop">>
  BY Conc11, Zenon
<1> QED BY <1>1, <1>2, <1>3, <1>4, <1>5, <1>6, <1>7, Zenon
  DEF example_run, example1_run, example2_run, example3_run, example4_run, example5_run

\* Where a thread stands, and where its next step takes it.
LEMMA ThreadSteps ==
  ASSUME NEW k \in Kths, NEW s \in Working(k) \cup Past
  PROVE  /\ s \in Past => /\ s \notin Working(k)
                          /\ s # << >> => /\ Tail(s) \in Past
                                          /\ Head(s) \notin {"work", "finished", "up",
                                                             "while_running"}
         /\ s \in Working(k) =>
              /\ s # << >> /\ s \notin Ending /\ Tail(s) \in Working(k) \cup Past
              /\ Head(s) # "test_stop"
              /\ Head(s) \in {"finished", "up"} => Tail(s) \in Past
              /\ Head(s) = "finished" =>
                    k \in {"kthread_example1", "kthread_example2"}
              /\ Head(s) = "up" => k = "kthread_example3"
              /\ k \in {"kthread_example1", "kthread_example2", "kthread_example3"}
                    /\ Head(s) \notin {"finished", "up"} => Tail(s) \in Working(k)
              /\ Head(s) = "while_running" =>
                    /\ k = "kthread_example4"
                    /\ <<"wait_waked", "reset_waked">> \o s \in Working(k)
         /\ s # << >> /\ Head(s) = "test_stop" => 
               <<"set_state">> \o s \in Past \ Ending
         /\ s # << >> /\ Tail(s) \in Ending =>
               Head(s) = "test_stop" \/ s \in Ending
<1> USE DEF Past, Ending
<1>1. CASE s \in Past
  <2>1. s \notin Working(k) BY <1>1 DEF Working, Kths
  <2>2. CASE s = << >> BY <2>1, <2>2
  <2>3. CASE s = <<"msleep">> BY <2>1, <2>3
  <2>4. CASE s = <<"test_stop">> BY <2>1, <2>4, Conc11
  <2>5. CASE s = <<"test_stop", "msleep">> BY <2>1, <2>5, Conc12
  <2>6. CASE s = <<"set_state", "test_stop">> BY <2>1, <2>6
  <2>7. CASE s = <<"set_state", "test_stop", "msleep">> BY <2>1, <2>7
  <2>8. CASE s = <<"wake_up", "test_stop", "msleep">> BY <2>1, <2>8
  <2> QED BY <1>1, <2>2, <2>3, <2>4, <2>5, <2>6, <2>7, <2>8
<1>2. CASE s \in Working(k)
  <2>0. s \notin Past BY <1>2 DEF Working, Kths
  <2>1. CASE s = <<"work", "test_stop", "msleep">>
    BY <1>2, <2>0, <2>1 DEF Working, Kths
  <2>2. CASE s = <<"work", "finished", "test_stop", "msleep">>
    BY <1>2, <2>0, <2>2 DEF Working, Kths
  <2>3. CASE s = <<"finished", "test_stop", "msleep">>
    BY <1>2, <2>0, <2>3 DEF Working, Kths
  <2>4. CASE s = <<"work", "finished", "wake_up", "test_stop", "msleep">>
    BY <1>2, <2>0, <2>4 DEF Working, Kths
  <2>5. CASE s = <<"finished", "wake_up", "test_stop", "msleep">>
    BY <1>2, <2>0, <2>5 DEF Working, Kths
  <2>6. CASE s = <<"work", "up", "test_stop", "msleep">>
    BY <1>2, <2>0, <2>6 DEF Working, Kths
  <2>7. CASE s = <<"up", "test_stop", "msleep">>
    BY <1>2, <2>0, <2>7 DEF Working, Kths
  <2>8. CASE s = <<"while_running", "test_stop">>
    <3>1. <<"wait_waked", "reset_waked">> \o <<"while_running", "test_stop">>
              = <<"wait_waked", "reset_waked", "while_running", "test_stop">>
      BY Conc22, Zenon
    <3>2. PICK w : w = <<"wait_waked", "reset_waked">> \o s OBVIOUS
    <3>3. w = <<"wait_waked", "reset_waked", "while_running", "test_stop">>
      BY <2>8, <3>1, <3>2, Zenon
    <3>4. k = "kthread_example4" BY <1>2, <2>8 DEF Working, Kths
    <3>5. w \in Working(k) BY <3>3, <3>4 DEF Working
    <3>6. /\ s # << >> /\ s \notin Ending /\ Tail(s) = <<"test_stop">>
          /\ Head(s) = "while_running"
      BY <2>8
    <3> QED BY <1>2, <2>0, <3>2, <3>4, <3>5, <3>6
  <2>9. CASE s = <<"wait_waked", "reset_waked", "while_running", "test_stop">>
    BY <1>2, <2>0, <2>9 DEF Working, Kths
  <2>10. CASE s = <<"reset_waked", "while_running", "test_stop">>
    BY <1>2, <2>0, <2>10 DEF Working, Kths
  <2>11. CASE s = <<"work", "test_stop">>
    BY <1>2, <2>0, <2>11 DEF Working, Kths
  <2> QED
    BY <1>2, <2>1, <2>2, <2>3, <2>4, <2>5, <2>6, <2>7, <2>8, <2>9, <2>10, <2>11 DEF Working, Kths
<1> QED BY <1>1, <1>2

LEMMA Eaches ==
  ASSUME NEW op \in Ops
  PROVE  /\ Each(op) \in Seq(Ops) /\ Len(Each(op)) = NR_THREADS
         /\ \A i \in 1 .. NR_THREADS : Each(op)[i] = op
BY KthAssumption DEF Each

\* The functions of an example, and where they start.
LEMMA ExampleStarts ==
  /\ DOMAIN Examples = Kths
  /\ \A k \in Kths : /\ Examples[k].run \in Working(k) \ Past
                     /\ InitAt(k, Examples[k].init, 0)
                     /\ ExitAt(k, Examples[k].exit, 0)
<1> USE DEF Examples, Example
<1>1. DOMAIN Examples = Kths BY DEF Kths
<1>2. ASSUME NEW k \in Kths PROVE Examples[k].run \in Working(k)
  BY Programs DEF Kths, Working
<1>3. ASSUME NEW k \in Kths \ {"kthread_example3"}
      PROVE  InitAt(k, Examples[k].init, 0) /\ ExitAt(k, Examples[k].exit, 0)
  <2>1. CASE k = "kthread_example"
    BY <2>1 DEF InitAt, ExitAt, example_init, example_exit
  <2>2. CASE k = "kthread_example1"
    BY <2>2 DEF InitAt, ExitAt, example1_init, example1_exit
  <2>3. CASE k = "kthread_example2"
    BY <2>3 DEF InitAt, ExitAt, example2_init, example2_exit
  <2>4. CASE k = "kthread_example4"
    BY <2>4 DEF InitAt, ExitAt, example4_init, example4_exit
  <2>5. CASE k = "kthread_example5"
    BY <2>5 DEF InitAt, ExitAt, example5_init, example5_exit
  <2> QED BY <2>1, <2>2, <2>3, <2>4, <2>5 DEF Kths
<1>4. ExitAt("kthread_example3", example3_exit, 0)
  BY Eaches, KthAssumption DEF ExitAt, example3_exit, Ops
<1>5. InitAt("kthread_example3", example3_init, 0)
  <2>1. PICK s, t : s = Each("kthread_run") /\ t = Each("down") OBVIOUS
  <2>2. /\ s \in Seq(Ops) /\ t \in Seq(Ops) /\ Len(s) = NR_THREADS /\ Len(t) = NR_THREADS
        /\ \A i \in 1 .. NR_THREADS : s[i] = "kthread_run" /\ t[i] = "down"
    BY <2>1, Eaches DEF Ops
  <2>3. /\ s \o t \in Seq(Ops) /\ Len(s \o t) = 2 * NR_THREADS
        /\ \A i \in 1 .. 2 * NR_THREADS : (s \o t)[i] =
              IF i <= NR_THREADS THEN s[i] ELSE t[i - NR_THREADS]
    <3>1. /\ s \o t \in Seq(Ops) /\ Len(s \o t) = Len(s) + Len(t)
          /\ \A i \in 1 .. Len(s) + Len(t) : (s \o t)[i] =
                IF i <= Len(s) THEN s[i] ELSE t[i - Len(s)]
      BY <2>2, ConcatProperties
    <3>2. Len(s) + Len(t) = 2 * NR_THREADS BY <2>2, KthAssumption
    <3> QED BY <2>2, <3>1, <3>2
  <2>4. \A i \in 1 .. 2 * NR_THREADS : (s \o t)[i] =
              IF i <= NR_THREADS THEN "kthread_run" ELSE "down"
    BY <2>2, <2>3, KthAssumption
  <2>5. PICK u : u = s \o t OBVIOUS
  <2>6. InitAt("kthread_example3", u, 0)
    BY <2>3, <2>4, <2>5, KthAssumption DEF InitAt
  <2> QED BY <2>1, <2>5, <2>6 DEF example3_init
<1>6. ASSUME NEW k \in Kths PROVE Examples[k].run \notin Past
  BY <1>2, ThreadSteps
<1> QED BY <1>1, <1>2, <1>3, <1>4, <1>5, <1>6

\* A step of init.
LEMMA InitSteps ==
  ASSUME NEW k \in Kths, NEW s, NEW c, InitAt(k, s, c)
  PROVE  /\ c \in 0 .. Count(k)
         /\ s = << >> => c = Count(k)
         /\ s # << >> =>
              /\ Head(s) = "kthread_run" => c < Count(k) /\ InitAt(k, Tail(s), c + 1)
              /\ Head(s) # "kthread_run" => c = Count(k) /\ InitAt(k, Tail(s), c)
              /\ Head(s) \in {"kthread_run", "poll", "wait_finished", "down",
                              "need_thread", "mod_timer"}
              /\ Head(s) = "down" <=> k = "kthread_example3" /\ Head(s) # "kthread_run"
              /\ Head(s) \in {"need_thread", "mod_timer"} => k = "kthread_example4"
              /\ k \in {"kthread_example1", "kthread_example2"} /\ Tail(s) = << >>
                    => Head(s) \in {"poll", "wait_finished"}
         /\ k = "kthread_example3" => /\ Len(s) \in Nat
                                      /\ Len(s) <= 2 * NR_THREADS - c
                                      /\ s # << >> => Len(Tail(s)) = Len(s) - 1
                                      /\ s = << >> <=> Len(s) = 0
<1>1. CASE k # "kthread_example3"
  <2>1. Count(k) = 1 /\ k \in Kths BY <1>1 DEF Count
  <2>2. CASE c = 0
    <3>1. /\ s # << >> /\ Head(s) = "kthread_run" /\ InitAt(k, Tail(s), 1)
          /\ k \in {"kthread_example1", "kthread_example2"} => Tail(s) # << >>
      <4>1. CASE k \in {"kthread_example", "kthread_example5"}
        <5>1. s = <<"kthread_run">>
          <6>1. CASE k = "kthread_example" BY <2>2, <6>1 DEF InitAt
          <6>2. CASE k = "kthread_example5" BY <2>2, <6>2 DEF InitAt
          <6> QED BY <4>1, <6>1, <6>2
        <5>2. s # << >> /\ Head(s) = "kthread_run" /\ Tail(s) = << >> BY <5>1
        <5>3. InitAt(k, Tail(s), 1) BY <4>1, <5>2 DEF InitAt
        <5> QED BY <4>1, <5>2, <5>3
      <4>2. CASE k = "kthread_example1"
        <5>1. s = <<"kthread_run", "poll">> BY <2>2, <4>2 DEF InitAt
        <5>2. s # << >> /\ Head(s) = "kthread_run" /\ Tail(s) = <<"poll">> BY <5>1
        <5>3. InitAt(k, Tail(s), 1) BY <4>2, <5>2 DEF InitAt
        <5> QED BY <4>2, <5>2, <5>3
      <4>3. CASE k = "kthread_example2"
        <5>1. s = <<"kthread_run", "wait_finished">> BY <2>2, <4>3 DEF InitAt
        <5>2. s # << >> /\ Head(s) = "kthread_run" /\ Tail(s) = <<"wait_finished">> BY <5>1
        <5>3. InitAt(k, Tail(s), 1) BY <4>3, <5>2 DEF InitAt
        <5> QED BY <4>3, <5>2, <5>3
      <4>4. CASE k = "kthread_example4"
        <5>1. s = <<"kthread_run", "need_thread", "mod_timer">> BY <2>2, <4>4 DEF InitAt
        <5>2. s # << >> /\ Head(s) = "kthread_run" /\ Tail(s) = <<"need_thread", "mod_timer">> BY <5>1
        <5>3. InitAt(k, Tail(s), 1) BY <4>4, <5>2 DEF InitAt
        <5> QED BY <4>4, <5>2, <5>3
      <4> QED BY <1>1, <4>1, <4>2, <4>3, <4>4 DEF Kths
    <3> QED BY <1>1, <2>1, <2>2, <3>1
  <2>3. CASE c = 1 /\ s = << >> BY <1>1, <2>1, <2>3
  <2>4. CASE c = 1 /\ s = <<"poll">> /\ k = "kthread_example1"
    <3>1. Head(s) = "poll" /\ Tail(s) = << >> BY <2>4
    <3>2. InitAt(k, Tail(s), 1) BY <2>4, <3>1 DEF InitAt
    <3> QED BY <2>1, <2>4, <3>1, <3>2
  <2>5. CASE c = 1 /\ s = <<"wait_finished">> /\ k = "kthread_example2"
    <3>1. Head(s) = "wait_finished" /\ Tail(s) = << >> BY <2>5
    <3>2. InitAt(k, Tail(s), 1) BY <2>5, <3>1 DEF InitAt
    <3> QED BY <2>1, <2>5, <3>1, <3>2
  <2>6. CASE c = 1 /\ s = <<"need_thread", "mod_timer">> /\ k = "kthread_example4"
    <3>1. Head(s) = "need_thread" /\ Tail(s) = <<"mod_timer">> BY <2>6
    <3>2. InitAt(k, Tail(s), 1) BY <2>6, <3>1 DEF InitAt
    <3> QED BY <2>1, <2>6, <3>1, <3>2
  <2>7. CASE c = 1 /\ s = <<"mod_timer">> /\ k = "kthread_example4"
    <3>1. Head(s) = "mod_timer" /\ Tail(s) = << >> BY <2>7
    <3>2. InitAt(k, Tail(s), 1) BY <2>7, <3>1 DEF InitAt
    <3> QED BY <2>1, <2>7, <3>1, <3>2
  <2> QED BY <1>1, <2>2, <2>3, <2>4, <2>5, <2>6, <2>7 DEF InitAt, Kths
<1>2. CASE k = "kthread_example3"
  <2>1. /\ s \in Seq(Ops) /\ Len(s) \in Nat /\ c \in 0 .. NR_THREADS
        /\ Len(s) <= 2 * NR_THREADS - c
        /\ c < NR_THREADS => Len(s) = 2 * NR_THREADS - c
        /\ \A i \in 1 .. Len(s) :
              s[i] = IF i <= NR_THREADS - c THEN "kthread_run" ELSE "down"
    BY <1>2 DEF InitAt
  <2>2. CASE s = << >> BY <1>2, <2>1, <2>2, KthAssumption DEF Count
  <2>3. CASE s # << >>
    <3>1. PICK r : r = Tail(s) OBVIOUS
    <3>2. /\ r \in Seq(Ops) /\ Len(r) = Len(s) - 1 /\ Len(s) > 0
          /\ Head(s) = s[1] /\ \A i \in 1 .. Len(r) : r[i] = s[i + 1]
      BY <2>1, <2>3, <3>1, HeadTailProperties
    <3>3. Head(s) = IF c < NR_THREADS THEN "kthread_run" ELSE "down"
      BY <2>1, <3>2, KthAssumption
    <3>4. \A i \in 1 .. Len(r) :
             r[i] = IF i + 1 <= NR_THREADS - c THEN "kthread_run" ELSE "down"
      BY <2>1, <3>2, KthAssumption
    <3>5. ASSUME c < NR_THREADS PROVE InitAt(k, r, c + 1)
      <4>1. PICK d : d = c + 1 OBVIOUS
      <4>2. \A i \in 1 .. Len(r) :
               r[i] = IF i <= NR_THREADS - d THEN "kthread_run" ELSE "down"
        BY <2>1, <3>2, <3>4, <3>5, <4>1, KthAssumption
      <4>3. /\ Len(r) = 2 * NR_THREADS - d /\ Len(r) <= 2 * NR_THREADS - d
            /\ d \in 0 .. NR_THREADS
        BY <2>1, <3>2, <3>5, <4>1, KthAssumption
      <4>4. InitAt(k, r, d) BY <1>2, <3>2, <4>2, <4>3 DEF InitAt
      <4> QED BY <4>1, <4>4
    <3>6. ASSUME c = NR_THREADS PROVE InitAt(k, r, c)
      <4>1. \A i \in 1 .. Len(r) :
               r[i] = IF i <= NR_THREADS - c THEN "kthread_run" ELSE "down"
        BY <2>1, <3>2, <3>4, <3>6, KthAssumption
      <4>2. Len(r) <= 2 * NR_THREADS - c /\ ~(c < NR_THREADS)
        BY <2>1, <3>2, <3>6, KthAssumption
      <4> QED BY <1>2, <2>1, <3>2, <4>1, <4>2 DEF InitAt
    <3>7. Count(k) = NR_THREADS /\ (c = NR_THREADS <=> ~(c < NR_THREADS))
      BY <1>2, <2>1, KthAssumption DEF Count
    <3>8. s = << >> <=> Len(s) = 0 BY <2>3, <3>2
    <3> HIDE DEF InitAt
    <3> QED BY <1>2, <2>1, <2>3, <3>1, <3>2, <3>3, <3>5, <3>6, <3>7, <3>8
  <2> QED BY <2>2, <2>3
<1> QED BY <1>1, <1>2

\* A step of exit.
LEMMA ExitSteps ==
  ASSUME NEW k \in Kths, NEW s, NEW c, ExitAt(k, s, c)
  PROVE  /\ c \in 0 .. Count(k)
         /\ s = << >> => c = Count(k)
         /\ s # << >> =>
              /\ Head(s) = "kthread_stop" => ExitAt(k, <<"join">> \o Tail(s), c)
              /\ Head(s) \in {"kthread_stop", "join"} => c < Count(k)
              /\ Head(s) = "join" => ExitAt(k, Tail(s), c + 1)
              /\ Head(s) \notin {"kthread_stop", "join"} => ExitAt(k, Tail(s), c)
              /\ Head(s) \in {"kthread_stop", "join", "del_timer", "not_running",
                              "set_waked", "wake_up"}
              /\ Tail(s) # << >> => Head(Tail(s)) # "del_timer"
              /\ Head(s) = "kthread_stop" => /\ <<"join">> \o Tail(s) # << >>
                                             /\ Head(<<"join">> \o Tail(s)) # "del_timer"
<1>1. CASE k # "kthread_example3"
  <2>1. <<"join">> \o << >> = <<"join">> OBVIOUS
  <2>2. CASE s = << >> BY <1>1, <2>2 DEF ExitAt, Count
  <2>8. CASE s = <<"kthread_stop">>
    <3>1. Head(s) = "kthread_stop" /\ Tail(s) = << >> /\ c = 0 BY <1>1, <2>8 DEF ExitAt
    <3>2. PICK j : j = <<"join">> \o Tail(s) OBVIOUS
    <3>3. j = <<"join">> BY <2>1, <3>1, <3>2, Zenon
    <3>4. ExitAt(k, j, 0) /\ j # << >> /\ Head(j) = "join" BY <1>1, <3>3 DEF ExitAt
    <3>5. s # << >> /\ Count(k) = 1 BY <1>1, <2>8 DEF Count
    <3> QED BY <3>1, <3>2, <3>4, <3>5
  <2>9. CASE s = <<"join">> BY <1>1, <2>9 DEF ExitAt, Count
  <2>3. CASE s = <<"not_running", "kthread_stop">> BY <1>1, <2>3 DEF ExitAt, Count
  <2>4. CASE s = <<"del_timer", "not_running", "set_waked", "wake_up", "kthread_stop">>
    BY <1>1, <2>4 DEF ExitAt, Count
  <2>5. CASE s = <<"not_running", "set_waked", "wake_up", "kthread_stop">>
    BY <1>1, <2>5 DEF ExitAt, Count
  <2>6. CASE s = <<"set_waked", "wake_up", "kthread_stop">>
    BY <1>1, <2>6 DEF ExitAt, Count
  <2>7. CASE s = <<"wake_up", "kthread_stop">> BY <1>1, <2>7 DEF ExitAt, Count
  <2> QED BY <1>1, <2>2, <2>3, <2>4, <2>5, <2>6, <2>7, <2>8, <2>9 DEF ExitAt
<1>2. CASE k = "kthread_example3"
  <2>1. /\ s \in Seq(Ops) /\ Len(s) \in Nat /\ c \in 0 .. NR_THREADS
        /\ Len(s) = NR_THREADS - c
        /\ \A i \in 1 .. Len(s) : s[i] = "kthread_stop" \/ (i = 1 /\ s[i] = "join")
    BY <1>2 DEF ExitAt
  <2>2. CASE s = << >> BY <1>2, <2>1, <2>2, KthAssumption DEF Count
  <2>3. CASE s # << >>
    <3>1. PICK r, j, q : r = Tail(s) /\ j = <<"join">> /\ q = j \o r OBVIOUS
    <3>2. /\ r \in Seq(Ops) /\ Len(r) = Len(s) - 1 /\ Len(s) > 0
          /\ Head(s) = s[1] /\ \A i \in 1 .. Len(r) : r[i] = s[i + 1]
      BY <2>1, <2>3, <3>1, HeadTailProperties
    <3>3. \A i \in 1 .. Len(r) : r[i] = "kthread_stop" BY <2>1, <3>2
    <3>4. ExitAt(k, r, c + 1) BY <1>2, <2>1, <3>2, <3>3, KthAssumption DEF ExitAt
    <3>5. j \in Seq(Ops) /\ Len(j) = 1 /\ j[1] = "join" BY <3>1 DEF Ops
    <3>6. /\ q \in Seq(Ops) /\ Len(q) = 1 + Len(r)
          /\ \A i \in 1 .. 1 + Len(r) : q[i] = IF i <= 1 THEN j[i] ELSE r[i - 1]
      BY <3>1, <3>2, <3>5, ConcatProperties
    <3>7. /\ q[1] = "join" /\ Head(q) = "join" /\ q # << >>
          /\ \A i \in 2 .. 1 + Len(r) : q[i] = "kthread_stop"
      <4>1. Len(r) \in Nat /\ Len(q) > 0 BY <3>2, <3>6
      <4>2. q[1] = "join" BY <3>5, <3>6, <4>1
      <4>3. Head(q) = "join" /\ q # << >> BY <3>6, <4>1, <4>2
      <4>4. ASSUME NEW i \in 2 .. 1 + Len(r) PROVE q[i] = "kthread_stop"
        <5>1. i - 1 \in 1 .. Len(r) /\ i \in 1 .. 1 + Len(r) /\ ~(i <= 1) BY <4>1
        <5> QED BY <3>3, <3>6, <5>1
      <4> QED BY <4>2, <4>3, <4>4
    <3>8. ExitAt(k, q, c) BY <1>2, <2>1, <3>2, <3>6, <3>7, KthAssumption DEF ExitAt
    <3>9. r # << >> => Head(r) = "kthread_stop" BY <3>2, <3>3
    <3>10. Head(s) \in {"kthread_stop", "join"} BY <2>1, <3>2
    <3>11. Count(k) = NR_THREADS /\ c < NR_THREADS
      BY <1>2, <2>1, <3>2, KthAssumption DEF Count
    <3>12. q = <<"join">> \o Tail(s) BY <3>1
    <3> QED BY <2>1, <2>3, <3>1, <3>4, <3>7, <3>8, <3>9, <3>10, <3>11, <3>12
  <2> QED BY <2>2, <2>3
<1> QED BY <1>1, <1>2

LEMMA KthStarts == KthInit => KthIInv
<1> SUFFICES ASSUME KthInit PROVE KthIInv OBVIOUS
<1> USE DEF KthInit
<1>1. KthTypes BY KthAssumption DEF KthTypes, Flags, Kths
<1>2. TaskInv BY DEF TaskInv
<1>3. ThreadInv BY KthAssumption DEF ThreadInv, Threads
<1>4. FlagInv /\ SemInv /\ TimerInv BY DEF FlagInv, SemInv, TimerInv
<1> QED BY <1>1, <1>2, <1>3, <1>4 DEF KthIInv

LEMMA UpFinite == /\ IsFiniteSet(Up) /\ Cardinality(Up) \in Nat
                  /\ Cardinality(Up) <= NR_THREADS
                  /\ Cardinality(Up) = NR_THREADS => Up = Threads
<1>1. IsFiniteSet(Threads) /\ Cardinality(Threads) = NR_THREADS
  BY FS_Interval, KthAssumption DEF Threads
<1>2. Up \in SUBSET Threads BY DEF Up
<1>3. /\ IsFiniteSet(Up) /\ Cardinality(Up) <= Cardinality(Threads)
      /\ Cardinality(Threads) = Cardinality(Up) => Threads = Up
  BY <1>1, <1>2, FS_Subset
<1>4. Cardinality(Up) \in Nat BY <1>3, FS_CardinalityType
<1> QED BY <1>1, <1>3, <1>4

\* A step of thread t: what it has left to do becomes r, its state q.
LEMMA ThreadKeeps ==
  ASSUME KthIInv, NEW t \in Threads, Alive, state[t] \in {"running", "interruptible"},
         NEW r \in Working(kth) \cup Past, run' = [run EXCEPT ![t] = r],
         NEW q \in {"running", "interruptible", "asleep", "done"},
         state' = [state EXCEPT ![t] = q],
         UNCHANGED <<kth, stage, ksteps, created, stopped, stop, timer, late>>,
         waiting' \subseteq 0 .. Module, flags' \in Flags,
         q = "done" => r = << >>,
         r \in Ending => t \in stop,
         run[t] \in Past => r \in Past,
         kth \in {"kthread_example1", "kthread_example2"} =>
            /\ flags'.finished => flags.finished \/ r \in Past
            /\ flags.finished => flags'.finished,
         flags'.sem = IF kth = "kthread_example3" /\ r \in Past /\ run[t] \notin Past
                      THEN flags.sem + 1 ELSE flags.sem
  PROVE  KthIInv'
<1>0. /\ KthTypes /\ TaskInv /\ ThreadInv /\ FlagInv /\ SemInv /\ TimerInv
      /\ kth \in Kths
  BY DEF KthIInv, KthTypes, Alive
<1>1. KthTypes' BY <1>0 DEF KthTypes, Module
<1>2. TaskInv' BY <1>0 DEF TaskInv
<1>3. /\ run'[t] = r /\ state'[t] = q
      /\ \A u \in Threads : u # t => run'[u] = run[u] /\ state'[u] = state[u]
  BY <1>0 DEF KthTypes
<1>4. /\ state[t] # "none" /\ state[t] # "done" /\ t < created /\ ~(t < stopped)
      /\ t \in 0 .. NR_THREADS - 1 /\ created \in 0 .. NR_THREADS
  BY <1>0, KthAssumption DEF ThreadInv, KthTypes, Threads
<1>5. ThreadInv'
  <2> SUFFICES ASSUME NEW u \in Threads
               PROVE  /\ u >= created => state'[u] = "none"
                      /\ u < stopped => state'[u] = "done"
                      /\ state'[u] = "none" => run'[u] = << >>
                      /\ state'[u] = "done" => run'[u] = << >>
                      /\ state'[u] # "none" => run'[u] \in Working(kth) \cup Past
                      /\ state'[u] # "none" /\ run'[u] \in Ending => u \in stop
    BY DEF ThreadInv
  <2>1. CASE u # t BY <1>0, <1>3, <2>1 DEF ThreadInv
  <2>2. CASE u = t BY <1>3, <1>4, <2>2
  <2> QED BY <2>1, <2>2
<1>6. \A u \in Threads : run[u] \in Past => run'[u] \in Past BY <1>3
<1>7. FlagInv'
  <2> SUFFICES ASSUME kth \in {"kthread_example1", "kthread_example2"}
               PROVE  /\ flags'.finished =>
                            created = 1 /\ \A u \in Threads : run'[u] \in Past
                      /\ stage # "init" \/ ksteps = << >> => flags'.finished
    BY DEF FlagInv, Alive
  <2>1. stage # "init" \/ ksteps = << >> => flags'.finished BY <1>0 DEF FlagInv
  <2>2. CASE flags.finished BY <1>0, <1>6, <2>1, <2>2 DEF FlagInv
  <2>3. CASE ~flags.finished /\ flags'.finished
    <3>1. stage = "init" BY <1>0, <2>3 DEF FlagInv, Alive
    <3>2. created <= 1
      <4>1. InitAt(kth, ksteps, created) BY <1>0, <3>1 DEF TaskInv
      <4>2. created \in 0 .. Count(kth) BY <1>0, <4>1, InitSteps
      <4> QED BY <4>2 DEF Count
    <3>3. created = 1 /\ t = 0 BY <1>4, <3>2
    <3>4. ASSUME NEW u \in Threads, u # t PROVE run'[u] = << >>
      <4>1. u >= created BY <3>3, <3>4 DEF Threads
      <4> QED BY <1>0, <1>3, <3>4, <4>1 DEF ThreadInv
    <3>5. r \in Past /\ << >> \in Past BY <2>3 DEF Past, Ending
    <3> QED BY <1>3, <2>1, <3>3, <3>4, <3>5
  <2> QED BY <2>1, <2>2, <2>3
<1>8. SemInv'
  <2>1. CASE kth # "kthread_example3" BY <1>0, <2>1 DEF SemInv
  <2>2. CASE kth = "kthread_example3" /\ stage # "init"
    <3>1. flags.sem = 0 /\ \A u \in Threads : run[u] \in Past BY <1>0, <2>2 DEF SemInv
    <3> QED BY <1>6, <2>2, <3>1 DEF SemInv
  <2>3. CASE kth = "kthread_example3" /\ stage = "init"
    <3>1. Cardinality(Up) = flags.sem + (2 * NR_THREADS - created - Len(ksteps))
      BY <1>0, <2>3 DEF SemInv
    <3>2. IsFiniteSet(Up) /\ Cardinality(Up) \in Nat
      BY UpFinite
    <3>3. CASE r \in Past /\ run[t] \notin Past
      <4>1. Up' = Up \cup {t} /\ t \notin Up BY <1>3, <1>4, <3>3 DEF Up
      <4>2. Cardinality(Up \cup {t}) = Cardinality(Up) + 1
        BY <3>2, <4>1, FS_AddElement
      <4>3. flags'.sem = flags.sem + 1 /\ flags.sem \in Nat
        BY <1>0, <2>3, <3>3 DEF KthTypes, Flags
      <4>4. Len(ksteps) \in Nat
        BY <1>0, <2>3, InitSteps DEF TaskInv
      <4>5. Cardinality(Up') = flags'.sem + (2 * NR_THREADS - created - Len(ksteps))
        BY <1>4, <3>1, <3>2, <4>1, <4>2, <4>3, <4>4, KthAssumption
      <4> QED BY <2>3, <4>5 DEF SemInv
    <3>4. CASE ~(r \in Past /\ run[t] \notin Past)
      <4>1. Up' = Up BY <1>3, <1>4, <3>4 DEF Up
      <4> QED BY <2>3, <3>1, <3>4, <4>1 DEF SemInv
    <3> QED BY <3>3, <3>4
  <2> QED BY <2>1, <2>2, <2>3
<1>9. TimerInv' BY <1>0 DEF TimerInv
<1> QED BY <1>1, <1>2, <1>5, <1>7, <1>8, <1>9 DEF KthIInv

LEMMA ThreadStands ==
  ASSUME KthIInv, NEW t \in Threads, Alive, state[t] \in {"running", "interruptible"}
  PROVE  /\ kth \in Kths /\ run[t] \in Working(kth) \cup Past
         /\ run[t] \in Ending => t \in stop
         /\ flags \in Flags /\ waiting \subseteq 0 .. Module
         /\ DOMAIN run = Threads /\ DOMAIN state = Threads
         /\ run = [run EXCEPT ![t] = run[t]] /\ state = [state EXCEPT ![t] = state[t]]
<1>1. KthTypes /\ ThreadInv BY DEF KthIInv
<1>2. DOMAIN run = Threads /\ DOMAIN state = Threads BY <1>1 DEF KthTypes
<1>3. run = [run EXCEPT ![t] = run[t]] BY <1>1 DEF KthTypes
<1>4. state = [state EXCEPT ![t] = state[t]] BY <1>1 DEF KthTypes
<1> QED BY <1>4, <1>1, <1>2, <1>3 DEF KthTypes, ThreadInv, Alive

\* A step that is none of those that tell the module.
LEMMA TailKeeps ==
  ASSUME KthIInv, NEW t \in Threads, NEW op, op \notin {"finished", "up"},
         ThreadMoves(t, op), op = "test_stop" => t \in stop,
         NEW q \in {"running", "interruptible"}, state' = [state EXCEPT ![t] = q],
         UNCHANGED timer, waiting' \subseteq 0 .. Module, flags' \in Flags,
         flags'.finished = flags.finished, flags'.sem = flags.sem
  PROVE  KthIInv'
<1>1. PICK s, r, k : s = run[t] /\ r = Tail(s) /\ k = kth OBVIOUS
<1>2. /\ s # << >> /\ Head(s) = op /\ state[t] = "running" /\ Alive
      /\ run' = [run EXCEPT ![t] = Tail(run[t])]
      /\ UNCHANGED <<kth, stage, ksteps, created, stopped, stop, late>>
  BY <1>1 DEF ThreadMoves, ThreadAt
<1>3. /\ k \in Kths /\ s \in Working(k) \cup Past
      /\ s \in Ending => t \in stop
  BY <1>1, <1>2, ThreadStands
<1>4. /\ r \in Working(k) \cup Past
      /\ s \in Past => r \in Past
      /\ r \in Ending => s \in Ending \/ op = "test_stop"
  BY <1>1, <1>2, <1>3, ThreadSteps
<1>5. k = "kthread_example3" /\ s \notin Past => r \notin Past
  <2>1. k = "kthread_example3" /\ s \notin Past => r \in Working(k)
    BY <1>1, <1>2, <1>3, ThreadSteps
  <2> QED BY <1>3, <1>4, <2>1, ThreadSteps
<1>6. run' = [run EXCEPT ![t] = r] BY <1>1, <1>2
<1> QED BY <1>1, <1>2, <1>3, <1>4, <1>5, <1>6, ThreadKeeps

\* A step that leaves the thread where it is.
LEMMA StayKeeps ==
  ASSUME KthIInv, NEW t \in Threads, Alive, state[t] \in {"running", "interruptible"},
         NEW q \in {"running", "interruptible", "asleep", "done"},
         q = "done" => run[t] = << >>, state' = [state EXCEPT ![t] = q],
         UNCHANGED <<kth, stage, ksteps, run, created, stopped, stop, flags, timer, late>>,
         waiting' \subseteq 0 .. Module
  PROVE  KthIInv'
<1>1. PICK r : r = run[t] OBVIOUS
<1>2. /\ run' = [run EXCEPT ![t] = r] /\ r \in Working(kth) \cup Past
      /\ r \in Ending => t \in stop
      /\ flags' \in Flags
  BY <1>1, ThreadStands
<1> QED BY <1>1, <1>2, ThreadKeeps

LEMMA KthThreadKeeps ==
  ASSUME KthIInv, NEW t \in Threads, KthThread(t) PROVE KthIInv'
<1>0. /\ Alive /\ state[t] \in {"running", "interruptible"}
      /\ ~schedule(t) => state[t] = "running"
  BY DEF KthThread, work, tell_module, pong, stop_loop, schedule, thread_returns,
         ThreadMoves, ThreadAt
<1>1. /\ kth \in Kths /\ run[t] \in Working(kth) \cup Past
      /\ run[t] \in Ending => t \in stop
      /\ flags \in Flags /\ waiting \subseteq 0 .. Module
      /\ run = [run EXCEPT ![t] = run[t]] /\ state = [state EXCEPT ![t] = state[t]]
  BY <1>0, ThreadStands
<1>2. {} \subseteq 0 .. Module /\ waiting \cup {t} \subseteq 0 .. Module
  BY <1>1, KthAssumption DEF Module, Threads
<1>3. PICK s, k : s = run[t] /\ k = kth OBVIOUS
<1>4. k \in Kths /\ s \in Working(k) \cup Past BY <1>1, <1>3
<1>5. CASE work(t)
  <2>1. PICK op \in {"work", "msleep"} : ThreadMoves(t, op) BY <1>5 DEF work
  <2>2. /\ UNCHANGED <<flags, waiting, timer>>
        /\ state' = [state EXCEPT ![t] = "running"]
    BY <1>1, <1>5, <2>1 DEF work, ThreadMoves, ThreadAt
  <2> QED BY <1>1, <2>1, <2>2, TailKeeps
<1>6. CASE tell_module(t)
  <2>0. state' = [state EXCEPT ![t] = "running"] /\ UNCHANGED timer
    BY <1>1, <1>6 DEF tell_module, ThreadMoves, ThreadAt
  <2>1. CASE ThreadMoves(t, "wake_up") /\ waiting' = {} /\ UNCHANGED flags
    BY <1>1, <1>2, <2>0, <2>1, TailKeeps
  <2>2. ASSUME NEW op \in {"finished", "up"}, ThreadMoves(t, op), UNCHANGED waiting,
               flags' \in Flags,
               op = "finished" => flags'.finished /\ flags'.sem = flags.sem,
               op = "up" => flags'.sem = flags.sem + 1 /\ flags'.finished = flags.finished
        PROVE  KthIInv'
    <3>1. PICK r : r = Tail(s) OBVIOUS
    <3>2. /\ s # << >> /\ Head(s) = op /\ state[t] = "running"
          /\ run' = [run EXCEPT ![t] = r]
          /\ UNCHANGED <<kth, stage, ksteps, created, stopped, stop, late>>
      BY <1>1, <1>3, <2>2, <3>1 DEF ThreadMoves, ThreadAt
    <3>3. /\ s \in Working(k) /\ s \notin Past /\ r \in Past
          /\ r \in Ending => s \in Ending
          /\ op = "finished" => k # "kthread_example3"
          /\ op = "up" => k = "kthread_example3"
      BY <1>4, <2>2, <3>1, <3>2, ThreadSteps
    <3> QED BY <1>0, <1>1, <1>3, <2>0, <2>2, <3>2, <3>3, ThreadKeeps
  <2>3. CASE ThreadMoves(t, "finished") /\ flags' = [flags EXCEPT !.finished = TRUE]
             /\ UNCHANGED waiting
    BY <1>1, <2>2, <2>3 DEF Flags
  <2>4. CASE ThreadMoves(t, "up") /\ flags' = [flags EXCEPT !.sem = @ + 1]
             /\ UNCHANGED waiting
    BY <1>1, <2>2, <2>4 DEF Flags
  <2> QED BY <1>6, <2>1, <2>3, <2>4 DEF tell_module
<1>7. CASE pong(t)
  <2>0. state' = [state EXCEPT ![t] = "running"] /\ UNCHANGED timer
    BY <1>1, <1>7 DEF pong, ThreadMoves, ThreadAt
  <2>1. ASSUME NEW op \in {"while_running", "wait_waked"}, ThreadMoves(t, op),
               UNCHANGED <<flags, waiting>>
        PROVE  KthIInv'
    BY <1>1, <2>0, <2>1, TailKeeps
  <2>2. CASE ThreadMoves(t, "reset_waked") /\ flags' = [flags EXCEPT !.waked = FALSE]
             /\ UNCHANGED waiting
    <3>1. /\ flags' \in Flags /\ flags'.finished = flags.finished
          /\ flags'.sem = flags.sem
      BY <1>1, <2>2 DEF Flags
    <3> QED BY <1>1, <2>0, <2>2, <3>1, TailKeeps
  <2>3. CASE ThreadAt(t, "wait_waked") /\ waiting' = waiting \cup {t}
             /\ UNCHANGED <<run, flags>>
    BY <1>0, <1>1, <1>2, <2>0, <2>3, StayKeeps DEF ThreadAt
  <2>4. CASE ThreadAt(t, "while_running") /\ UNCHANGED <<flags, waiting>>
             /\ run' = [run EXCEPT ![t] = <<"wait_waked", "reset_waked">> \o @]
    <3>1. PICK r : r = <<"wait_waked", "reset_waked">> \o s OBVIOUS
    <3>2. /\ s # << >> /\ Head(s) = "while_running" /\ state[t] = "running"
          /\ run' = [run EXCEPT ![t] = r]
          /\ UNCHANGED <<kth, stage, ksteps, created, stopped, stop, late>>
      BY <1>3, <2>4, <3>1 DEF ThreadAt
    <3>3. s \in Working(k) /\ r \in Working(k) /\ s \notin Past
      BY <1>4, <3>1, <3>2, ThreadSteps
    <3>4. r \notin Ending /\ r \notin Past
      BY <1>4, <3>3, ThreadSteps
    <3> QED BY <1>0, <1>1, <1>3, <2>0, <2>4, <3>2, <3>3, <3>4, ThreadKeeps
  <2> QED BY <1>7, <2>1, <2>2, <2>3, <2>4 DEF pong
<1>8. CASE stop_loop(t)
  <2>0. UNCHANGED <<flags, waiting, timer>> BY <1>8 DEF stop_loop
  <2>1. CASE ThreadMoves(t, "test_stop") /\ t \in stop /\ UNCHANGED state
    <3>1. state' = [state EXCEPT ![t] = "running"]
      BY <1>1, <2>1 DEF ThreadMoves, ThreadAt
    <3> QED BY <1>1, <2>0, <2>1, <3>1, TailKeeps
  <2>2. CASE ThreadMoves(t, "set_state") /\ state' = [state EXCEPT ![t] = "interruptible"]
    BY <1>1, <2>0, <2>2, TailKeeps
  <2>3. CASE ThreadAt(t, "test_stop") /\ UNCHANGED state
             /\ run' = [run EXCEPT ![t] = <<"set_state">> \o @]
    <3>1. PICK r : r = <<"set_state">> \o s OBVIOUS
    <3>2. /\ s # << >> /\ Head(s) = "test_stop" /\ state[t] = "running"
          /\ run' = [run EXCEPT ![t] = r]
          /\ UNCHANGED <<kth, stage, ksteps, created, stopped, stop, late>>
      BY <1>3, <2>3, <3>1 DEF ThreadAt
    <3>3. s \in Past /\ r \in Past /\ r \notin Ending BY <1>4, <3>1, <3>2, ThreadSteps
    <3>4. state' = [state EXCEPT ![t] = "running"] BY <1>1, <2>3, <3>2
    <3> QED BY <1>0, <1>1, <1>3, <2>0, <3>2, <3>3, <3>4, ThreadKeeps
  <2> QED BY <1>8, <2>1, <2>2, <2>3 DEF stop_loop
<1>9. CASE schedule(t) BY <1>0, <1>1, <1>9, StayKeeps DEF schedule
<1>10. CASE thread_returns(t) BY <1>0, <1>1, <1>10, StayKeeps DEF thread_returns
<1> QED BY <1>5, <1>6, <1>7, <1>8, <1>9, <1>10 DEF KthThread

\* What the module's task may be about to do.
LEMMA TaskStands ==
  ASSUME KthIInv, NEW op, ModuleAt(op)
  PROVE  /\ kth \in Kths /\ flags \in Flags /\ waiting \subseteq 0 .. Module
         /\ stage = "init" =>
              /\ InitAt(kth, ksteps, created)
              /\ op \in {"kthread_run", "poll", "wait_finished", "down",
                         "need_thread", "mod_timer"}
              /\ op # "kthread_run" => InitAt(kth, Tail(ksteps), created)
              /\ op = "kthread_run" => /\ InitAt(kth, Tail(ksteps), created + 1)
                                       /\ created < Count(kth)
              /\ op \in {"need_thread", "mod_timer"} => kth = "kthread_example4"
              /\ op = "down" => kth = "kthread_example3"
              /\ kth \in {"kthread_example1", "kthread_example2"}
                    /\ Tail(ksteps) = << >> => op \in {"poll", "wait_finished"}
              /\ kth = "kthread_example3" =>
                    /\ op # "kthread_run" => op = "down"
                    /\ Len(ksteps) \in Nat /\ Len(Tail(ksteps)) = Len(ksteps) - 1
         /\ stage = "exit" =>
              /\ ExitAt(kth, ksteps, stopped)
              /\ op \in {"kthread_stop", "join", "del_timer", "not_running",
                         "set_waked", "wake_up"}
              /\ op \notin {"kthread_stop", "join"} => ExitAt(kth, Tail(ksteps), stopped)
              /\ op \in {"kthread_stop", "join"} => stopped < Count(kth)
              /\ op = "join" => ExitAt(kth, Tail(ksteps), stopped + 1)
              /\ op = "kthread_stop" =>
                    /\ ExitAt(kth, <<"join">> \o Tail(ksteps), stopped)
                    /\ <<"join">> \o Tail(ksteps) # << >>
                    /\ Head(<<"join">> \o Tail(ksteps)) # "del_timer"
         /\ stage \in {"init", "exit"} /\ ksteps # << >> /\ Head(ksteps) = op
<1>1. /\ KthTypes /\ TaskInv /\ stage \in {"init", "exit"} /\ ksteps # << >>
      /\ Head(ksteps) = op
  BY DEF KthIInv, ModuleAt
<1>2. kth \in Kths /\ flags \in Flags /\ waiting \subseteq 0 .. Module
  BY <1>1 DEF KthTypes
<1>3. PICK s, k, c, d : s = ksteps /\ k = kth /\ c = created /\ d = stopped OBVIOUS
<1>4. stage = "init" => InitAt(k, s, c) BY <1>1, <1>3 DEF TaskInv
<1>5. stage = "exit" => ExitAt(k, s, d) BY <1>1, <1>3 DEF TaskInv
<1>6. CASE stage = "init"
  BY <1>1, <1>2, <1>3, <1>4, <1>6, InitSteps
<1>7. CASE stage = "exit"
  BY <1>1, <1>2, <1>3, <1>5, <1>7, ExitSteps
<1> QED BY <1>1, <1>6, <1>7

\* A step of the task that starts and stops no thread.
LEMMA TaskKeeps ==
  ASSUME KthIInv, NEW op, op \notin {"kthread_run", "kthread_stop", "join"},
         ModuleMoves(op), UNCHANGED stage,
         waiting' \subseteq 0 .. Module, flags' \in Flags,
         timer' \in {"idle", "pending", "expired", "woken"},
         timer' # "idle" => kth = "kthread_example4",
         op \in {"poll", "wait_finished"} => flags.finished,
         flags'.finished = flags.finished,
         op # "down" => flags'.sem = flags.sem,
         op = "down" => flags'.sem = flags.sem - 1,
         op # "del_timer" => late' = late /\ (timer' = timer \/ op = "mod_timer"),
         op = "del_timer" => timer' = "idle" \/ late'
  PROVE  KthIInv'
<1>0. /\ KthTypes /\ TaskInv /\ ThreadInv /\ FlagInv /\ SemInv /\ TimerInv
  BY DEF KthIInv
<1>1. /\ ModuleAt(op) /\ ksteps' = Tail(ksteps)
      /\ UNCHANGED <<kth, run, created, stopped, nothread, stop, state, stage>>
  BY DEF ModuleMoves
<1>2. /\ kth \in Kths /\ flags \in Flags
      /\ stage \in {"init", "exit"} /\ ksteps # << >> /\ Head(ksteps) = op
  BY <1>1, TaskStands
<1>3. KthTypes' BY <1>0, <1>1 DEF KthTypes, Module
<1>4. TaskInv'
  <2>1. CASE stage = "init"
    <3>1. InitAt(kth, Tail(ksteps), created) BY <1>1, <2>1, TaskStands
    <3> QED BY <1>0, <1>1, <2>1, <3>1 DEF TaskInv
  <2>2. CASE stage = "exit"
    <3>1. ExitAt(kth, Tail(ksteps), stopped) BY <1>1, <2>2, TaskStands
    <3> QED BY <1>0, <1>1, <2>2, <3>1 DEF TaskInv
  <2> QED BY <1>2, <2>1, <2>2
<1>5. ThreadInv' BY <1>0, <1>1 DEF ThreadInv
<1>6. FlagInv'
  <2>1. stage = "init" /\ kth \in {"kthread_example1", "kthread_example2"}
           /\ Tail(ksteps) = << >> => flags.finished
    BY <1>1, TaskStands
  <2> QED BY <1>0, <1>1, <1>2, <2>1 DEF FlagInv
<1>7. SemInv'
  <2>1. CASE kth = "kthread_example3" /\ stage = "init"
    <3>1. /\ op = "down" /\ Len(ksteps) \in Nat /\ Len(ksteps') = Len(ksteps) - 1
          /\ created \in Nat /\ flags.sem \in Nat
      BY <1>0, <1>1, <1>2, <2>1, TaskStands, KthAssumption DEF KthTypes, Flags
    <3>2. Cardinality(Up) = flags.sem + (2 * NR_THREADS - created - Len(ksteps))
      BY <1>0, <2>1 DEF SemInv
    <3>3. Up' = Up BY <1>1 DEF Up
    <3>4. Cardinality(Up) = flags'.sem + (2 * NR_THREADS - created - Len(ksteps'))
      BY <3>1, <3>2, KthAssumption
    <3> QED BY <1>1, <2>1, <3>3, <3>4 DEF SemInv
  <2>2. CASE kth # "kthread_example3" \/ stage = "exit"
    <3>1. op # "down" BY <1>1, <1>2, <2>2, TaskStands
    <3> QED BY <1>0, <1>1, <1>2, <2>2, <3>1 DEF SemInv
  <2> QED BY <1>2, <2>1, <2>2
<1>8. TimerInv'
  <2>1. CASE stage = "init" BY <1>1, <2>1 DEF TimerInv
  <2>2. CASE stage = "exit"
    <3>1. op # "mod_timer" BY <1>1, <2>2, TaskStands
    <3> QED BY <1>0, <1>1, <1>2, <2>2, <3>1 DEF TimerInv
  <2> QED BY <1>2, <2>1, <2>2
<1> QED BY <1>3, <1>4, <1>5, <1>6, <1>7, <1>8 DEF KthIInv

LEMMA InsmodKeeps ==
  ASSUME KthIInv, NEW k \in DOMAIN Examples, kthread_insmod(k) PROVE KthIInv'
<1>0. /\ KthTypes /\ TaskInv /\ ThreadInv /\ FlagInv /\ SemInv /\ TimerInv
  BY DEF KthIInv
<1>1. /\ stage = "out" /\ kth' = k /\ stage' = "init" /\ ksteps' = Examples[k].init
      /\ UNCHANGED <<run, created, stopped, nothread, stop, state, flags, waiting,
                     timer, late>>
  BY DEF kthread_insmod
<1>2. k \in Kths /\ InitAt(k, ksteps', 0) BY <1>1, ExampleStarts
<1>3. /\ kth = "none" /\ created = 0 /\ stopped = 0 /\ timer = "idle"
      /\ ~flags.finished /\ flags.sem = 0
  BY <1>0, <1>1 DEF KthTypes, TaskInv, FlagInv, SemInv
<1>4. ksteps' # << >>
  <2>1. ksteps' = << >> => 0 = Count(k) BY <1>2, InitSteps
  <2> QED BY <2>1, KthAssumption DEF Count
<1>5. KthTypes' BY <1>0, <1>1, <1>2, <1>3 DEF KthTypes, Module, Kths
<1>6. TaskInv' BY <1>1, <1>2, <1>3 DEF TaskInv
<1>7. \A t \in Threads : state[t] = "none" BY <1>0, <1>3 DEF ThreadInv, Threads
<1>8. ThreadInv' BY <1>0, <1>1, <1>3, <1>7 DEF ThreadInv
<1>9. FlagInv' BY <1>1, <1>3, <1>4 DEF FlagInv
<1>10. SemInv'
  <2>1. Up' = {} /\ Cardinality({}) = 0 BY <1>1, <1>7, FS_EmptySet DEF Up
  <2>2. k = "kthread_example3" => Len(ksteps') = 2 * NR_THREADS
    BY <1>2, KthAssumption DEF InitAt
  <2>3. k = "kthread_example3" =>
           Cardinality(Up') = flags'.sem + (2 * NR_THREADS - created' - Len(ksteps'))
    <3>1. created' = 0 /\ flags'.sem = 0 /\ Cardinality(Up') = 0 BY <1>1, <1>3, <2>1
    <3> QED BY <2>2, <3>1, KthAssumption
  <2>4. k # "kthread_example3" => flags'.sem = 0 BY <1>1, <1>3
  <2> QED BY <1>1, <2>3, <2>4 DEF SemInv
<1>11. TimerInv' BY <1>1 DEF TimerInv
<1> QED BY <1>5, <1>6, <1>8, <1>9, <1>10, <1>11 DEF KthIInv

LEMMA RmmodKeeps == ASSUME KthIInv, kthread_rmmod PROVE KthIInv'
<1>0. /\ KthTypes /\ TaskInv /\ ThreadInv /\ FlagInv /\ SemInv /\ TimerInv
  BY DEF KthIInv
<1>1. /\ stage = "loaded" /\ stage' = "exit" /\ ksteps' = Examples[kth].exit
      /\ UNCHANGED <<kth, run, created, stopped, nothread, stop, state, flags,
                     waiting, timer, late>>
  BY DEF kthread_rmmod
<1>2. kth \in Kths BY <1>0, <1>1 DEF KthTypes
<1>3. ExitAt(kth, ksteps', 0) BY <1>1, <1>2, ExampleStarts
<1>4. KthTypes' BY <1>0, <1>1 DEF KthTypes, Module
<1>5. TaskInv' BY <1>0, <1>1, <1>3 DEF TaskInv
<1>6. ThreadInv' BY <1>0, <1>1 DEF ThreadInv
<1>7. FlagInv' /\ SemInv' BY <1>0, <1>1 DEF FlagInv, SemInv
<1>8. TimerInv'
  <2>1. kth = "kthread_example4" => ksteps' = example4_exit
    BY <1>1 DEF Examples, Example
  <2>2. kth = "kthread_example4" => ksteps' # << >> /\ Head(ksteps') = "del_timer"
    BY <2>1 DEF example4_exit
  <2> QED BY <1>1, <2>2 DEF TimerInv
<1> QED BY <1>4, <1>5, <1>6, <1>7, <1>8 DEF KthIInv

LEMMA RunKeeps == ASSUME KthIInv, kthread_run PROVE KthIInv'
<1>0. /\ KthTypes /\ TaskInv /\ ThreadInv /\ FlagInv /\ SemInv /\ TimerInv
  BY DEF KthIInv
<1>1. /\ ModuleAt("kthread_run") /\ created' = created + 1 /\ ksteps' = Tail(ksteps)
      /\ UNCHANGED <<kth, stage, stopped, stop, flags, waiting, timer, late>>
  BY DEF kthread_run
<1>2. /\ kth \in Kths /\ stage = "init" /\ InitAt(kth, Tail(ksteps), created + 1)
      /\ created < Count(kth)
      /\ kth \in {"kthread_example1", "kthread_example2"} => Tail(ksteps) # << >>
      /\ kth = "kthread_example3" =>
            Len(ksteps) \in Nat /\ Len(Tail(ksteps)) = Len(ksteps) - 1
  BY <1>1, TaskStands
<1>3. created \in Nat /\ created \in Threads /\ stopped = 0
  BY <1>0, <1>2, KthAssumption DEF KthTypes, TaskInv, Threads, Count
<1>4. state[created] = "none" BY <1>0, <1>3 DEF ThreadInv
<1>5. PICK r : r = Examples[kth].run OBVIOUS
<1>6. r \in Working(kth) /\ r \notin Past /\ r \notin Ending
  BY <1>2, <1>5, ExampleStarts DEF Past
<1>7. /\ run' = [t \in Threads |-> run'[t]]
      /\ state' \in [Threads -> {"none", "running", "interruptible", "asleep", "done"}]
      /\ \A t \in Threads : t # created => run'[t] = run[t] /\ state'[t] = state[t]
      /\ \/ run'[created] = r /\ state'[created] = "running"
         \/ run'[created] = run[created] /\ state'[created] = "none"
  BY <1>0, <1>3, <1>4, <1>5 DEF kthread_run, KthTypes
<1>8. KthTypes' BY <1>0, <1>1, <1>3, <1>7, KthAssumption DEF KthTypes, Module, Threads
<1>9. TaskInv' BY <1>1, <1>2, <1>3 DEF TaskInv
<1>10. ThreadInv'
  <2> SUFFICES ASSUME NEW t \in Threads
               PROVE  /\ t >= created + 1 => state'[t] = "none"
                      /\ t < stopped => state'[t] = "done"
                      /\ state'[t] = "none" => run'[t] = << >>
                      /\ state'[t] = "done" => run'[t] = << >>
                      /\ state'[t] # "none" => run'[t] \in Working(kth) \cup Past
                      /\ state'[t] # "none" /\ run'[t] \in Ending => t \in stop
    BY <1>1 DEF ThreadInv
  <2>1. t \in Nat BY KthAssumption DEF Threads
  <2>2. CASE t # created BY <1>0, <1>3, <1>7, <2>1, <2>2 DEF ThreadInv
  <2>3. CASE t = created BY <1>0, <1>3, <1>4, <1>6, <1>7, <2>1, <2>3 DEF ThreadInv
  <2> QED BY <2>2, <2>3
<1>11. FlagInv' BY <1>0, <1>1, <1>2, <1>3 DEF FlagInv, Count
<1>12. SemInv'
  <2>1. CASE kth # "kthread_example3" BY <1>0, <1>1, <2>1 DEF SemInv
  <2>2. CASE kth = "kthread_example3"
    <3>1. Up' = Up BY <1>3, <1>4, <1>6, <1>7 DEF Up
    <3>2. Cardinality(Up) = flags.sem + (2 * NR_THREADS - created - Len(ksteps))
      BY <1>0, <1>2, <2>2 DEF SemInv
    <3>3. 2 * NR_THREADS - created' - Len(ksteps') = 2 * NR_THREADS - created - Len(ksteps)
      <4>1. PICK n, m : n = Len(ksteps) /\ m = Len(ksteps') OBVIOUS
      <4>2. n \in Nat /\ m = n - 1 /\ created' = created + 1 BY <1>1, <1>2, <2>2, <4>1
      <4>3. 2 * NR_THREADS - (created + 1) - m = 2 * NR_THREADS - created - n
        BY <1>3, <4>2, KthAssumption
      <4> QED BY <4>1, <4>2, <4>3
    <3> QED BY <1>1, <1>2, <2>2, <3>1, <3>2, <3>3 DEF SemInv
  <2> QED BY <2>1, <2>2
<1>13. TimerInv' BY <1>1, <1>2 DEF TimerInv
<1> QED BY <1>8, <1>9, <1>10, <1>11, <1>12, <1>13 DEF KthIInv

LEMMA StopKeeps == ASSUME KthIInv, kthread_stop PROVE KthIInv'
<1>0. /\ KthTypes /\ TaskInv /\ ThreadInv /\ FlagInv /\ SemInv /\ TimerInv
  BY DEF KthIInv
<1>1. /\ ModuleAt("kthread_stop")
      /\ UNCHANGED <<kth, run, created, stopped, nothread, flags, waiting, timer, late>>
  BY DEF kthread_stop
<1>2. PICK j : j = <<"join">> \o Tail(ksteps) OBVIOUS
<1>3. /\ kth \in Kths /\ stage = "exit" /\ stopped < Count(kth)
      /\ ExitAt(kth, j, stopped) /\ j # << >> /\ Head(j) # "del_timer"
      /\ ksteps # << >> /\ Head(ksteps) = "kthread_stop"
  BY <1>1, <1>2, TaskStands
<1>4. created = Count(kth) /\ stopped \in Nat /\ stopped \in Threads
  BY <1>0, <1>3, KthAssumption DEF KthTypes, TaskInv, Threads, Count
<1>5. CASE state[stopped] = "none"
  <2>1. stage' = "oops" /\ ksteps' = << >> /\ UNCHANGED <<stop, state>>
    BY <1>5 DEF kthread_stop
  <2>2. KthTypes' BY <1>0, <1>1, <1>3, <2>1 DEF KthTypes, Module
  <2>3. TaskInv' BY <1>1, <1>4, <2>1, KthAssumption DEF TaskInv, Count
  <2>4. ThreadInv' BY <1>0, <1>1, <2>1 DEF ThreadInv
  <2>5. FlagInv' /\ SemInv' BY <1>0, <1>1, <1>3, <2>1 DEF FlagInv, SemInv
  <2>6. TimerInv' BY <2>1 DEF TimerInv
  <2> QED BY <2>2, <2>3, <2>4, <2>5, <2>6 DEF KthIInv
<1>6. CASE state[stopped] # "none"
  <2>1. /\ stop' = stop \cup {stopped} /\ ksteps' = j /\ UNCHANGED stage
        /\ state' = [state EXCEPT ![stopped] =
                         IF state[stopped] = "done" THEN state[stopped] ELSE "running"]
    BY <1>2, <1>6 DEF kthread_stop
  <2>2. /\ state' \in [Threads -> {"none", "running", "interruptible", "asleep", "done"}]
        /\ \A t \in Threads : /\ state'[t] = "none" <=> state[t] = "none"
                              /\ state'[t] = "done" <=> state[t] = "done"
    BY <1>0, <1>4, <1>6, <2>1 DEF KthTypes
  <2>3. KthTypes' BY <1>0, <1>1, <1>4, <2>1, <2>2 DEF KthTypes, Module
  <2>4. TaskInv' BY <1>0, <1>1, <1>3, <2>1 DEF TaskInv
  <2>5. ThreadInv' BY <1>0, <1>1, <2>1, <2>2 DEF ThreadInv
  <2>6. FlagInv' /\ SemInv' BY <1>0, <1>1, <1>3, <2>1 DEF FlagInv, SemInv
  <2>7. TimerInv' BY <1>0, <1>1, <1>3, <2>1 DEF TimerInv
  <2> QED BY <2>3, <2>4, <2>5, <2>6, <2>7 DEF KthIInv
<1> QED BY <1>5, <1>6

LEMMA JoinKeeps == ASSUME KthIInv, kthread_join PROVE KthIInv'
<1>0. /\ KthTypes /\ TaskInv /\ ThreadInv /\ FlagInv /\ SemInv /\ TimerInv
  BY DEF KthIInv
<1>1. /\ ModuleAt("join") /\ state[stopped] = "done"
      /\ stopped' = stopped + 1 /\ ksteps' = Tail(ksteps)
      /\ UNCHANGED <<kth, stage, run, created, nothread, stop, state, flags,
                     waiting, timer, late>>
  BY DEF kthread_join
<1>2. /\ kth \in Kths /\ stage = "exit" /\ stopped < Count(kth)
      /\ ExitAt(kth, Tail(ksteps), stopped + 1)
      /\ ksteps # << >> /\ Head(ksteps) = "join"
  BY <1>1, TaskStands
<1>3. created = Count(kth) /\ created \in 0 .. NR_THREADS /\ stopped \in 0 .. created
  BY <1>0, <1>2 DEF KthTypes, TaskInv
<1>4. stopped + 1 \in 0 .. created /\ stopped \in Int BY <1>2, <1>3, KthAssumption
<1>5. KthTypes' BY <1>0, <1>1, <1>4 DEF KthTypes, Module
<1>6. TaskInv' BY <1>1, <1>2, <1>3 DEF TaskInv
<1>7. ThreadInv'
  <2>1. \A t \in Threads : t < stopped + 1 => t < stopped \/ t = stopped
    BY <1>4, KthAssumption DEF Threads
  <2> QED BY <1>0, <1>1, <2>1 DEF ThreadInv
<1>8. FlagInv' /\ SemInv' BY <1>0, <1>1, <1>2 DEF FlagInv, SemInv
<1>9. TimerInv' BY <1>0, <1>1, <1>2 DEF TimerInv
<1> QED BY <1>5, <1>6, <1>7, <1>8, <1>9 DEF KthIInv

LEMMA ReturnsKeep == ASSUME KthIInv, module_returns PROVE KthIInv'
<1>0. /\ KthTypes /\ TaskInv /\ ThreadInv /\ FlagInv /\ SemInv /\ TimerInv
  BY DEF KthIInv
<1>1. /\ stage \in {"init", "exit"} /\ ksteps = << >>
      /\ stage' = IF stage = "init" THEN "loaded" ELSE "unloaded"
      /\ UNCHANGED <<kth, ksteps, run, created, stopped, nothread, stop, state,
                     flags, waiting, timer, late>>
  BY DEF module_returns
<1>2. kth \in Kths BY <1>0, <1>1 DEF KthTypes
<1>3. KthTypes' BY <1>0, <1>1 DEF KthTypes, Module
<1>4. ThreadInv' BY <1>0, <1>1 DEF ThreadInv
<1>5. FlagInv' BY <1>0, <1>1 DEF FlagInv
<1>6. CASE stage = "init"
  <2>1. InitAt(kth, ksteps, created) /\ stopped = 0 BY <1>0, <1>6 DEF TaskInv
  <2>2. created = Count(kth) BY <1>1, <1>2, <2>1, InitSteps
  <2>3. TaskInv' BY <1>1, <1>6, <2>1, <2>2 DEF TaskInv
  <2>4. SemInv'
    <3>1. CASE kth # "kthread_example3" BY <1>0, <1>1, <3>1 DEF SemInv
    <3>2. CASE kth = "kthread_example3"
      <4>1. /\ Cardinality(Up) = flags.sem + (2 * NR_THREADS - created - Len(ksteps))
            /\ Len(ksteps) = 0 /\ created = NR_THREADS /\ flags.sem \in Nat
        BY <1>0, <1>1, <1>6, <2>2, <3>2 DEF SemInv, Count, KthTypes, Flags
      <4>2. Cardinality(Up) = NR_THREADS /\ flags.sem = 0
        BY <4>1, UpFinite, KthAssumption
      <4>3. \A t \in Threads : run[t] \in Past BY <4>2, UpFinite DEF Up
      <4> QED BY <1>1, <1>6, <3>2, <4>2, <4>3 DEF SemInv
    <3> QED BY <3>1, <3>2
  <2>5. TimerInv' BY <1>1, <1>6 DEF TimerInv
  <2> QED BY <1>3, <1>4, <1>5, <2>3, <2>4, <2>5 DEF KthIInv
<1>7. CASE stage = "exit"
  <2>1. ExitAt(kth, ksteps, stopped) /\ created = Count(kth) BY <1>0, <1>7 DEF TaskInv
  <2>2. stopped = created BY <1>1, <1>2, <2>1, ExitSteps
  <2>3. TaskInv' BY <1>1, <1>7, <2>1, <2>2 DEF TaskInv
  <2>4. SemInv' BY <1>0, <1>1, <1>7 DEF SemInv
  <2>5. TimerInv'
    <3>1. timer = "idle" \/ late
      BY <1>0, <1>1, <1>7 DEF TimerInv, KthTypes
    <3> QED BY <1>1, <1>7, <3>1 DEF TimerInv
  <2> QED BY <1>3, <1>4, <1>5, <2>3, <2>4, <2>5 DEF KthIInv
<1> QED BY <1>1, <1>6, <1>7

LEMMA StepsKeep ==
  ASSUME KthIInv, wait_for_threads \/ start_timer \/ timer_example_exit \/ set_flags
  PROVE  KthIInv'
<1>0. /\ KthTypes /\ TaskInv /\ ThreadInv /\ FlagInv /\ SemInv /\ TimerInv
      /\ flags \in Flags /\ waiting \subseteq 0 .. Module
      /\ timer \in {"idle", "pending", "expired", "woken"}
      /\ timer # "idle" => kth = "kthread_example4"
  BY DEF KthIInv, KthTypes
<1>1. CASE wait_for_threads
  <2>1. ASSUME NEW op \in {"poll", "wait_finished"}, ModuleMoves(op), flags.finished,
               UNCHANGED <<stage, flags, waiting, timer, late>>
        PROVE  KthIInv'
    BY <1>0, <2>1, TaskKeeps
  <2>2. CASE /\ ModuleMoves("down") /\ flags.sem > 0
             /\ flags' = [flags EXCEPT !.sem = @ - 1]
             /\ UNCHANGED <<stage, waiting, timer, late>>
    <3>1. /\ flags' \in Flags /\ flags'.finished = flags.finished
          /\ flags'.sem = flags.sem - 1
      BY <1>0, <2>2 DEF Flags
    <3> QED BY <1>0, <2>2, <3>1, TaskKeeps
  <2>3. CASE /\ ModuleAt("wait_finished") /\ waiting' = waiting \cup {Module}
             /\ UNCHANGED <<kth, stage, ksteps, run, created, stopped, nothread, stop,
                            state, flags, timer, late>>
    <3>1. waiting' \subseteq 0 .. Module BY <1>0, <2>3, KthAssumption DEF Module
    <3>2. KthTypes' BY <1>0, <2>3, <3>1 DEF KthTypes, Module
    <3>3. TaskInv' /\ ThreadInv' BY <1>0, <2>3 DEF TaskInv, ThreadInv
    <3>4. FlagInv' /\ TimerInv' BY <1>0, <2>3 DEF FlagInv, TimerInv
    <3>5. SemInv' BY <1>0, <2>3 DEF SemInv, Up
    <3> QED BY <3>2, <3>3, <3>4, <3>5 DEF KthIInv
  <2> QED BY <1>1, <2>1, <2>2, <2>3 DEF wait_for_threads
<1>2. CASE start_timer
  <2>1. CASE /\ ModuleAt("need_thread") /\ stage' = "oops" /\ ksteps' = << >>
             /\ UNCHANGED <<kth, run, created, stopped, nothread, stop, state, flags,
                            waiting, timer, late>>
    <3>1. /\ stage = "init" /\ kth = "kthread_example4" /\ InitAt(kth, ksteps, created)
      BY <2>1, TaskStands
    <3>2. created \in 0 .. Count(kth) BY <3>1, InitSteps DEF Kths
    <3>3. KthTypes' BY <1>0, <2>1, <3>1 DEF KthTypes, Module
    <3>4. TaskInv' BY <2>1, <3>2 DEF TaskInv
    <3>5. ThreadInv' BY <1>0, <2>1 DEF ThreadInv
    <3>6. FlagInv' /\ SemInv' /\ TimerInv'
      BY <1>0, <2>1, <3>1 DEF FlagInv, SemInv, TimerInv
    <3> QED BY <3>3, <3>4, <3>5, <3>6 DEF KthIInv
  <2>2. CASE ModuleMoves("need_thread") /\ UNCHANGED <<stage, flags, waiting, timer, late>>
    BY <1>0, <2>2, TaskKeeps
  <2>3. CASE ModuleMoves("mod_timer") /\ timer' = "pending"
             /\ UNCHANGED <<stage, flags, waiting, late>>
    <3>1. kth = "kthread_example4" BY <2>3, TaskStands DEF ModuleMoves
    <3> QED BY <1>0, <2>3, <3>1, TaskKeeps
  <2> QED BY <1>2, <2>1, <2>2, <2>3 DEF start_timer
<1>3. CASE timer_example_exit
  <2>1. /\ ModuleMoves("del_timer") /\ timer' = IF timer = "pending" THEN "idle" ELSE timer
        /\ timer' = "idle" \/ late'
        /\ UNCHANGED <<stage, flags, waiting>>
    BY <1>0, <1>3 DEF timer_example_exit
  <2> QED BY <1>0, <2>1, TaskKeeps
<1>4. CASE set_flags
  <2>1. ASSUME NEW op \in {"not_running", "set_waked", "wake_up"}, ModuleMoves(op),
               flags' \in Flags, flags'.finished = flags.finished,
               flags'.sem = flags.sem, waiting' \subseteq waiting,
               UNCHANGED <<stage, timer, late>>
        PROVE  KthIInv'
    <3>1. waiting' \subseteq 0 .. Module BY <1>0, <2>1
    <3> QED BY <1>0, <2>1, <3>1, TaskKeeps
  <2>2. CASE /\ ModuleMoves("not_running") /\ flags' = [flags EXCEPT !.running = FALSE]
             /\ UNCHANGED <<stage, waiting, timer, late>>
    BY <1>0, <2>1, <2>2 DEF Flags
  <2>3. CASE /\ ModuleMoves("set_waked") /\ flags' = [flags EXCEPT !.waked = TRUE]
             /\ UNCHANGED <<stage, waiting, timer, late>>
    BY <1>0, <2>1, <2>3 DEF Flags
  <2>4. CASE ModuleMoves("wake_up") /\ waiting' = {} /\ UNCHANGED <<stage, flags, timer, late>>
    BY <1>0, <2>1, <2>4
  <2> QED BY <1>4, <2>2, <2>3, <2>4 DEF set_flags
<1> QED BY <1>1, <1>2, <1>3, <1>4

LEMMA ExpireKeeps == ASSUME KthIInv, timer_example_expire PROVE KthIInv'
<1>0. /\ KthTypes /\ TaskInv /\ ThreadInv /\ FlagInv /\ SemInv /\ TimerInv
  BY DEF KthIInv
<1>1. /\ timer # "idle" /\ timer' # "idle"
      /\ timer' \in {"pending", "expired", "woken"}
      /\ UNCHANGED <<kth, stage, ksteps, run, created, stopped, nothread, stop,
                     state, late>>
      /\ flags' \in Flags /\ flags'.finished = flags.finished /\ flags'.sem = flags.sem
      /\ waiting' \subseteq 0 .. Module
  BY <1>0 DEF timer_example_expire, KthTypes, Flags
<1>2. KthTypes' BY <1>0, <1>1 DEF KthTypes, Module
<1>3. TaskInv' /\ ThreadInv' BY <1>0, <1>1 DEF TaskInv, ThreadInv
<1>4. FlagInv' /\ TimerInv' BY <1>0, <1>1 DEF FlagInv, TimerInv
<1>5. SemInv' BY <1>0, <1>1 DEF SemInv, Up
<1> QED BY <1>2, <1>3, <1>4, <1>5 DEF KthIInv

LEMMA SemBound == KthIInv => flags.sem \in 0 .. created
<1> SUFFICES ASSUME KthIInv PROVE flags.sem \in 0 .. created OBVIOUS
<1>1. /\ KthTypes /\ TaskInv /\ ThreadInv /\ SemInv
      /\ flags.sem \in Nat /\ created \in Nat
  BY KthAssumption DEF KthIInv, KthTypes, Flags
<1>2. CASE ~(kth = "kthread_example3" /\ stage = "init") BY <1>1, <1>2 DEF SemInv
<1>3. CASE kth = "kthread_example3" /\ stage = "init"
  <2>1. InitAt(kth, ksteps, created) BY <1>1, <1>3 DEF TaskInv
  <2>2. kth \in Kths BY <1>3 DEF Kths
  <2>3. Len(ksteps) \in Nat /\ Len(ksteps) <= 2 * NR_THREADS - created
    BY <1>3, <2>1, <2>2, InitSteps
  <2>4. Cardinality(Up) = flags.sem + (2 * NR_THREADS - created - Len(ksteps))
    BY <1>1, <1>3 DEF SemInv
  <2>5. Up \in SUBSET (0 .. created - 1)
    BY <1>1, KthAssumption DEF Up, ThreadInv, Threads
  <2>6. IsFiniteSet(0 .. created - 1) /\ Cardinality(0 .. created - 1) = created
    <3>1. PICK b \in Int : b = created - 1 BY <1>1
    <3>2. IsFiniteSet(0 .. b) /\ Cardinality(0 .. b) = IF 0 > b THEN 0 ELSE b - 0 + 1
      BY FS_Interval
    <3>3. (IF 0 > b THEN 0 ELSE b - 0 + 1) = created BY <1>1, <3>1
    <3> QED BY <3>1, <3>2, <3>3
  <2>7. Cardinality(Up) <= created BY <2>5, <2>6, FS_Subset
  <2> QED BY <1>1, <2>3, <2>4, <2>7, UpFinite, KthAssumption
<1> QED BY <1>2, <1>3

LEMMA KthInvAccounts == KthIInv => ThreadsAccounted
<1> SUFFICES ASSUME KthIInv PROVE ThreadsAccounted OBVIOUS
<1>1. /\ KthTypes /\ TaskInv /\ ThreadInv /\ FlagInv /\ SemInv /\ TimerInv
  BY DEF KthIInv
<1>2. KthTypeOK BY <1>1, SemBound DEF KthTypeOK, KthTypes, ThreadInv
<1>3. StopFindsThread BY <1>1 DEF StopFindsThread, ThreadInv, Ending
<1>4. InitWaitsForWork
  <2> SUFFICES ASSUME kth \in {"kthread_example1", "kthread_example2", "kthread_example3"},
                      stage \notin {"out", "init"},
                      NEW t \in Threads, run[t] # << >>
               PROVE  Head(run[t]) \notin {"work", "finished", "up"}
    BY DEF InitWaitsForWork
  <2>1. run[t] \in Past BY <1>1 DEF FlagInv, SemInv
  <2>2. PICK s : s = run[t] OBVIOUS
  <2>3. kth \in Kths BY DEF Kths
  <2> QED BY <2>1, <2>2, <2>3, ThreadSteps
<1>5. UnloadLeavesNobody
  <2> SUFFICES ASSUME stage = "unloaded"
               PROVE  /\ \A t \in Threads : state[t] \in {"none", "done"}
                      /\ timer = "idle" \/ late
    BY DEF UnloadLeavesNobody
  <2>1. stopped = created /\ created \in Int BY <1>1, KthAssumption DEF TaskInv, KthTypes
  <2>2. \A t \in Threads : t >= created \/ t < stopped BY <2>1, KthAssumption DEF Threads
  <2> QED BY <1>1, <2>2 DEF ThreadInv, TimerInv
<1> QED BY <1>2, <1>3, <1>4, <1>5 DEF ThreadsAccounted

LEMMA KthKeeps == Spec => []KthIInv
<1>1. KthIInv /\ [KthNext]_kthVars => KthIInv'
  <2> SUFFICES ASSUME KthIInv, [KthNext]_kthVars PROVE KthIInv' OBVIOUS
  <2>1. ASSUME NEW k \in DOMAIN Examples, kthread_insmod(k) PROVE KthIInv'
    BY <2>1, InsmodKeeps
  <2>2. CASE kthread_rmmod BY <2>2, RmmodKeeps
  <2>3. CASE KthModule
    BY <2>3, RunKeeps, StopKeeps, JoinKeeps, StepsKeep, ReturnsKeep DEF KthModule
  <2>4. ASSUME NEW t \in Threads, KthThread(t) PROVE KthIInv'
    BY <2>4, KthThreadKeeps
  <2>5. CASE timer_example_expire BY <2>5, ExpireKeeps
  <2>6. CASE UNCHANGED kthVars
    BY <2>6 DEF kthVars, KthIInv, KthTypes, TaskInv, ThreadInv, FlagInv, SemInv,
                TimerInv, Up, Module
  <2> QED BY <2>1, <2>2, <2>3, <2>4, <2>5, <2>6 DEF KthNext
<1> QED BY <1>1, KthStarts, Parts, PTL

(***************************************************************************)
(* The kernel thread examples keep their threads' account for any number   *)
(* of threads: kthread_stop finds its thread, insmod of the examples that  *)
(* wait returns after the work, and rmmod leaves no thread in the module's *)
(* code and no timer behind, but for a callback that was running when exit *)
(* tested timer_pending.                                                   *)
(***************************************************************************)
THEOREM ThreadsAreAccounted == Spec => []ThreadsAccounted
BY KthKeeps, KthInvAccounts, PTL

=============================================================================
