----------------------------- MODULE PeWorkers ------------------------------
(***************************************************************************)
(* The test programs of the two hash map modules (example/main1.cpp):      *)
(* threads that insert, get and, in hashmap2's, remove random keys, over   *)
(* the map that both modules implement (PeMap).                            *)
(***************************************************************************)
EXTENDS FiniteSets

CONSTANTS Workers, WorkerKeys, WorkerValues, Nil

ASSUME WorkersAssumption ==
    /\ Nil \notin WorkerValues
    /\ Nil \notin [key : WorkerKeys, value : WorkerValues]

VARIABLES
    wmap, wseen, wret,  \* PeMap
    program,            \* which main1.cpp
    wstep, wparam,      \* per worker: where it is, its key and value
    running,
    clean,              \* no other worker touched the key since the insert
    errors              \* messages printed

mapVars    == <<wmap, wseen, wret>>
workerVars == <<mapVars, program, wstep, wparam, running, clean, errors>>

PM == INSTANCE PeMap WITH Threads <- Workers, Keys <- WorkerKeys,
         Values <- WorkerValues, Absent <- Nil,
         map <- wmap, seen <- wseen, ret <- wret

WorkersInit ==
    /\ PM!Init /\ program = "none"
    /\ wstep = [w \in Workers |-> "none"]
    /\ wparam = [w \in Workers |-> Nil]
    /\ running = [w \in Workers |-> FALSE]
    /\ clean = [w \in Workers |-> FALSE]
    /\ errors = {}

\* Types, and a worker that has left its loop was told to.
WorkersTypeOK ==
    /\ program \in {"none", "hashmap1", "hashmap2"}
    /\ wstep \in [Workers -> {"none", "insert", "read", "get", "remove", "join", "done"}]
    /\ running \in [Workers -> BOOLEAN]
    /\ errors \subseteq {"insert", "get", "remove", "collision"}
    /\ \A w \in Workers : wstep[w] = "done" => ~running[w]

\* Somebody else changes the key: another worker's insert or remove.
Touch(w, k) ==
    [u \in Workers |->
        IF u # w /\ wparam[u] # Nil /\ wparam[u].key = k THEN FALSE ELSE clean[u]]

\* main of hashmap1's and of hashmap2's program: one Worker after the other.
main_hashmap1 == program = "none" /\ program' = "hashmap1"
main_hashmap2 == program = "none" /\ program' = "hashmap2"

start_workers ==
    /\ main_hashmap1 \/ main_hashmap2
    /\ wstep' = [w \in Workers |-> "insert"]
    /\ running' = [w \in Workers |-> TRUE]
    /\ UNCHANGED <<mapVars, wparam, clean, errors>>

\* One round of Worker::run begins with an insert.  If it fails the worker
\* stops, but only after the rest of this round.
worker_insert(w, k, v) ==
    /\ wstep[w] = "insert" /\ running[w]
    /\ wparam' = [wparam EXCEPT ![w] = [key |-> k, value |-> v]]
    /\ \/ /\ PM!Put(k, v) /\ clean' = [Touch(w, k) EXCEPT ![w] = TRUE]
          /\ UNCHANGED <<running, errors>>
       \/ /\ running' = [running EXCEPT ![w] = FALSE]
          /\ errors' = errors \cup {"insert"}
          /\ clean' = [clean EXCEPT ![w] = FALSE] /\ UNCHANGED mapVars
    /\ wstep' = [wstep EXCEPT ![w] = "read"]
    /\ UNCHANGED program

worker_read(w) ==
    /\ wstep[w] = "read" /\ PM!Call(w, wparam[w].key)
    /\ wstep' = [wstep EXCEPT ![w] = "get"]
    /\ UNCHANGED <<program, wparam, running, clean, errors>>

\* hashmap1's program goes on with the next key, hashmap2's removes this one.
NextStep == IF program = "hashmap1" THEN "insert" ELSE "remove"

worker_get(w) ==
    /\ wstep[w] = "get"
    /\ \E v \in WorkerValues \cup {Nil} :
          /\ PM!Found(w, wparam[w].key, v)
          /\ errors' = errors \cup
                (IF v = Nil
                 THEN {IF clean[w] THEN "get" ELSE "collision"} ELSE {})
    /\ wstep' = [wstep EXCEPT ![w] = NextStep]
    /\ UNCHANGED <<program, wparam, running, clean>>

worker_remove(w) ==
    LET k == wparam[w].key IN
    /\ wstep[w] = "remove"
    /\ IF wmap[k] # Nil
       THEN /\ PM!Put(k, Nil) /\ clean' = Touch(w, k) /\ UNCHANGED errors
       ELSE /\ errors' = errors \cup {IF clean[w] THEN "remove" ELSE "collision"}
            /\ UNCHANGED <<mapVars, clean>>
    /\ wstep' = [wstep EXCEPT ![w] = "insert"]
    /\ UNCHANGED <<program, wparam, running>>

\* The vector of workers is destroyed: ~Worker stops its thread and joins it.
worker_stop(w) ==
    /\ wstep[w] # "none" /\ running[w]
    /\ running' = [running EXCEPT ![w] = FALSE]
    /\ UNCHANGED <<mapVars, program, wstep, wparam, clean, errors>>

worker_done(w) ==
    /\ wstep[w] = "insert" /\ ~running[w]
    /\ wstep' = [wstep EXCEPT ![w] = "done"]
    /\ UNCHANGED <<mapVars, program, wparam, running, clean, errors>>

WorkersNext ==
    \/ start_workers
    \/ \E w \in Workers :
          \/ \E k \in WorkerKeys, v \in WorkerValues : worker_insert(w, k, v)
          \/ worker_read(w) \/ worker_get(w) \/ worker_remove(w)
          \/ worker_stop(w) \/ worker_done(w)

-----------------------------------------------------------------------------
\* "get error" and "remove error" are only ever printed after a failed insert
\* or for a key that another worker inserted or removed meanwhile; never
\* about a key that was the worker's own all the time.
ErrorsOnlyFromCollisions == errors \cap {"get", "remove"} = {}

\* hashmap1's program, which never removes, finds every key it has inserted
\* whatever the other workers do: unless an insert failed it prints nothing.
NothingLostWithoutRemove ==
    program = "hashmap1" /\ "insert" \notin errors => errors = {}

\* Every message the test programs print has its cause in a failed call or in
\* another worker's doing.
ErrorsExplained ==
    WorkersTypeOK /\ ErrorsOnlyFromCollisions /\ NothingLostWithoutRemove

=============================================================================
