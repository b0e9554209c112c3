--------------------------- MODULE BlockingQueues ---------------------------
(***************************************************************************)
(* The producer/consumer programs, over semaphores and over condition      *)
(* variables.  bp is the program:                                          *)
(*   mmap0    processes and a ring in a mapped file, stop at a count       *)
(*   mmap1    processes and BoundedBlockingQueue, a stop node per producer *)
(*   sem, condvar   the two BlockingQueue classes of producer_consumer_model*)
(*   std      std_thread/blocking_queue.cpp, notify under the lock         *)
(*   bounded  pthread/bounded_blocking_queue.cpp, stopped by a flag        *)
(*   demand   std_thread/condition_variable.cpp,  demand_p  pthread.cpp    *)
(*   count    pthread/condition_variable.cpp                               *)
(* A thread meets the others at lock, unlock, wait, post and signal; what  *)
(* it does under the mutex is one step.                                    *)
(***************************************************************************)
EXTENDS Integers, Sequences, FiniteSets, SequencesExt

CONSTANTS
    NProd, NCons,       \* producer_num, consumer_num: the programs have as many
    Items,              \* item_num, TCOUNT: what a producer puts, or counts
    QSize,              \* queue_size, QUEUE_LEN
    TotalLen,           \* TOTAL_LEN of mmap0
    CountLimit,         \* COUNT_LIMIT of count
    MaxSpurious,        \* bound: spurious wake-ups
    MaxPut              \* bound: items of bounded before its flag is cleared

ASSUME QueueAssumption ==
    /\ NProd \in Nat \ {0} /\ NCons \in Nat \ {0} /\ Items \in Nat \ {0}
    /\ QSize \in Nat \ {0} /\ TotalLen \in Nat /\ CountLimit \in 1 .. NProd * Items
    /\ MaxSpurious \in Nat /\ MaxPut \in Nat

Producers == 1 .. NProd
Consumers == NProd + 1 .. NProd + NCons
Threads == Producers \cup Consumers

Rings == {"mmap0", "mmap1"}
StopNodes == {"mmap1", "sem", "condvar", "std"}
QueuePrograms == Rings \cup StopNodes \cup {"count", "bounded", "demand", "demand_p"}

Stop == <<0, 0>>        \* author -1, NULL or 0
Watcher == NProd + 1    \* the thread of watch_count

VARIABLES
    bp,     \* the program
    bq,     \* the queue: its mutex, semaphores and items (fifo: the std::queue,
            \* or what a ring should hold); count; life: "alive", "destroyed",
            \* or "broken" by a thread that went on using it
    bt      \* the threads

bqVars == <<bp, bq, bt>>

QueueInit ==
    /\ bp \in QueuePrograms
    /\ bq = [mutex |-> 0, empty |-> QSize, full |-> 0, que |-> [i \in 0 .. QSize - 1 |-> Stop],
             fifo |-> <<>>, p |-> 0, f |-> 0, count |-> 0, running |-> TRUE, spurious |-> 0,
             life |-> "alive"]
    /\ bt = [t \in Threads |->
                [pc |-> IF bp = "count" /\ t \in Consumers \ {Watcher} THEN "done" ELSE "start",
                 n |-> 0, next |-> "start"]]

\* Types: "lock" wants the mutex, "relock" wants it back after a wait.
QueueTypeOK ==
    /\ bp \in QueuePrograms /\ bq.mutex \in {0} \cup Threads
    /\ bq.empty \in 0 .. QSize /\ bq.full \in Nat
    /\ \A t \in Threads :
          /\ bt[t].pc \in {"start", "lock", "in", "asleep", "relock", "second", "after", "done"}
          /\ bt[t].pc \in {"in", "second"} => bq.mutex = t

-----------------------------------------------------------------------------
(* Semaphores, mutexes and condition variables *)

At(t, pc) == bt[t].pc = pc
Goes(t, pc) == [bt EXCEPT ![t].pc = pc]

SemWait(t, sem, pc) ==
    /\ At(t, "start") /\ bq[sem] > 0
    /\ bq' = [bq EXCEPT ![sem] = @ - 1] /\ bt' = Goes(t, pc)

SemPost(t, sem, pc) ==
    /\ At(t, "after")
    /\ bq' = [bq EXCEPT ![sem] = @ + 1] /\ bt' = Goes(t, pc)

Lock(t, from) ==
    /\ At(t, from) /\ bq.mutex = 0
    /\ bq' = [bq EXCEPT !.mutex = t] /\ bt' = Goes(t, "in")

\* pthread_cond_wait and wait: let the mutex go and sleep, as one.
CondWait(t) == bq' = [bq EXCEPT !.mutex = 0] /\ bt' = Goes(t, "asleep")

Asleep(side) == {u \in side : At(u, "asleep")}

\* Those of W awake, t goes on at pc.
Woken(W, t, pc) ==
    bt' = [u \in Threads |-> IF u = t THEN [bt[u] EXCEPT !.pc = pc]
                             ELSE IF u \in W THEN [bt[u] EXCEPT !.pc = "relock"] ELSE bt[u]]

\* pthread_cond_signal, notify_one: one of those who sleep, if any does.
Signal(side, t, pc) ==
    IF Asleep(side) = {} THEN Woken({}, t, pc)
    ELSE \E u \in Asleep(side) : Woken({u}, t, pc)

NotifyAll(side, t, pc) == Woken(Asleep(side), t, pc)

\* A wait may also return by itself.
SpuriousWakeup(t) ==
    /\ At(t, "asleep") /\ bq.spurious < MaxSpurious
    /\ bq' = [bq EXCEPT !.spurious = @ + 1] /\ bt' = Goes(t, "relock")
    /\ UNCHANGED bp

-----------------------------------------------------------------------------
(* What is done under the mutex *)

Size == Len(bq.fifo)

\* The items of a producer, and after them the stop node.
Item(t) == IF bp \in StopNodes /\ bt[t].n = Items THEN Stop ELSE <<t, bt[t].n>>

\* Mutant: the slot is chosen by what is in the queue.
Slot_BySize == Size % QSize

\* p % size
Slot == bq.p % QSize

\* A std::queue has no limit and no slots.  next: where the producer goes
\* after the post or the signal.
Push(t, mutex, next) ==
    /\ At(t, "in")
    /\ bq' = [bq EXCEPT !.mutex = mutex, !.fifo = Append(@, Item(t)), !.p = @ + 1,
                        !.que = IF bp \in Rings THEN [@ EXCEPT ![Slot] = Item(t)] ELSE @]
    /\ bt' = [bt EXCEPT ![t].pc = "after", ![t].n = @ + 1, ![t].next = next]

\* The ring loads from f % size.
NextItem == IF bp \in Rings THEN bq.que[bq.f % QSize] ELSE Head(bq.fifo)

Pop(t, pc, next) ==
    /\ bq' = [bq EXCEPT !.mutex = 0, !.fifo = Tail(@), !.f = @ + 1]
    /\ bt' = [bt EXCEPT ![t].pc = pc, ![t].next = next,
                        ![t].n = IF bp \in {"demand", "demand_p"} THEN @ + 1 ELSE @]

\* A producer ends after the stop node, a consumer with one.
PutStops(t) == IF bt[t].n = Items THEN "done" ELSE "start"
TakeStops == IF NextItem = Stop THEN "done" ELSE "start"

-----------------------------------------------------------------------------
(* Semaphores: mmap_unnamed0, mmap_unnamed1 and blocking_queue_semaphore.h *)

\* flag falls when p has passed TOTAL_LEN.
mmap0_producer_proc(t) ==
    \/ SemWait(t, "empty", "lock") \/ Lock(t, "lock")
    \/ Push(t, 0, IF bq.p + 1 > TotalLen THEN "done" ELSE "start")
    \/ SemPost(t, "full", bt[t].next)

mmap0_consumer_proc(t) ==
    \/ SemWait(t, "full", "lock") \/ Lock(t, "lock")
    \/ At(t, "in") /\ Pop(t, "after", IF bq.f + 1 > TotalLen THEN "done" ELSE "start")
    \/ SemPost(t, "empty", bt[t].next)

bbq_put(t) ==
    \/ SemWait(t, "empty", "lock") \/ Lock(t, "lock")
    \/ Push(t, 0, PutStops(t)) \/ SemPost(t, "full", bt[t].next)

bbq_take(t) ==
    \/ SemWait(t, "full", "lock") \/ Lock(t, "lock")
    \/ At(t, "in") /\ Pop(t, "after", TakeStops)
    \/ SemPost(t, "empty", bt[t].next)

sem_put(t) ==
    Lock(t, "start") \/ Push(t, 0, PutStops(t)) \/ SemPost(t, "full", bt[t].next)

sem_take(t) ==
    \/ SemWait(t, "full", "lock") \/ Lock(t, "lock")
    \/ At(t, "in") /\ Pop(t, TakeStops, "start")

-----------------------------------------------------------------------------
(* Condition variables *)

\* Signals after the unlock.
Signals(t, side) == At(t, "after") /\ Signal(side, t, bt[t].next) /\ UNCHANGED bq

\* Waits while there is nothing to take; the mutex is held at "in".
WaitsAndPops(t, pc, next) ==
    \/ Lock(t, "relock")
    \/ At(t, "in") /\ IF Size = 0 THEN CondWait(t) ELSE Pop(t, pc, next)

\* Mutant: signals only when the queue was empty.
condvar_put_WhenEmpty(t) ==
    \/ Lock(t, "start") \/ Push(t, 0, PutStops(t))
    \/ Size <= 1 /\ Signals(t, Consumers)
    \/ Size > 1 /\ At(t, "after") /\ bt' = Goes(t, bt[t].next) /\ UNCHANGED bq

condvar_put(t) ==
    Lock(t, "start") \/ Push(t, 0, PutStops(t)) \/ Signals(t, Consumers)

condvar_take(t) == Lock(t, "start") \/ WaitsAndPops(t, TakeStops, "start")

\* notify_one under the lock
std_put(t) ==
    \/ Lock(t, "start") \/ Push(t, t, PutStops(t))
    \/ /\ At(t, "after") /\ Signal(Consumers, t, bt[t].next)
       /\ bq' = [bq EXCEPT !.mutex = 0]

std_take(t) == Lock(t, "start") \/ WaitsAndPops(t, TakeStops, "start")

\* The queue of main is declared after the vectors of threads, so that it is
\* destroyed before their destructors join: from then on the threads use a
\* destroyed mutex, condition variable and deque.
std_main ==
    /\ bp = "std" /\ bq.life = "alive"
    /\ bq' = [bq EXCEPT !.life = "destroyed"] /\ UNCHANGED <<bp, bt>>

\* What they do then may work as if the queue was still there, or leave the
\* process in any state: nothing is said of it any more.
std_uses_destroyed(t) ==
    /\ bp = "std" /\ bq.life = "destroyed" /\ ~At(t, "done")
    /\ bq' = [bq EXCEPT !.life = "broken"] /\ UNCHANGED bt

\* while (running)
WhileRunning(t) ==
    /\ At(t, "start") /\ UNCHANGED bq
    /\ bq.running /\ t \in Producers => bq.p < MaxPut
    /\ bt' = Goes(t, IF bq.running THEN "lock" ELSE "done")

bounded_producer(t) ==
    \/ WhileRunning(t) \/ Lock(t, "lock") \/ Lock(t, "relock")
    \/ At(t, "in") /\ Size = QSize /\ CondWait(t)
    \/ Size < QSize /\ Push(t, 0, "start")
    \/ Signals(t, Consumers)

bounded_consumer(t) ==
    \/ WhileRunning(t) \/ Lock(t, "lock") \/ WaitsAndPops(t, "after", "start")
    \/ Signals(t, Producers)

\* main of bounded sleeps, clears the flag, and joins the threads.
bounded_test2 ==
    /\ bp = "bounded" /\ bq.running
    /\ bq' = [bq EXCEPT !.running = FALSE] /\ UNCHANGED <<bp, bt>>

\* start .. end of a producer
InRange(t) == IF bt[t].n + 1 = Items THEN "done" ELSE "start"

\* The demands are for all that is produced.
Demand(t) == IF t = NProd + 1 THEN NProd * Items - (NCons - 1) ELSE 1
Demanded(t) == IF bt[t].n + 1 = Demand(t) THEN "done" ELSE "start"

demand_producer(t) ==
    \/ Lock(t, "start") \/ Push(t, 0, InRange(t))
    \/ At(t, "after") /\ NotifyAll(Consumers, t, bt[t].next) /\ UNCHANGED bq

demand_consumer(t) == Lock(t, "start") \/ WaitsAndPops(t, Demanded(t), "start")

demand_p_producer(t) ==
    Lock(t, "start") \/ Push(t, 0, InRange(t)) \/ Signals(t, Consumers)

\* The wait is not in a loop: a second test follows it, and the loop around
\* both begins again without an item.
demand_p_consumer(t) ==
    \/ Lock(t, "start")
    \/ /\ At(t, "relock") /\ bq.mutex = 0
       /\ bq' = [bq EXCEPT !.mutex = t] /\ bt' = Goes(t, "second")
    \/ At(t, "in") /\ IF Size = 0 THEN CondWait(t) ELSE Pop(t, Demanded(t), "start")
    \/ /\ At(t, "second")
       /\ IF Size = 0 THEN bq' = [bq EXCEPT !.mutex = 0] /\ bt' = Goes(t, "start")
          ELSE Pop(t, Demanded(t), "start")

-----------------------------------------------------------------------------
(* pthread/condition_variable.cpp *)

Counts(t, count, wakes) ==
    /\ bq' = [bq EXCEPT !.mutex = 0, !.count = count]
    /\ LET next == [bt EXCEPT ![t].n = @ + 1, ![t].pc = InRange(t)]
       IN  bt' = [u \in Threads |->
                    IF u \in wakes THEN [next[u] EXCEPT !.pc = "relock"] ELSE next[u]]

\* The signal is sent once, under the mutex, when the limit is met.
inc_count(t) ==
    \/ Lock(t, "start")
    \/ /\ At(t, "in")
       /\ Counts(t, bq.count + 1, IF bq.count + 1 = CountLimit THEN Asleep({Watcher}) ELSE {})

Bonus == 125

watch_count(t) ==
    \/ Lock(t, "start") \/ Lock(t, "relock")
    \/ /\ At(t, "in")
       /\ IF bq.count < CountLimit THEN CondWait(t)
          ELSE bq' = [bq EXCEPT !.mutex = 0, !.count = @ + Bonus] /\ bt' = Goes(t, "done")

-----------------------------------------------------------------------------
ProducerStep(t) ==
    \/ bp = "mmap0" /\ mmap0_producer_proc(t)
    \/ bp = "mmap1" /\ bbq_put(t)
    \/ bp = "sem" /\ sem_put(t)
    \/ bp = "condvar" /\ condvar_put(t)
    \/ bp = "std" /\ std_put(t)
    \/ bp = "bounded" /\ bounded_producer(t)
    \/ bp = "demand" /\ demand_producer(t)
    \/ bp = "demand_p" /\ demand_p_producer(t)
    \/ bp = "count" /\ inc_count(t)

ConsumerStep(t) ==
    \/ bp = "mmap0" /\ mmap0_consumer_proc(t)
    \/ bp = "mmap1" /\ bbq_take(t)
    \/ bp = "sem" /\ sem_take(t)
    \/ bp = "condvar" /\ condvar_take(t)
    \/ bp = "std" /\ std_take(t)
    \/ bp = "bounded" /\ bounded_consumer(t)
    \/ bp = "demand" /\ demand_consumer(t)
    \/ bp = "demand_p" /\ demand_p_consumer(t)
    \/ bp = "count" /\ watch_count(t)

ThreadStep(t) ==
    /\ bq.life # "broken"
    /\ \/ t \in Producers /\ ProducerStep(t)
       \/ t \in Consumers /\ ConsumerStep(t)
       \/ std_uses_destroyed(t)
    /\ UNCHANGED bp

QueueNext == bounded_test2 \/ std_main \/ \E t \in Threads : ThreadStep(t) \/ SpuriousWakeup(t)

\* Every thread is scheduled, and the sleep of main ends.  Spurious wake-ups
\* need not happen.
QueueFair == WF_bqVars(bounded_test2) /\ \A t \in Threads : WF_bqVars(ThreadStep(t))

QueueSpec == QueueInit /\ [][QueueNext]_bqVars /\ QueueFair

-----------------------------------------------------------------------------
(* Properties *)

\* What is taken is what was put, in that order and once each: the slots from
\* f to p hold it, and a consumer whom a semaphore let in finds an item.
TakenInOrder ==
    /\ bp \in Rings => \A i \in 1 .. Size : bq.que[(bq.f + i - 1) % QSize] = bq.fifo[i]
    /\ bp \in Rings \cup {"sem"} => \A t \in Consumers : At(t, "in") => Size > 0

Between(side) == Cardinality({t \in side : bt[t].pc \in {"lock", "in", "after"}})

\* The semaphores account for the ring: a slot is free, full, or in the hands
\* of the one thread that has waited for it and not posted yet.  The mutex and
\* the wait keep the other bounded queue to its size.
CapacityKept ==
    /\ bp \in Rings => bq.empty + bq.full + Between(Threads) = QSize
    /\ bp = "bounded" => Size <= QSize

Left(t) == ~At(t, "done")

\* The programs end: main joins every thread or waits for every child.  mmap0
\* does because there are as many producers as consumers, each of whom passes
\* TOTAL_LEN once.  In bounded the flag wakes nobody: consumers may be left
\* asleep at an empty queue, or producers at a full one, and main never returns.
\* The std program ends as long as its threads get away with the use of the
\* destroyed queue.
ProgramsEnd ==
    /\ (bp # "bounded" /\ NProd = NCons)
          ~> ((\A t \in Threads : At(t, "done")) \/ (bp = "std" /\ bq.life = "broken"))
    /\ bp = "bounded" ~>
          [](/\ \A t \in Threads : Left(t) => At(t, "asleep")
             /\ (\E t \in Consumers : Left(t)) => Size = 0 /\ \A t \in Producers : ~Left(t)
             /\ (\E t \in Producers : Left(t)) => Size = QSize)

\* Items come out as they went in, and the capacity is kept.
QueueExact == QueueTypeOK /\ TakenInOrder /\ CapacityKept

=============================================================================
