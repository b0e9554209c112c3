------------------------------ MODULE Kthreads ------------------------------
(***************************************************************************)
(* The kernel thread examples.  insmod starts threads and, in three of the *)
(* examples, waits for them to finish their work; rmmod stops them.  The   *)
(* functions of an example are sequences of steps, which the module's      *)
(* task, the threads and, in kthread_example4, a timer callback execute    *)
(* concurrently.                                                           *)
(***************************************************************************)
EXTENDS Naturals, Sequences, FiniteSets

CONSTANT NR_THREADS     \* threads of kthread_example3 (4 in the code)

ASSUME KthAssumption == NR_THREADS \in Nat \ {0}

Threads == 0 .. NR_THREADS - 1

\* Mutant: the thread returns when its work is done.
wait_for_kthread_stop_Missing == << >>

\* while (!kthread_should_stop()) { set_current_state(TASK_INTERRUPTIBLE);
\* schedule(); }, in every example.
wait_for_kthread_stop == <<"test_stop">>

-----------------------------------------------------------------------------
(* kthread_example *)
example_run  == <<"work">> \o wait_for_kthread_stop \o <<"msleep">>
example_init == <<"kthread_run">>
example_exit == <<"kthread_stop">>

(* kthread_example1: init polls a flag *)
example1_run  == <<"work", "finished">> \o wait_for_kthread_stop \o <<"msleep">>
example1_init == <<"kthread_run", "poll">>
example1_exit == <<"kthread_stop">>

(* kthread_example2: init sleeps on a wait queue *)
\* Mutant: nobody is woken.
example2_run_NoWake ==
    <<"work", "finished">> \o wait_for_kthread_stop \o <<"msleep">>
example2_run ==
    <<"work", "finished", "wake_up">> \o wait_for_kthread_stop \o <<"msleep">>
example2_init == <<"kthread_run", "wait_finished">>
example2_exit == <<"kthread_stop">>

(* kthread_example3: init takes a semaphore once for every thread *)
Each(op) == [i \in 1 .. NR_THREADS |-> op]
example3_run  == <<"work", "up">> \o wait_for_kthread_stop \o <<"msleep">>
example3_init == Each("kthread_run") \o Each("down")
example3_exit == Each("kthread_stop")

(* kthread_example4: a timer wakes the thread *)
example4_run  == <<"while_running">> \o wait_for_kthread_stop
example4_init == <<"kthread_run", "need_thread", "mod_timer">>
example4_exit ==
    <<"del_timer", "not_running", "set_waked", "wake_up", "kthread_stop">>

(* kthread_example5: a loop that looks at a flag *)
example5_run  == <<"work">> \o wait_for_kthread_stop
example5_init == <<"kthread_run">>
example5_exit == <<"not_running", "kthread_stop">>

Example(n, init, run, exit) == [n |-> n, init |-> init, run |-> run, exit |-> exit]

Examples == [
    kthread_example  |-> Example(1, example_init, example_run, example_exit),
    kthread_example1 |-> Example(1, example1_init, example1_run, example1_exit),
    kthread_example2 |-> Example(1, example2_init, example2_run, example2_exit),
    kthread_example3 |-> Example(NR_THREADS, example3_init, example3_run, example3_exit),
    kthread_example4 |-> Example(1, example4_init, example4_run, example4_exit),
    kthread_example5 |-> Example(1, example5_init, example5_run, example5_exit)]

-----------------------------------------------------------------------------
VARIABLES
    kth,       \* the example that is loaded
    stage,     \* where its module is in its life
    ksteps,     \* what init or exit still has to do
    run,       \* what every thread still has to do
    created,   \* calls of kthread_run and of kthread_stop so far
    stopped,
    nothread,  \* kthread_run has failed
    stop,      \* threads with KTHREAD_SHOULD_STOP
    state,     \* threads' task state
    flags,     \* finished, running, waked, the semaphore
    waiting,   \* who sleeps on the wait queue
    timer,     \* of kthread_example4
    late       \* its callback was running when timer_example_exit looked

kthVars == <<kth, stage, ksteps, run, created, stopped, nothread, stop, state,
             flags, waiting, timer, late>>

Module == NR_THREADS     \* the task of insmod and rmmod, beside Threads

\* example_thread_ctx_init, and the flags' initial values.
KthInit ==
    /\ kth = "none" /\ stage = "out" /\ ksteps = << >>
    /\ run = [t \in Threads |-> << >>] /\ created = 0 /\ stopped = 0
    /\ nothread = FALSE /\ stop = {} /\ state = [t \in Threads |-> "none"]
    /\ flags = [finished |-> FALSE, running |-> TRUE, waked |-> FALSE, sem |-> 0]
    /\ waiting = {} /\ timer = "idle" /\ late = FALSE

\* Types: a thread that exists has steps left or is done; the timer is used
\* by one example only; no more units in the semaphore than threads.
KthTypeOK ==
    /\ stage \in {"out", "init", "loaded", "exit", "unloaded", "oops"}
    /\ created \in 0 .. NR_THREADS /\ stopped \in 0 .. created
    /\ state \in [Threads -> {"none", "running", "interruptible", "asleep", "done"}]
    /\ stop \subseteq Threads
    /\ flags.sem \in 0 .. created
    /\ waiting \subseteq 0 .. Module
    /\ timer # "idle" => kth = "kthread_example4"
    /\ \A t \in Threads : state[t] = "done" => run[t] = << >>

kthread_insmod(k) ==
    /\ stage = "out"
    /\ kth' = k /\ stage' = "init" /\ ksteps' = Examples[k].init
    /\ UNCHANGED <<run, created, stopped, nothread, stop, state, flags, waiting,
                   timer, late>>

kthread_rmmod ==
    /\ stage = "loaded"
    /\ stage' = "exit" /\ ksteps' = Examples[kth].exit
    /\ UNCHANGED <<kth, run, created, stopped, nothread, stop, state, flags,
                   waiting, timer, late>>

ModuleAt(op) == stage \in {"init", "exit"} /\ ksteps # << >> /\ Head(ksteps) = op

\* A new thread; or an ERR_PTR, which the test for NULL lets pass.
kthread_run ==
    /\ ModuleAt("kthread_run")
    /\ created' = created + 1
    /\ \/ /\ run'   = [run EXCEPT ![created] = Examples[kth].run]
          /\ state' = [state EXCEPT ![created] = "running"]
          /\ UNCHANGED nothread
       \/ /\ nothread' = TRUE /\ UNCHANGED <<run, state>>
    /\ ksteps' = Tail(ksteps)
    /\ UNCHANGED <<kth, stage, stopped, stop, flags, waiting, timer, late>>

\* Sets the stop bit and wakes the thread if it sleeps in schedule().
kthread_stop ==
    /\ ModuleAt("kthread_stop")
    /\ IF state[stopped] = "none"
       THEN stage' = "oops" /\ ksteps' = << >> /\ UNCHANGED <<stop, state>>
       ELSE /\ stop'  = stop \cup {stopped}
            /\ state' = [state EXCEPT ![stopped] = IF @ = "done" THEN @ ELSE "running"]
            /\ ksteps' = <<"join">> \o Tail(ksteps)
            /\ UNCHANGED stage
    /\ UNCHANGED <<kth, run, created, stopped, nothread, flags, waiting, timer, late>>

\* The rest of kthread_stop: wait until the thread has returned.
kthread_join ==
    /\ ModuleAt("join") /\ state[stopped] = "done"
    /\ stopped' = stopped + 1 /\ ksteps' = Tail(ksteps)
    /\ UNCHANGED <<kth, stage, run, created, nothread, stop, state, flags,
                   waiting, timer, late>>

\* The remaining steps of init and exit.
ModuleMoves(op) ==
    /\ ModuleAt(op) /\ ksteps' = Tail(ksteps)
    /\ UNCHANGED <<kth, run, created, stopped, nothread, stop, state>>

wait_for_threads ==
    \/ /\ ModuleMoves("poll") /\ flags.finished
       /\ UNCHANGED <<stage, flags, waiting, timer, late>>
    \/ /\ ModuleMoves("wait_finished") /\ flags.finished /\ Module \notin waiting
       /\ UNCHANGED <<stage, flags, waiting, timer, late>>
    \/ /\ ModuleAt("wait_finished") /\ ~flags.finished /\ Module \notin waiting
       /\ waiting' = waiting \cup {Module}
       /\ UNCHANGED <<kth, stage, ksteps, run, created, stopped, nothread, stop,
                      state, flags, timer, late>>
    \/ /\ ModuleMoves("down") /\ flags.sem > 0
       /\ flags' = [flags EXCEPT !.sem = @ - 1]
       /\ UNCHANGED <<stage, waiting, timer, late>>

\* sched_setscheduler_nocheck and timer_example_init.
start_timer ==
    \/ /\ ModuleAt("need_thread") /\ nothread
       /\ stage' = "oops" /\ ksteps' = << >>
       /\ UNCHANGED <<kth, run, created, stopped, nothread, stop, state, flags,
                      waiting, timer, late>>
    \/ /\ ModuleMoves("need_thread") /\ ~nothread
       /\ UNCHANGED <<stage, flags, waiting, timer, late>>
    \/ /\ ModuleMoves("mod_timer") /\ timer' = "pending"
       /\ UNCHANGED <<stage, flags, waiting, late>>

\* if (timer_pending) del_timer: a callback that is running stays.
timer_example_exit ==
    /\ ModuleMoves("del_timer")
    /\ timer' = IF timer = "pending" THEN "idle" ELSE timer
    /\ late' = (timer \in {"expired", "woken"})
    /\ UNCHANGED <<stage, flags, waiting>>

set_flags ==
    \/ /\ ModuleMoves("not_running") /\ flags' = [flags EXCEPT !.running = FALSE]
       /\ UNCHANGED <<stage, waiting, timer, late>>
    \/ /\ ModuleMoves("set_waked") /\ flags' = [flags EXCEPT !.waked = TRUE]
       /\ UNCHANGED <<stage, waiting, timer, late>>
    \/ /\ ModuleMoves("wake_up") /\ waiting' = {}
       /\ UNCHANGED <<stage, flags, timer, late>>

\* init or exit returns.
module_returns ==
    /\ stage \in {"init", "exit"} /\ ksteps = << >>
    /\ stage' = IF stage = "init" THEN "loaded" ELSE "unloaded"
    /\ UNCHANGED <<kth, ksteps, run, created, stopped, nothread, stop, state,
                   flags, waiting, timer, late>>

-----------------------------------------------------------------------------
(* The threads *)

Alive == stage \notin {"out", "oops"}
ThreadAt(t, op) ==
    /\ Alive /\ state[t] = "running" /\ run[t] # << >> /\ Head(run[t]) = op
    /\ UNCHANGED <<kth, stage, ksteps, created, stopped, nothread, stop, late>>
ThreadMoves(t, op) == ThreadAt(t, op) /\ run' = [run EXCEPT ![t] = Tail(@)]

\* The loops of msleep and of counting: some rounds, cut short by a stop.
work(t) ==
    /\ ThreadMoves(t, "work") \/ ThreadMoves(t, "msleep")
    /\ UNCHANGED <<state, flags, waiting, timer>>

tell_module(t) ==
    \/ /\ ThreadMoves(t, "finished") /\ flags' = [flags EXCEPT !.finished = TRUE]
       /\ UNCHANGED <<state, waiting, timer>>
    \/ /\ ThreadMoves(t, "wake_up") /\ waiting' = {}
       /\ UNCHANGED <<state, flags, timer>>
    \/ /\ ThreadMoves(t, "up") /\ flags' = [flags EXCEPT !.sem = @ + 1]
       /\ UNCHANGED <<state, waiting, timer>>

\* kthread_example4: while (running) { wait_event(waked == 1); waked = 0; }
\* The reset is a step of its own, and may undo a wake-up of that moment.
pong(t) ==
    \/ /\ ThreadMoves(t, "while_running") /\ ~flags.running
       /\ UNCHANGED <<state, flags, waiting, timer>>
    \/ /\ ThreadAt(t, "while_running") /\ flags.running
       /\ run' = [run EXCEPT ![t] = <<"wait_waked", "reset_waked">> \o @]
       /\ UNCHANGED <<state, flags, waiting, timer>>
    \/ /\ ThreadMoves(t, "wait_waked") /\ t \notin waiting /\ flags.waked
       /\ UNCHANGED <<state, flags, waiting, timer>>
    \/ /\ ThreadAt(t, "wait_waked") /\ t \notin waiting /\ ~flags.waked
       /\ waiting' = waiting \cup {t} /\ UNCHANGED <<run, state, flags, timer>>
    \/ /\ ThreadMoves(t, "reset_waked")
       /\ flags' = [flags EXCEPT !.waked = FALSE]
       /\ UNCHANGED <<state, waiting, timer>>

\* kthread_should_stop() is looked at, then the state is set, then schedule()
\* takes the CPU away unless somebody has made the state running again.
stop_loop(t) ==
    \/ /\ ThreadMoves(t, "test_stop") /\ t \in stop
       /\ UNCHANGED <<state, flags, waiting, timer>>
    \/ /\ ThreadAt(t, "test_stop") /\ t \notin stop
       /\ run' = [run EXCEPT ![t] = <<"set_state">> \o @]
       /\ UNCHANGED <<state, flags, waiting, timer>>
    \/ /\ ThreadMoves(t, "set_state")
       /\ state' = [state EXCEPT ![t] = "interruptible"]
       /\ UNCHANGED <<flags, waiting, timer>>

schedule(t) ==
    /\ Alive /\ state[t] = "interruptible"
    /\ state' = [state EXCEPT ![t] = "asleep"]
    /\ UNCHANGED <<kth, stage, ksteps, run, created, stopped, nothread, stop,
                   flags, waiting, timer, late>>

thread_returns(t) ==
    /\ Alive /\ state[t] = "running" /\ run[t] = << >>
    /\ state' = [state EXCEPT ![t] = "done"]
    /\ UNCHANGED <<kth, stage, ksteps, run, created, stopped, nothread, stop,
                   flags, waiting, timer, late>>

\* The timer goes off; its callback sets waked and wakes the thread, and
\* always queues the timer again.
timer_example_expire ==
    /\ Alive
    /\ \/ /\ timer = "pending" /\ timer' = "expired" /\ UNCHANGED <<flags, waiting>>
       \/ /\ timer = "expired" /\ timer' = "woken"
          /\ flags' = [flags EXCEPT !.waked = TRUE] /\ waiting' = {}
       \/ /\ timer = "woken" /\ timer' = "pending" /\ UNCHANGED <<flags, waiting>>
    /\ UNCHANGED <<kth, stage, ksteps, run, created, stopped, nothread, stop,
                   state, late>>

KthModule == kthread_run \/ kthread_stop \/ kthread_join \/ wait_for_threads
             \/ start_timer \/ timer_example_exit \/ set_flags \/ module_returns
KthThread(t) == work(t) \/ tell_module(t) \/ pong(t)
                \/ stop_loop(t) \/ schedule(t) \/ thread_returns(t)

KthNext ==
    \/ \E k \in DOMAIN Examples : kthread_insmod(k)
    \/ kthread_rmmod
    \/ KthModule
    \/ \E t \in Threads : KthThread(t)
    \/ timer_example_expire

\* Everyone who can run is run; the timer goes off.
KthFair == /\ WF_kthVars(KthModule)
           /\ \A t \in Threads : WF_kthVars(KthThread(t))
           /\ WF_kthVars(timer_example_expire)
-----------------------------------------------------------------------------
\* "make sure when kthread_stop() is called to stop a kthread, it is still
\* alive": no thread returns before it was told to stop.
StopFindsThread == \A t \in Threads : state[t] = "done" => t \in stop

\* In the examples whose init waits, insmod has returned only when every
\* thread has done its work and said so.
InitWaitsForWork ==
    kth \in {"kthread_example1", "kthread_example2", "kthread_example3"}
        /\ stage \notin {"out", "init"}
        => \A t \in Threads : run[t] # << >> => Head(run[t]) \notin {"work", "finished", "up"}

\* When the module's code is gone no thread executes it and no timer will
\* call it, unless the callback was running at the moment exit tested
\* timer_pending: then it queues the timer again behind exit's back.
UnloadLeavesNobody ==
    stage = "unloaded" => /\ \A t \in Threads : state[t] \in {"none", "done"}
                          /\ timer = "idle" \/ late

\* insmod returns if it got its threads.
InsmodReturns == stage = "init" ~> stage # "init" \/ nothread

\* rmmod returns, but for the lost wake-up of wait_for_kthread_stop: the stop
\* falls between the test and set_current_state, and the thread sleeps on.
RmmodReturns ==
    stage = "exit" ~> \/ stage \in {"unloaded", "oops"}
                      \/ \E t \in stop : state[t] = "asleep"

\* Every tick of kthread_example4's timer is seen by the thread, as long as
\* the module stays loaded.
TickSeen == flags.waked ~> ~flags.waked \/ stage \notin {"init", "loaded"}

\* The threads and the module's task keep step: kthread_stop finds its thread,
\* init returns after the work, and nobody is left in code that is gone.
ThreadsAccounted ==
    KthTypeOK /\ StopFindsThread /\ InitWaitsForWork /\ UnloadLeavesNobody

=============================================================================
