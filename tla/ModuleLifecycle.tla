-------------------------- MODULE ModuleLifecycle --------------------------
(***************************************************************************)
(* The life of a kernel module of this repository: insmod runs its init,   *)
(* which takes one resource after the other and, where it checks a         *)
(* failure, undoes what it has and gives up; handlers run on other CPUs    *)
(* from the moment their hook is registered; rmmod runs its exit.          *)
(*                                                                         *)
(* An init or exit function is a sequence of steps:                        *)
(*   get   take a resource; on failure run the step's undo and fail        *)
(*   try   take a resource; a failure is not checked                       *)
(*   need  dereference a resource                                          *)
(*   put   give a resource back                                            *)
(*   sync  tracepoint_synchronize_unregister                               *)
(* A resource is a hook (something that calls a handler of the module) or  *)
(* memory; a handler uses only its arguments and the memory "uses" names.  *)
(***************************************************************************)
EXTENDS Naturals, Sequences, FiniteSets, SequencesExt, FiniteSetsExt

CONSTANTS
    MaxFiring,  \* bound: handlers running at the same time
    NoResource

R(kind, name) == [kind |-> kind, name |-> name]
All(kind, names) == [i \in DOMAIN names |-> R(kind, names[i])]

Step(op, r) == [op |-> op, res |-> r, undo |-> << >>]
Get(r)  == <<Step("get", r)>>
Try(r)  == <<Step("try", r)>>
Need(r) == <<Step("need", r)>>
Put(r)  == <<Step("put", r)>>
Sync    == <<Step("sync", NoResource)>>

\* The goto labels of an init: what a failing step leads to is followed by
\* the cleanup of what came before.
OnFail(steps, cleanup) ==
    [i \in DOMAIN steps |->
        IF steps[i].op = "get"
        THEN [steps[i] EXCEPT !.undo = @ \o cleanup] ELSE steps[i]]

-----------------------------------------------------------------------------
(* hook_func_lib.c *)

\* Takes nothing; can fail if there is something to find.
tracepoint_probe_context_find_tracepoints(tps) ==
    IF tps = << >> THEN << >> ELSE Get(NoResource)

tracepoint_probe_context_unregister_probes(tps) ==
    [i \in DOMAIN tps |-> Step("put", tps[i])] \o Sync

tracepoint_probe_context_register_probes(tps) ==
    [i \in DOMAIN tps |->
        [op |-> "get", res |-> tps[i],
         undo |-> [j \in 1 .. i - 1 |-> Step("put", tps[i - j])] \o Sync]]

\* The older copies of the library only report a failure.
tracepoint_probe_context_register_probes_unchecked(tps) ==
    [i \in DOMAIN tps |-> Step("try", tps[i])]

kprobes_exit(kps) == Reverse([i \in DOMAIN kps |-> Step("put", kps[i])])

\* Mutant: the rollback starts one entry too low.
kprobes_init_OffByOne(kps) ==
    [i \in DOMAIN kps |->
        [op |-> "get", res |-> kps[i],
         undo |-> [j \in 1 .. (IF i < 2 THEN 0 ELSE i - 2) |->
                        Step("put", kps[i - 1 - j])]]]

kprobes_init(kps) ==
    [i \in DOMAIN kps |->
        [op |-> "get", res |-> kps[i],
         undo |-> [j \in 1 .. i - 1 |-> Step("put", kps[i - j])]]]

kretprobes_exit(kps) == Reverse([i \in DOMAIN kps |-> Step("put", kps[i])])

kretprobes_init(kps) ==
    [i \in DOMAIN kps |->
        [op |-> "get", res |-> kps[i],
         undo |-> [j \in 1 .. i - 1 |-> Step("put", kps[i - j])]]]

-----------------------------------------------------------------------------
(* tcp_trace *)

conn_tracepoints == All("tracepoint", <<"tcp_receive_reset", "tcp_send_reset">>)
conn_kprobes ==
    All("kprobe", <<"tcp_conn_request", "tcp_v4_send_synack", "tcp_check_req",
        "tcp_v4_syn_recv_sock", "tcp_create_openreq_child",
        "inet_csk_clone_lock", "tcp_child_process", "tcp_set_state",
        "inet_hash_connect", "tcp_connect", "tcp_finish_connect", "tcp_fin",
        "tcp_done", "tcp_timewait_state_process", "tcp_time_wait",
        "inet_twsk_kill", "inet_csk_destroy_sock", "tcp_reset",
        "tcp_v4_send_reset">>)
conn_kretprobes ==
    All("kretprobe", <<"tcp_v4_do_rcv", "tcp_rcv_state_process",
        "tcp_v4_syn_recv_sock", "inet_csk_accept", "tcp_close">>)
data_kprobes ==
    All("kprobe", <<"__tcp_transmit_skb", "sock_def_wakeup",
        "sock_def_readable", "sock_def_write_space", "sk_stream_write_space",
        "tcp_write_timer", "tcp_delack_timer", "tcp_keepalive_timer">>)
data_kretprobes ==
    All("kretprobe", <<"tcp_rcv_established", "tcp_recvmsg", "tcp_sendmsg",
        "tcp_write_xmit">>)

tcp_trace_conn_init ==
    tracepoint_probe_context_find_tracepoints(conn_tracepoints)
    \o tracepoint_probe_context_register_probes(conn_tracepoints)
    \o OnFail(kprobes_init(conn_kprobes),
              tracepoint_probe_context_unregister_probes(conn_tracepoints))
    \o OnFail(kretprobes_init(conn_kretprobes),
              kprobes_exit(conn_kprobes)
              \o tracepoint_probe_context_unregister_probes(conn_tracepoints))

tcp_trace_conn_exit ==
    tracepoint_probe_context_unregister_probes(conn_tracepoints)
    \o kprobes_exit(conn_kprobes) \o kretprobes_exit(conn_kretprobes)

tcp_trace_data_init ==
    kprobes_init(data_kprobes)
    \o OnFail(kretprobes_init(data_kretprobes), kprobes_exit(data_kprobes))

tcp_trace_data_exit ==
    kprobes_exit(data_kprobes) \o kretprobes_exit(data_kretprobes)

tcp_trace_init ==
    tcp_trace_conn_init \o OnFail(tcp_trace_data_init, tcp_trace_conn_exit)

tcp_trace_exit == tcp_trace_conn_exit \o tcp_trace_data_exit

-----------------------------------------------------------------------------
(* hook_func_example: the failures of the later groups undo nothing. *)

hook_func_kprobes    == All("kprobe", <<"tcp_v4_syn_recv_sock">>)
hook_func_kretprobes == All("kretprobe", <<"tcp_v4_syn_recv_sock">>)

hook_func_register(tps) ==
    tracepoint_probe_context_find_tracepoints(tps)
    \o tracepoint_probe_context_register_probes_unchecked(tps)

hook_func_example_init ==
    hook_func_register(<< >>)    \* init_num is 0
    \o kprobes_init(hook_func_kprobes)
    \o kretprobes_init(hook_func_kretprobes)

hook_func_example_exit ==
    tracepoint_probe_context_unregister_probes(<< >>)
    \o kprobes_exit(hook_func_kprobes)
    \o kretprobes_exit(hook_func_kretprobes)

\* Handlers that print what they are called with use nothing of the module.
hook_func_example_uses == {}

(* need_resched_display *)

resched_tracepoints == All("tracepoint", <<"sched_switch">>)
resched_kprobes     == All("kprobe", <<"__schedule">>)
resched_kretprobes  == All("kretprobe", <<"resched_curr">>)

need_resched_register(tps) ==
    tracepoint_probe_context_find_tracepoints(tps)
    \o tracepoint_probe_context_register_probes_unchecked(tps)

need_resched_display_init ==
    need_resched_register(resched_tracepoints)
    \o OnFail(kprobes_init(resched_kprobes),
              tracepoint_probe_context_unregister_probes(resched_tracepoints))
    \o OnFail(kretprobes_init(resched_kretprobes),
              kprobes_exit(resched_kprobes)
              \o tracepoint_probe_context_unregister_probes(resched_tracepoints))

need_resched_display_exit ==
    kretprobes_exit(resched_kretprobes) \o kprobes_exit(resched_kprobes)
    \o tracepoint_probe_context_unregister_probes(resched_tracepoints)

need_resched_display_uses == {}

(* sched_stat_display *)

stat_tracepoints ==
    All("tracepoint", <<"sched_stat_wait", "sched_stat_sleep",
                        "sched_stat_iowait", "sched_stat_blocked">>)

\* Its own copy of the library.
sched_stat_register(tps) ==
    tracepoint_probe_context_find_tracepoints(tps)
    \o tracepoint_probe_context_register_probes_unchecked(tps)

sched_stat_init == sched_stat_register(stat_tracepoints)

sched_stat_exit == tracepoint_probe_context_unregister_probes(stat_tracepoints)

sched_stat_uses == {}

(* sched_display: a counter per CPU behind each probe, allocated unchecked. *)

sched_tracepoints ==
    All("tracepoint", <<"sched_wakeup", "sched_switch", "sched_migrate_task">>)
sched_counts == All("percpu", <<"sched_wakeup", "sched_switch", "sched_migrate_task">>)

sched_display_register(tps) ==
    tracepoint_probe_context_find_tracepoints(tps)
    \o tracepoint_probe_context_register_probes_unchecked(tps)

sched_display_init ==
    [i \in 1 .. 3 |-> Step("try", sched_counts[i])]
    \o sched_display_register(sched_tracepoints)

sched_display_exit ==
    tracepoint_probe_context_unregister_probes(sched_tracepoints)
    \o [i \in 1 .. 3 |-> Step("put", sched_counts[i])]

\* Each probe counts on its own counter.
sched_display_uses == [i \in 1 .. 3 |-> <<sched_tracepoints[i], sched_counts[i]>>]

(* tracepoint_example: the probe that counts is not in the table. *)

local_timer_entry    == All("tracepoint", <<"local_timer_entry">>)
sched_wakeup_count   == R("percpu", "sched_wakeup")

tracepoint_example_register(tps) ==
    tracepoint_probe_context_find_tracepoints(tps)
    \o tracepoint_probe_context_register_probes_unchecked(tps)

tracepoint_example_init ==
    Try(sched_wakeup_count) \o tracepoint_example_register(local_timer_entry)

tracepoint_example_exit ==
    tracepoint_probe_context_unregister_probes(local_timer_entry)
    \o Put(sched_wakeup_count)

\* The probe that is registered prints the vector it is given.
tracepoint_example_uses == {}

(* kprobe_example, kprobe_example1, kretprobe_example, kretprobe_example1 and
   preempt_count_display: one probe each, on _do_fork. *)

do_fork_kprobe    == R("kprobe", "_do_fork")
do_fork_kretprobe == R("kretprobe", "_do_fork")

kprobe_example_init  == Get(do_fork_kprobe)
kprobe_example_exit  == Put(do_fork_kprobe)
kprobe_example1_init == kprobes_init(<<do_fork_kprobe>>)
kprobe_example1_exit == kprobes_exit(<<do_fork_kprobe>>)
kretprobe_example_init  == Get(do_fork_kretprobe)
kretprobe_example_exit  == Put(do_fork_kretprobe)
kretprobe_example1_init == kretprobes_init(<<do_fork_kretprobe>>)
kretprobe_example1_exit == kretprobes_exit(<<do_fork_kretprobe>>)
preempt_count_display_init == Get(do_fork_kprobe)
preempt_count_display_exit == Put(do_fork_kprobe)

kprobe_example_uses        == {}
kprobe_example1_uses       == {}
kretprobe_example_uses     == {}    \* its data is in the kretprobe_instance
kretprobe_example1_uses    == {}
preempt_count_display_uses == {}

-----------------------------------------------------------------------------
(* The proc entries *)

example_dir  == R("dir", "example")
hello_entry  == R("proc", "hello")
foo_entry    == R("proc", "foo")
entry0_entry == R("proc", "proc_entry0")
hello_map    == R("memory", "hello_map")
map_buckets  == R("memory", "buckets")
map_cache    == R("memory", "pe_map_cache")

proc_entry_normal_file_init ==
    Get(example_dir) \o OnFail(Get(hello_entry), Put(example_dir))
proc_entry_normal_file_exit == Put(hello_entry) \o Put(example_dir)

proc_entry_normal_file_uses == {}

proc_entry_seq_file_init ==
    Get(example_dir) \o OnFail(Get(foo_entry), Put(example_dir))
proc_entry_seq_file_exit == Put(foo_entry) \o Put(example_dir)

proc_entry_seq_file_uses == {}

proc_entry0_init == Try(entry0_entry)
proc_entry0_exit == Put(entry0_entry)
proc_entry0_uses == {}

pe_map_create ==
    Get(hello_map) \o OnFail(Get(map_buckets), Put(hello_map))
    \o OnFail(Get(map_cache), Put(map_buckets) \o Put(hello_map))

pe_map_destroy == Put(map_cache) \o Put(map_buckets) \o Put(hello_map)

proc_entry_hashmap1_init ==
    Get(example_dir) \o OnFail(pe_map_create, Put(example_dir))
    \o OnFail(Get(hello_entry), pe_map_destroy \o Put(example_dir))

proc_entry_hashmap1_exit ==
    Put(hello_entry) \o pe_map_destroy \o Put(example_dir)

proc_entry_hashmap2_init ==
    Get(example_dir) \o OnFail(pe_map_create, Put(example_dir))
    \o OnFail(Get(hello_entry), pe_map_destroy \o Put(example_dir))

\* entry_read and entry_write go through the map and its buckets.
hashmap_uses == {<<hello_entry, hello_map>>, <<hello_entry, map_buckets>>,
                 <<hello_entry, map_cache>>}

-----------------------------------------------------------------------------
(* Device, interrupts, deferred work, network *)

mmap_ctrl   == R("memory", "ctrl")
mmap_queue  == R("memory", "queue")
char_device == R("misc", "example_mmap_char_device")

\* A failed vmalloc_user is reported, and ctrl is written through all the same.
example_mmap_char_dev_meta_init ==
    Try(mmap_ctrl) \o Need(mmap_ctrl) \o Try(mmap_queue)
example_mmap_char_dev_meta_exit == Put(mmap_queue) \o Put(mmap_ctrl)

char_device_mmap_init == example_mmap_char_dev_meta_init \o Get(char_device)
char_device_mmap_exit == Put(char_device) \o example_mmap_char_dev_meta_exit

irq_line3 == R("irq", "3")
irq_request_init == Get(irq_line3)
irq_request_exit == Put(irq_line3)
irq_test_init == Try(irq_line3)
irq_test_exit == Put(irq_line3)

my_work      == R("work", "my_work")
my_workqueue == R("workqueue", "my_workqueue")
workqueue0_init == Try(my_work)
workqueue0_exit == << >>
workqueue1_init == Try(my_workqueue) \o Need(my_workqueue) \o Try(my_work)
workqueue1_exit ==
    <<Step("flush", my_work)>> \o Put(my_workqueue)

my_tasklet == R("tasklet", "my_tasklet")
tasklet_module_init == Try(my_tasklet)
tasklet_module_exit == << >>

example_timer == R("timer", "example")
timer_example_module_init == Try(example_timer)
\* del_timer, if the timer is pending: a running callback is not waited for.
timer_example_module_exit == Put(example_timer)

nlsk == R("netlink", "nlsk")
test_netlink_init == Get(nlsk)
test_netlink_exit == Put(nlsk)
test_netlink_uses == {<<nlsk, nlsk>>}   \* the answer goes out on the socket

myproto_protocol == R("protocol", "123")
myprot_init_module    == Get(myproto_protocol)
myprot_cleanup_module == Put(myproto_protocol)
myprot_uses == {}

-----------------------------------------------------------------------------
Mod(init, exit, uses) == [init |-> init, exit |-> exit, uses |-> uses]

Kmods == [
    tcp_trace |-> Mod(tcp_trace_init, tcp_trace_exit, {}),
    hook_func_example |-> Mod(hook_func_example_init, hook_func_example_exit, hook_func_example_uses),
    need_resched_display |-> Mod(need_resched_display_init,
        need_resched_display_exit, need_resched_display_uses),
    sched_stat_display |-> Mod(sched_stat_init, sched_stat_exit, sched_stat_uses),
    sched_display |-> Mod(sched_display_init, sched_display_exit,
        ToSet(sched_display_uses)),
    tracepoint_example |-> Mod(tracepoint_example_init, tracepoint_example_exit, tracepoint_example_uses),
    kprobe_example |-> Mod(kprobe_example_init, kprobe_example_exit, kprobe_example_uses),
    kprobe_example1 |-> Mod(kprobe_example1_init, kprobe_example1_exit, kprobe_example1_uses),
    kretprobe_example |-> Mod(kretprobe_example_init, kretprobe_example_exit, kretprobe_example_uses),
    kretprobe_example1 |-> Mod(kretprobe_example1_init, kretprobe_example1_exit, kretprobe_example1_uses),
    preempt_count_display |-> Mod(preempt_count_display_init,
        preempt_count_display_exit, preempt_count_display_uses),
    proc_entry_normal_file |-> Mod(proc_entry_normal_file_init,
        proc_entry_normal_file_exit, proc_entry_normal_file_uses),
    proc_entry_seq_file |-> Mod(proc_entry_seq_file_init,
        proc_entry_seq_file_exit, proc_entry_seq_file_uses),
    proc_entry0 |-> Mod(proc_entry0_init, proc_entry0_exit, proc_entry0_uses),
    proc_entry_hashmap1 |-> Mod(proc_entry_hashmap1_init,
        proc_entry_hashmap1_exit, hashmap_uses),
    proc_entry_hashmap2 |-> Mod(proc_entry_hashmap2_init,
        proc_entry_hashmap1_exit, hashmap_uses),
    char_device_mmap |-> Mod(char_device_mmap_init, char_device_mmap_exit, {}),
    irq_request_example |-> Mod(irq_request_init, irq_request_exit, {}),
    irq_test |-> Mod(irq_test_init, irq_test_exit, {}),
    workqueue0 |-> Mod(workqueue0_init, workqueue0_exit, {}),
    workqueue1 |-> Mod(workqueue1_init, workqueue1_exit, {}),
    tasklet |-> Mod(tasklet_module_init, tasklet_module_exit, {}),
    timer_example |-> Mod(timer_example_module_init, timer_example_module_exit, {}),
    netlink_test |-> Mod(test_netlink_init, test_netlink_exit, test_netlink_uses),
    myprot |-> Mod(myprot_init_module, myprot_cleanup_module, myprot_uses)]

VARIABLES
    kmod,    \* the module that is loaded, a field of Kmods
    phase,   \* where it is in its life
    pos,     \* the next step of its init or exit; the step that failed; and
             \* whether a hook has been taken away but its handlers not awaited
    live,    \* the resources it holds; a hook in live calls its handler
    firing,  \* hooks whose handler is running
    missed   \* resources it did not get and did not notice

kmodVars == <<kmod, phase, pos, live, firing, missed>>

At(n) == [at |-> n, failed |-> 0, releasing |-> FALSE]

KmodInit ==
    /\ kmod = "none" /\ phase = "out"
    /\ pos = At(1) /\ live = {} /\ firing = {} /\ missed = {}

Resources ==
    [m \in DOMAIN Kmods |->
        {s.res : s \in ToSet(Kmods[m].init \o Kmods[m].exit)} \ {NoResource}]

insmod(m) ==
    /\ phase = "out"
    /\ kmod' = m /\ phase' = "init"
    /\ UNCHANGED <<pos, live, firing, missed>>

\* rmmod: an open device file holds a reference to the module.
rmmod ==
    /\ phase = "loaded"
    /\ \A r \in firing : r.kind # "misc"
    /\ pos' = At(1) /\ phase' = "exit"
    /\ UNCHANGED <<kmod, live, firing, missed>>

\* Of the calls that take a hook away, unregister_kprobe,
\* unregister_kretprobe, free_irq, remove_proc_entry, netlink_kernel_release
\* and inet_del_protocol go on to wait until no handler of it runs; del_timer
\* and tracepoint_probe_unregister do not.
Waits == {"kprobe", "kretprobe", "irq", "proc", "netlink", "protocol"}

Code == CASE phase = "init" -> Kmods[kmod].init
          [] phase = "undo" -> Kmods[kmod].init[pos.failed].undo
          [] phase = "exit" -> Kmods[kmod].exit
          [] OTHER          -> << >>
Running == pos.at \in DOMAIN Code
Next1   == Code[pos.at]
Advance == pos' = [pos EXCEPT !.at = @ + 1, !.releasing = FALSE]

\* Types.
KmodTypeOK ==
    /\ kmod \in DOMAIN Kmods \cup {"none"}
    /\ phase \in {"out", "init", "undo", "loaded", "exit", "failed",
                  "unloaded", "oops"}
    /\ live \cup firing \cup missed \subseteq
          (IF kmod = "none" THEN {} ELSE Resources[kmod])
    /\ phase \in {"init", "undo", "exit"} => pos.at \in 1 .. Len(Code) + 1
    /\ live \cap missed = {}
    /\ Cardinality(firing) <= MaxFiring

\* The resource is taken.
Take ==
    /\ Running /\ Next1.op \in {"get", "try"}
    /\ live' = live \cup ({Next1.res} \ {NoResource})
    /\ Advance
    /\ UNCHANGED <<kmod, phase, firing, missed>>

\* A call fails, and its result is checked: the goto chain runs.
FailChecked ==
    /\ Running /\ Next1.op = "get"
    /\ pos' = [At(1) EXCEPT !.failed = pos.at] /\ phase' = "undo"
    /\ UNCHANGED <<kmod, live, firing, missed>>

\* A call fails, and nobody notices.  Queueing work, a tasklet or a timer
\* does not fail.
FailUnchecked ==
    /\ Running /\ Next1.op = "try"
    /\ Next1.res.kind \notin {"work", "tasklet", "timer"}
    /\ missed' = missed \cup {Next1.res}
    /\ Advance
    /\ UNCHANGED <<kmod, phase, live, firing>>

Dereference ==
    /\ Running /\ Next1.op = "need"
    /\ IF Next1.res \in live
       THEN Advance /\ UNCHANGED phase
       ELSE phase' = "oops" /\ UNCHANGED pos
    /\ UNCHANGED <<kmod, live, firing, missed>>

Release ==
    /\ Running /\ Next1.op = "put" /\ ~pos.releasing
    /\ live' = live \ {Next1.res}
    /\ IF Next1.res.kind \in Waits THEN pos' = [pos EXCEPT !.releasing = TRUE]
       ELSE Advance
    /\ UNCHANGED <<kmod, phase, firing, missed>>

\* The wait of Release, tracepoint_synchronize_unregister, flush_workqueue.
WaitHandlers ==
    /\ Running /\ (pos.releasing \/ Next1.op \in {"sync", "flush"})
    /\ pos.releasing => Next1.res \notin firing
    /\ Next1.op = "sync" => \A r \in firing : r.kind # "tracepoint"
    /\ Next1.op = "flush" => Next1.res \notin live \cup firing
    /\ Advance
    /\ UNCHANGED <<kmod, phase, live, firing, missed>>

\* init or exit returns to the kernel, which frees the module after a failed
\* init and after exit.
Finish ==
    /\ phase \in {"init", "undo", "exit"} /\ ~Running
    /\ phase' = CASE phase = "init" -> "loaded"
                  [] phase = "undo" -> "failed"
                  [] phase = "exit" -> "unloaded"
    /\ pos' = At(1)
    /\ UNCHANGED <<kmod, live, firing, missed>>

Hooks == {"tracepoint", "misc", "work", "tasklet", "timer"} \cup Waits
Loaded == phase \in {"init", "undo", "loaded", "exit"}

\* A handler starts.  Work, tasklets and timers are taken off their queue.
Fire(r) ==
    /\ Loaded /\ r \in live \ firing /\ r.kind \in Hooks
    /\ r.kind = "misc" => phase # "exit"    \* open fails once rmmod has begun
    /\ Cardinality(firing) < MaxFiring
    /\ IF \A p \in Kmods[kmod].uses : p[1] = r => p[2] \in live
       THEN /\ firing' = firing \cup {r}
            /\ live' = live \ (IF r.kind \in {"work", "tasklet", "timer"}
                               THEN {r} ELSE {})
            /\ UNCHANGED phase
       ELSE phase' = "oops" /\ UNCHANGED <<live, firing>>
    /\ UNCHANGED <<kmod, pos, missed>>

\* A handler returns.
Return(r) ==
    /\ Loaded /\ r \in firing
    /\ firing' = firing \ {r}
    /\ UNCHANGED <<kmod, phase, pos, live, missed>>

\* The timer's callback queues it again, until it has run ten times.
Rearm(r) ==
    /\ Loaded /\ r \in firing /\ r.kind = "timer"
    /\ live' = live \cup {r} /\ firing' = firing \ {r}
    /\ UNCHANGED <<kmod, phase, pos, missed>>

KmodStep == Take \/ FailChecked \/ FailUnchecked \/ Dereference \/ Release
            \/ WaitHandlers \/ Finish

KmodNext ==
    \/ \E m \in DOMAIN Kmods : insmod(m)
    \/ rmmod
    \/ KmodStep
    \/ \E r \in live : Fire(r)
    \/ \E r \in firing : Return(r) \/ Rearm(r)

\* The handlers that init or exit is waiting for.
Awaited == {r \in firing : Running /\
               \/ (pos.releasing \/ Next1.op = "flush") /\ r = Next1.res
               \/ Next1.op = "sync" /\ r.kind = "tracepoint"}

\* init and exit run on; queued work is run; a handler that is waited for
\* returns.
KmodFair ==
    /\ WF_kmodVars(KmodStep)
    /\ WF_kmodVars(Fire(my_work))
    /\ WF_kmodVars(\E r \in Awaited : Return(r))

-----------------------------------------------------------------------------
(***************************************************************************)
(* What modules leave behind when the kernel frees their code: all that is *)
(* known of is named here, by module.  hook_func_example leaves its kprobe *)
(* planted when the kretprobe fails; the tracepoint modules leak their     *)
(* counters when a tracepoint is missing; the char device leaks its areas  *)
(* when the device cannot be registered; workqueue0 and tasklet do not     *)
(* cancel what they have queued, and timer_example does not wait for a     *)
(* callback, which starts the timer again.                                 *)
(***************************************************************************)
KnownLeftovers(name) ==
    CASE name = "hook_func_example"  -> ToSet(hook_func_kprobes)
      [] name = "sched_display"      -> ToSet(sched_counts)
      [] name = "tracepoint_example" -> {sched_wakeup_count}
      [] name = "char_device_mmap"   -> {mmap_ctrl, mmap_queue}
      [] name = "workqueue0"         -> {my_work}
      [] name = "tasklet"            -> {my_tasklet}
      [] name = "timer_example"      -> {example_timer}
      [] OTHER                       -> {}

\* Once the code of a module is gone no hook still points into it, no handler
\* of it is running and none of its memory is held, but for KnownLeftovers:
\* the goto chains of every init and the order of every exit.
CleanUnload ==
    phase \in {"failed", "unloaded"} =>
        live \cup firing \subseteq KnownLeftovers(kmod)

\* The crash an init, an exit or a handler can run into always comes from an
\* allocation whose failure went unnoticed, never from memory that was given
\* back while a hook could still call a handler that uses it.
OopsOnlyUnchecked == phase = "oops" => missed # {}

\* insmod and rmmod return, whatever handlers are running.
ModuleCallsReturn ==
    phase \in {"init", "undo", "exit"}
        ~> phase \in {"loaded", "failed", "unloaded", "oops"}

\* Loading and unloading is clean, whichever call of init fails and whichever
\* handler is running, but for what went unchecked.
UnloadSafe == KmodTypeOK /\ CleanUnload /\ OopsOnlyUnchecked

=============================================================================
