------------------------------ MODULE TcpTrace ------------------------------
(***************************************************************************)
(* The handlers of the tcp_trace kernel module, called on every CPU from   *)
(* inside the functions of the TCP stack they are planted in.  A handler   *)
(* shows the socket it finds in a register if it passes the filter.  A     *)
(* return probe cannot see the arguments any more: its entry handler       *)
(* leaves the socket in the private data of a kretprobe_instance, and      *)
(* instances are recycled with whatever their last user left in them.      *)
(***************************************************************************)
EXTENDS Naturals, Sequences, FiniteSets

CONSTANTS
    Tasks,      \* contexts the stack runs in at the same time
    Socks,      \* sockets: [num, dport, family, saddr, daddr] and an id
    Params,     \* the parameters insmod may be given
    NULL,
    MaxActive,  \* kretprobe_instances of a kretprobe (64 in the code)
    MaxDepth,   \* bound: probed functions nested in each other
    CalledSets  \* bound: the functions with a return probe that one behaviour
                \* calls; their instances are independent of the others'

Garbage == [id |-> "not a socket"]

VARIABLES
    param,   \* module parameters, NULL before insmod
    called,  \* member of CalledSets
    ctx,     \* ri->data->sk of every instance of every kretprobe
    stack,   \* probed calls in progress, innermost first
    freed,   \* sockets that no longer exist
    shown    \* what the last step displayed: socket, by which function, how

traceVars == <<param, called, ctx, stack, freed, shown>>

-----------------------------------------------------------------------------
(* tcp_trace_filter.c *)

\* The ports are copied from an int to a u16.
U16 == 65536

init_sock_config_from_param ==
    [local_port  |-> param.local_port % U16,
     remote_port |-> param.remote_port % U16,
     enable_ipv4 |-> param.enable_ipv4, enable_ipv6 |-> param.enable_ipv6,
     local_addr_ipv4 |-> 0, remote_addr_ipv4 |-> 0]

trace_level == 3

sock_filter(sk, func_level) ==
    LET c == init_sock_config_from_param IN
    /\ sk # NULL
    /\ trace_level >= func_level
    /\ c.local_port \in {0, sk.num} /\ c.remote_port \in {0, sk.dport}
    /\ sk.family = "inet" => /\ c.enable_ipv4
                             /\ c.local_addr_ipv4 \in {0, sk.saddr}
                             /\ c.remote_addr_ipv4 \in {0, sk.daddr}
    /\ sk.family = "inet6" => c.enable_ipv6

\* "sock": the display reads the socket; "addr": it prints the address only.
Display(fn, sk, how) == [fn |-> fn, sk |-> sk, how |-> how]
Nothing == Display("none", NULL, "none")

sock_common_display(fn, sk) ==
    IF sk.family \in {"inet", "inet6"} THEN Display(fn, sk, "sock") ELSE Nothing

sock_filter_and_display(fn, sk, func_level) ==
    IF sock_filter(sk, func_level) THEN sock_common_display(fn, sk) ELSE Nothing

-----------------------------------------------------------------------------
(* The tables: the register a handler takes for a socket, the level it is
   filtered at, and what a return handler displays. *)

Kprobe(fn, arg, level)      == [fn |-> fn, arg |-> arg, level |-> level]
Kretprobe(fn, level, atRet) == [fn |-> fn, level |-> level, atRet |-> atRet]

\* tcp_trace_conn.c
tcp_v4_do_rcv         == Kretprobe("tcp_v4_do_rcv", 3, "sock")
tcp_rcv_state_process == Kretprobe("tcp_rcv_state_process", 2, "sock")

tcp_conn_request ==
    {Kprobe("tcp_conn_request", 2, 2), Kprobe("tcp_v4_send_synack", 3, 2),
     Kprobe("tcp_check_req", 2, 2)}
tcp_v4_syn_recv_sock ==
    {Kprobe("tcp_v4_syn_recv_sock", 2, 2)}
tcp_create_child ==
    {Kprobe("tcp_create_openreq_child", 1, 2),
     Kprobe("inet_csk_clone_lock", 1, 2), Kprobe("tcp_child_process", 1, 2)}
tcp_set_state == {Kprobe("tcp_set_state", 0, 2)}
tcp_connect ==
    {Kprobe("inet_hash_connect", 1, 2), Kprobe("tcp_connect", 0, 2),
     Kprobe("tcp_finish_connect", 0, 2)}

\* Mutant: the return handler of tcp_close displays the socket.
tcp_close_ShowsSock == Kretprobe("tcp_close", 2, "sock")

\* "for close may destroy the sock, so just print sk addr"
tcp_close == Kretprobe("tcp_close", 2, "addr")

tcp_done ==
    {Kprobe("tcp_fin", 0, 2), Kprobe("tcp_time_wait", 0, 2),
     Kprobe("inet_twsk_kill", 0, 2),
     Kprobe("tcp_timewait_state_process", 0, 2), Kprobe("tcp_done", 0, 2),
     Kprobe("inet_csk_destroy_sock", 0, 2)}
tcp_reset == {Kprobe("tcp_reset", 0, 2), Kprobe("tcp_v4_send_reset", 0, 2)}

\* Return handlers that filter the returned socket.
inet_csk_accept == {Kprobe("inet_csk_accept", 0, 2)}
tcp_v4_syn_recv_sock_ret == {Kprobe("tcp_v4_syn_recv_sock", 0, 2)}

\* tcp_trace_data.c
tcp_rcv_established == Kretprobe("tcp_rcv_established", 3, "sock")
tcp_recvmsg         == Kretprobe("tcp_recvmsg", 3, "sock")
tcp_sendmsg         == Kretprobe("tcp_sendmsg", 3, "sock")
tcp_write_xmit      == Kretprobe("tcp_write_xmit", 3, "sock")
tcp_transmit_skb    == {Kprobe("__tcp_transmit_skb", 0, 3)}
sock_def_readable ==
    {Kprobe("sock_def_wakeup", 0, 3), Kprobe("sock_def_readable", 0, 3),
     Kprobe("sock_def_write_space", 0, 3),
     Kprobe("sk_stream_write_space", 0, 3)}
tcp_timers ==
    {Kprobe("tcp_write_timer", 0, 3), Kprobe("tcp_delack_timer", 0, 3),
     Kprobe("tcp_keepalive_timer", 0, 3)}

Kprobes == tcp_conn_request \cup tcp_v4_syn_recv_sock
           \cup tcp_create_child \cup tcp_set_state
           \cup tcp_connect \cup tcp_done \cup tcp_reset \cup tcp_transmit_skb
           \cup sock_def_readable \cup tcp_timers
ReturnFilters == inet_csk_accept \cup tcp_v4_syn_recv_sock_ret
Kretprobes == {tcp_v4_do_rcv, tcp_rcv_state_process, tcp_close,
               tcp_rcv_established, tcp_recvmsg, tcp_sendmsg, tcp_write_xmit}

\* The kernel's prototypes: which arguments are a struct sock or begin like
\* one (a request_sock, an inet_timewait_sock).  Timer callbacks get a
\* timer_list.
SockArgs(fn) ==
    CASE fn = "tcp_conn_request"         -> {2}
      [] fn = "tcp_v4_send_synack"       -> {0, 3}
      [] fn = "tcp_check_req"            -> {0, 2}
      [] fn = "tcp_v4_syn_recv_sock"     -> {0, 2}
      [] fn = "tcp_create_openreq_child" -> {0, 1}
      [] fn = "inet_csk_clone_lock"      -> {0, 1}
      [] fn = "tcp_child_process"        -> {0, 1}
      [] fn = "inet_hash_connect"        -> {1}
      [] fn \in {p.fn : p \in tcp_timers} -> {}
      [] OTHER                           -> {0}

-----------------------------------------------------------------------------
Fns == {k.fn : k \in Kretprobes}
Instances == 1 .. MaxActive
Frames == [fn : Fns, sk : Socks, ri : 0 .. MaxActive]

TraceInit ==
    /\ param = NULL /\ called = {}
    /\ ctx = [f \in Fns |-> [i \in Instances |-> NULL]]
    /\ stack = [t \in Tasks |-> << >>]
    /\ freed = {} /\ shown = Nothing

\* Types.
TraceTypeOK ==
    /\ param \in Params \cup {NULL}
    /\ called \subseteq Kretprobes
    /\ ctx \in [Fns -> [Instances -> Socks \cup {NULL}]]
    /\ \A t \in Tasks : stack[t] \in Seq(Frames) /\ Len(stack[t]) <= MaxDepth
    /\ freed \subseteq Socks
    /\ shown.sk \in Socks \cup {NULL, Garbage}

tcp_trace_load(p) ==
    /\ param = NULL /\ param' = p
    /\ called' \in CalledSets
    /\ UNCHANGED <<ctx, stack, freed, shown>>

\* Handlers that keep nothing for later do not interfere with the calls in
\* progress: they are looked at between these.
Quiet == param # NULL /\ \A t \in Tasks : stack[t] = << >>

\* A kprobe: the register holds a socket, or something that is none and
\* passes the filter or not.
kprobe_handler(p, sk) ==
    /\ Quiet
    /\ IF p.arg \in SockArgs(p.fn)
       THEN shown' = sock_filter_and_display(p.fn, sk, p.level)
       ELSE shown' \in {Nothing, Display(p.fn, Garbage, "sock")}
    /\ UNCHANGED <<param, called, ctx, stack, freed>>

\* A tracepoint calls a probe with its priv, which is NULL, before the
\* arguments; trace__tcp_receive_reset and trace__tcp_send_reset take it for
\* the socket.
trace__tcp_reset ==
    /\ Quiet
    /\ shown' = sock_filter_and_display("tcp_send_reset", NULL, 2)
    /\ UNCHANGED <<param, called, ctx, stack, freed>>

\* A return handler without an entry handler: the value returned, a socket
\* or NULL.
kretprobe_retval(p, sk) ==
    /\ Quiet
    /\ shown' = sock_filter_and_display(p.fn, sk, p.level)
    /\ UNCHANGED <<param, called, ctx, stack, freed>>

\* The functions one behaviour calls have a return probe, and no parameters or
\* sockets are taken for something else.
ASSUME TraceAssumption ==
    /\ MaxActive \in Nat /\ MaxDepth \in Nat
    /\ CalledSets \subseteq SUBSET Kretprobes
    /\ NULL \notin Params /\ NULL \notin Socks
    /\ Garbage \notin Socks /\ Garbage # NULL

Free(f) == {i \in Instances :
               \A t \in Tasks : \A j \in DOMAIN stack[t] :
                   stack[t][j].fn = f => stack[t][j].ri # i}

\* Mutant: ctx->sk is set only if the socket passes.
kretprobe_entry_KeepsOld(t, k, sk) ==
    /\ param # NULL /\ Len(stack[t]) < MaxDepth
    /\ \E i \in Free(k.fn) :
          /\ ctx' = IF sock_filter(sk, k.level)
                    THEN [ctx EXCEPT ![k.fn][i] = sk] ELSE ctx
          /\ stack' = [stack EXCEPT ![t] = <<[fn |-> k.fn, sk |-> sk, ri |-> i]>> \o @]
    /\ shown' = sock_filter_and_display(k.fn, sk, k.level)
    /\ UNCHANGED <<param, called, freed>>

\* A probed function is entered: its entry handler runs on a free instance.
kretprobe_entry(t, k, sk) ==
    /\ param # NULL /\ Len(stack[t]) < MaxDepth
    /\ \E i \in Free(k.fn) :
          /\ ctx' = [ctx EXCEPT ![k.fn][i] =
                         IF sock_filter(sk, k.level) THEN sk ELSE NULL]
          /\ stack' = [stack EXCEPT ![t] = <<[fn |-> k.fn, sk |-> sk, ri |-> i]>> \o @]
    /\ shown' = sock_filter_and_display(k.fn, sk, k.level)
    /\ UNCHANGED <<param, called, freed>>

\* All instances are in use: the call is not traced.
kretprobe_missed(t, k, sk) ==
    /\ param # NULL /\ Len(stack[t]) < MaxDepth /\ Free(k.fn) = {}
    /\ stack' = [stack EXCEPT ![t] = <<[fn |-> k.fn, sk |-> sk, ri |-> 0]>> \o @]
    /\ shown' = Nothing
    /\ UNCHANGED <<param, called, ctx, freed>>

\* A probed function returns.
kretprobe_return(t) ==
    /\ stack[t] # << >>
    /\ LET f  == Head(stack[t])
           k  == CHOOSE x \in Kretprobes : x.fn = f.fn
           sk == IF f.ri = 0 THEN NULL ELSE ctx[f.fn][f.ri]
       IN shown' = IF sk = NULL THEN Nothing ELSE Display(f.fn, sk, k.atRet)
    /\ stack' = [stack EXCEPT ![t] = Tail(@)]
    /\ UNCHANGED <<param, called, ctx, freed>>

Using(sk) == {u \in Tasks \X (1 .. MaxDepth) :
                 u[2] <= Len(stack[u[1]]) /\ stack[u[1]][u[2]].sk = sk}

\* tcp_close drops the last reference and the socket is gone.
sock_free(t) ==
    /\ stack[t] # << >> /\ Head(stack[t]).fn = "tcp_close"
    /\ Using(Head(stack[t]).sk) = {<<t, 1>>}
    /\ freed' = freed \cup {Head(stack[t]).sk}
    /\ shown' = Nothing
    /\ UNCHANGED <<param, called, ctx, stack>>

Live == Socks \ freed

TraceNext ==
    \/ \E p \in Params : tcp_trace_load(p)
    \/ \E p \in Kprobes, sk \in Live : kprobe_handler(p, sk)
    \/ trace__tcp_reset
    \/ \E p \in ReturnFilters, sk \in Live \cup {NULL} : kretprobe_retval(p, sk)
    \/ \E t \in Tasks, k \in called, sk \in Live :
          kretprobe_entry(t, k, sk) \/ kretprobe_missed(t, k, sk)
    \/ \E t \in Tasks : kretprobe_return(t) \/ sock_free(t)

-----------------------------------------------------------------------------
\* No handler reads a socket that no longer exists: what a return handler
\* finds in its instance was still alive when the function returned, or only
\* its address is printed (tcp_close).
NoFreedSockRead == shown.how = "sock" => shown.sk \notin freed

\* A return handler displays the socket its own call was entered with, and
\* never one that an earlier call left in the recycled instance.
ReturnMatchesEntry ==
    [][\A t \in Tasks :
          Len(stack'[t]) < Len(stack[t]) /\ shown'.sk # NULL
              => shown'.sk = Head(stack[t]).sk]_traceVars

\* Every socket displayed has the ports insmod was asked for, if these are
\* ports at all (an int beyond 65535 is cut to a u16, and 65536 filters
\* nothing), and is of an enabled family.
ShownPassesFilter ==
    shown.sk \in Socks =>
        /\ param.local_port \in 1 .. U16 - 1 => shown.sk.num = param.local_port
        /\ param.remote_port \in 1 .. U16 - 1 => shown.sk.dport = param.remote_port
        /\ shown.sk.family = "inet6" => param.enable_ipv6

\* What is displayed is a socket, but for the three timer handlers, which
\* take the timer_list they are given for one.
GarbageOnlyFromTimers ==
    shown.sk = Garbage => shown.fn \in {p.fn : p \in tcp_timers}

\* What the tracer displays is a socket, alive, and one that was asked for.
ShowsRightSockets ==
    TraceTypeOK /\ NoFreedSockRead /\ ShownPassesFilter /\ GarbageOnlyFromTimers

=============================================================================
