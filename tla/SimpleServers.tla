---------------------------- MODULE SimpleServers ----------------------------
(***************************************************************************)
(* The echo servers of network/socket_epoll that keep no data of their own *)
(* between two calls: what one recv returned is sent back before the next. *)
(* srv says which program runs:                                            *)
(*   server, server6   a thread per connection, blocking sockets           *)
(*   epoll             one loop, events carry descriptors                  *)
(*   reuseport         two such loops, each with a listener of its own     *)
(*   handle, handle_c  one loop, events carry pointers to connections      *)
(*   poll              one loop over an array of struct pollfd             *)
(*   bench             an acceptor thread that hands over to two loops     *)
(* A recv and the send that follows are two steps: clients and the other   *)
(* threads run in between.                                                 *)
(***************************************************************************)
EXTENDS Integers, Sequences, FiniteSets, FiniteSetsExt, SequencesExt

CONSTANTS
    Sends,      \* bound: per client, the bytes it sends; each connects once
    NFds,       \* descriptors the process may have open for connections
    BufSize,    \* buf_size
    SndCap,     \* what the kernel keeps for a client that does not read
    MaxConns,   \* max_conns of server.cpp
    MaxFds,     \* Poller::max_fds of server_poll_handle.cpp
    FdRange,    \* Poller::fd_range, counted like the descriptors here from 1
    MaxEntries  \* bound: length of a bench loop's table that failed accepts reach

ASSUME SimpleAssumption ==
    /\ Sends \in Seq(Nat) /\ Len(Sends) > 0 /\ NFds \in Nat \ {0}
    /\ BufSize \in Nat \ {0} /\ SndCap \in Nat \ {0}
    /\ MaxConns \in Nat \ {0} /\ MaxFds \in Nat \ {0} /\ FdRange \in Nat \ {0}
    /\ MaxEntries \in Nat

Clients == DOMAIN Sends
Threaded == {"server", "server6"}
Programs == Threaded \cup {"epoll", "reuseport", "handle", "handle_c", "poll", "bench"}
ServerThreads == 0 .. Len(Sends)      \* thread c is the worker of connection c

VARIABLES
    srv,        \* the program
    cn,         \* per client: both ends of its connection
    thr,        \* per thread: what it is doing
    lq,         \* accept queues, one per listener
    pollfds,    \* Poller::pfds[0 .. num): descriptors, 0 the listener, -1 removed
    phandlers,  \* Poller::handlers, 0 for NULL
    bufConns,   \* EventLoop::buf_conns of the bench server, 0 for a failed accept
    evConns,    \* EventLoop::conns, 0 for an entry without a connection
    sock_num,   \* sock_num of server.cpp
    nofile,     \* RLIMIT_NOFILE, for connections
    proc        \* the process: "up", or what ended it

simpleVars ==
    <<srv, cn, thr, lq, pollfds, phandlers, bufConns, evConns, sock_num, nofile, proc>>

Listeners == IF srv = "reuseport" THEN {0, 1} ELSE {0}
Loops == IF srv \in {"reuseport", "bench"} THEN {0, 1} ELSE {0}

NoClient ==
    [peer |-> "idle", sent |-> 0, inq |-> <<>>, err |-> "none", fd |-> 0, own |-> 0,
     accepted |-> FALSE, unread |-> 0, got |-> <<>>, full |-> FALSE]

\* main: the listener is bound and listening before the first thread waits.
SimpleInit ==
    /\ srv \in Programs
    /\ cn = [c \in Clients |-> NoClient]
    /\ thr = [t \in ServerThreads |->
                [pc |-> IF t \in Loops THEN "wait" ELSE "none",
                 batch |-> {}, at |-> 0, buf |-> <<>>]]
    /\ lq = [t \in {0, 1} |-> <<>>]
    /\ bufConns = [t \in {0, 1} |-> <<>>] /\ evConns = [t \in {0, 1} |-> <<>>]
    /\ pollfds = <<0>> /\ phandlers = [f \in 1 .. FdRange - 1 |-> 0]
    /\ sock_num = 0 /\ nofile \in 1 .. NFds /\ proc = "up"

\* Types; a byte is the pair of its sender and its number.
SimpleTypeOK ==
    /\ srv \in Programs /\ proc \in {"up", "sigpipe", "overrun"}
    /\ \A c \in Clients :
          /\ cn[c].peer \in {"idle", "open", "fin", "rst"}
          /\ cn[c].fd \in 0 .. NFds /\ cn[c].own \in ServerThreads
          /\ cn[c].err \in {"none", "ECONNRESET", "EPIPE", "shut"}
          /\ cn[c].unread \in 0 .. SndCap /\ cn[c].sent \in 0 .. Sends[c]
          /\ cn[c].fd # 0 => \A d \in Clients \ {c} : cn[d].fd # cn[c].fd
    /\ \A t \in ServerThreads :
          /\ thr[t].pc \in {"none", "wait", "poll", "loop", "send", "exit"}
          /\ thr[t].at \in 0 .. Len(Sends) /\ Len(thr[t].buf) <= BufSize
    /\ Len(pollfds) <= MaxFds /\ sock_num \in 0 .. MaxConns

-----------------------------------------------------------------------------
(* Clients and the kernel. *)

Connect(c, t) ==
    /\ cn[c].peer = "idle" /\ t \in Listeners
    /\ cn' = [cn EXCEPT ![c].peer = "open"]
    /\ lq' = [lq EXCEPT ![t] = Append(@, c)]
    /\ UNCHANGED <<thr, pollfds, phandlers, bufConns, evConns, sock_num, proc>>

ClientSend(c) ==
    /\ cn[c].peer = "open" /\ cn[c].sent < Sends[c]
    /\ cn' = [cn EXCEPT ![c].sent = @ + 1,
                        ![c].inq = Append(@, <<c, cn[c].sent + 1>>)]
    /\ UNCHANGED <<thr, lq, pollfds, phandlers, bufConns, evConns, sock_num, proc>>

ClientRead(c) ==
    /\ cn[c].unread > 0 /\ cn' = [cn EXCEPT ![c].unread = 0]
    /\ UNCHANGED <<thr, lq, pollfds, phandlers, bufConns, evConns, sock_num, proc>>

ClientFin(c) ==
    /\ cn[c].peer = "open" /\ cn' = [cn EXCEPT ![c].peer = "fin"]
    /\ UNCHANGED <<thr, lq, pollfds, phandlers, bufConns, evConns, sock_num, proc>>

\* The kernel reports a reset as EPIPE when the client's FIN came first.
ClientReset(c) ==
    /\ cn[c].peer \in {"open", "fin"}
    /\ cn' = [cn EXCEPT ![c].peer = "rst",
                        ![c].err = IF cn[c].peer = "fin" THEN "EPIPE" ELSE "ECONNRESET"]
    /\ UNCHANGED <<thr, lq, pollfds, phandlers, bufConns, evConns, sock_num, proc>>

Readable(c) == cn[c].inq # <<>> \/ cn[c].peer \in {"fin", "rst"}

\* recv: bytes first, then the pending error once, then the end of the stream;
\* -1 also for "nothing yet".
RecvRet(c) ==
    IF cn[c].inq # <<>> THEN Min({BufSize, Len(cn[c].inq)})
    ELSE IF cn[c].peer = "fin" \/ cn[c].err \in {"EPIPE", "shut"} THEN 0
    ELSE -1

AfterRecv(c) ==
    [cn[c] EXCEPT !.inq = SubSeq(@, Max({0, RecvRet(c)}) + 1, Len(@)),
                  !.err = IF RecvRet(c) = -1 /\ @ = "ECONNRESET" THEN "shut" ELSE @]

\* send: what the window holds, -1 when it is full or for a pending error.
SendRet(c, n) ==
    IF cn[c].err = "none" /\ cn[c].unread < SndCap
    THEN Min({n, SndCap - cn[c].unread}) ELSE -1

\* Once the error was reported, or after a FIN, the next send raises SIGPIPE.
SendKills(c) == cn[c].err \in {"EPIPE", "shut"}

AfterSend(c, bytes) ==
    LET n == SendRet(c, Len(bytes))
    IN  IF n > 0
        THEN [cn[c] EXCEPT !.got = @ \o SubSeq(bytes, 1, n), !.unread = @ + n,
                           !.full = @ \/ n < Len(bytes)]
        ELSE [cn[c] EXCEPT !.err = IF @ = "ECONNRESET" THEN "shut" ELSE @,
                           !.full = @ \/ cn[c].err = "none"]

FreeFds == (1 .. nofile) \ {cn[c].fd : c \in Clients}

\* accept and accept4 take a descriptor first, and so fail with EMFILE at once
\* when there is none, whether a client is queued or not.  Only then they look
\* for a client; where they block, the descriptor f was the lowest free one when
\* they began to wait.
Accepted(t, owner, f) ==
    [cn EXCEPT ![Head(lq[t])].fd = f, ![Head(lq[t])].own = owner,
               ![Head(lq[t])].accepted = TRUE]

Closed(f, c) == [f EXCEPT ![c].fd = 0]

-----------------------------------------------------------------------------
(* What each loop does with the result of an event: f is cn after the call. *)

server_epoll_close_fd(f, c) == Closed(f, c)

\* Only a 0 closes: an error leaves the connection to the next event.
server_epoll_loop_after(f, c, ret) == IF ret = 0 THEN server_epoll_close_fd(f, c) ELSE f

reuseport_close_fd(f, c) == Closed(f, c)

\* Mutant: only a 0 closes.
reuseport_loop_after_ZeroOnly(f, c, ret) == IF ret = 0 THEN reuseport_close_fd(f, c) ELSE f

reuseport_loop_after(f, c, ret) == IF ret <= 0 THEN reuseport_close_fd(f, c) ELSE f

handle_Connection_dtor(f, c) == Closed(f, c)

\* handle: EPOLLIN comes with every event of a connection, so a result of -1
\* only ever stems from echo.
handle_Connection_handle(f, c, ret) == IF ret <= 0 THEN handle_Connection_dtor(f, c) ELSE f

connection_destructor(f, c) == Closed(f, c)

connection_handler(f, c, ret) == IF ret <= 0 THEN connection_destructor(f, c) ELSE f

poll_Connection_handle(f, c, ret) == IF ret <= 0 THEN Closed(f, c) ELSE f

bench_handle(f, c, ret) == IF ret <= 0 THEN Closed(f, c) ELSE f

AfterEcho(f, c, ret) ==
    CASE srv = "epoll" -> server_epoll_loop_after(f, c, ret)
      [] srv = "reuseport" -> reuseport_loop_after(f, c, ret)
      [] srv = "handle" -> handle_Connection_handle(f, c, ret)
      [] srv = "handle_c" -> connection_handler(f, c, ret)
      [] srv = "poll" -> poll_Connection_handle(f, c, ret)
      [] srv = "bench" -> bench_handle(f, c, ret)

-----------------------------------------------------------------------------
(* One event loop: wait, take the events one by one, recv, send, close.     *)

Event(c) == [conn |-> c, fd |-> IF c = 0 THEN 0 ELSE cn[c].fd]

\* The connections a loop waits for: those poll or epoll was told of.
Watched(t) ==
    {c \in Clients : /\ cn[c].fd # 0 /\ cn[c].own = t
                     /\ srv = "poll" => cn[c].fd \in Range(pollfds)}

\* Mutant: only the first loop registers its listener.
Pending_OneListener(t) ==
    {Event(c) : c \in {d \in Watched(t) : Readable(d)}}
      \cup (IF t = 0 /\ lq[t] # <<>> THEN {Event(0)} ELSE {})

Pending(t) ==
    {Event(c) : c \in {d \in Watched(t) : Readable(d)}}
      \cup (IF lq[t] # <<>> THEN {Event(0)} ELSE {})

LoopWait(t) ==
    /\ proc = "up" /\ thr[t].pc = "wait" /\ Pending(t) # {}
    /\ thr' = [thr EXCEPT ![t].pc = "loop", ![t].batch = Pending(t)]
    /\ UNCHANGED <<cn, lq, pollfds, phandlers, bufConns, evConns, sock_num, proc>>

\* Back to the events that are left, or to the next wait.
NextEvent(t, e) ==
    thr' = [thr EXCEPT ![t].batch = @ \ {e}, ![t].at = 0, ![t].buf = <<>>,
                       ![t].pc = IF thr[t].batch \subseteq {e} THEN "wait" ELSE "loop"]

\* accept4 and epoll_ctl(ADD); the descriptor stays queued when accept4 fails.
AcceptOne(t, e) ==
    /\ IF FreeFds = {} \/ lq[t] = <<>>
       THEN UNCHANGED <<cn, lq>>
       ELSE cn' = Accepted(t, t, Min(FreeFds)) /\ lq' = [lq EXCEPT ![t] = Tail(@)]
    /\ NextEvent(t, e)
    /\ UNCHANGED <<sock_num, proc>>

\* Mutant: one echo_buf for both loops.
EchoRecv_SharedBuf(t, e, c) ==
    LET next == [cn EXCEPT ![c] = AfterRecv(c)]
    IN  /\ IF RecvRet(c) > 0
           THEN /\ cn' = next
                /\ thr' = [u \in ServerThreads |->
                             [thr[u] EXCEPT !.pc = IF u = t THEN "send" ELSE @,
                                !.at = IF u = t THEN c ELSE @,
                                !.buf = SubSeq(cn[c].inq, 1, RecvRet(c))]]
           ELSE cn' = AfterEcho(next, c, RecvRet(c)) /\ NextEvent(t, e)
        /\ UNCHANGED <<lq, sock_num, proc>>

\* recv; nothing to send ends the event.
EchoRecv(t, e, c) ==
    LET next == [cn EXCEPT ![c] = AfterRecv(c)]
    IN  /\ IF RecvRet(c) > 0
           THEN /\ cn' = next
                /\ thr' = [thr EXCEPT ![t].pc = "send", ![t].at = c,
                             ![t].buf = SubSeq(cn[c].inq, 1, RecvRet(c))]
           ELSE cn' = AfterEcho(next, c, RecvRet(c)) /\ NextEvent(t, e)
        /\ UNCHANGED <<lq, sock_num, proc>>

\* One send: what it does not take is gone.
EchoSend(t) ==
    LET c == thr[t].at
        next == [cn EXCEPT ![c] = AfterSend(c, thr[t].buf)]
    IN  /\ proc = "up" /\ thr[t].pc = "send"
        /\ IF SendKills(c)
           THEN proc' = "sigpipe" /\ UNCHANGED <<cn, thr>>
           ELSE /\ cn' = AfterEcho(next, c, SendRet(c, Len(thr[t].buf)))
                /\ \E e \in thr[t].batch : e.conn = c /\ NextEvent(t, e)
                /\ UNCHANGED proc
        /\ UNCHANGED <<lq, sock_num>>

\* The next event of epoll's batch, in any order.
Taken(t, e) == proc = "up" /\ thr[t].pc = "loop" /\ e \in thr[t].batch

\* The connection a descriptor stands for when the event is handled.
ConnAt(f) == CHOOSE c \in Clients : cn[c].fd = f

pollerVars == <<pollfds, phandlers>>
benchVars == <<bufConns, evConns>>

-----------------------------------------------------------------------------
(* server_epoll.cpp *)

server_epoll_handle_accept(t, e) == Taken(t, e) /\ e.conn = 0 /\ AcceptOne(t, e)

server_epoll_handle_echo(t) ==
    \/ \E e \in thr[t].batch :
          Taken(t, e) /\ e.conn # 0 /\ EchoRecv(t, e, ConnAt(e.fd))
    \/ EchoSend(t)

server_epoll_loop(t) ==
    /\ srv = "epoll" /\ UNCHANGED <<pollerVars, benchVars>>
    /\ \/ LoopWait(t)
       \/ \E e \in thr[t].batch : server_epoll_handle_accept(t, e)
       \/ server_epoll_handle_echo(t)

-----------------------------------------------------------------------------
(* server_epoll_reuseport.cpp *)

reuseport_handle_accept(t, e) == Taken(t, e) /\ e.conn = 0 /\ AcceptOne(t, e)

reuseport_handle_echo(t) ==
    \/ \E e \in thr[t].batch :
          Taken(t, e) /\ e.conn # 0 /\ EchoRecv(t, e, ConnAt(e.fd))
    \/ EchoSend(t)

reuseport_loop(t) ==
    /\ srv = "reuseport" /\ UNCHANGED <<pollerVars, benchVars>>
    /\ \/ LoopWait(t)
       \/ \E e \in thr[t].batch : reuseport_handle_accept(t, e)
       \/ reuseport_handle_echo(t)

-----------------------------------------------------------------------------
(* server_epoll_handle.cpp *)

handle_Connection_echo(t) ==
    \/ \E e \in thr[t].batch :
          Taken(t, e) /\ e.conn # 0 /\ EchoRecv(t, e, e.conn)
    \/ EchoSend(t)

handle_handle_accept(t, e) == Taken(t, e) /\ e.conn = 0 /\ AcceptOne(t, e)

handle_loop(t) ==
    /\ srv = "handle" /\ UNCHANGED <<pollerVars, benchVars>>
    /\ \/ LoopWait(t)
       \/ \E e \in thr[t].batch : handle_handle_accept(t, e)
       \/ handle_Connection_echo(t)

-----------------------------------------------------------------------------
(* server_epoll_handle.c *)

connection_echo(t) ==
    \/ \E e \in thr[t].batch :
          Taken(t, e) /\ e.conn # 0 /\ EchoRecv(t, e, e.conn)
    \/ EchoSend(t)

handle_c_handle_accept(t, e) == Taken(t, e) /\ e.conn = 0 /\ AcceptOne(t, e)

handle_c_loop(t) ==
    /\ srv = "handle_c" /\ UNCHANGED <<pollerVars, benchVars>>
    /\ \/ LoopWait(t)
       \/ \E e \in thr[t].batch : handle_c_handle_accept(t, e)
       \/ connection_echo(t)

-----------------------------------------------------------------------------
(* server_poll_handle.cpp *)

Slot(f) == CHOOSE i \in DOMAIN pollfds : pollfds[i] = f

\* A descriptor beyond handlers, or one that is known already, is refused, and
\* the caller does not look: that connection stays open and is never polled.
\* pfds itself is filled without a bound.
add_fd(c, f) ==
    IF f >= FdRange \/ f \in Range(pollfds)
    THEN UNCHANGED <<pollfds, phandlers, proc>>
    ELSE IF Len(pollfds) = MaxFds
    THEN proc' = "overrun" /\ UNCHANGED pollerVars
    ELSE /\ pollfds' = Append(pollfds, f)
         /\ phandlers' = [phandlers EXCEPT ![f] = c]
         /\ UNCHANGED proc

\* Mutant: the slot keeps the descriptor.
remove_fd_SlotKept(f) ==
    /\ phandlers' = [phandlers EXCEPT ![f] = 0]
    /\ UNCHANGED pollfds

\* The slot is not used again.
remove_fd(f) ==
    /\ pollfds' = [pollfds EXCEPT ![Slot(f)] = -1]
    /\ phandlers' = [phandlers EXCEPT ![f] = 0]

poll_Connection_dtor(c) ==
    IF cn[c].fd # 0 /\ cn'[c].fd = 0 THEN remove_fd(cn[c].fd) ELSE UNCHANGED pollerVars

poll_handle_accept(t, e) ==
    /\ IF FreeFds = {} \/ lq[t] = <<>>
       THEN UNCHANGED <<cn, lq, pollfds, phandlers, proc>>
       ELSE /\ cn' = Accepted(t, t, Min(FreeFds)) /\ lq' = [lq EXCEPT ![t] = Tail(@)]
            /\ add_fd(Head(lq[t]), Min(FreeFds))
    /\ NextEvent(t, e)
    /\ UNCHANGED <<sock_num>>

\* The slots in order; the handler is looked up by descriptor.
poll_loop(t) ==
    /\ srv = "poll" /\ UNCHANGED benchVars
    /\ \/ LoopWait(t) /\ UNCHANGED pollerVars
       \/ \E e \in thr[t].batch :
             /\ Taken(t, e) /\ \A d \in thr[t].batch : Slot(e.fd) <= Slot(d.fd)
             /\ IF e.fd = 0 THEN poll_handle_accept(t, e)
                ELSE /\ EchoRecv(t, e, phandlers[e.fd])
                     /\ poll_Connection_dtor(phandlers[e.fd])
       \/ /\ EchoSend(t)
          /\ IF proc' = "up" THEN poll_Connection_dtor(thr[t].at) ELSE UNCHANGED pollerVars

-----------------------------------------------------------------------------
(* server_epoll_bench.cpp: events carry indices into conns. *)

\* The loop is chosen by the descriptor; a failed accept is handed over too, at
\* once ((size_t)-1 % 2 is 1), up to the bound MaxEntries.
Acceptor_accept ==
    /\ srv = "bench" /\ proc = "up"
    /\ \/ /\ FreeFds = {} /\ Len(bufConns[1]) + Len(evConns[1]) < MaxEntries
          /\ bufConns' = [bufConns EXCEPT ![1] = Append(@, 0)]
          /\ UNCHANGED <<cn, lq>>
       \/ \E f \in FreeFds :
             /\ lq[0] # <<>> /\ lq' = [lq EXCEPT ![0] = Tail(@)]
             /\ cn' = Accepted(0, f % 2, f)
             /\ bufConns' = [bufConns EXCEPT ![f % 2] = Append(@, Head(lq[0]))]
    /\ UNCHANGED <<thr, evConns, pollerVars, sock_num, proc>>

\* Everything handed over gets the next index, under the mutex.
dump_conn(t) ==
    /\ proc = "up" /\ thr[t].pc = "wait"
    /\ evConns' = [evConns EXCEPT ![t] = @ \o bufConns[t]]
    /\ bufConns' = [bufConns EXCEPT ![t] = <<>>]
    /\ thr' = [thr EXCEPT ![t].pc = "poll"]
    /\ UNCHANGED <<cn, lq, pollerVars, sock_num, proc>>

\* The kernel keeps the index given with EPOLL_CTL_ADD: the position at the time.
Registered(t) == {i \in DOMAIN evConns[t] : evConns[t][i] # 0}

\* epoll_wait returns after 100 ms at the latest.
bench_epoll_wait(t) ==
    /\ proc = "up" /\ thr[t].pc = "poll"
    /\ LET ready == {i \in Registered(t) : Readable(evConns[t][i])}
           evs == {[idx |-> i, conn |-> evConns[t][i], fd |-> cn[evConns[t][i]].fd] : i \in ready}
       IN  thr' = [thr EXCEPT ![t].pc = IF ready = {} THEN "wait" ELSE "loop", ![t].batch = evs]
    /\ UNCHANGED <<cn, lq, benchVars, pollerVars, sock_num, proc>>

\* rm_conn takes the connection out of conns, deregisters it and closes it.
rm_conn(t, c) ==
    IF cn[c].fd # 0 /\ cn'[c].fd = 0
    THEN evConns' = [evConns EXCEPT ![t] = [i \in DOMAIN @ |-> IF @[i] = c THEN 0 ELSE @[i]]]
    ELSE UNCHANGED evConns

bench_run(t) ==
    /\ srv = "bench"
    /\ \/ dump_conn(t) \/ bench_epoll_wait(t)
       \/ /\ \/ \E e \in thr[t].batch :
                   LET c == evConns[t][e.idx]
                   IN  Taken(t, e) /\ EchoRecv(t, e, c) /\ rm_conn(t, c)
             \/ EchoSend(t) /\ rm_conn(t, thr[t].at)
          /\ UNCHANGED <<bufConns, pollerVars>>

-----------------------------------------------------------------------------
(* server.cpp and ipv6_tcp_echo/server.cpp: main accepts, a worker per entry. *)

\* A failed accept, which waits for nobody, is stored and gets a worker like any
\* other: that worker's first recv fails, and only its table entry stays taken.
\* The bound of the tables is looked at after the fact.
AcceptInMain ==
    /\ proc = "up" /\ (FreeFds = {} \/ lq[0] # <<>>)
    /\ IF sock_num = MaxConns
       THEN proc' = "overrun" /\ UNCHANGED <<cn, thr, lq, sock_num>>
       ELSE /\ sock_num' = sock_num + 1 /\ UNCHANGED proc
            /\ \/ FreeFds = {} /\ UNCHANGED <<cn, thr, lq>>
               \/ \E f \in FreeFds :
                     /\ cn' = Accepted(0, Head(lq[0]), f)
                     /\ lq' = [lq EXCEPT ![0] = Tail(@)]
                     /\ thr' = [thr EXCEPT ![Head(lq[0])].pc = "loop"]

\* worker: blocking recv, then send_full; a result of 0 or less ends it.
WorkerRecv(c) ==
    /\ proc = "up" /\ thr[c].pc = "loop" /\ Readable(c)
    /\ LET next == [cn EXCEPT ![c] = AfterRecv(c)]
       IN  IF RecvRet(c) > 0
           THEN /\ cn' = next
                /\ thr' = [thr EXCEPT ![c].pc = "send", ![c].at = c,
                             ![c].buf = SubSeq(cn[c].inq, 1, RecvRet(c))]
           ELSE cn' = Closed(next, c) /\ thr' = [thr EXCEPT ![c].pc = "exit"]
    /\ UNCHANGED <<lq, sock_num, proc>>

\* send_full: until everything is sent or a send fails; a full window blocks.
SendFull(c, Failed) ==
    LET n == SendRet(c, Len(thr[c].buf))
        next == [cn EXCEPT ![c] = AfterSend(c, thr[c].buf)]
    IN  /\ proc = "up" /\ thr[c].pc = "send"
        /\ cn[c].err # "none" \/ cn[c].unread < SndCap
        /\ IF SendKills(c) THEN proc' = "sigpipe" /\ UNCHANGED <<cn, thr>>
           ELSE /\ UNCHANGED proc
                /\ IF n = -1 THEN Failed
                   ELSE /\ cn' = next
                        /\ thr' = [thr EXCEPT
                              ![c].buf = SubSeq(@, n + 1, Len(@)),
                              ![c].pc = IF n = Len(thr[c].buf) THEN "loop" ELSE @]
        /\ UNCHANGED <<lq, sock_num>>

\* server.cpp's breaks off after a failure, and the worker closes.
send_full(c) ==
    SendFull(c, /\ cn' = Closed([cn EXCEPT ![c] = AfterSend(c, thr[c].buf)], c)
                /\ thr' = [thr EXCEPT ![c].pc = "exit", ![c].buf = <<>>])

\* The IPv6 server's adds the -1 to what it has sent and tries again.
send_full6(c) ==
    SendFull(c, cn' = [cn EXCEPT ![c] = AfterSend(c, thr[c].buf)] /\ UNCHANGED thr)

server_main == srv = "server" /\ AcceptInMain /\ UNCHANGED <<pollerVars, benchVars>>

server_worker(c) ==
    /\ srv = "server" /\ UNCHANGED <<pollerVars, benchVars>>
    /\ WorkerRecv(c) \/ send_full(c)

server6_main == srv = "server6" /\ AcceptInMain /\ UNCHANGED <<pollerVars, benchVars>>

server6_worker(c) ==
    /\ srv = "server6" /\ UNCHANGED <<pollerVars, benchVars>>
    /\ WorkerRecv(c) \/ send_full6(c)

-----------------------------------------------------------------------------
LoopThread(t) ==
    \/ server_epoll_loop(t) \/ reuseport_loop(t) \/ handle_loop(t)
    \/ handle_c_loop(t) \/ poll_loop(t) \/ bench_run(t)

SimpleNext ==
    /\ UNCHANGED <<srv, nofile>>
    /\ \/ \E c \in Clients :
             \/ \E t \in {0, 1} : Connect(c, t)
             \/ ClientSend(c) \/ ClientRead(c) \/ ClientFin(c) \/ ClientReset(c)
             \/ server_worker(c) \/ server6_worker(c)
       \/ \E t \in {0, 1} : LoopThread(t)
       \/ server_main \/ server6_main \/ Acceptor_accept

Step(A) == A /\ UNCHANGED <<srv, nofile>>

\* Threads are scheduled fairly; clients need not go on.
SimpleFair ==
    /\ \A t \in {0, 1} : WF_simpleVars(Step(LoopThread(t)))
    /\ \A c \in Clients : WF_simpleVars(Step(server_worker(c) \/ server6_worker(c)))
    /\ WF_simpleVars(Step(server_main \/ server6_main \/ Acceptor_accept))

SimpleSpec == SimpleInit /\ [][SimpleNext]_simpleVars /\ SimpleFair

-----------------------------------------------------------------------------
(* Properties *)

\* Echoes are the client's own bytes, each at most once and in their order,
\* although the connections of a loop share one echo_buf.
EchoOwnBytes ==
    \A c \in Clients : \A i \in DOMAIN cn[c].got :
        /\ cn[c].got[i][1] = c
        /\ i > 1 => cn[c].got[i - 1][2] < cn[c].got[i][2]

\* Bytes get lost only with a reset, or, where one send has to do
\* (handle_echo, echo), when the client's window was full at that moment.
LossNeedsFullWindow ==
    \A c \in Clients :
        LET mine == cn[c].own
            inHand == IF thr[mine].at = c /\ thr[mine].pc = "send" THEN thr[mine].buf ELSE <<>>
        IN  cn[c].peer # "rst" /\ (srv \in Threaded \/ ~cn[c].full)
              => Len(cn[c].got) + Len(inHand) + Len(cn[c].inq) = cn[c].sent

\* A descriptor, pointer or index that waits in a batch of events still stands for
\* the connection it was reported for, whatever was closed, accepted and
\* numbered anew meanwhile.
NoStaleEvents ==
    \A t \in {0, 1} : \A e \in thr[t].batch :
        e.conn # 0 => /\ cn[e.conn].fd = e.fd /\ cn[e.conn].own = t
                      /\ srv = "bench" => evConns[t][e.idx] = e.conn

\* Poller: every open connection whose descriptor handlers has room for has its
\* one slot and its handler, a refused one has no slot, and no other descriptor
\* is polled; or the process has already run over the end of pfds.
PollerKnowsConnections ==
    srv = "poll" /\ proc # "overrun" =>
        /\ \A c \in Clients : cn[c].fd # 0 =>
              IF cn[c].fd < FdRange
              THEN /\ Cardinality({i \in DOMAIN pollfds : pollfds[i] = cn[c].fd}) = 1
                   /\ phandlers[cn[c].fd] = c
              ELSE cn[c].fd \notin Range(pollfds)
        /\ Range(pollfds) \subseteq {-1, 0} \cup {cn[c].fd : c \in Clients}

\* SIGPIPE ends the process only for a client whose FIN came before its
\* reset, unless the program goes on with a connection whose send failed.
SigpipeNeedsHalfClose ==
    proc = "sigpipe" => \/ \E c \in Clients : cn[c].err = "EPIPE"
                        \/ srv \in {"epoll", "server6"}

AcceptedClients == {c \in Clients : cn[c].accepted}

\* The tables are overrun only when they are full: max_conns by as many
\* connections, closed ones included, or already by as many as there are
\* descriptors, since from then on every accept fails at once and takes an
\* entry; pfds only by as many connections, closed ones included, not counting
\* those that were refused.
OverrunNeedsTableFull ==
    proc = "overrun" =>
        \/ srv \in Threaded /\ sock_num = MaxConns
             /\ Cardinality(AcceptedClients) >= Min({MaxConns, nofile})
        \/ srv = "poll" /\ Cardinality({c \in AcceptedClients : cn[c].fd < FdRange}) = MaxFds

\* A reset connection is closed in the end, also in server_epoll.cpp, which
\* does not close on an error; a finished one where sends do not block.  A
\* connection whose descriptor the Poller refused is left behind open.
GoneClientsClosed ==
    \A c \in Clients :
        (cn[c].accepted /\ (cn[c].peer = "rst" \/ (cn[c].peer = "fin" /\ srv \notin Threaded)))
            ~> \/ cn[c].fd = 0 \/ proc # "up"
               \/ srv = "poll" /\ cn[c].fd >= FdRange

\* A client in an accept queue is accepted unless descriptors run out: one
\* accept4 per event is enough.
QueuedClientsAccepted ==
    \A c \in Clients :
        (cn[c].peer # "idle") ~> (cn[c].accepted \/ FreeFds = {} \/ proc # "up")

\* A client gets its own bytes back in order, and misses some only after a
\* reset or a full window.
EchoIntegrity == SimpleTypeOK /\ EchoOwnBytes /\ LossNeedsFullWindow

\* Events and slots always stand for the connection they were made for.
EventsKnowConnections == NoStaleEvents /\ PollerKnowsConnections

\* What ends the process.
DeathCauses == SigpipeNeedsHalfClose /\ OverrunNeedsTableFull

\* Clients are accepted, and closed after they have gone.
ClientsServed == GoneClientsClosed /\ QueuedClientsAccepted

=============================================================================
