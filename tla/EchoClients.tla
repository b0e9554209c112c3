----------------------------- MODULE EchoClients -----------------------------
(***************************************************************************)
(* The client programs of the echo servers.  client says which one runs:   *)
(*   verify   client_epoll_verify: one loop, checks the words it gets back *)
(*   bench    client_epoll_bench: one loop, measures round trips           *)
(*   sync     client.cpp,  sync6  ipv6_tcp_echo/client.cpp: a thread per   *)
(*            connection, a request at a time                              *)
(*   test_in  client_test_epollin: sends everything, then reads            *)
(* All sockets block.  A word of a connection's stream is its number, and  *)
(* receives are in words (of eight bytes in verify, large enough for a     *)
(* stamp in bench).  The server and the network hold UpCap words on  *)
(* the way there and DownCap on the way back; a server may lose what the   *)
(* way back has no room for (see SimpleServers), close and reset.          *)
(***************************************************************************)
EXTENDS Integers, Sequences, FiniteSets, FiniteSetsExt, SequencesExt

CONSTANTS
    NConn,          \* conn_num
    PktSizes,       \* pkt_size of verify and bench, in words
    SyncSizes,      \* buf_size of the others, in words
    UpCap, DownCap,
    Duration,       \* bound: ticks of main's timer, over all connections
    Requests,       \* request_num
    RingSize,       \* LatencyTracer::size
    BlockSize,      \* buf_size in LatencyTracer::report
    MaxPkts,        \* bound: packets that a loop sends
    MaxFirst        \* bound: words in the first packets of all connections

ASSUME ClientAssumption ==
    /\ {NConn, UpCap, DownCap, Duration, Requests, BlockSize} \subseteq Nat \ {0}
    /\ PktSizes \subseteq Nat \ {0} /\ SyncSizes \subseteq Nat \ {0}
    /\ MaxPkts \in Nat /\ MaxFirst \in Nat
    /\ \A n \in PktSizes : n <= DownCap
    /\ RingSize \in Nat \ {0} /\ RingSize % BlockSize = 0 /\ NConn <= Duration

EpollClients == {"verify", "bench"}
SyncClients == {"sync", "sync6", "test_in"}

VARIABLES
    client, pkt, nconn, duration, lossy,  \* the program, its options, the kind of server
    net,        \* per connection: what is under way, and its state
    cc,         \* per connection: words sent, rx_seq, history of the words received
    ct,         \* per thread: 0 is main, 1 the loop, or one per connection
    running, ticks,
    err_cnt, garbage,   \* garbage: what the uninitialized err_cnt held
    lat,        \* LatencyTracer, with the history of reports
    cproc       \* "up", "sigpipe", or "overwritten" from beyond a buffer

ecConst == <<client, pkt, nconn, duration, lossy, garbage>>
ecVars == <<ecConst, net, cc, ct, running, ticks, err_cnt, lat, cproc>>

Conns == 1 .. nconn
Idle == [pc |-> "none", at |-> 0, left |-> 0, batch |-> {}, sent |-> 0, reqs |-> 0]
Sending(t, c) == [ct[t] EXCEPT !.pc = "send", !.at = c, !.left = pkt, !.sent = 0]

\* The constructor of EventLoop begins with the first packet of every
\* connection, in main's thread; the others start a thread per connection.
ClientInit ==
    /\ client \in EpollClients \cup SyncClients
    /\ pkt \in IF client \in EpollClients THEN PktSizes ELSE SyncSizes
    /\ nconn \in IF client = "verify" THEN {n \in 1 .. NConn : n * pkt <= MaxFirst} ELSE {1}
    /\ duration = Duration \div nconn
    /\ lossy \in IF pkt = 1 THEN {FALSE} ELSE BOOLEAN    \* one word always has room
    /\ garbage \in IF client = "verify" /\ nconn = 1 THEN {0, 1} ELSE {0}    \* any
    /\ net = [c \in Conns |-> [up |-> <<>>, down |-> <<>>, peer |-> "open", err |-> "none", lost |-> 0]]
    /\ cc = [c \in Conns |-> [tx |-> 0, rx |-> 0, seen |-> <<>>, partial |-> 0]]
    /\ ct = [t \in 0 .. nconn |->
                IF t = (IF client \in EpollClients THEN 0 ELSE 1)
                THEN [Idle EXCEPT !.pc = "send", !.at = 1, !.left = pkt]
                ELSE IF t = 0 THEN [Idle EXCEPT !.pc = "join"] ELSE Idle]
    /\ running = TRUE /\ ticks = 0 /\ err_cnt = garbage
    /\ lat = [data |-> [i \in 0 .. RingSize - 1 |-> 0], f |-> 0, p |-> 0,
              out |-> <<>>, todo |-> <<>>,
              overrun |-> FALSE, torn |-> FALSE, junk |-> FALSE]
    /\ cproc = "up"

\* Types.
ClientTypeOK ==
    /\ client \in EpollClients \cup SyncClients /\ running \in BOOLEAN
    /\ \A c \in Conns : /\ Len(net[c].up) <= UpCap /\ Len(net[c].down) <= DownCap
                        /\ net[c].err \in {"none", "ECONNRESET", "EPIPE", "shut"}
    /\ \A t \in DOMAIN ct : ct[t].left \in 0 .. pkt
    /\ ticks \in 0 .. Duration /\ cproc \in {"up", "sigpipe", "overwritten"}

-----------------------------------------------------------------------------
(* The server and the network. *)

Words(a, n) == [i \in 1 .. n |-> a + i - 1]
From(s, n) == SubSeq(s, n + 1, Len(s))

\* The server takes n words and sends back m of them.
Returns(c, n, m) ==
    net' = [net EXCEPT ![c].up = From(@, n), ![c].down = @ \o SubSeq(net[c].up, 1, m),
                       ![c].lost = @ + n - m]

EchoWords(c) ==
    LET room == DownCap - Len(net[c].down)
    IN  /\ net[c].peer = "open"
        /\ \E n \in 1 .. Len(net[c].up) :
              IF n <= room THEN Returns(c, n, n) ELSE lossy /\ Returns(c, n, room)

ServerCloses(c) ==
    /\ net[c].peer = "open"
    /\ net' = [net EXCEPT ![c].peer = "fin", ![c].up = <<>>]

ServerResets(c) ==
    /\ net[c].peer \in {"open", "fin"}
    /\ net' = [net EXCEPT ![c].peer = "rst", ![c].up = <<>>,
                          ![c].err = IF net[c].peer = "fin" THEN "EPIPE" ELSE "ECONNRESET"]

\* Nothing matters to a client that has ended.
ServerStep == /\ ct[0].pc # "done" /\ cproc = "up"
              /\ \E c \in Conns : EchoWords(c) \/ ServerCloses(c) \/ ServerResets(c)
              /\ UNCHANGED <<ecConst, cc, ct, running, ticks, err_cnt, lat, cproc>>

CanRecv(c) == net[c].down # <<>> \/ net[c].peer # "open"

\* recv: words first, then the pending error once, then the end.
ClRecvRet(c, n) ==
    IF net[c].down # <<>> THEN Min({n, Len(net[c].down)})
    ELSE IF net[c].err = "ECONNRESET" THEN -1 ELSE 0

ClAfterRecv(c, n) ==
    [net EXCEPT ![c].down = From(@, Max({0, n})),
                ![c].err = IF n = -1 THEN "shut" ELSE @]

-----------------------------------------------------------------------------
(* send_full: one send, which blocks while there is no room. *)

\* Thread t's current send takes a step; after is what follows the last word,
\* failed what follows an error.  A closed server takes words for nothing.
SendFullStep(t, after, failed) ==
    LET c == ct[t].at
        n == IF net[c].peer = "open" THEN Min({ct[t].left, UpCap - Len(net[c].up)})
             ELSE ct[t].left
    IN  /\ cproc = "up" /\ ct[t].pc = "send"
        /\ IF net[c].err \in {"EPIPE", "shut"}
           THEN cproc' = "sigpipe" /\ UNCHANGED <<net, cc, ct>>
           ELSE /\ UNCHANGED cproc
                /\ IF net[c].err = "ECONNRESET"
                   THEN ct' = failed /\ net' = [net EXCEPT ![c].err = "shut"] /\ UNCHANGED cc
                   ELSE /\ n > 0
                        /\ net' = IF net[c].peer = "open"
                                  THEN [net EXCEPT ![c].up = @ \o Words(cc[c].tx, n)] ELSE net
                        /\ cc' = [cc EXCEPT ![c].tx = @ + n]
                        /\ ct' = IF n = ct[t].left THEN after
                                 ELSE [ct EXCEPT ![t].left = @ - n, ![t].sent = @ + n]

\* Connection::send: nobody looks at what send_full returns.
Connection_send(t, after) ==
    SendFullStep(t, after, after)

-----------------------------------------------------------------------------
(* client_epoll_verify and client_epoll_bench: the loop's thread. *)

\* Mutant: rx_seq moves on whatever was received.
verify_recv_Counts(c, words) ==
    LET full == Len(words) = pkt
    IN  /\ cc' = [cc EXCEPT ![c].seen = @ \o words, ![c].rx = @ + pkt,
                            ![c].partial = IF full THEN @ ELSE @ + 1]
        /\ err_cnt' = IF full
              THEN err_cnt + Cardinality({i \in 1 .. pkt : words[i] # cc[c].rx + i - 1})
              ELSE err_cnt
        /\ UNCHANGED lat

\* recv compares a packet that came in one piece word by word; others are not
\* looked at, nor counted in rx_seq.
verify_recv(c, words) ==
    LET full == Len(words) = pkt
    IN  /\ cc' = [cc EXCEPT ![c].seen = @ \o words,
                            ![c].rx = IF full THEN @ + pkt ELSE @,
                            ![c].partial = IF full THEN @ ELSE @ + 1]
        /\ err_cnt' = IF full
              THEN err_cnt + Cardinality({i \in 1 .. pkt : words[i] # cc[c].rx + i - 1})
              ELSE err_cnt
        /\ UNCHANGED lat

\* LatencyTracer::push of a sample, which is its number here: data[p++ & mask] = x stores p first.
push(x, stamp) ==
    lat' = [lat EXCEPT !.p = @ + 1, !.todo = <<x>>, !.junk = @ \/ ~stamp,
                       !.overrun = @ \/ lat.p + 1 - lat.f > RingSize]

push_store ==
    lat' = [lat EXCEPT !.data[(lat.p - 1) % RingSize] = Head(lat.todo), !.todo = <<>>]

\* recv takes the first word of a packet that came in one piece for the stamp
\* that send has put into the first word of each packet.
bench_recv(c, words) ==
    LET full == Len(words) = pkt
    IN  /\ cc' = [cc EXCEPT ![c].seen = @ \o words, ![c].partial = IF full THEN @ ELSE @ + 1]
        /\ IF ~full THEN UNCHANGED lat
           ELSE push(lat.p + 1, words[1] % pkt = 0)
        /\ UNCHANGED err_cnt

\* handle: EPOLLIN comes with every event; recv, then send.  A result of -1
\* ends the loop and drops the rest of the batch.
handle(t, c) ==
    LET n == ClRecvRet(c, pkt)
        words == SubSeq(net[c].down, 1, n)
    IN  /\ ct[t].pc = "handle" /\ c \in ct[t].batch
        /\ net' = ClAfterRecv(c, n)
        /\ IF n <= 0
           THEN /\ running' = FALSE /\ ct' = [ct EXCEPT ![t].pc = "test", ![t].batch = {}]
                /\ UNCHANGED <<cc, err_cnt, lat>>
           ELSE /\ UNCHANGED running
                /\ ct' = [ct EXCEPT ![t] = [Sending(t, c) EXCEPT !.batch = @ \ {c}]]
                /\ IF client = "verify" THEN verify_recv(c, words) ELSE bench_recv(c, words)
        /\ UNCHANGED <<ticks, cproc>>

\* run: while (running) epoll_wait without a timeout, then every event.
run_test(t) ==
    /\ ct[t].pc = "test"
    /\ \/ ~running /\ ct' = [ct EXCEPT ![t].pc = "exit"]
       \/ /\ running /\ MapThenSumSet(LAMBDA c : cc[c].tx, Conns) < MaxPkts * pkt
          /\ ct' = [ct EXCEPT ![t].pc = "wait"]
    /\ UNCHANGED <<net, cc, running, ticks, err_cnt, lat, cproc>>

run_epoll_wait(t) ==
    LET ready == {c \in Conns : CanRecv(c)}
    IN  /\ ct[t].pc = "wait" /\ ready # {}
        /\ ct' = [ct EXCEPT ![t].pc = "handle", ![t].batch = ready]
        /\ UNCHANGED <<net, cc, running, ticks, err_cnt, lat, cproc>>

run_handled(t) ==
    /\ ct[t].pc = "handle" /\ ct[t].batch = {}
    /\ ct' = [ct EXCEPT ![t].pc = "test"]
    /\ UNCHANGED <<net, cc, running, ticks, err_cnt, lat, cproc>>

\* The second half of push comes before the packet's answer.
run_store(t) ==
    /\ ct[t].pc = "send" /\ lat.todo # <<>> /\ push_store
    /\ UNCHANGED <<net, cc, ct, running, ticks, err_cnt, cproc>>

run_send(t) ==
    /\ lat.todo = <<>>
    /\ Connection_send(t, [ct EXCEPT ![t].pc = "handle", ![t].left = 0, ![t].sent = 0])
    /\ UNCHANGED <<running, ticks, err_cnt, lat>>

EventLoop_run ==
    /\ client \in EpollClients /\ cproc = "up" /\ UNCHANGED ecConst
    /\ \/ run_test(1) \/ run_epoll_wait(1) \/ run_handled(1) \/ run_store(1) \/ run_send(1)
       \/ \E c \in Conns : handle(1, c)

-----------------------------------------------------------------------------
(* Their main thread. *)

\* The constructor: the first packets, then the thread.
EventLoop_ctor ==
    /\ Connection_send(0, IF ct[0].at < nconn THEN [ct EXCEPT ![0] = Sending(0, ct[0].at + 1)]
                          ELSE [ct EXCEPT ![0].pc = "timer", ![0].left = 0, ![0].sent = 0,
                                          ![1].pc = "test"])
    /\ UNCHANGED <<running, ticks, err_cnt, lat>>

\* main waits for the timer.
main_tick ==
    /\ ct[0].pc = "timer" /\ ticks' = ticks + 1
    /\ ct' = [ct EXCEPT ![0].pc = "report"]
    /\ UNCHANGED <<net, cc, running, err_cnt, lat, cproc>>

BlockReady == (lat.p \div BlockSize) - (lat.f \div BlockSize) > 0

\* LatencyTracer::report: a block of samples at a time while the loop pushes.
LatencyTracer_report ==
    lat' = [lat EXCEPT !.f = @ + BlockSize,
              !.torn = @ \/ (lat.todo # <<>> /\ lat.f + BlockSize = lat.p),
              !.out = @ \o [i \in 1 .. BlockSize |-> lat.data[(lat.f + i - 1) % RingSize]]]

Reported == IF ticks < duration THEN "timer" ELSE "stop"

\* EventLoop::report fails if the loop has ended, and main ends with it.
main_report ==
    /\ ct[0].pc = "report"
    /\ ct' = [ct EXCEPT ![0].pc = IF ~running THEN "stop"
                                 ELSE IF client = "bench" THEN "blocks" ELSE Reported]
    /\ UNCHANGED <<net, cc, running, ticks, err_cnt, lat, cproc>>

main_blocks ==
    /\ ct[0].pc = "blocks"
    /\ IF BlockReady THEN LatencyTracer_report /\ UNCHANGED ct
       ELSE ct' = [ct EXCEPT ![0].pc = Reported] /\ UNCHANGED lat
    /\ UNCHANGED <<net, cc, running, ticks, err_cnt, cproc>>

main_stop ==
    /\ ct[0].pc = "stop" /\ running' = FALSE /\ ct' = [ct EXCEPT ![0].pc = "join"]
    /\ UNCHANGED <<net, cc, ticks, err_cnt, lat, cproc>>

\* thread->join in the destructor, pthread_join.
main_join ==
    /\ cproc = "up" /\ ct[0].pc = "join" /\ \A t \in 1 .. nconn : ct[t].pc \in {"none", "exit"}
    /\ ct' = [ct EXCEPT ![0].pc = "done"]
    /\ UNCHANGED <<ecConst, net, cc, running, ticks, err_cnt, lat, cproc>>

main_loop == /\ client \in EpollClients /\ cproc = "up" /\ UNCHANGED ecConst
             /\ EventLoop_ctor \/ main_tick \/ main_report \/ main_blocks \/ main_stop

-----------------------------------------------------------------------------
(* client.cpp, ipv6_tcp_echo/client.cpp, client_test_epollin.cpp: thread t    *)
(* has connection t.                                                          *)

\* The answer is awaited, however much was sent.
Awaiting(t, n) == [ct EXCEPT ![t].pc = "recv", ![t].left = pkt, ![t].sent = n]
Sent(t) == Awaiting(t, ct[t].sent + ct[t].left)

sync_send(t) ==
    SendFullStep(t, Sent(t), Awaiting(t, ct[t].sent))

\* The IPv6 client's send_full does not break off: it tries again.
sync6_send(t) ==
    SendFullStep(t, Sent(t), ct)

\* client_test_epollin ends when a send fails.
test_in_send(t) ==
    SendFullStep(t, Sent(t), [ct EXCEPT ![t].pc = "exit"])

NextRequest(t) ==
    IF ct[t].reqs + 1 < Requests /\ client # "test_in"
    THEN [ct EXCEPT ![t] = [Sending(t, t) EXCEPT !.reqs = @ + 1]]
    ELSE [ct EXCEPT ![t].pc = "exit"]

\* What follows recv_full, which got all but left words.
sync_after(t, left) ==
    IF pkt - left < ct[t].sent THEN [ct EXCEPT ![t].pc = "exit"] ELSE NextRequest(t)
sync6_after(t) == NextRequest(t)

\* One recv of recv_full, or of the loop of client_test_epollin; whole follows
\* when everything is there, short an error or the end.
recv_full(t, whole, short) ==
    LET n == ClRecvRet(t, ct[t].left)
    IN  /\ cproc = "up" /\ ct[t].pc = "recv" /\ CanRecv(t)
        /\ net' = ClAfterRecv(t, n)
        /\ cc' = [cc EXCEPT ![t].seen = @ \o SubSeq(net[t].down, 1, n)]
        /\ ct' = IF n <= 0 THEN short
                 ELSE IF n = ct[t].left THEN whole
                 ELSE [ct EXCEPT ![t].left = @ - n]
        /\ UNCHANGED cproc

sync_worker(t) ==
    /\ client = "sync"
    /\ sync_send(t) \/ recv_full(t, sync_after(t, 0), sync_after(t, ct[t].left))

\* Before a request the worker fills send_buf, but at the request's number:
\* from request buf_size on that is beyond the array, with any effect.
sync6_fill(t) ==
    /\ ct[t].pc = "send" /\ ct[t].left = pkt /\ ct[t].reqs >= pkt
    /\ cproc = "up" /\ cproc' = "overwritten" /\ UNCHANGED <<net, cc, ct>>

sync6_worker(t) ==
    /\ client = "sync6"
    /\ \/ sync6_fill(t) \/ sync6_send(t)
       \/ recv_full(t, sync6_after(t), sync6_after(t))
test_in_main(t) ==
    /\ client = "test_in"
    /\ test_in_send(t) \/ recv_full(t, sync6_after(t), sync6_after(t))

SyncStep == /\ \E t \in Conns : sync_worker(t) \/ sync6_worker(t) \/ test_in_main(t)
            /\ UNCHANGED <<ecConst, running, ticks, err_cnt, lat>>

ClientNext == ServerStep \/ EventLoop_run \/ main_loop \/ main_join \/ SyncStep

-----------------------------------------------------------------------------
(* Properties *)

Disturbed == \E c \in Conns : cc[c].partial > 0 \/ net[c].lost > 0

\* No errors means none: as long as err_cnt stands where it began, the stream
\* has come back exactly up to rx_seq on every connection, also from a server
\* that loses words.  The other way round a count above it needs a word lost,
\* or a short receive: after that every full packet of a correct server is
\* counted as wrong.
VerdictSound ==
    client = "verify" =>
        /\ err_cnt = garbage =>
              \A c \in Conns : IsPrefix(Words(0, cc[c].rx), cc[c].seen)
        /\ err_cnt > garbage => Disturbed

\* Round trip times are times between a packet's stamp and its return, unless
\* a short receive has moved the packets' beginnings.
StampsAreStamps == lat.junk => Disturbed

\* One packet at a time to a server that is there: every short receive, and only that, puts another
\* packet under way.
OnePacketUnderWay ==
    \A c \in Conns : net[c].peer = "open" =>
        cc[c].tx - Len(cc[c].seen) <= pkt * (1 + cc[c].partial)

\* Every sample is reported once and in order, unless the loop has been around
\* the ring before main came ("this should reverse enough space"), or main has
\* read the slot between the two stores of a push.
SamplesOnce ==
    lat.overrun \/ lat.torn \/ lat.out = Words(1, Len(lat.out))

-----------------------------------------------------------------------------
\* A client waits for words that the server has lost, or it sends a packet that
\* all buffers together cannot hold to a server that waits for it to read.
Starved(t) == /\ ct[t].pc \in {"wait", "recv"}
              /\ \A c \in Conns : net[c].lost > 0 /\ ~CanRecv(c)
Choked(t) == /\ ct[t].pc = "send" /\ pkt > UpCap + DownCap
             /\ ~lossy /\ Len(net[ct[t].at].up) = UpCap /\ Len(net[ct[t].at].down) = DownCap

\* The programs end, but for these two ways to wait for ever: also the loops,
\* although they wait without a timeout, stop on a flag that wakes nobody, and
\* have more and more under way after short receives.  Nothing is said of sync6
\* with more requests than buf_size once it has written beyond its buffer.
ClientsEnd ==
    (ct[0].pc # "done") ~>
        \/ ct[0].pc = "done" \/ cproc = "sigpipe"
        \/ cproc = "overwritten" /\ client = "sync6" /\ pkt < Requests
        \/ \E t \in 1 .. nconn : Starved(t) \/ Choked(t)

\* What the clients say about the server is true.
ClientsJudgeRight ==
    ClientTypeOK /\ VerdictSound /\ StampsAreStamps /\ OnePacketUnderWay /\ SamplesOnce

=============================================================================
