------------------------- MODULE SocketServersProofs -------------------------
(***************************************************************************)
(* The simple echo servers, for any number of clients, descriptors and     *)
(* bytes and any size of the buffers and tables.                           *)
(***************************************************************************)
EXTENDS SimpleServers, FiniteSetTheorems, SequenceTheorems, WellFoundedInduction, TLAPS

-----------------------------------------------------------------------------
(* Types *)

Bytes == Nat \X Nat
ClientOrNone == 0 .. Len(Sends)
PollEvents == [conn : ClientOrNone, fd : 0 .. NFds]
BenchEvents == [idx : Nat, conn : ClientOrNone, fd : 0 .. NFds]

Errors == {"none", "ECONNRESET", "EPIPE", "shut"}

ConnStates ==
    [peer : {"idle", "open", "fin", "rst"}, sent : Nat, inq : Seq(Bytes), err : Errors,
     fd : 0 .. NFds, own : ServerThreads, accepted : BOOLEAN, unread : 0 .. SndCap,
     got : Seq(Bytes), full : BOOLEAN]

ServerThreadStates ==
    [pc : {"none", "wait", "poll", "loop", "send", "exit"},
     batch : SUBSET (PollEvents \cup BenchEvents), at : ClientOrNone, buf : Seq(Bytes)]

SimpleTypes ==
    /\ srv \in Programs /\ proc \in {"up", "sigpipe", "overrun"}
    /\ cn \in [Clients -> ConnStates]
    /\ thr \in [ServerThreads -> ServerThreadStates]
    /\ lq \in [{0, 1} -> Seq(Clients)]
    /\ bufConns \in [{0, 1} -> Seq(ClientOrNone)]
    /\ evConns \in [{0, 1} -> Seq(ClientOrNone)]
    /\ pollfds \in Seq(-1 .. NFds) /\ phandlers \in [1 .. FdRange - 1 -> ClientOrNone]
    /\ sock_num \in 0 .. MaxConns /\ nofile \in 1 .. NFds

-----------------------------------------------------------------------------
(* The inductive invariant *)

\* What a thread has received for c and not sent yet.
InHand(c) ==
    IF thr[cn[c].own].at = c /\ thr[cn[c].own].pc = "send" THEN thr[cn[c].own].buf ELSE <<>>

\* Of the first n bytes of c, inq is unread and h in a thread's hands: the last
\* ones; got are earlier ones.
StreamIs(c, n, inq, h, got) ==
    /\ Len(inq) + Len(h) <= n
    /\ \A i \in 1 .. Len(inq) : inq[i] = <<c, n - Len(inq) + i>>
    /\ \A i \in 1 .. Len(h) : h[i] = <<c, n - Len(inq) - Len(h) + i>>
    /\ \A i \in 1 .. Len(got) : got[i][1] = c /\ got[i][2] <= n - Len(inq) - Len(h)
    /\ \A i \in 2 .. Len(got) : got[i - 1][2] < got[i][2]

\* No byte is missing.
StreamWhole(n, inq, h, got) == Len(got) + Len(h) + Len(inq) = n

Promised(r) == r.peer # "rst" /\ (srv \in Threaded \/ ~r.full)

StreamOK(c, r, h) ==
    /\ r.sent <= Sends[c] /\ StreamIs(c, r.sent, r.inq, h, r.got)
    /\ Promised(r) => StreamWhole(r.sent, r.inq, h, r.got)

StreamInv == \A c \in Clients : StreamOK(c, cn[c], InHand(c))

\* An error is pending, or was reported, after a reset only; programs other
\* than these two close a connection with the report.
ErrorOK(c) ==
    /\ cn[c].err # "none" <=> cn[c].peer = "rst"
    /\ cn[c].err = "shut" => cn[c].accepted
    /\ cn[c].err = "shut" /\ srv \notin {"epoll", "server6"} => cn[c].fd = 0

FdOK(c) ==
    /\ cn[c].fd # 0 => cn[c].accepted /\ cn[c].fd <= nofile
    /\ cn[c].accepted => cn[c].peer # "idle"
    /\ cn[c].accepted /\ srv \in Threaded => cn[c].own = c
    /\ \A d \in Clients \ {c} : cn[c].fd # 0 => cn[d].fd # cn[c].fd

ConnInv == \A c \in Clients : ErrorOK(c) /\ FdOK(c)

\* A queued client waits in one place of one queue, and is not accepted yet.
QueueInv ==
    \A t \in {0, 1} : \A i \in DOMAIN lq[t] :
        /\ cn[lq[t][i]].peer # "idle" /\ ~cn[lq[t][i]].accepted
        /\ \A u \in {0, 1} : \A j \in DOMAIN lq[u] : lq[u][j] = lq[t][i] => u = t /\ j = i

\* An event in the batch of t is its connection's only one, and still its own.
EventOK(t, e) ==
    /\ e.conn = 0 => e.fd = 0 /\ srv # "bench"
    /\ e.conn # 0 => /\ e.fd # 0 /\ cn[e.conn].fd = e.fd /\ cn[e.conn].own = t
                     /\ srv = "poll" => e.fd < FdRange
                     /\ srv = "bench" => /\ e \in BenchEvents /\ e.idx \in DOMAIN evConns[t]
                                         /\ evConns[t][e.idx] = e.conn
    /\ srv # "bench" => e \in PollEvents
    /\ \A g \in thr[t].batch : g.conn = e.conn => g = e

LoopOK(t) ==
    /\ \A e \in thr[t].batch : t \in {0, 1} /\ EventOK(t, e)
    /\ thr[t].pc \notin {"loop", "send"} => thr[t].batch = {}
    /\ thr[t].pc # "none" => t \in Loops
    /\ thr[t].pc # "exit"
    /\ IF thr[t].pc = "send"
       THEN thr[t].at # 0 /\ \E e \in thr[t].batch : e.conn = thr[t].at
       ELSE thr[t].at = 0

\* A worker has its connection until it exits.
WorkerOK(t) ==
    /\ thr[t].batch = {} /\ thr[t].at \in {0, t}
    /\ thr[t].pc \in {"loop", "send"} => t # 0 /\ cn[t].fd # 0
    /\ thr[t].pc = "send" => thr[t].at = t

ThreadInv ==
    \A t \in ServerThreads :
        /\ Len(thr[t].buf) <= BufSize /\ (thr[t].pc = "send" => thr[t].buf # <<>>)
        /\ IF srv \in Threaded THEN WorkerOK(t) ELSE LoopOK(t)

\* The accepted clients the Poller did not refuse.
ListedOnes == {c \in AcceptedClients : cn[c].fd < FdRange}

\* A slot is given up, or an open connection's whose descriptor has a handler.
SlotOK(f) ==
    \/ f = -1
    \/ f # 0 /\ f < FdRange /\ \E c \in Clients : cn[c].fd = f

\* The array of poll: the listener, then a slot per connection not refused.
PollInv ==
    /\ Len(pollfds) <= MaxFds
    /\ srv = "poll" /\ proc # "overrun" =>
        /\ Len(pollfds) = 1 + Cardinality(ListedOnes) /\ pollfds[1] = 0
        /\ \A i \in 2 .. Len(pollfds) : SlotOK(pollfds[i])
        /\ \A i, j \in 1 .. Len(pollfds) : pollfds[i] = pollfds[j] => i = j \/ pollfds[i] = -1
        /\ \A c \in Clients : cn[c].fd # 0 /\ cn[c].fd < FdRange =>
              (\E i \in 1 .. Len(pollfds) : pollfds[i] = cn[c].fd) /\ phandlers[cn[c].fd] = c

\* The lists of bench: an open connection of the loop, and each once.
ListedOnce(t, c) ==
    /\ cn[c].fd # 0 /\ cn[c].own = t
    /\ \A i, j \in DOMAIN bufConns[t] : bufConns[t][i] = c /\ bufConns[t][j] = c => i = j
    /\ \A i, j \in DOMAIN evConns[t] : evConns[t][i] = c /\ evConns[t][j] = c => i = j
    /\ \A i \in DOMAIN bufConns[t], j \in DOMAIN evConns[t] :
          ~(bufConns[t][i] = c /\ evConns[t][j] = c)

BenchInv ==
    srv = "bench" => \A t \in {0, 1} : \A c \in Clients :
        (\E i \in DOMAIN bufConns[t] : bufConns[t][i] = c)
          \/ (\E i \in DOMAIN evConns[t] : evConns[t][i] = c) => ListedOnce(t, c)

\* server.cpp's table: an entry per accepted connection, until an accept fails
\* because as many were accepted as there are descriptors.
TableInv ==
    srv \in Threaded => \/ sock_num = Cardinality(AcceptedClients)
                        \/ Cardinality(AcceptedClients) >= nofile

SimpleInv ==
    /\ SimpleTypes /\ StreamInv /\ ConnInv /\ QueueInv /\ ThreadInv
    /\ PollInv /\ BenchInv /\ TableInv /\ DeathCauses


-----------------------------------------------------------------------------
(* Lemmas about the operators of the model *)

\* The parts of a pair.
LEMMA PairParts ==
    ASSUME NEW a, NEW b, NEW p, p = <<a, b>>
    PROVE  p[1] = a /\ p[2] = b
OBVIOUS

\* Min of two numbers.
LEMMA MinOfTwo ==
    ASSUME NEW a \in Int, NEW b \in Int
    PROVE  Min({a, b}) = IF a <= b THEN a ELSE b
<1>1. \A x \in {a, b} : (\A y \in {a, b} : x <= y) => x = IF a <= b THEN a ELSE b
  OBVIOUS
<1>2. \A y \in {a, b} : (IF a <= b THEN a ELSE b) <= y
  OBVIOUS
<1> QED
  BY <1>1, <1>2 DEF Min

\* Max of 0 and a number.
LEMMA MaxOfZero ==
    ASSUME NEW a \in Int
    PROVE  Max({0, a}) = IF a > 0 THEN a ELSE 0
<1>1. \A x \in {0, a} : (\A y \in {0, a} : x >= y) => x = IF a > 0 THEN a ELSE 0
  OBVIOUS
<1>2. \A y \in {0, a} : (IF a > 0 THEN a ELSE 0) >= y
  OBVIOUS
<1> QED
  BY <1>1, <1>2 DEF Max

\* The lowest number of a set is one of the set.
LEMMA MinOfSet ==
    ASSUME NEW S \in SUBSET Nat, S # {}
    PROVE  Min(S) \in S
<1> DEFINE Less == {ss \in Nat \X Nat : ss[1] < ss[2]}
<1>1. IsWellFoundedOn(Less, Nat)
  BY ONLY NatLessThanWellFounded DEF OpToRel
<1>2. PICK x \in S : \A y \in S : ~(<<y, x>> \in Less)
  BY <1>1, WFMin
<1>3. ASSUME NEW y \in S
      PROVE  x <= y
  <2>1. x \in Nat /\ y \in Nat /\ <<y, x>> \in Nat \X Nat /\ <<y, x>> \notin Less
    BY <1>2
  <2>2. ~(<<y, x>>[1] < <<y, x>>[2])
    BY <2>1, Zenon
  <2> QED
    BY <2>1, <2>2
<1> QED
  BY <1>3 DEF Min

\* What recv returns is no more than the buffer and what there is.
LEMMA RecvRetRange ==
    ASSUME SimpleTypes, NEW c \in Clients
    PROVE  /\ RecvRet(c) \in Int
           /\ RecvRet(c) > 0 <=> cn[c].inq # <<>>
           /\ RecvRet(c) > 0 => RecvRet(c) <= BufSize /\ RecvRet(c) <= Len(cn[c].inq)
<1>1. cn[c].inq \in Seq(Bytes) /\ Len(cn[c].inq) \in Nat /\ BufSize \in Nat \ {0}
  <2>1. cn[c] \in ConnStates
    BY DEF SimpleTypes
  <2>2. cn[c].inq \in Seq(Bytes)
    BY ONLY <2>1 DEF ConnStates
  <2> QED
    BY ONLY <2>2, SimpleAssumption
<1>2. CASE cn[c].inq # <<>>
  <2>1. Len(cn[c].inq) > 0
    BY <1>1, <1>2
  <2>2. RecvRet(c) = IF BufSize <= Len(cn[c].inq) THEN BufSize ELSE Len(cn[c].inq)
    BY <1>1, <1>2, MinOfTwo DEF RecvRet
  <2> QED
    BY <1>1, <1>2, <2>1, <2>2
<1>3. CASE cn[c].inq = <<>>
  <2>1. RecvRet(c) \in {0, -1}
    BY <1>3 DEF RecvRet
  <2> QED
    BY <1>3, <2>1
<1> QED
  BY <1>2, <1>3

\* What send returns.
LEMMA SendRetRange ==
    ASSUME SimpleTypes, NEW c \in Clients, NEW n \in Nat \ {0}
    PROVE  /\ SendRet(c, n) \in Int
           /\ SendRet(c, n) = -1 \/ SendRet(c, n) > 0
           /\ SendRet(c, n) > 0 => /\ SendRet(c, n) <= n /\ cn[c].err = "none"
                                   /\ cn[c].unread + SendRet(c, n) <= SndCap
<1>1. cn[c].unread \in 0 .. SndCap /\ SndCap \in Nat \ {0}
  BY SimpleAssumption DEF SimpleTypes, ConnStates
<1>2. CASE cn[c].err = "none" /\ cn[c].unread < SndCap
  <2>1. SendRet(c, n) = IF n <= SndCap - cn[c].unread THEN n ELSE SndCap - cn[c].unread
    BY <1>1, <1>2, MinOfTwo DEF SendRet
  <2> QED
    BY <1>1, <1>2, <2>1
<1>3. CASE ~(cn[c].err = "none" /\ cn[c].unread < SndCap)
  BY <1>3 DEF SendRet
<1> QED
  BY <1>2, <1>3

\* The connection after a recv.
LEMMA AfterRecvFields ==
    ASSUME SimpleTypes, NEW c \in Clients
    PROVE  /\ AfterRecv(c) \in ConnStates
           /\ AfterRecv(c).peer = cn[c].peer /\ AfterRecv(c).sent = cn[c].sent
           /\ AfterRecv(c).fd = cn[c].fd /\ AfterRecv(c).own = cn[c].own
           /\ AfterRecv(c).accepted = cn[c].accepted /\ AfterRecv(c).got = cn[c].got
           /\ AfterRecv(c).full = cn[c].full
           /\ AfterRecv(c).err = (IF RecvRet(c) = -1 /\ cn[c].err = "ECONNRESET"
                                  THEN "shut" ELSE cn[c].err)
           /\ RecvRet(c) > 0 =>
                AfterRecv(c).inq = SubSeq(cn[c].inq, RecvRet(c) + 1, Len(cn[c].inq))
           /\ ~(RecvRet(c) > 0) => AfterRecv(c).inq = <<>> /\ cn[c].inq = <<>>
<1>1. cn[c] \in ConnStates
  BY DEF SimpleTypes
<1>2. cn[c].inq \in Seq(Bytes) /\ Len(cn[c].inq) \in Nat
  BY <1>1 DEF ConnStates
<1> DEFINE n == IF RecvRet(c) > 0 THEN RecvRet(c) ELSE 0
<1>3. Max({0, RecvRet(c)}) = n /\ n \in Nat /\ n <= Len(cn[c].inq)
  BY <1>2, RecvRetRange, MaxOfZero
<1>4. SubSeq(cn[c].inq, n + 1, Len(cn[c].inq)) \in Seq(Bytes)
  <2>1. \A i \in n + 1 .. Len(cn[c].inq) : cn[c].inq[i] \in Bytes
    BY <1>2, <1>3
  <2> QED
    BY <1>2, <1>3, <2>1, SubSeqProperties
<1>5. PICK q \in Seq(Bytes) : q = SubSeq(cn[c].inq, n + 1, Len(cn[c].inq))
  BY <1>4
<1>6. PICK x \in Errors : x = IF RecvRet(c) = -1 /\ cn[c].err = "ECONNRESET" THEN "shut" ELSE cn[c].err
  BY <1>1 DEF ConnStates, Errors
<1>7. AfterRecv(c) = [cn[c] EXCEPT !.inq = q, !.err = x]
  BY <1>1, <1>3, <1>5, <1>6 DEF AfterRecv, ConnStates
<1>8. /\ AfterRecv(c) \in ConnStates
      /\ AfterRecv(c).peer = cn[c].peer /\ AfterRecv(c).sent = cn[c].sent
      /\ AfterRecv(c).fd = cn[c].fd /\ AfterRecv(c).own = cn[c].own
      /\ AfterRecv(c).accepted = cn[c].accepted /\ AfterRecv(c).got = cn[c].got
      /\ AfterRecv(c).full = cn[c].full /\ AfterRecv(c).err = x /\ AfterRecv(c).inq = q
  BY <1>1, <1>7 DEF ConnStates
<1>9. ~(RecvRet(c) > 0) => q = <<>> /\ cn[c].inq = <<>>
  BY <1>2, <1>5, RecvRetRange
<1> QED
  BY <1>5, <1>6, <1>8, <1>9

\* The connection after a send of b.
LEMMA AfterSendFields ==
    ASSUME SimpleTypes, NEW c \in Clients, NEW b \in Seq(Bytes), b # <<>>
    PROVE  /\ AfterSend(c, b) \in ConnStates
           /\ AfterSend(c, b).peer = cn[c].peer /\ AfterSend(c, b).sent = cn[c].sent
           /\ AfterSend(c, b).fd = cn[c].fd /\ AfterSend(c, b).own = cn[c].own
           /\ AfterSend(c, b).accepted = cn[c].accepted /\ AfterSend(c, b).inq = cn[c].inq
           /\ SendRet(c, Len(b)) > 0 =>
                /\ AfterSend(c, b).got = cn[c].got \o SubSeq(b, 1, SendRet(c, Len(b)))
                /\ AfterSend(c, b).err = cn[c].err
                /\ AfterSend(c, b).full = (cn[c].full \/ SendRet(c, Len(b)) < Len(b))
           /\ SendRet(c, Len(b)) = -1 =>
                /\ AfterSend(c, b).got = cn[c].got
                /\ AfterSend(c, b).err = (IF cn[c].err = "ECONNRESET" THEN "shut" ELSE cn[c].err)
                /\ AfterSend(c, b).full = (cn[c].full \/ cn[c].err = "none")
<1>1. cn[c] \in ConnStates
  BY DEF SimpleTypes
<1>2. Len(b) \in Nat \ {0}
  OBVIOUS
<1>3. PICK n \in Int : n = SendRet(c, Len(b))
  BY <1>2, SendRetRange
<1>4. /\ n = -1 \/ n > 0
      /\ n > 0 => n <= Len(b) /\ cn[c].unread + n <= SndCap
  BY <1>2, <1>3, SendRetRange
<1>5. CASE n > 0
  <2>1. SubSeq(b, 1, n) \in Seq(Bytes)
    <3>1. \A i \in 1 .. n : b[i] \in Bytes
      BY <1>2, <1>4, <1>5
    <3> QED
      BY <3>1, <1>5, SubSeqProperties
  <2>2. PICK g \in Seq(Bytes) : g = cn[c].got \o SubSeq(b, 1, n)
    BY <2>1, <1>1, ConcatProperties DEF ConnStates
  <2>3. PICK u \in 0 .. SndCap : u = cn[c].unread + n
    <3>1. cn[c].unread \in 0 .. SndCap
      BY ONLY <1>1 DEF ConnStates
    <3> QED
      BY ONLY <1>3, <1>4, <1>5, <3>1, SimpleAssumption
  <2>4. PICK w \in BOOLEAN : w = (cn[c].full \/ n < Len(b))
    BY <1>1 DEF ConnStates
  <2>5. AfterSend(c, b) = [cn[c] EXCEPT !.got = g, !.unread = u, !.full = w]
    BY <1>1, <1>3, <1>5, <2>2, <2>3, <2>4 DEF AfterSend, ConnStates
  <2>6. /\ AfterSend(c, b) \in ConnStates
        /\ AfterSend(c, b).peer = cn[c].peer /\ AfterSend(c, b).sent = cn[c].sent
        /\ AfterSend(c, b).fd = cn[c].fd /\ AfterSend(c, b).own = cn[c].own
        /\ AfterSend(c, b).accepted = cn[c].accepted /\ AfterSend(c, b).inq = cn[c].inq
        /\ AfterSend(c, b).got = g /\ AfterSend(c, b).err = cn[c].err
        /\ AfterSend(c, b).full = w
    BY <1>1, <2>5 DEF ConnStates
  <2> QED
    BY <1>3, <1>4, <1>5, <2>2, <2>4, <2>6
<1>6. CASE n = -1
  <2>1. PICK x \in Errors : x = IF cn[c].err = "ECONNRESET" THEN "shut" ELSE cn[c].err
    BY <1>1 DEF ConnStates, Errors
  <2>2. PICK w \in BOOLEAN : w = (cn[c].full \/ cn[c].err = "none")
    BY <1>1 DEF ConnStates
  <2>3. AfterSend(c, b) = [cn[c] EXCEPT !.err = x, !.full = w]
    BY <1>1, <1>3, <1>6, <2>1, <2>2 DEF AfterSend, ConnStates
  <2>4. /\ AfterSend(c, b) \in ConnStates
        /\ AfterSend(c, b).peer = cn[c].peer /\ AfterSend(c, b).sent = cn[c].sent
        /\ AfterSend(c, b).fd = cn[c].fd /\ AfterSend(c, b).own = cn[c].own
        /\ AfterSend(c, b).accepted = cn[c].accepted /\ AfterSend(c, b).inq = cn[c].inq
        /\ AfterSend(c, b).got = cn[c].got /\ AfterSend(c, b).err = x
        /\ AfterSend(c, b).full = w
    BY <1>1, <2>3 DEF ConnStates
  <2> QED
    BY <1>3, <1>6, <2>1, <2>2, <2>4
<1> QED
  BY <1>4, <1>5, <1>6

-----------------------------------------------------------------------------
(* The stream of a connection: n bytes sent, q unread, h in a thread's      *)
(* hands and g back at the client.                                         *)

\* The client sends one more byte.
LEMMA StreamClientSends ==
    ASSUME NEW c, NEW n \in Nat, NEW q \in Seq(Bytes), NEW h \in Seq(Bytes),
           NEW g \in Seq(Bytes), NEW p \in Seq(Bytes),
           StreamIs(c, n, q, h, g), p = Append(q, <<c, n + 1>>)
    PROVE  /\ StreamIs(c, n + 1, p, h, g)
           /\ StreamWhole(n, q, h, g) => StreamWhole(n + 1, p, h, g)
<1>1. PICK lq0 \in Nat, lh \in Nat, lg \in Nat : lq0 = Len(q) /\ lh = Len(h) /\ lg = Len(g)
  OBVIOUS
<1>2. Len(p) = lq0 + 1 /\ p[lq0 + 1] = <<c, n + 1>> /\ \A i \in 1 .. lq0 : p[i] = q[i]
  BY <1>1
<1>3. \A i \in 1 .. lq0 + 1 : p[i] = <<c, (n + 1) - (lq0 + 1) + i>>
  <2>1. \A i \in 1 .. lq0 : q[i] = <<c, n - lq0 + i>>
    BY <1>1 DEF StreamIs
  <2> SUFFICES ASSUME NEW i \in 1 .. lq0 + 1
               PROVE  p[i] = <<c, (n + 1) - (lq0 + 1) + i>>
    OBVIOUS
  <2>2. (n + 1) - (lq0 + 1) + i = n - lq0 + i
    OBVIOUS
  <2>3. CASE i = lq0 + 1
    <3>1. n - lq0 + i = n + 1
      BY <2>3
    <3> QED
      BY <1>2, <2>2, <2>3, <3>1
  <2>4. CASE i \in 1 .. lq0
    BY <1>2, <2>1, <2>2, <2>4
  <2>5. i = lq0 + 1 \/ i \in 1 .. lq0
    OBVIOUS
  <2> QED
    BY <2>3, <2>4, <2>5
<1>4. (n + 1) - (lq0 + 1) - lh = n - lq0 - lh
  OBVIOUS
<1>5. (lq0 + 1) + lh <= n + 1 <=> lq0 + lh <= n
  OBVIOUS
<1>6. lg + lh + (lq0 + 1) = n + 1 <=> lg + lh + lq0 = n
  OBVIOUS
<1> QED
  BY <1>1, <1>2, <1>3, <1>4, <1>5, <1>6 DEF StreamIs, StreamWhole

\* What is in hand is dropped.
LEMMA StreamDropped ==
    ASSUME NEW c, NEW n \in Nat, NEW q \in Seq(Bytes), NEW h \in Seq(Bytes),
           NEW g \in Seq(Bytes), StreamIs(c, n, q, h, g)
    PROVE  StreamIs(c, n, q, <<>>, g)
<1>1. PICK lq0 \in Nat, lh \in Nat, lg \in Nat : lq0 = Len(q) /\ lh = Len(h) /\ lg = Len(g)
  OBVIOUS
<1>2. \A i \in 1 .. lg : g[i][2] \in Nat
  BY <1>1 DEF Bytes
<1>3. \A i \in 1 .. lg : g[i][2] <= n - lq0 - lh
  BY <1>1 DEF StreamIs
<1>4. \A i \in 1 .. lg : g[i][2] <= n - lq0 - 0
  BY <1>2, <1>3
<1>5. lq0 + lh <= n
  BY <1>1 DEF StreamIs
<1>6. lq0 + 0 <= n
  BY <1>5
<1>7. Len(<<>>) = 0
  OBVIOUS
<1> QED
  BY <1>1, <1>4, <1>6, <1>7 DEF StreamIs

\* q is divided into k, m bytes, and p.
Divides(q, m, k, p) ==
    /\ q \in Seq(Bytes) /\ m \in Nat /\ m <= Len(q)
    /\ k = SubSeq(q, 1, m) /\ p = SubSeq(q, m + 1, Len(q))

\* x is g and then b.
Joins(g, b, x) == x = g \o b

\* A recv takes the first m bytes.
LEMMA StreamReceived ==
    ASSUME NEW c, NEW n \in Nat, NEW q \in Seq(Bytes), NEW g \in Seq(Bytes),
           NEW m \in Nat, NEW p, NEW k, NEW h, Len(h) = 0,
           Divides(q, m, k, p), StreamIs(c, n, q, h, g)
    PROVE  /\ StreamIs(c, n, p, k, g) /\ k \in Seq(Bytes)
           /\ StreamWhole(n, q, h, g) => StreamWhole(n, p, k, g)
<1>0. m <= Len(q) /\ k = SubSeq(q, 1, m) /\ p = SubSeq(q, m + 1, Len(q))
  BY DEF Divides
<1>1. PICK lq0 \in Nat, lg \in Nat : lq0 = Len(q) /\ lg = Len(g)
  OBVIOUS
<1>2. Len(k) = m /\ \A i \in 1 .. m : k[i] = q[i]
  BY <1>0, <1>1
<1>3. Len(p) = lq0 - m /\ \A i \in 1 .. lq0 - m : p[i] = q[m + i]
  BY <1>0, <1>1
<1>4. \A i \in 1 .. lq0 : q[i] = <<c, n - lq0 + i>>
  BY <1>0, <1>1 DEF StreamIs
<1>5. \A i \in 1 .. lq0 - m : p[i] = <<c, n - (lq0 - m) + i>>
  <2> SUFFICES ASSUME NEW i \in 1 .. lq0 - m
               PROVE  p[i] = <<c, n - (lq0 - m) + i>>
    OBVIOUS
  <2>1. m + i \in 1 .. lq0 /\ n - (lq0 - m) + i = n - lq0 + (m + i)
    BY <1>0, <1>1
  <2> QED
    BY <1>3, <1>4, <2>1
<1>6. \A i \in 1 .. m : k[i] = <<c, n - (lq0 - m) - m + i>>
  <2> SUFFICES ASSUME NEW i \in 1 .. m
               PROVE  k[i] = <<c, n - (lq0 - m) - m + i>>
    OBVIOUS
  <2>1. i \in 1 .. lq0 /\ n - (lq0 - m) - m + i = n - lq0 + i
    BY <1>0, <1>1
  <2> QED
    BY <1>2, <1>4, <2>1
<1>7. n - (lq0 - m) - m = n - lq0 - 0 /\ (lq0 - m) + m = lq0 + 0
  OBVIOUS
<1>8. lg + m + (lq0 - m) = lg + 0 + lq0
  OBVIOUS
<1>9. Len(h) = 0
  OBVIOUS
<1>10. StreamIs(c, n, p, k, g)
  BY <1>0, <1>1, <1>2, <1>3, <1>5, <1>6, <1>7, <1>9 DEF StreamIs
<1>11. StreamWhole(n, q, h, g) => StreamWhole(n, p, k, g)
  BY <1>0, <1>1, <1>2, <1>3, <1>8, <1>9 DEF StreamWhole
<1>12. k \in Seq(Bytes)
  <2>1. \A i \in 1 .. m : q[i] \in Bytes
    BY <1>0, <1>1
  <2> QED
    BY <1>0, <2>1, SubSeqProperties
<1> QED
  BY <1>2, <1>10, <1>11, <1>12

\* A send takes the first m bytes in hand, the rest stays there.
LEMMA StreamSent ==
    ASSUME NEW c, NEW n \in Nat, NEW q \in Seq(Bytes), NEW h \in Seq(Bytes),
           NEW g \in Seq(Bytes), NEW m \in Nat, NEW k, NEW b, NEW x,
           Divides(h, m, b, k), Joins(g, b, x), StreamIs(c, n, q, h, g)
    PROVE  /\ StreamIs(c, n, q, k, x) /\ k \in Seq(Bytes)
           /\ StreamWhole(n, q, h, g) => StreamWhole(n, q, k, x)
<1>0. m <= Len(h) /\ b = SubSeq(h, 1, m) /\ k = SubSeq(h, m + 1, Len(h)) /\ x = g \o b
  BY DEF Divides, Joins
<1>1. PICK lq0 \in Nat, lh \in Nat, lg \in Nat : lq0 = Len(q) /\ lh = Len(h) /\ lg = Len(g)
  OBVIOUS
<1>2. Len(k) = lh - m /\ \A i \in 1 .. lh - m : k[i] = h[m + i]
  BY <1>0, <1>1
<1>4. b \in Seq(Bytes) /\ Len(b) = m /\ \A i \in 1 .. m : b[i] = h[i]
  <2>1. \A i \in 1 .. m : h[i] \in Bytes
    BY <1>0, <1>1
  <2> QED
    BY <1>0, <1>1, <2>1, SubSeqProperties
<1>6. /\ Len(x) = Len(g) + Len(b)
      /\ \A i \in 1 .. Len(g) + Len(b) : x[i] = IF i <= Len(g) THEN g[i] ELSE b[i - Len(g)]
  BY <1>0, <1>4, ConcatProperties
<1>7. Len(x) = lg + m /\ \A i \in 1 .. lg + m : x[i] = IF i <= lg THEN g[i] ELSE b[i - lg]
  BY <1>0, <1>1, <1>4, <1>6
<1>8. \A i \in 1 .. lh : h[i] = <<c, n - lq0 - lh + i>>
  BY <1>0, <1>1 DEF StreamIs
<1>9. PICK z \in Int : z = n - lq0 - lh
  OBVIOUS
<1>10. n - lq0 - (lh - m) = z + m
  BY <1>9
<1>11. \A i \in 1 .. lh - m : k[i] = <<c, n - lq0 - (lh - m) + i>>
  <2> SUFFICES ASSUME NEW i \in 1 .. lh - m
               PROVE  k[i] = <<c, n - lq0 - (lh - m) + i>>
    OBVIOUS
  <2>1. m + i \in 1 .. lh /\ n - lq0 - (lh - m) + i = n - lq0 - lh + (m + i)
    BY <1>0, <1>1
  <2> QED
    BY <1>2, <1>8, <2>1
<1>12. \A i \in 1 .. m : b[i] = <<c, z + i>>
  <2>1. \A i \in 1 .. m : i \in 1 .. lh
    BY <1>0, <1>1
  <2> QED
    BY <1>4, <1>8, <1>9, <2>1
<1>13. \A i \in 1 .. lg : g[i][1] = c /\ g[i][2] <= z /\ g[i][2] \in Nat
  <2>1. \A i \in 1 .. lg : g[i] \in Nat \X Nat
    BY <1>0, <1>1 DEF Bytes
  <2>2. \A i \in 1 .. lg : g[i][2] \in Nat
    BY <2>1
  <2> QED
    BY <1>0, <1>1, <1>9, <2>2 DEF StreamIs
<1>14. \A i \in 2 .. lg : g[i - 1][2] < g[i][2]
  BY <1>0, <1>1 DEF StreamIs
<1>15. ASSUME NEW i \in 1 .. lg + m
       PROVE  /\ x[i][1] = c /\ x[i][2] <= z + m /\ x[i][2] \in Int
              /\ i <= lg => x[i][2] <= z
              /\ i > lg => x[i][2] = z + (i - lg)
  <2>1. CASE i <= lg
    <3>1. x[i] = g[i] /\ i \in 1 .. lg
      BY <1>7, <2>1
    <3>2. PICK y \in Nat : y = g[i][2]
      BY <1>13, <3>1
    <3>3. y <= z
      BY <1>13, <3>1, <3>2
    <3>4. y <= z + m /\ ~(i > lg) /\ y \in Int
      BY <2>1, <3>3
    <3>5. x[i][1] = c /\ x[i][2] = y
      BY <1>13, <3>1, <3>2
    <3> QED
      BY <3>3, <3>4, <3>5
  <2>2. CASE i > lg
    <3>1. i - lg \in 1 .. m /\ ~(i <= lg)
      BY <2>2
    <3>2. x[i] = <<c, z + (i - lg)>>
      BY <1>7, <1>12, <3>1
    <3>3. z + (i - lg) <= z + m /\ z + (i - lg) \in Int
      BY <3>1
    <3>4. PICK v \in Int : v = z + (i - lg)
      OBVIOUS
    <3>5. x[i] = <<c, v>>
      BY <3>2, <3>4
    <3>6. x[i][1] = c /\ x[i][2] = v
      <4>1. PICK w : w = x[i]
        OBVIOUS
      <4>2. w = <<c, v>>
        BY <3>5, <4>1
      <4>3. w[1] = c /\ w[2] = v
        BY <4>2, PairParts, Zenon
      <4> QED
        BY <4>1, <4>3, Zenon
    <3> QED
      BY <3>1, <3>3, <3>4, <3>6
  <2>3. i <= lg \/ i > lg
    OBVIOUS
  <2> QED
    BY <2>1, <2>2, <2>3
<1>16. ASSUME NEW i \in 2 .. lg + m
       PROVE  x[i - 1][2] < x[i][2]
  <2>1. i - 1 \in 1 .. lg + m /\ i \in 1 .. lg + m
    OBVIOUS
  <2>2. PICK y \in Int, w \in Int : y = x[i - 1][2] /\ w = x[i][2]
    BY <1>15, <2>1
  <2>3. CASE i <= lg
    <3>0. i - 1 <= lg
      BY <2>3
    <3>1. x[i] = g[i] /\ x[i - 1] = g[i - 1]
      BY <1>7, <2>1, <2>3, <3>0
    <3>2. i \in 2 .. lg
      BY <2>3
    <3> QED
      BY <1>14, <3>1, <3>2
  <2>4. CASE i > lg /\ i - 1 <= lg
    <3>1. y <= z /\ w = z + (i - lg)
      BY <1>15, <2>1, <2>2, <2>4
    <3>2. y < w
      BY <3>1, <2>4
    <3> QED
      BY <2>2, <3>2
  <2>5. CASE i - 1 > lg
    <3>1. i > lg
      BY <2>5
    <3>2. y = z + ((i - 1) - lg) /\ w = z + (i - lg)
      BY <1>15, <2>1, <2>2, <2>5, <3>1
    <3>3. y < w
      BY <3>2
    <3> QED
      BY <2>2, <3>3
  <2>6. i <= lg \/ (i > lg /\ i - 1 <= lg) \/ i - 1 > lg
    OBVIOUS
  <2> QED
    BY <2>3, <2>4, <2>5, <2>6
<1>17. lq0 + (lh - m) <= n
  <2>1. lq0 + lh <= n
    BY <1>0, <1>1 DEF StreamIs
  <2> QED
    BY <2>1
<1>18. (lg + m) + (lh - m) + lq0 = lg + lh + lq0
  OBVIOUS
<1>19. \A i \in 1 .. lq0 : q[i] = <<c, n - lq0 + i>>
  BY <1>0, <1>1 DEF StreamIs
<1>20. StreamIs(c, n, q, k, x)
  BY <1>0, <1>1, <1>2, <1>7, <1>10, <1>11, <1>15, <1>16, <1>17, <1>19 DEF StreamIs
<1>21. StreamWhole(n, q, h, g) => StreamWhole(n, q, k, x)
  BY <1>0, <1>1, <1>2, <1>7, <1>18 DEF StreamWhole
<1>22. k \in Seq(Bytes)
  <2>1. \A i \in m + 1 .. lh : h[i] \in Bytes
    BY <1>0, <1>1
  <2> QED
    BY <1>0, <1>1, <2>1, SubSeqProperties
<1> QED
  BY <1>0, <1>1, <1>2, <1>20, <1>21, <1>22

-----------------------------------------------------------------------------
(* A step that changes one connection and neither accepts nor forgets it *)

\* r may follow cn[c]: a descriptor is kept or closed, an error stays known.
Kept(c, r) ==
    /\ r \in ConnStates /\ r.own = cn[c].own /\ r.accepted = cn[c].accepted
    /\ r.peer = "idle" <=> cn[c].peer = "idle"
    /\ r.fd \in {cn[c].fd, 0}
    /\ srv = "poll" /\ r.fd # cn[c].fd => cn[c].fd < FdRange
    /\ cn[c].err = "EPIPE" => r.err = "EPIPE"
    /\ r.err # "none" <=> r.peer = "rst"
    /\ r.err = "shut" => r.accepted
    /\ r.err = "shut" /\ srv \notin {"epoll", "server6"} => r.fd = 0

ConnStep(c, r) ==
    /\ c \in Clients /\ Kept(c, r)
    /\ cn' = [cn EXCEPT ![c] = r] /\ UNCHANGED <<srv, nofile>>

\* The values of cn after such a step.
LEMMA ConnStepValues ==
    ASSUME SimpleTypes, NEW c, NEW r, ConnStep(c, r)
    PROVE  /\ cn' \in [Clients -> ConnStates] /\ cn'[c] = r
           /\ \A d \in Clients : d # c => cn'[d] = cn[d]
           /\ c \in Clients /\ srv' = srv /\ nofile' = nofile
  BY DEF SimpleTypes, ConnStep, Kept

\* Descriptors stay distinct, and errors where they were.
LEMMA ConnStepConn ==
    ASSUME SimpleTypes, ConnInv, NEW c, NEW r, ConnStep(c, r)
    PROVE  ConnInv'
<1>1. /\ cn'[c] = r /\ \A d \in Clients : d # c => cn'[d] = cn[d]
      /\ c \in Clients /\ srv' = srv /\ nofile' = nofile
  BY ConnStepValues
<1>2. Kept(c, r)
  BY DEF ConnStep
<1> SUFFICES ASSUME NEW d \in Clients
             PROVE  ErrorOK(d)' /\ FdOK(d)'
  BY DEF ConnInv
<1>3. ErrorOK(d)'
  BY <1>1, <1>2 DEF ConnInv, ErrorOK, Kept
<1>4. FdOK(d)'
  <2>1. \A e \in Clients : /\ cn'[e].fd \in {cn[e].fd, 0} /\ cn'[e].own = cn[e].own
                           /\ cn'[e].accepted = cn[e].accepted
                           /\ cn'[e].peer = "idle" <=> cn[e].peer = "idle"
    BY <1>1, <1>2 DEF Kept
  <2>2. FdOK(d)
    BY DEF ConnInv
  <2> QED
    BY <1>1, <2>1, <2>2 DEF FdOK
<1> QED
  BY <1>3, <1>4

\* Queued clients stay what they are.
LEMMA ConnStepQueue ==
    ASSUME SimpleTypes, QueueInv, NEW c, NEW r, ConnStep(c, r), lq' = lq
    PROVE  QueueInv'
<1>1. /\ cn'[c] = r /\ \A d \in Clients : d # c => cn'[d] = cn[d]
      /\ Kept(c, r)
  BY ConnStepValues DEF ConnStep
<1>2. \A d \in Clients : /\ cn'[d].accepted = cn[d].accepted
                         /\ cn'[d].peer = "idle" <=> cn[d].peer = "idle"
  BY <1>1 DEF Kept
<1>3. \A t \in {0, 1} : \A i \in DOMAIN lq[t] : lq[t][i] \in Clients
  BY DEF SimpleTypes
<1> QED
  BY <1>2, <1>3 DEF QueueInv

\* The same clients are accepted, and none is refused.
LEMMA ConnStepSets ==
    ASSUME SimpleTypes, NEW c, NEW r, ConnStep(c, r)
    PROVE  /\ AcceptedClients' = AcceptedClients
           /\ srv = "poll" => ListedOnes' = ListedOnes
<1>1. /\ cn'[c] = r /\ \A d \in Clients : d # c => cn'[d] = cn[d]
      /\ Kept(c, r)
  BY ConnStepValues DEF ConnStep
<1>2. \A d \in Clients : cn'[d].accepted = cn[d].accepted
  BY <1>1 DEF Kept
<1>3. AcceptedClients' = AcceptedClients
  BY <1>2 DEF AcceptedClients
<1>4. ASSUME srv = "poll"
      PROVE  \A d \in Clients : cn'[d].fd < FdRange <=> cn[d].fd < FdRange
  <2>1. 0 < FdRange
    BY SimpleAssumption
  <2>2. cn'[c].fd < FdRange <=> cn[c].fd < FdRange
    BY <1>1, <1>4, <2>1 DEF Kept
  <2> QED
    BY <1>1, <2>2
<1>5. ASSUME srv = "poll"
      PROVE  ListedOnes' = ListedOnes
  BY <1>3, <1>4, <1>5 DEF ListedOnes, AcceptedClients
<1> QED
  BY <1>3, <1>5

\* Nothing new to die of.
LEMMA ConnStepDeath ==
    ASSUME SimpleTypes, TableInv, DeathCauses, NEW c, NEW r, ConnStep(c, r),
           UNCHANGED <<proc, sock_num>>
    PROVE  TableInv' /\ DeathCauses'
<1>1. /\ cn'[c] = r /\ \A d \in Clients : d # c => cn'[d] = cn[d]
      /\ Kept(c, r) /\ srv' = srv /\ nofile' = nofile
  BY ConnStepValues DEF ConnStep
<1>2. AcceptedClients' = AcceptedClients /\ (srv = "poll" => ListedOnes' = ListedOnes)
  BY ConnStepSets
<1>3. TableInv'
  BY <1>1, <1>2 DEF TableInv
<1>4. \A d \in Clients : cn[d].err = "EPIPE" => cn'[d].err = "EPIPE"
  BY <1>1 DEF Kept
<1>5. SigpipeNeedsHalfClose'
  BY <1>1, <1>4 DEF DeathCauses, SigpipeNeedsHalfClose
<1>6. OverrunNeedsTableFull'
  BY <1>1, <1>2 DEF DeathCauses, OverrunNeedsTableFull, ListedOnes
<1> QED
  BY <1>3, <1>5, <1>6 DEF DeathCauses

\* The array of poll, when no descriptor is closed.
LEMMA ConnStepPoll ==
    ASSUME SimpleTypes, PollInv, NEW c, NEW r, ConnStep(c, r),
           UNCHANGED <<pollfds, phandlers, proc>>, srv = "poll" => r.fd = cn[c].fd
    PROVE  PollInv'
<1>1. /\ cn'[c] = r /\ \A d \in Clients : d # c => cn'[d] = cn[d]
      /\ Kept(c, r) /\ srv' = srv
  BY ConnStepValues DEF ConnStep
<1>2. CASE srv # "poll"
  BY <1>1, <1>2 DEF PollInv
<1>3. CASE srv = "poll"
  <2>1. \A d \in Clients : cn'[d].fd = cn[d].fd
    BY <1>1, <1>3
  <2>2. ListedOnes' = ListedOnes
    BY <1>3, ConnStepSets
  <2> QED
    BY <1>1, <2>1, <2>2 DEF PollInv, SlotOK
<1> QED
  BY <1>2, <1>3

\* The lists of bench, when no descriptor is closed.
LEMMA ConnStepBench ==
    ASSUME SimpleTypes, BenchInv, NEW c, NEW r, ConnStep(c, r),
           UNCHANGED <<bufConns, evConns>>, srv = "bench" => r.fd = cn[c].fd
    PROVE  BenchInv'
<1>1. /\ cn'[c] = r /\ \A d \in Clients : d # c => cn'[d] = cn[d]
      /\ Kept(c, r) /\ srv' = srv
  BY ConnStepValues DEF ConnStep
<1>2. CASE srv # "bench"
  BY <1>1, <1>2 DEF BenchInv
<1>3. CASE srv = "bench"
  <2>1. \A d \in Clients : cn'[d].fd = cn[d].fd /\ cn'[d].own = cn[d].own
    BY <1>1, <1>3 DEF Kept
  <2> QED
    BY <1>1, <2>1 DEF BenchInv, ListedOnce
<1> QED
  BY <1>2, <1>3

\* Events keep their connections, when no descriptor is closed.
LEMMA EventsStay ==
    ASSUME SimpleTypes, ThreadInv, UNCHANGED <<srv, thr, evConns>>,
           \A d \in Clients : cn'[d].fd = cn[d].fd /\ cn'[d].own = cn[d].own
    PROVE  ThreadInv'
<1>1. \A t \in ServerThreads : \A e \in thr[t].batch : e.conn # 0 => e.conn \in Clients
  <2>1. \A t \in ServerThreads : thr[t].batch \subseteq PollEvents \cup BenchEvents
    BY DEF SimpleTypes, ServerThreadStates
  <2>2. \A e \in PollEvents \cup BenchEvents : e.conn \in ClientOrNone
    BY DEF PollEvents, BenchEvents
  <2>3. \A d \in ClientOrNone : d # 0 => d \in Clients
    BY SimpleAssumption DEF ClientOrNone, Clients
  <2> QED
    BY <2>1, <2>2, <2>3
<1>2. \A t \in ServerThreads : t # 0 => t \in Clients
  BY SimpleAssumption DEF ServerThreads, Clients
<1> SUFFICES ASSUME NEW t \in ServerThreads
             PROVE  /\ (Len(thr[t].buf) <= BufSize /\ (thr[t].pc = "send" => thr[t].buf # <<>>))'
                    /\ (IF srv \in Threaded THEN WorkerOK(t) ELSE LoopOK(t))'
  BY DEF ThreadInv
<1>3. (Len(thr[t].buf) <= BufSize /\ (thr[t].pc = "send" => thr[t].buf # <<>>))'
  BY DEF ThreadInv
<1>4. CASE srv \in Threaded
  <2>1. WorkerOK(t)
    BY <1>4 DEF ThreadInv
  <2>2. WorkerOK(t)'
    BY <1>2, <2>1 DEF WorkerOK
  <2> QED
    BY <1>3, <1>4, <2>2
<1>5. CASE srv \notin Threaded
  <2>1. LoopOK(t)
    BY <1>5 DEF ThreadInv
  <2>2. \A e \in thr[t].batch : EventOK(t, e)'
    BY <1>1, <2>1 DEF LoopOK, EventOK
  <2>3. LoopOK(t)'
    BY <2>1, <2>2 DEF LoopOK, Loops
  <2> QED
    BY <1>3, <1>5, <2>3
<1> QED
  BY <1>4, <1>5

\* The streams, when the one of c stays right with what is then in hand.
LEMMA StreamsStay ==
    ASSUME SimpleTypes, StreamInv, NEW c, NEW r, NEW h, ConnStep(c, r),
           StreamOK(c, r, h), InHand(c)' = h,
           \A d \in Clients : d # c => InHand(d)' = InHand(d)
    PROVE  StreamInv'
<1>1. /\ cn'[c] = r /\ \A d \in Clients : d # c => cn'[d] = cn[d]
      /\ srv' = srv
  BY ConnStepValues
<1> SUFFICES ASSUME NEW d \in Clients
             PROVE  StreamOK(d, cn[d], InHand(d))'
  BY DEF StreamInv
<1>2. CASE d = c
  BY <1>1, <1>2 DEF StreamOK, Promised
<1>3. CASE d # c
  <2>1. StreamOK(d, cn[d], InHand(d)) /\ cn'[d] = cn[d] /\ InHand(d)' = InHand(d)
    BY <1>1, <1>3 DEF StreamInv
  <2> QED
    BY <1>1, <2>1 DEF StreamOK, Promised
<1> QED
  BY <1>2, <1>3

\* What is in hand, as long as the threads do nothing.
LEMMA HandsStay ==
    ASSUME SimpleTypes, NEW c, NEW r, ConnStep(c, r), thr' = thr
    PROVE  \A d \in Clients : InHand(d)' = InHand(d)
<1>1. /\ cn'[c] = r /\ \A d \in Clients : d # c => cn'[d] = cn[d]
      /\ Kept(c, r)
  BY ConnStepValues DEF ConnStep
<1>2. \A d \in Clients : cn'[d].own = cn[d].own
  BY <1>1 DEF Kept
<1> QED
  BY <1>2 DEF InHand

\* The bytes in hand.
LEMMA InHandType ==
    ASSUME SimpleTypes, NEW c \in Clients
    PROVE  InHand(c) \in Seq(Bytes)
<1>1. cn[c].own \in ServerThreads
  BY DEF SimpleTypes, ConnStates
<1>2. thr[cn[c].own].buf \in Seq(Bytes)
  BY <1>1 DEF SimpleTypes, ServerThreadStates
<1>3. <<>> \in Seq(Bytes)
  OBVIOUS
<1> QED
  BY <1>2, <1>3 DEF InHand

-----------------------------------------------------------------------------
(* Clients and the kernel *)

\* A step of a connected client.
LEMMA ClientMoves ==
    ASSUME SimpleInv, NEW c, NEW r, ConnStep(c, r), r.fd = cn[c].fd,
           UNCHANGED <<thr, lq, pollfds, phandlers, bufConns, evConns, sock_num, proc>>,
           StreamOK(c, r, InHand(c))
    PROVE  SimpleInv'
<1>1. /\ cn' \in [Clients -> ConnStates] /\ cn'[c] = r
      /\ \A d \in Clients : d # c => cn'[d] = cn[d]
      /\ c \in Clients /\ srv' = srv /\ nofile' = nofile
  BY ConnStepValues DEF SimpleInv
<1>2. SimpleTypes'
  BY <1>1 DEF SimpleInv, SimpleTypes
<1>3. \A d \in Clients : InHand(d)' = InHand(d)
  BY HandsStay DEF SimpleInv
<1>4. StreamInv'
  BY <1>1, <1>3, StreamsStay DEF SimpleInv
<1>5. ThreadInv'
  <2>1. \A d \in Clients : cn'[d].fd = cn[d].fd /\ cn'[d].own = cn[d].own
    BY <1>1 DEF ConnStep, Kept
  <2> QED
    BY <1>1, <2>1, EventsStay DEF SimpleInv
<1>6. ConnInv' /\ QueueInv'
  BY ConnStepConn, ConnStepQueue DEF SimpleInv
<1>7. PollInv' /\ BenchInv'
  BY ConnStepPoll, ConnStepBench DEF SimpleInv
<1>8. TableInv' /\ DeathCauses'
  BY ConnStepDeath DEF SimpleInv
<1> QED
  BY <1>2, <1>4, <1>5, <1>6, <1>7, <1>8 DEF SimpleInv

\* A record of cn, and the facts about it.
LEMMA ConnFacts ==
    ASSUME SimpleInv, NEW c \in Clients
    PROVE  /\ cn[c] \in ConnStates /\ StreamOK(c, cn[c], InHand(c))
           /\ cn[c].sent \in Nat /\ cn[c].inq \in Seq(Bytes) /\ cn[c].got \in Seq(Bytes)
           /\ InHand(c) \in Seq(Bytes) /\ Sends[c] \in Nat /\ c \in Nat \ {0}
           /\ ErrorOK(c) /\ FdOK(c)
<1>1. cn[c] \in ConnStates
  BY DEF SimpleInv, SimpleTypes
<1>2. cn[c].sent \in Nat /\ cn[c].inq \in Seq(Bytes) /\ cn[c].got \in Seq(Bytes)
  BY <1>1 DEF ConnStates
<1>3. Sends \in Seq(Nat) /\ c \in DOMAIN Sends
  BY SimpleAssumption DEF Clients
<1>4. Sends[c] \in Nat /\ c \in Nat \ {0}
  BY <1>3
<1> QED
  BY <1>1, <1>2, <1>4, InHandType DEF SimpleInv, StreamInv, ConnInv

\* The client sends a byte.
LEMMA ClientSendKeeps ==
    ASSUME SimpleInv, NEW c \in Clients, ClientSend(c), UNCHANGED <<srv, nofile>>
    PROVE  SimpleInv'
<1>1. /\ cn[c] \in ConnStates /\ StreamOK(c, cn[c], InHand(c))
      /\ cn[c].sent \in Nat /\ cn[c].inq \in Seq(Bytes) /\ cn[c].got \in Seq(Bytes)
      /\ InHand(c) \in Seq(Bytes) /\ Sends[c] \in Nat /\ c \in Nat \ {0} /\ ErrorOK(c)
  BY ConnFacts
<1>2. PICK n \in Nat, q \in Seq(Bytes), h \in Seq(Bytes), g \in Seq(Bytes), m \in Nat :
         n = cn[c].sent /\ q = cn[c].inq /\ h = InHand(c) /\ g = cn[c].got /\ m = Sends[c]
  BY <1>1
<1>3. n < m /\ StreamIs(c, n, q, h, g)
  BY <1>1, <1>2 DEF ClientSend, StreamOK
<1>4. PICK p : p = Append(q, <<c, n + 1>>)
  OBVIOUS
<1>5. p \in Seq(Bytes)
  <2>1. <<c, n + 1>> \in Bytes
    BY <1>1 DEF Bytes
  <2> QED
    BY <1>4, <2>1
<1>6. /\ StreamIs(c, n + 1, p, h, g)
      /\ StreamWhole(n, q, h, g) => StreamWhole(n + 1, p, h, g)
  BY <1>3, <1>4, <1>5, StreamClientSends
<1>7. PICK n1 \in Nat : n1 = n + 1
  OBVIOUS
<1>8. PICK r : r = [cn[c] EXCEPT !.sent = n1, !.inq = p]
  OBVIOUS
<1>9. /\ r \in ConnStates /\ r.sent = n1 /\ r.inq = p /\ r.peer = cn[c].peer /\ r.err = cn[c].err
      /\ r.fd = cn[c].fd /\ r.own = cn[c].own /\ r.accepted = cn[c].accepted
      /\ r.got = cn[c].got /\ r.full = cn[c].full
  BY <1>1, <1>5, <1>8 DEF ConnStates
<1>10. cn' = [cn EXCEPT ![c] = r]
  <2>1. cn \in [Clients -> ConnStates]
    BY DEF SimpleInv, SimpleTypes
  <2> QED
    BY <2>1, <1>2, <1>4, <1>7, <1>8 DEF ClientSend, ConnStates
<1>11. Kept(c, r)
  BY <1>1, <1>9 DEF Kept, ErrorOK, ClientSend
<1>12. StreamOK(c, r, InHand(c))
  <2>1. n1 <= m
    BY <1>3, <1>7
  <2>2. Promised(r) <=> Promised(cn[c])
    BY <1>9 DEF Promised
  <2>3. Promised(cn[c]) => StreamWhole(n, q, h, g)
    BY <1>1, <1>2 DEF StreamOK
  <2> QED
    BY <1>2, <1>6, <1>7, <1>9, <2>1, <2>2, <2>3 DEF StreamOK
<1> QED
  BY <1>9, <1>10, <1>11, <1>12, ClientMoves DEF ConnStep, ClientSend

\* A connection keeps its stream when no more is promised of it.
LEMMA StreamSame ==
    ASSUME NEW c, NEW q, NEW r, NEW h, StreamOK(c, q, h),
           r.sent = q.sent, r.inq = q.inq, r.got = q.got, Promised(r) => Promised(q)
    PROVE  StreamOK(c, r, h)
  BY DEF StreamOK

\* The client reads, ends its stream or resets.
LEMMA ClientOtherKeeps ==
    ASSUME SimpleInv, NEW c \in Clients, ClientRead(c) \/ ClientFin(c) \/ ClientReset(c),
           UNCHANGED <<srv, nofile>>
    PROVE  SimpleInv'
<1>1. cn[c] \in ConnStates /\ StreamOK(c, cn[c], InHand(c)) /\ ErrorOK(c) /\ FdOK(c)
  BY ConnFacts
<1>2. cn \in [Clients -> ConnStates]
  BY DEF SimpleInv, SimpleTypes
<1>3. CASE ClientRead(c)
  <2>0. 0 \in 0 .. SndCap
    BY SimpleAssumption
  <2>1. PICK r : r = [cn[c] EXCEPT !.unread = 0]
    OBVIOUS
  <2>2. /\ r \in ConnStates /\ r.sent = cn[c].sent /\ r.inq = cn[c].inq /\ r.peer = cn[c].peer
        /\ r.err = cn[c].err /\ r.fd = cn[c].fd /\ r.own = cn[c].own
        /\ r.accepted = cn[c].accepted /\ r.got = cn[c].got /\ r.full = cn[c].full
    BY <1>1, <2>0, <2>1 DEF ConnStates
  <2>3. cn' = [cn EXCEPT ![c] = r]
    BY <1>2, <1>3, <2>1 DEF ClientRead
  <2>4. Kept(c, r)
    BY <1>1, <2>2 DEF Kept, ErrorOK
  <2>5. StreamOK(c, r, InHand(c))
    BY <1>1, <2>2, StreamSame DEF Promised
  <2> QED
    BY <1>3, <2>2, <2>3, <2>4, <2>5, ClientMoves DEF ConnStep, ClientRead
<1>4. CASE ClientFin(c)
  <2>1. PICK r : r = [cn[c] EXCEPT !.peer = "fin"]
    OBVIOUS
  <2>2. /\ r \in ConnStates /\ r.sent = cn[c].sent /\ r.inq = cn[c].inq /\ r.peer = "fin"
        /\ r.err = cn[c].err /\ r.fd = cn[c].fd /\ r.own = cn[c].own
        /\ r.accepted = cn[c].accepted /\ r.got = cn[c].got /\ r.full = cn[c].full
    BY <1>1, <2>1 DEF ConnStates
  <2>3. cn' = [cn EXCEPT ![c] = r] /\ cn[c].peer = "open"
    BY <1>2, <1>4, <2>1 DEF ClientFin
  <2>4. Kept(c, r)
    BY <1>1, <2>2, <2>3 DEF Kept, ErrorOK
  <2>5. StreamOK(c, r, InHand(c))
    BY <1>1, <2>2, <2>3, StreamSame DEF Promised
  <2> QED
    BY <1>4, <2>2, <2>3, <2>4, <2>5, ClientMoves DEF ConnStep, ClientFin
<1>5. CASE ClientReset(c)
  <2>1. PICK x \in {"EPIPE", "ECONNRESET"} : x = IF cn[c].peer = "fin" THEN "EPIPE" ELSE "ECONNRESET"
    OBVIOUS
  <2>2. PICK r : r = [cn[c] EXCEPT !.peer = "rst", !.err = x]
    OBVIOUS
  <2>3. /\ r \in ConnStates /\ r.sent = cn[c].sent /\ r.inq = cn[c].inq /\ r.peer = "rst"
        /\ r.err = x /\ r.fd = cn[c].fd /\ r.own = cn[c].own
        /\ r.accepted = cn[c].accepted /\ r.got = cn[c].got /\ r.full = cn[c].full
    BY <1>1, <2>2 DEF ConnStates, Errors
  <2>4. cn' = [cn EXCEPT ![c] = r] /\ cn[c].peer \in {"open", "fin"}
    BY <1>2, <1>5, <2>1, <2>2 DEF ClientReset, ConnStates
  <2>5. Kept(c, r)
    BY <1>1, <2>1, <2>3, <2>4 DEF Kept, ErrorOK
  <2>6. StreamOK(c, r, InHand(c))
    BY <1>1, <2>3, StreamSame DEF Promised
  <2> QED
    BY <1>5, <2>3, <2>4, <2>5, <2>6, ClientMoves DEF ConnStep, ClientReset
<1> QED
  BY <1>3, <1>4, <1>5

\* Clients are finitely many.
LEMMA SetsFinite ==
    ASSUME NEW S \in SUBSET Clients
    PROVE  IsFiniteSet(S) /\ Cardinality(S) \in Nat
<1>1. Sends \in Seq(Nat) /\ Len(Sends) \in Nat
  BY SimpleAssumption
<1>2. Clients = 1 .. Len(Sends)
  BY <1>1 DEF Clients
<1>3. IsFiniteSet(Clients)
  BY <1>1, <1>2, FS_Interval
<1>4. IsFiniteSet(S)
  BY <1>3, FS_Subset
<1> QED
  BY <1>4, FS_CardinalityType

\* A client that arrives.
LEMMA ConnectKeeps ==
    ASSUME SimpleInv, NEW c \in Clients, NEW t \in {0, 1}, Connect(c, t),
           UNCHANGED <<srv, nofile>>
    PROVE  SimpleInv'
<1>1. cn[c] \in ConnStates /\ StreamOK(c, cn[c], InHand(c)) /\ ErrorOK(c) /\ FdOK(c)
  BY ConnFacts
<1>2. cn \in [Clients -> ConnStates] /\ lq \in [{0, 1} -> Seq(Clients)]
  BY DEF SimpleInv, SimpleTypes
<1>3. PICK r : r = [cn[c] EXCEPT !.peer = "open"]
  OBVIOUS
<1>4. /\ r \in ConnStates /\ r.sent = cn[c].sent /\ r.inq = cn[c].inq /\ r.peer = "open"
      /\ r.err = cn[c].err /\ r.fd = cn[c].fd /\ r.own = cn[c].own
      /\ r.accepted = cn[c].accepted /\ r.got = cn[c].got /\ r.full = cn[c].full
  BY <1>1, <1>3 DEF ConnStates
<1>5. cn' = [cn EXCEPT ![c] = r] /\ cn[c].peer = "idle"
  BY <1>2, <1>3 DEF Connect
<1>6. PICK l \in Seq(Clients) : l = lq[t]
  BY <1>2
<1>7. lq' = [lq EXCEPT ![t] = Append(l, c)]
  BY <1>6 DEF Connect
<1>8. /\ cn' \in [Clients -> ConnStates] /\ cn'[c] = r
      /\ \A d \in Clients : d # c => cn'[d] = cn[d]
  BY <1>2, <1>4, <1>5
<1>9. /\ UNCHANGED <<thr, pollfds, phandlers, bufConns, evConns, sock_num, proc>>
      /\ UNCHANGED <<srv, nofile>>
  BY DEF Connect
<1>10. \A d \in Clients : /\ cn'[d].fd = cn[d].fd /\ cn'[d].own = cn[d].own
                          /\ cn'[d].accepted = cn[d].accepted /\ cn'[d].err = cn[d].err
                          /\ cn[d].peer # "idle" => cn'[d].peer # "idle"
  BY <1>4, <1>8
<1>11. SimpleTypes'
  <2>1. lq' \in [{0, 1} -> Seq(Clients)]
    BY <1>2, <1>6, <1>7
  <2> QED
    BY <1>8, <1>9, <2>1 DEF SimpleInv, SimpleTypes
<1>12. StreamInv'
  <2>1. \A d \in Clients : InHand(d)' = InHand(d)
    BY <1>9, <1>10 DEF InHand
  <2>2. StreamOK(c, r, InHand(c))
    BY <1>1, <1>4, <1>5, StreamSame DEF Promised
  <2> SUFFICES ASSUME NEW d \in Clients
               PROVE  StreamOK(d, cn[d], InHand(d))'
    BY DEF StreamInv
  <2>3. StreamOK(d, cn'[d], InHand(d))
    <3>1. CASE d = c
      BY <1>8, <2>2, <3>1
    <3>2. CASE d # c
      BY <1>8, <3>2 DEF SimpleInv, StreamInv
    <3> QED
      BY <3>1, <3>2
  <2> QED
    BY <1>9, <2>1, <2>3 DEF StreamOK, Promised
<1>13. ConnInv'
  <2> SUFFICES ASSUME NEW d \in Clients
               PROVE  ErrorOK(d)' /\ FdOK(d)'
    BY DEF ConnInv
  <2>1. ErrorOK(d) /\ FdOK(d)
    BY DEF SimpleInv, ConnInv
  <2>2. ErrorOK(d)'
    BY <1>1, <1>4, <1>5, <1>8, <1>9, <2>1 DEF ErrorOK
  <2>3. FdOK(d)'
    BY <1>9, <1>10, <2>1 DEF FdOK
  <2> QED
    BY <2>2, <2>3
<1>14. QueueInv'
  <2>1. \A u \in {0, 1} : \A i \in DOMAIN lq[u] :
           /\ lq[u][i] \in Clients /\ lq[u][i] # c
           /\ cn[lq[u][i]].peer # "idle" /\ ~cn[lq[u][i]].accepted
           /\ \A v \in {0, 1} : \A j \in DOMAIN lq[v] : lq[v][j] = lq[u][i] => v = u /\ j = i
    BY <1>2, <1>5 DEF SimpleInv, QueueInv
  <2>2. cn'[c].peer # "idle" /\ ~cn'[c].accepted
    BY <1>1, <1>4, <1>5, <1>8 DEF FdOK
  <2>3. /\ \A u \in {0, 1} : u # t => lq'[u] = lq[u]
        /\ DOMAIN lq'[t] = 1 .. Len(l) + 1 /\ lq'[t][Len(l) + 1] = c
        /\ DOMAIN lq[t] = 1 .. Len(l) /\ Len(l) \in Nat
        /\ \A i \in 1 .. Len(l) : lq'[t][i] = lq[t][i]
    BY <1>2, <1>6, <1>7
  <2>4. \A u \in {0, 1} : \A i \in DOMAIN lq'[u] :
           \/ (i \in DOMAIN lq[u] /\ lq'[u][i] = lq[u][i])
           \/ (u = t /\ i = Len(l) + 1 /\ lq'[u][i] = c)
    BY <2>3
  <2>5. ASSUME NEW u \in {0, 1}, NEW i \in DOMAIN lq'[u]
        PROVE  cn'[lq'[u][i]].peer # "idle" /\ ~cn'[lq'[u][i]].accepted
    BY <1>10, <2>1, <2>2, <2>4
  <2>6. ASSUME NEW u \in {0, 1}, NEW i \in DOMAIN lq'[u], NEW v \in {0, 1},
               NEW j \in DOMAIN lq'[v], lq'[v][j] = lq'[u][i]
        PROVE  v = u /\ j = i
    BY <2>1, <2>4, <2>6
  <2> QED
    BY <2>5, <2>6 DEF QueueInv
<1>15. ThreadInv'
  BY <1>9, <1>10, EventsStay DEF SimpleInv
<1>16. AcceptedClients' = AcceptedClients /\ ListedOnes' = ListedOnes
  BY <1>10 DEF AcceptedClients, ListedOnes
<1>17. PollInv'
  BY <1>9, <1>10, <1>16 DEF SimpleInv, PollInv, SlotOK
<1>18. BenchInv'
  BY <1>9, <1>10 DEF SimpleInv, BenchInv, ListedOnce
<1>19. TableInv'
  BY <1>9, <1>16 DEF SimpleInv, TableInv
<1>20. DeathCauses'
  <2>1. SigpipeNeedsHalfClose'
    BY <1>9, <1>10 DEF SimpleInv, DeathCauses, SigpipeNeedsHalfClose
  <2>2. OverrunNeedsTableFull'
    BY <1>9, <1>16 DEF SimpleInv, DeathCauses, OverrunNeedsTableFull, ListedOnes
  <2> QED
    BY <2>1, <2>2 DEF DeathCauses
<1> QED
  BY <1>11, <1>12, <1>13, <1>14, <1>15, <1>17, <1>18, <1>19, <1>20 DEF SimpleInv

-----------------------------------------------------------------------------
(* Threads *)

\* A thread that sends owns the open connection it sends to.
LEMMA Sender ==
    ASSUME SimpleInv, NEW t \in ServerThreads, thr[t].pc = "send"
    PROVE  /\ thr[t].at \in Clients /\ cn[thr[t].at].fd # 0 /\ cn[thr[t].at].own = t
           /\ InHand(thr[t].at) = thr[t].buf /\ thr[t].buf # <<>> /\ thr[t].buf \in Seq(Bytes)
           /\ srv = "poll" => cn[thr[t].at].fd < FdRange
<1>1. /\ thr[t].at \in ClientOrNone /\ thr[t].buf \in Seq(Bytes)
      /\ \A d \in ClientOrNone : d # 0 => d \in Clients
  <2>1. thr[t] \in ServerThreadStates
    BY DEF SimpleInv, SimpleTypes
  <2>2. \A d \in ClientOrNone : d # 0 => d \in Clients
    BY ONLY SimpleAssumption DEF ClientOrNone, Clients
  <2> QED
    BY ONLY <2>1, <2>2 DEF ServerThreadStates
<1>2. /\ thr[t].at \in Clients /\ cn[thr[t].at].fd # 0 /\ cn[thr[t].at].own = t
      /\ srv = "poll" => cn[thr[t].at].fd < FdRange
  <2>1. CASE srv \in Threaded
    <3>1. WorkerOK(t)
      BY <2>1 DEF SimpleInv, ThreadInv
    <3>2. t # 0 /\ cn[t].fd # 0 /\ thr[t].at = t
      BY <3>1 DEF WorkerOK
    <3>3. t \in Clients
      BY <1>1, <3>2
    <3>4. FdOK(t)
      BY <3>3 DEF SimpleInv, ConnInv
    <3> QED
      BY <2>1, <3>2, <3>3, <3>4 DEF FdOK, Threaded
  <2>2. CASE srv \notin Threaded
    <3>1. LoopOK(t)
      BY <2>2 DEF SimpleInv, ThreadInv
    <3>2. PICK e \in thr[t].batch : e.conn = thr[t].at
      BY <3>1 DEF LoopOK
    <3>3. thr[t].at # 0 /\ EventOK(t, e)
      BY <3>1 DEF LoopOK
    <3> QED
      BY <1>1, <3>2, <3>3 DEF EventOK
  <2> QED
    BY <2>1, <2>2
<1> QED
  BY <1>1, <1>2 DEF InHand, SimpleInv, ThreadInv

\* Nothing is in hand of a connection that is not open.
LEMMA NoHand ==
    ASSUME SimpleInv, NEW c \in Clients, cn[c].fd = 0
    PROVE  InHand(c) = <<>> /\ \A t \in ServerThreads : ~(thr[t].pc = "send" /\ thr[t].at = c)
<1>1. \A t \in ServerThreads : ~(thr[t].pc = "send" /\ thr[t].at = c)
  BY Sender
<1>2. cn[c].own \in ServerThreads
  BY DEF SimpleInv, SimpleTypes, ConnStates
<1> QED
  BY <1>1, <1>2 DEF InHand

\* A step of t for c leaves what is in hand of the others.
LEMMA OtherHands ==
    ASSUME SimpleInv, NEW t \in ServerThreads, NEW s, NEW c,
           thr'[t] = s, \A u \in ServerThreads : u # t => thr'[u] = thr[u],
           \A d \in Clients : d # c => cn'[d].own = cn[d].own,
           thr[t].pc = "send" => thr[t].at = c, s.pc = "send" => s.at = c
    PROVE  \A d \in Clients : d # c => InHand(d)' = InHand(d)
<1>1. thr'[t] = s /\ \A u \in ServerThreads : u # t => thr'[u] = thr[u]
  OBVIOUS
<1>2. \A d \in Clients : cn[d].own \in ServerThreads
  BY DEF SimpleInv, SimpleTypes, ConnStates
<1> QED
  BY <1>1, <1>2 DEF InHand

\* What a thread does, its events and buffer included.
ThreadOK(t) ==
    /\ Len(thr[t].buf) <= BufSize /\ (thr[t].pc = "send" => thr[t].buf # <<>>)
    /\ IF srv \in Threaded THEN WorkerOK(t) ELSE LoopOK(t)

\* The connections of events.
LEMMA EventTypes ==
    ASSUME SimpleTypes
    PROVE  \A t \in ServerThreads : \A e \in thr[t].batch :
              /\ e \in PollEvents \cup BenchEvents /\ e.conn \in ClientOrNone /\ e.fd \in 0 .. NFds
              /\ e.conn # 0 => e.conn \in Clients
<1>1. \A t \in ServerThreads : thr[t].batch \subseteq PollEvents \cup BenchEvents
  BY DEF SimpleTypes, ServerThreadStates
<1>2. \A e \in PollEvents \cup BenchEvents : e.conn \in ClientOrNone /\ e.fd \in 0 .. NFds
  BY DEF PollEvents, BenchEvents
<1>3. \A d \in ClientOrNone : d # 0 => d \in Clients
  BY SimpleAssumption DEF ClientOrNone, Clients
<1> QED
  BY <1>1, <1>2, <1>3

\* A thread that does nothing, and whose connections and entries stay.
LEMMA ThreadStays ==
    ASSUME SimpleInv, NEW t \in ServerThreads, srv' = srv, thr'[t] = thr[t],
           \A d \in Clients : cn[d].fd # 0 /\ cn[d].own = t
              => cn'[d].fd = cn[d].fd /\ cn'[d].own = cn[d].own,
           srv = "bench" /\ t \in {0, 1} => \A i \in DOMAIN evConns[t] :
              i \in DOMAIN evConns'[t] /\ evConns'[t][i] = evConns[t][i]
    PROVE  ThreadOK(t)'
<1>1. \A e \in thr[t].batch : e.conn # 0 => e.conn \in Clients
  BY EventTypes DEF SimpleInv
<1>2. t # 0 => t \in Clients
  BY SimpleAssumption DEF ServerThreads, Clients
<1>3. (Len(thr[t].buf) <= BufSize /\ (thr[t].pc = "send" => thr[t].buf # <<>>))'
  BY DEF SimpleInv, ThreadInv
<1>4. CASE srv \in Threaded
  <2>1. WorkerOK(t)
    BY <1>4 DEF SimpleInv, ThreadInv
  <2>2. t # 0 /\ cn[t].fd # 0 => cn[t].own = t
    BY <1>2, <1>4, ConnFacts DEF FdOK
  <2>3. WorkerOK(t)'
    BY <1>2, <2>1, <2>2 DEF WorkerOK
  <2> QED
    BY <1>3, <1>4, <2>3 DEF ThreadOK
<1>5. CASE srv \notin Threaded
  <2>1. LoopOK(t)
    BY <1>5 DEF SimpleInv, ThreadInv
  <2>2. ASSUME NEW e \in thr[t].batch
        PROVE  EventOK(t, e)'
    <3>1. EventOK(t, e) /\ t \in {0, 1}
      BY <2>1 DEF LoopOK
    <3> QED
      BY <1>1, <3>1 DEF EventOK
  <2>3. LoopOK(t)'
    BY <2>1, <2>2 DEF LoopOK, Loops
  <2> QED
    BY <1>3, <1>5, <2>3 DEF ThreadOK
<1> QED
  BY <1>4, <1>5

\* The thread is done with event e.
LEMMA NextEventState ==
    ASSUME SimpleTypes, NEW t \in ServerThreads, NEW e, NextEvent(t, e)
    PROVE  \E s \in ServerThreadStates :
              /\ thr' = [thr EXCEPT ![t] = s]
              /\ s.batch = thr[t].batch \ {e} /\ s.at = 0 /\ s.buf = <<>>
              /\ s.pc = IF thr[t].batch \subseteq {e} THEN "wait" ELSE "loop"
<1>1. thr[t] \in ServerThreadStates
  BY DEF SimpleTypes
<1>2. PICK b \in SUBSET (PollEvents \cup BenchEvents) : b = thr[t].batch \ {e}
  BY <1>1 DEF ServerThreadStates
<1>3. PICK w \in {"wait", "loop"} : w = IF thr[t].batch \subseteq {e} THEN "wait" ELSE "loop"
  OBVIOUS
<1>4. PICK s : s = [thr[t] EXCEPT !.batch = b, !.at = 0, !.buf = <<>>, !.pc = w]
  OBVIOUS
<1>5. 0 \in ClientOrNone /\ <<>> \in Seq(Bytes)
  BY SimpleAssumption DEF ClientOrNone
<1>6. s \in ServerThreadStates /\ s.batch = b /\ s.at = 0 /\ s.buf = <<>> /\ s.pc = w
  BY <1>1, <1>2, <1>3, <1>4, <1>5 DEF ServerThreadStates
<1>7. thr' = [thr EXCEPT ![t] = s]
  BY <1>1, <1>2, <1>3, <1>4 DEF NextEvent, SimpleTypes, ServerThreadStates
<1> QED
  BY <1>2, <1>3, <1>6, <1>7

\* Its other events are as right as before.
LEMMA NextEventOK ==
    ASSUME SimpleInv, NEW t \in {0, 1}, t \in ServerThreads, srv \notin Threaded, srv' = srv,
           NEW e \in thr[t].batch, NextEvent(t, e),
           \A d \in Clients : cn[d].fd # 0 /\ cn[d].own = t /\ d # e.conn
              => cn'[d].fd = cn[d].fd /\ cn'[d].own = cn[d].own,
           srv = "bench" => \A i \in DOMAIN evConns[t] : evConns[t][i] # e.conn =>
              i \in DOMAIN evConns'[t] /\ evConns'[t][i] = evConns[t][i]
    PROVE  ThreadOK(t)'
<1>1. PICK s \in ServerThreadStates :
              /\ thr' = [thr EXCEPT ![t] = s]
              /\ s.batch = thr[t].batch \ {e} /\ s.at = 0 /\ s.buf = <<>>
              /\ s.pc = IF thr[t].batch \subseteq {e} THEN "wait" ELSE "loop"
  BY NextEventState DEF SimpleInv
<1>2. thr'[t] = s
  BY <1>1 DEF SimpleInv, SimpleTypes
<1>3. Len(s.buf) <= BufSize /\ s.pc # "send"
  <2>1. Len(s.buf) = 0
    BY <1>1
  <2> QED
    BY <1>1, <2>1, SimpleAssumption
<1>4. LoopOK(t)
  BY DEF SimpleInv, ThreadInv
<1>5. ASSUME NEW g \in s.batch
      PROVE  EventOK(t, g)'
  <2>1. g \in thr[t].batch /\ EventOK(t, g) /\ g.conn # e.conn
    BY <1>1, <1>4 DEF LoopOK, EventOK
  <2>2. g.conn # 0 => g.conn \in Clients
    BY <2>1, EventTypes DEF SimpleInv
  <2>3. \A f \in s.batch : f \in thr[t].batch
    BY <1>1
  <2> QED
    BY <1>2, <2>1, <2>2, <2>3 DEF EventOK
<1>6. t \in Loops
  BY <1>4 DEF LoopOK
<1>7. LoopOK(t)'
  <2>1. s.pc \notin {"loop", "send"} => s.batch = {}
    BY <1>1
  <2> QED
    BY <1>1, <1>2, <1>3, <1>5, <1>6, <2>1 DEF LoopOK, Loops
<1> QED
  BY <1>2, <1>3, <1>7 DEF ThreadOK

\* The threads, when all but t stay.
LEMMA ThreadsStep ==
    ASSUME SimpleInv, NEW t \in ServerThreads, srv' = srv, ThreadOK(t)',
           \A u \in ServerThreads : u # t => thr'[u] = thr[u],
           \A d \in Clients : cn[d].fd # 0 /\ cn[d].own # t
              => cn'[d].fd = cn[d].fd /\ cn'[d].own = cn[d].own,
           srv = "bench" => \A u \in {0, 1} : u # t => \A i \in DOMAIN evConns[u] :
              i \in DOMAIN evConns'[u] /\ evConns'[u][i] = evConns[u][i]
    PROVE  ThreadInv'
<1>1. ASSUME NEW u \in ServerThreads, u # t
      PROVE  ThreadOK(u)'
  BY <1>1, ThreadStays
<1> QED
  BY <1>1 DEF ThreadInv, ThreadOK

\* Nothing but threads and tables changes.
LEMMA SameConns ==
    ASSUME SimpleInv, UNCHANGED <<srv, nofile, cn, lq, sock_num, proc>>
    PROVE  ConnInv' /\ QueueInv' /\ TableInv' /\ DeathCauses'
<1>1. ConnInv'
  BY DEF SimpleInv, ConnInv, ErrorOK, FdOK
<1>2. QueueInv'
  BY DEF SimpleInv, QueueInv
<1>3. TableInv'
  BY DEF SimpleInv, TableInv, AcceptedClients
<1>4. DeathCauses'
  BY DEF SimpleInv, DeathCauses, SigpipeNeedsHalfClose, OverrunNeedsTableFull, AcceptedClients
<1> QED
  BY <1>1, <1>2, <1>3, <1>4

\* Streams, when connections and hands stay.
LEMMA SameStreams ==
    ASSUME SimpleInv, srv' = srv, cn' = cn, \A d \in Clients : InHand(d)' = InHand(d)
    PROVE  StreamInv'
<1> SUFFICES ASSUME NEW d \in Clients
             PROVE  StreamOK(d, cn[d], InHand(d))'
  BY DEF StreamInv
<1>1. StreamOK(d, cn[d], InHand(d)) /\ InHand(d)' = InHand(d)
  BY DEF SimpleInv, StreamInv
<1> QED
  BY <1>1 DEF StreamOK, Promised

\* A thread that neither starts nor ends a send.
LEMMA SameHands ==
    ASSUME SimpleInv, NEW t \in ServerThreads, NEW s, thr' = [thr EXCEPT ![t] = s],
           \A d \in Clients : cn'[d].own = cn[d].own, thr[t].pc # "send", s.pc # "send"
    PROVE  \A d \in Clients : InHand(d)' = InHand(d)
<1>1. thr'[t] = s /\ \A u \in ServerThreads : u # t => thr'[u] = thr[u]
  BY DEF SimpleInv, SimpleTypes
<1>2. \A d \in Clients : cn[d].own \in ServerThreads
  BY DEF SimpleInv, SimpleTypes, ConnStates
<1> QED
  BY <1>1, <1>2 DEF InHand

\* Only t goes on.
LEMMA OnlyThread ==
    ASSUME SimpleInv, NEW t \in ServerThreads, NEW s \in ServerThreadStates,
           thr' = [thr EXCEPT ![t] = s], thr[t].pc # "send", s.pc # "send", ThreadOK(t)',
           UNCHANGED <<srv, nofile, cn, lq, pollfds, phandlers, bufConns, evConns, sock_num, proc>>
    PROVE  SimpleInv'
<1>1. SimpleTypes'
  BY DEF SimpleInv, SimpleTypes
<1>2. StreamInv'
  BY SameHands, SameStreams
<1>3. ThreadInv'
  <2>1. \A u \in ServerThreads : u # t => thr'[u] = thr[u]
    BY DEF SimpleInv, SimpleTypes
  <2> QED
    BY <2>1, ThreadsStep
<1>4. PollInv'
  BY DEF SimpleInv, PollInv, SlotOK, ListedOnes, AcceptedClients
<1>5. BenchInv'
  BY DEF SimpleInv, BenchInv, ListedOnce
<1> QED
  BY <1>1, <1>2, <1>3, <1>4, <1>5, SameConns DEF SimpleInv

\* Two loops at most.
LEMMA LoopsAreThreads ==
    ASSUME NEW t \in {0, 1}
    PROVE  t \in ServerThreads
  BY SimpleAssumption DEF ServerThreads

\* epoll_wait and poll return events.
LEMMA LoopWaitKeeps ==
    ASSUME SimpleInv, NEW t \in {0, 1}, LoopWait(t), srv \notin Threaded, srv # "bench",
           UNCHANGED <<srv, nofile>>
    PROVE  SimpleInv'
<1>1. t \in ServerThreads
  BY LoopsAreThreads
<1>2. thr[t] \in ServerThreadStates /\ thr \in [ServerThreads -> ServerThreadStates]
  BY <1>1 DEF SimpleInv, SimpleTypes
<1>3. LoopOK(t) /\ Len(thr[t].buf) <= BufSize
  BY <1>1 DEF SimpleInv, ThreadInv
<1>4. \A c \in Clients : cn[c].fd \in 0 .. NFds /\ c \in ClientOrNone /\ c # 0
  <2>1. \A c \in Clients : c \in ClientOrNone /\ c # 0
    BY SimpleAssumption DEF Clients, ClientOrNone
  <2> QED
    BY <2>1 DEF SimpleInv, SimpleTypes, ConnStates
<1>5. \A e \in Pending(t) : /\ e \in PollEvents
                            /\ e.fd = (IF e.conn = 0 THEN 0 ELSE cn[e.conn].fd)
                            /\ e.conn # 0 => /\ e.conn \in Clients /\ cn[e.conn].fd # 0
                                             /\ cn[e.conn].own = t
                                             /\ srv = "poll" => cn[e.conn].fd < FdRange
  <2>1. ASSUME NEW c \in Clients
        PROVE  Event(c) \in PollEvents /\ Event(c).conn = c /\ Event(c).fd = cn[c].fd
    BY <1>4 DEF Event, PollEvents
  <2>2. Event(0) \in PollEvents /\ Event(0).conn = 0 /\ Event(0).fd = 0
    BY SimpleAssumption DEF Event, PollEvents, ClientOrNone
  <2>3. \A e \in Pending(t) : e = Event(0) \/ \E c \in Watched(t) : e = Event(c)
    BY DEF Pending
  <2>4. ASSUME NEW c \in Watched(t)
        PROVE  /\ c \in Clients /\ cn[c].fd # 0 /\ cn[c].own = t
               /\ srv = "poll" => cn[c].fd < FdRange
    <3>1. /\ c \in Clients /\ cn[c].fd # 0 /\ cn[c].own = t
          /\ srv = "poll" => cn[c].fd \in Range(pollfds)
      BY DEF Watched
    <3>2. CASE srv = "poll"
      <4>1. PICK n \in Nat : n = Len(pollfds) /\ DOMAIN pollfds = 1 .. n
        BY DEF SimpleInv, SimpleTypes
      <4>2. PICK i \in 1 .. n : pollfds[i] = cn[c].fd
        BY <3>1, <3>2, <4>1 DEF Range
      <4>3. pollfds[1] = 0 /\ \A j \in 2 .. n : SlotOK(pollfds[j])
        BY <3>2, <4>1 DEF SimpleInv, PollInv, LoopWait
      <4>4. i \in 2 .. n
        BY <3>1, <4>2, <4>3
      <4>5. cn[c].fd # -1
        BY <1>4, <3>1
      <4> QED
        BY <3>1, <4>2, <4>3, <4>4, <4>5 DEF SlotOK
    <3> QED
      BY <3>1, <3>2
  <2> QED
    BY <1>4, <2>1, <2>2, <2>3, <2>4
<1>6. \A e, g \in Pending(t) : e.conn = g.conn => e = g
  <2>1. \A e, g \in PollEvents : e.conn = g.conn /\ e.fd = g.fd => e = g
    BY DEF PollEvents
  <2> QED
    BY <1>5, <2>1
<1>7. PICK b \in SUBSET (PollEvents \cup BenchEvents) : b = Pending(t)
  BY <1>5
<1>8. PICK s : s = [thr[t] EXCEPT !.pc = "loop", !.batch = b]
  OBVIOUS
<1>9. s \in ServerThreadStates /\ s.pc = "loop" /\ s.batch = b /\ s.at = thr[t].at /\ s.buf = thr[t].buf
  BY <1>2, <1>7, <1>8 DEF ServerThreadStates
<1>10. thr' = [thr EXCEPT ![t] = s] /\ thr[t].pc = "wait"
  BY <1>1, <1>2, <1>7, <1>8 DEF LoopWait, ServerThreadStates
<1>11. thr'[t] = s
  BY <1>1, <1>2, <1>10
<1>12. ASSUME NEW e \in b
       PROVE  EventOK(t, e)'
  BY <1>5, <1>6, <1>7, <1>9, <1>11 DEF EventOK, LoopWait
<1>13. t \in Loops /\ thr[t].at = 0
  BY <1>3, <1>10 DEF LoopOK
<1>14. LoopOK(t)'
  BY <1>9, <1>11, <1>12, <1>13 DEF LoopOK, Loops
<1>15. ThreadOK(t)'
  BY <1>3, <1>9, <1>11, <1>14 DEF ThreadOK
<1> QED
  BY <1>1, <1>9, <1>10, <1>15, OnlyThread DEF LoopWait

-----------------------------------------------------------------------------
(* accept *)

\* The head of queue t, c, gets a free descriptor and is then r.
AcceptStep(t, c, r) ==
    /\ t \in {0, 1} /\ lq[t] # <<>> /\ c = Head(lq[t]) /\ c \in Clients
    /\ r \in ConnStates /\ r.fd \in FreeFds /\ r.accepted /\ (srv \in Threaded => r.own = c)
    /\ r.peer = cn[c].peer /\ r.sent = cn[c].sent /\ r.inq = cn[c].inq /\ r.err = cn[c].err
    /\ r.got = cn[c].got /\ r.full = cn[c].full
    /\ cn' = [cn EXCEPT ![c] = r] /\ lq' = [lq EXCEPT ![t] = Tail(@)]
    /\ UNCHANGED <<srv, nofile>>

\* What accept4 does is such a step.
LEMMA AcceptedIsStep ==
    ASSUME SimpleInv, NEW t \in {0, 1}, lq[t] # <<>>, NEW f \in FreeFds, NEW o \in ServerThreads,
           srv \in Threaded => o = Head(lq[t]), cn' = Accepted(t, o, f),
           lq' = [lq EXCEPT ![t] = Tail(@)], UNCHANGED <<srv, nofile>>
    PROVE  \E r : AcceptStep(t, Head(lq[t]), r) /\ r.own = o /\ r.fd = f
<1>1. lq[t] \in Seq(Clients) /\ cn \in [Clients -> ConnStates] /\ nofile \in 1 .. NFds
  BY DEF SimpleInv, SimpleTypes
<1>2. PICK c \in Clients : c = Head(lq[t])
  BY <1>1
<1>a. NFds \in Nat
  BY SimpleAssumption
<1>b. 1 .. nofile \subseteq Nat /\ 1 .. nofile \subseteq 0 .. NFds
  BY ONLY <1>1, <1>a
<1>3. FreeFds \subseteq Nat /\ FreeFds \subseteq 0 .. NFds
  BY ONLY <1>b DEF FreeFds
<1>5. PICK r : r = [cn[c] EXCEPT !.fd = f, !.own = o, !.accepted = TRUE]
  OBVIOUS
<1>6. cn[c] \in ConnStates /\ f \in 0 .. NFds
  BY <1>1, <1>3
<1>7. /\ r \in ConnStates /\ r.fd = f /\ r.own = o /\ r.accepted = TRUE
      /\ r.peer = cn[c].peer /\ r.sent = cn[c].sent /\ r.inq = cn[c].inq /\ r.err = cn[c].err
      /\ r.got = cn[c].got /\ r.full = cn[c].full
  BY <1>5, <1>6 DEF ConnStates
<1>8. cn' = [cn EXCEPT ![c] = r]
  BY <1>1, <1>2, <1>5 DEF Accepted, ConnStates
<1>9. AcceptStep(t, c, r)
  BY <1>2, <1>7, <1>8 DEF AcceptStep
<1> QED
  BY <1>2, <1>7, <1>9

\* The lowest free descriptor.
LEMMA LowestFree ==
    ASSUME SimpleInv, FreeFds # {}
    PROVE  Min(FreeFds) \in FreeFds
<1>a. nofile \in 1 .. NFds /\ NFds \in Nat
  BY SimpleAssumption DEF SimpleInv, SimpleTypes
<1>b. 1 .. nofile \subseteq Nat
  BY ONLY <1>a
<1>0. FreeFds \subseteq Nat
  BY ONLY <1>b DEF FreeFds
<1>1. PICK S \in SUBSET Nat : S = FreeFds
  BY ONLY <1>0
<1>2. S # {}
  BY <1>1
<1>3. Min(S) \in S
  BY <1>2, MinOfSet
<1> QED
  BY <1>1, <1>3

\* The values after an accept, and what the client was before it.
LEMMA AcceptStepValues ==
    ASSUME SimpleInv, NEW t, NEW c, NEW r, AcceptStep(t, c, r)
    PROVE  /\ cn' \in [Clients -> ConnStates] /\ cn'[c] = r /\ c \in Clients
           /\ \A d \in Clients : d # c => cn'[d] = cn[d]
           /\ cn[c].fd = 0 /\ ~cn[c].accepted /\ cn[c].peer # "idle"
           /\ r.fd # 0 /\ r.fd <= nofile /\ \A d \in Clients : cn[d].fd # r.fd
           /\ srv' = srv /\ nofile' = nofile
<1>1. cn \in [Clients -> ConnStates] /\ lq[t] \in Seq(Clients) /\ t \in {0, 1} /\ nofile \in 1 .. NFds
  BY DEF SimpleInv, SimpleTypes, AcceptStep
<1>2. 1 \in DOMAIN lq[t] /\ lq[t][1] = c /\ c \in Clients
  BY <1>1 DEF AcceptStep
<1>3. ~cn[c].accepted /\ cn[c].peer # "idle"
  BY <1>1, <1>2 DEF SimpleInv, QueueInv
<1>4. cn[c].fd = 0
  BY <1>2, <1>3, ConnFacts DEF FdOK
<1>5. r.fd # 0 /\ r.fd <= nofile /\ \A d \in Clients : cn[d].fd # r.fd
  BY <1>1, SimpleAssumption DEF AcceptStep, FreeFds
<1> QED
  BY <1>1, <1>2, <1>3, <1>4, <1>5 DEF AcceptStep

\* Descriptors stay distinct.
LEMMA AcceptConn ==
    ASSUME SimpleInv, NEW t, NEW c, NEW r, AcceptStep(t, c, r)
    PROVE  ConnInv'
<1>1. /\ cn'[c] = r /\ c \in Clients /\ \A d \in Clients : d # c => cn'[d] = cn[d]
      /\ cn[c].fd = 0 /\ ~cn[c].accepted /\ cn[c].peer # "idle"
      /\ r.fd # 0 /\ r.fd <= nofile /\ \A d \in Clients : cn[d].fd # r.fd
      /\ srv' = srv /\ nofile' = nofile
  BY AcceptStepValues
<1>2. /\ r.accepted /\ (srv \in Threaded => r.own = c)
      /\ r.peer = cn[c].peer /\ r.err = cn[c].err
  BY DEF AcceptStep
<1> SUFFICES ASSUME NEW d \in Clients
             PROVE  ErrorOK(d)' /\ FdOK(d)'
  BY DEF ConnInv
<1>3. ErrorOK(d) /\ FdOK(d)
  BY ConnFacts
<1>4. CASE d = c
  BY <1>1, <1>2, <1>3, <1>4 DEF ErrorOK, FdOK
<1>5. CASE d # c
  BY <1>1, <1>2, <1>3, <1>5 DEF ErrorOK, FdOK
<1> QED
  BY <1>4, <1>5

\* The queue moves up.
LEMMA AcceptQueue ==
    ASSUME SimpleInv, NEW t, NEW c, NEW r, AcceptStep(t, c, r)
    PROVE  QueueInv' /\ lq' \in [{0, 1} -> Seq(Clients)]
<1>1. /\ cn'[c] = r /\ \A d \in Clients : d # c => cn'[d] = cn[d]
  BY AcceptStepValues
<1>2. lq \in [{0, 1} -> Seq(Clients)] /\ t \in {0, 1}
  BY DEF SimpleInv, SimpleTypes, AcceptStep
<1>3. PICK l \in Seq(Clients) : l = lq[t]
  BY <1>2
<1>4. l # <<>> /\ c = Head(l) /\ lq' = [lq EXCEPT ![t] = Tail(l)]
  BY <1>3 DEF AcceptStep
<1>5. PICK n \in Nat : n = Len(l)
  OBVIOUS
<1>6. Tail(l) \in Seq(Clients) /\ Len(Tail(l)) = n - 1 /\ n > 0 /\ l[1] = c
      /\ \A i \in 1 .. n - 1 : Tail(l)[i] = l[i + 1]
  BY <1>4, <1>5
<1>7. lq' \in [{0, 1} -> Seq(Clients)] /\ lq'[t] = Tail(l)
      /\ \A u \in {0, 1} : u # t => lq'[u] = lq[u]
  BY <1>2, <1>4, <1>6
<1>8. \A u \in {0, 1} : \A i \in DOMAIN lq[u] :
           /\ lq[u][i] \in Clients
           /\ cn[lq[u][i]].peer # "idle" /\ ~cn[lq[u][i]].accepted
           /\ \A v \in {0, 1} : \A j \in DOMAIN lq[v] : lq[v][j] = lq[u][i] => v = u /\ j = i
  BY <1>2 DEF SimpleInv, QueueInv
<1>9. DOMAIN lq'[t] = 1 .. n - 1 /\ DOMAIN lq[t] = 1 .. n
  BY <1>3, <1>5, <1>6, <1>7
<1>10. \A i \in 1 .. n - 1 : i + 1 \in 1 .. n /\ i + 1 # 1
  OBVIOUS
<1>11. \A u \in {0, 1} : \A i \in DOMAIN lq'[u] :
           \/ (u = t /\ i \in Nat /\ i + 1 \in DOMAIN lq[t] /\ i + 1 # 1 /\ lq'[u][i] = lq[t][i + 1])
           \/ (u # t /\ i \in DOMAIN lq[u] /\ lq'[u][i] = lq[u][i])
  <2> SUFFICES ASSUME NEW u \in {0, 1}, NEW i \in DOMAIN lq'[u]
               PROVE  \/ (/\ u = t /\ i \in Nat /\ i + 1 \in DOMAIN lq[t] /\ i + 1 # 1
                          /\ lq'[u][i] = lq[t][i + 1])
                      \/ (u # t /\ i \in DOMAIN lq[u] /\ lq'[u][i] = lq[u][i])
    OBVIOUS
  <2>1. CASE u # t
    BY <1>7, <2>1
  <2>2. CASE u = t
    <3>1. i \in 1 .. n - 1 /\ i \in Nat
      BY <1>9, <2>2
    <3>2. i + 1 \in DOMAIN lq[t] /\ i + 1 # 1
      BY <1>9, <1>10, <3>1
    <3>3. lq'[u][i] = lq[t][i + 1]
      BY <1>3, <1>6, <1>7, <2>2, <3>1
    <3> QED
      BY <2>2, <3>1, <3>2, <3>3
  <2> QED
    BY <2>1, <2>2
<1>12. 1 \in DOMAIN lq[t] /\ lq[t][1] = c
  BY <1>3, <1>5, <1>6
<1>13. ASSUME NEW u \in {0, 1}, NEW i \in DOMAIN lq'[u]
       PROVE  cn'[lq'[u][i]].peer # "idle" /\ ~cn'[lq'[u][i]].accepted
  <2>0. PICK v \in {0, 1} : \E j \in DOMAIN lq[v] : lq'[u][i] = lq[v][j] /\ ~(v = t /\ j = 1)
    BY <1>2, <1>11
  <2>1. PICK j \in DOMAIN lq[v] : lq'[u][i] = lq[v][j] /\ ~(v = t /\ j = 1)
    BY <2>0
  <2>2. lq[v][j] # c /\ lq[v][j] \in Clients
    BY <1>2, <1>8, <1>12, <2>1
  <2> QED
    BY <1>1, <1>8, <2>1, <2>2
<1>14. ASSUME NEW u \in {0, 1}, NEW i \in DOMAIN lq'[u], NEW v \in {0, 1},
              NEW j \in DOMAIN lq'[v], lq'[v][j] = lq'[u][i]
       PROVE  v = u /\ j = i
  <2>1. CASE u = t /\ v = t
    <3>1. i + 1 \in DOMAIN lq[t] /\ j + 1 \in DOMAIN lq[t] /\ lq[t][i + 1] = lq[t][j + 1]
          /\ i \in Nat /\ j \in Nat
      BY <1>11, <1>14, <2>1
    <3>2. i + 1 = j + 1
      BY <1>2, <1>8, <3>1
    <3> QED
      BY <2>1, <3>1, <3>2
  <2>2. CASE ~(u = t /\ v = t)
    BY <1>2, <1>8, <1>11, <1>14, <2>2
  <2> QED
    BY <2>1, <2>2
<1> QED
  BY <1>7, <1>13, <1>14 DEF QueueInv

\* One more client is accepted, and listed unless its descriptor is refused.
LEMMA AcceptSets ==
    ASSUME SimpleInv, NEW t, NEW c, NEW r, AcceptStep(t, c, r)
    PROVE  /\ Cardinality(AcceptedClients') = Cardinality(AcceptedClients) + 1
           /\ Cardinality(AcceptedClients) \in Nat /\ Cardinality(ListedOnes) \in Nat
           /\ r.fd < FdRange => Cardinality(ListedOnes') = Cardinality(ListedOnes) + 1
           /\ ~(r.fd < FdRange) => ListedOnes' = ListedOnes
<1>1. /\ cn'[c] = r /\ c \in Clients /\ \A d \in Clients : d # c => cn'[d] = cn[d]
      /\ ~cn[c].accepted
  BY AcceptStepValues
<1>2. r.accepted
  BY DEF AcceptStep
<1>3. AcceptedClients' = AcceptedClients \cup {c} /\ c \notin AcceptedClients
  BY <1>1, <1>2 DEF AcceptedClients
<1>4. /\ c \notin ListedOnes
      /\ r.fd < FdRange => ListedOnes' = ListedOnes \cup {c}
      /\ ~(r.fd < FdRange) => ListedOnes' = ListedOnes
  <2>1. \A d \in AcceptedClients : cn'[d].fd = cn[d].fd
    BY <1>1, <1>3 DEF AcceptedClients
  <2> QED
    BY <1>1, <1>3, <2>1 DEF ListedOnes
<1>5. /\ IsFiniteSet(AcceptedClients) /\ Cardinality(AcceptedClients) \in Nat
      /\ IsFiniteSet(ListedOnes) /\ Cardinality(ListedOnes) \in Nat
  <2>1. AcceptedClients \in SUBSET Clients /\ ListedOnes \in SUBSET Clients
    BY DEF AcceptedClients, ListedOnes
  <2> QED
    BY <2>1, SetsFinite
<1>6. Cardinality(AcceptedClients') = Cardinality(AcceptedClients) + 1
  BY <1>3, <1>5, FS_AddElement
<1>7. Cardinality(ListedOnes \cup {c}) = Cardinality(ListedOnes) + 1
  BY <1>4, <1>5, FS_AddElement
<1> QED
  BY <1>4, <1>5, <1>6, <1>7

\* The new connection starts with nothing in hand, the others keep theirs.
LEMMA AcceptStreams ==
    ASSUME SimpleInv, NEW t, NEW c, NEW r, AcceptStep(t, c, r),
           \A d \in Clients : InHand(d)' = InHand(d)
    PROVE  StreamInv'
<1>1. /\ cn'[c] = r /\ c \in Clients /\ \A d \in Clients : d # c => cn'[d] = cn[d]
      /\ srv' = srv
  BY AcceptStepValues
<1>2. /\ r.peer = cn[c].peer /\ r.sent = cn[c].sent /\ r.inq = cn[c].inq
      /\ r.got = cn[c].got /\ r.full = cn[c].full
  BY DEF AcceptStep
<1> SUFFICES ASSUME NEW d \in Clients
             PROVE  StreamOK(d, cn[d], InHand(d))'
  BY DEF StreamInv
<1>3. StreamOK(d, cn[d], InHand(d))
  BY ConnFacts
<1>4. StreamOK(d, cn'[d], InHand(d))
  BY <1>1, <1>2, <1>3, StreamSame DEF Promised
<1> QED
  BY <1>1, <1>4 DEF StreamOK, Promised

\* No thread holds anything of the new connection.
LEMMA AcceptHands ==
    ASSUME SimpleInv, NEW t, NEW c, NEW r, AcceptStep(t, c, r), NEW u \in ServerThreads, NEW s,
           thr' = [thr EXCEPT ![u] = s], thr[u].pc # "send", s.pc # "send"
    PROVE  \A d \in Clients : InHand(d)' = InHand(d)
<1>1. /\ cn'[c] = r /\ c \in Clients /\ \A d \in Clients : d # c => cn'[d] = cn[d]
      /\ cn[c].fd = 0 /\ cn' \in [Clients -> ConnStates]
  BY AcceptStepValues
<1>2. thr'[u] = s /\ \A v \in ServerThreads : v # u => thr'[v] = thr[v]
  BY DEF SimpleInv, SimpleTypes
<1>3. \A d \in Clients : cn[d].own \in ServerThreads /\ cn'[d].own \in ServerThreads
  BY <1>1 DEF SimpleInv, SimpleTypes, ConnStates
<1>4. InHand(c) = <<>> /\ \A v \in ServerThreads : ~(thr[v].pc = "send" /\ thr[v].at = c)
  BY <1>1, NoHand
<1>5. InHand(c)' = <<>>
  <2>1. PICK o \in ServerThreads : o = cn'[c].own
    BY <1>1, <1>3
  <2>2. ~(thr'[o].at = c /\ thr'[o].pc = "send")
    BY <1>2, <1>4
  <2> QED
    BY <2>1, <2>2 DEF InHand
<1>6. \A d \in Clients : d # c => InHand(d)' = InHand(d)
  BY <1>1, <1>2, <1>3 DEF InHand
<1> QED
  BY <1>4, <1>5, <1>6

\* A loop accepts c and goes on to its next event.
LEMMA AcceptAtLoop ==
    ASSUME SimpleInv, NEW t \in {0, 1}, NEW e, Taken(t, e), srv \notin Threaded,
           NEW c, NEW r, AcceptStep(t, c, r), NextEvent(t, e), evConns' = evConns
    PROVE  /\ cn' \in [Clients -> ConnStates] /\ lq' \in [{0, 1} -> Seq(Clients)]
           /\ thr' \in [ServerThreads -> ServerThreadStates]
           /\ StreamInv' /\ ConnInv' /\ QueueInv' /\ ThreadInv'
<1>1. t \in ServerThreads /\ e \in thr[t].batch /\ thr[t].pc = "loop"
  BY LoopsAreThreads DEF Taken
<1>2. PICK s \in ServerThreadStates :
              /\ thr' = [thr EXCEPT ![t] = s]
              /\ s.pc = IF thr[t].batch \subseteq {e} THEN "wait" ELSE "loop"
  BY <1>1, NextEventState DEF SimpleInv
<1>3. /\ thr' \in [ServerThreads -> ServerThreadStates]
      /\ \A u \in ServerThreads : u # t => thr'[u] = thr[u]
  BY <1>1, <1>2 DEF SimpleInv, SimpleTypes
<1>4. /\ cn' \in [Clients -> ConnStates] /\ \A d \in Clients : d # c => cn'[d] = cn[d]
      /\ cn[c].fd = 0 /\ srv' = srv
  BY AcceptStepValues
<1>5. StreamInv'
  <2>1. s.pc # "send"
    BY <1>2
  <2>2. \A d \in Clients : InHand(d)' = InHand(d)
    BY <1>1, <1>2, <2>1, AcceptHands
  <2> QED
    BY <2>2, AcceptStreams
<1>6. \A d \in Clients : cn[d].fd # 0 => cn'[d].fd = cn[d].fd /\ cn'[d].own = cn[d].own
  BY <1>4
<1>7. ThreadOK(t)'
  BY <1>1, <1>4, <1>6, NextEventOK
<1>8. ThreadInv'
  BY <1>1, <1>3, <1>4, <1>6, <1>7, ThreadsStep
<1> QED
  BY <1>3, <1>4, <1>5, <1>8, AcceptConn, AcceptQueue

\* A loop goes on to its next event without having accepted anyone.
LEMMA NothingAccepted ==
    ASSUME SimpleInv, NEW t \in {0, 1}, NEW e, Taken(t, e), srv \notin Threaded,
           NextEvent(t, e),
           UNCHANGED <<srv, nofile, cn, lq, pollfds, phandlers, bufConns, evConns, sock_num, proc>>
    PROVE  SimpleInv'
<1>1. t \in ServerThreads /\ e \in thr[t].batch /\ thr[t].pc = "loop"
  BY LoopsAreThreads DEF Taken
<1>2. PICK s \in ServerThreadStates :
              /\ thr' = [thr EXCEPT ![t] = s]
              /\ s.pc = IF thr[t].batch \subseteq {e} THEN "wait" ELSE "loop"
  BY <1>1, NextEventState DEF SimpleInv
<1>3. s.pc # "send"
  BY <1>2
<1>4. ThreadOK(t)'
  BY <1>1, NextEventOK
<1> QED
  BY <1>1, <1>2, <1>3, <1>4, OnlyThread

\* handle_accept of the four epoll loops.
LEMMA AcceptOneKeeps ==
    ASSUME SimpleInv, NEW t \in {0, 1}, NEW e, Taken(t, e), AcceptOne(t, e),
           srv \in Programs \ (Threaded \cup {"poll", "bench"}),
           UNCHANGED <<srv, nofile, pollfds, phandlers, bufConns, evConns>>
    PROVE  SimpleInv'
<1>1. srv \notin Threaded /\ NextEvent(t, e) /\ UNCHANGED <<sock_num, proc>> /\ proc = "up"
  BY DEF AcceptOne, Taken
<1>2. CASE FreeFds = {} \/ lq[t] = <<>>
  <2>1. UNCHANGED <<cn, lq>>
    BY <1>2 DEF AcceptOne
  <2> QED
    BY <1>1, <2>1, NothingAccepted
<1>3. CASE ~(FreeFds = {} \/ lq[t] = <<>>)
  <2>1. /\ cn' = Accepted(t, t, Min(FreeFds)) /\ lq' = [lq EXCEPT ![t] = Tail(@)]
        /\ Min(FreeFds) \in FreeFds
    BY <1>3, LowestFree DEF AcceptOne
  <2>2. PICK r : AcceptStep(t, Head(lq[t]), r)
    BY <1>1, <1>3, <2>1, LoopsAreThreads, AcceptedIsStep
  <2>3. /\ cn' \in [Clients -> ConnStates] /\ lq' \in [{0, 1} -> Seq(Clients)]
        /\ thr' \in [ServerThreads -> ServerThreadStates]
        /\ StreamInv' /\ ConnInv' /\ QueueInv' /\ ThreadInv'
    BY <1>1, <2>2, AcceptAtLoop
  <2>4. SimpleTypes'
    BY <1>1, <2>3 DEF SimpleInv, SimpleTypes
  <2>5. PollInv' /\ BenchInv' /\ TableInv'
    BY DEF SimpleInv, PollInv, BenchInv, TableInv
  <2>6. DeathCauses'
    BY <1>1 DEF DeathCauses, SigpipeNeedsHalfClose, OverrunNeedsTableFull
  <2> QED
    BY <2>3, <2>4, <2>5, <2>6 DEF SimpleInv
<1> QED
  BY <1>2, <1>3

\* The array of poll gets a slot for the new connection, or has run over its end.
LEMMA AddFdPoll ==
    ASSUME SimpleInv, srv = "poll", proc = "up", NEW t, NEW c, NEW r, AcceptStep(t, c, r),
           add_fd(c, r.fd), UNCHANGED sock_num
    PROVE  /\ PollInv' /\ DeathCauses'
           /\ proc' \in {"up", "overrun"} /\ pollfds' \in Seq(-1 .. NFds)
           /\ phandlers' \in [1 .. FdRange - 1 -> ClientOrNone]
<1>1. /\ cn'[c] = r /\ c \in Clients /\ \A d \in Clients : d # c => cn'[d] = cn[d]
      /\ cn[c].fd = 0 /\ r.fd # 0 /\ r.fd <= nofile /\ \A d \in Clients : cn[d].fd # r.fd
      /\ srv' = srv /\ nofile' = nofile
  BY AcceptStepValues
<1>2. /\ Cardinality(ListedOnes) \in Nat
      /\ r.fd < FdRange => Cardinality(ListedOnes') = Cardinality(ListedOnes) + 1
      /\ ~(r.fd < FdRange) => ListedOnes' = ListedOnes
  BY AcceptSets
<1>3. PICK f \in 1 .. NFds : f = r.fd
  BY <1>1 DEF AcceptStep, ConnStates
<1>0. FdRange \in Nat /\ MaxFds \in Nat /\ NFds \in Nat
  BY SimpleAssumption
<1>4. pollfds \in Seq(-1 .. NFds) /\ phandlers \in [1 .. FdRange - 1 -> ClientOrNone] /\ c \in ClientOrNone
  <2>1. c \in ClientOrNone
    BY <1>1, SimpleAssumption DEF Clients, ClientOrNone
  <2> QED
    BY <2>1 DEF SimpleInv, SimpleTypes
<1>5. PICK n \in Nat : n = Len(pollfds)
  BY <1>4
<1>6. /\ n <= MaxFds /\ n = 1 + Cardinality(ListedOnes) /\ pollfds[1] = 0
      /\ \A i \in 2 .. n : SlotOK(pollfds[i])
      /\ \A i, j \in 1 .. n : pollfds[i] = pollfds[j] => i = j \/ pollfds[i] = -1
      /\ \A d \in Clients : cn[d].fd # 0 /\ cn[d].fd < FdRange =>
            (\E i \in 1 .. n : pollfds[i] = cn[d].fd) /\ phandlers[cn[d].fd] = d
  BY <1>5 DEF SimpleInv, PollInv
<1>7. \A i \in 1 .. n : pollfds[i] # f
  <2>1. \A i \in 1 .. n : i = 1 \/ i \in 2 .. n
    OBVIOUS
  <2>2. \A g : SlotOK(g) => g # f
    BY <1>1, <1>3 DEF SlotOK
  <2> QED
    BY <1>3, <1>6, <2>1, <2>2
<1>8. f \notin Range(pollfds)
  <2>1. DOMAIN pollfds = 1 .. n
    BY <1>4, <1>5
  <2> QED
    BY <1>7, <2>1 DEF Range
<1>14. \A d \in Clients : cn[d].fd # 0 => cn'[d].fd = cn[d].fd
  BY <1>1
<1>15. \A g : SlotOK(g) => SlotOK(g)'
  BY <1>14 DEF SlotOK
<1>16. \A d \in Clients : cn'[d].fd # 0 /\ cn'[d].fd < FdRange =>
          \/ (d = c /\ f < FdRange)
          \/ (cn[d].fd # 0 /\ cn[d].fd < FdRange /\ cn'[d].fd = cn[d].fd /\ cn[d].fd # f)
  BY <1>1, <1>3
<1>11. CASE ~(f < FdRange)
  <2>1. UNCHANGED <<pollfds, phandlers, proc>>
    BY <1>0, <1>3, <1>11 DEF add_fd
  <2>2. ListedOnes' = ListedOnes
    BY <1>2, <1>3, <1>11
  <2>3. \A d \in Clients : cn'[d].fd # 0 /\ cn'[d].fd < FdRange =>
          (\E i \in 1 .. n : pollfds[i] = cn'[d].fd) /\ phandlers[cn'[d].fd] = d
    BY <1>6, <1>11, <1>16
  <2>4. PollInv'
    BY <1>5, <1>6, <1>15, <2>1, <2>2, <2>3 DEF PollInv
  <2>5. DeathCauses'
    BY <2>1 DEF DeathCauses, SigpipeNeedsHalfClose, OverrunNeedsTableFull
  <2> QED
    BY <1>4, <2>1, <2>4, <2>5
<1>9. CASE f < FdRange /\ n = MaxFds
  <2>1. proc' = "overrun" /\ UNCHANGED <<pollfds, phandlers>>
    BY <1>0, <1>3, <1>5, <1>8, <1>9 DEF add_fd, pollerVars
  <2>2. Cardinality(ListedOnes') = MaxFds
    BY <1>2, <1>3, <1>6, <1>9
  <2>3. PollInv'
    BY <2>1 DEF SimpleInv, PollInv
  <2>4. DeathCauses'
    BY <1>1, <2>1, <2>2 DEF DeathCauses, SigpipeNeedsHalfClose, OverrunNeedsTableFull, ListedOnes
  <2> QED
    BY <1>4, <2>1, <2>3, <2>4
<1>10. CASE f < FdRange /\ n # MaxFds
  <2>1. pollfds' = Append(pollfds, f) /\ phandlers' = [phandlers EXCEPT ![f] = c] /\ proc' = proc
    BY <1>0, <1>3, <1>5, <1>8, <1>10 DEF add_fd
  <2>2. DeathCauses'
    BY <2>1 DEF DeathCauses, SigpipeNeedsHalfClose, OverrunNeedsTableFull
  <2>3. /\ pollfds' \in Seq(-1 .. NFds) /\ Len(pollfds') = n + 1 /\ pollfds'[n + 1] = f
        /\ \A i \in 1 .. n : pollfds'[i] = pollfds[i]
    <3>1. f \in -1 .. NFds
      BY SimpleAssumption
    <3> QED
      BY <1>4, <1>5, <2>1, <3>1
  <2>4. /\ phandlers' \in [1 .. FdRange - 1 -> ClientOrNone] /\ phandlers'[f] = c
        /\ \A g \in 1 .. FdRange - 1 : g # f => phandlers'[g] = phandlers[g]
    <3>1. f \in 1 .. FdRange - 1
      BY <1>0, <1>10
    <3> QED
      BY <1>4, <2>1, <3>1
  <2>5. n + 1 <= MaxFds
    BY <1>0, <1>6, <1>10
  <2>6. n + 1 = 1 + Cardinality(ListedOnes') /\ n > 0
    BY <1>2, <1>3, <1>6, <1>10
  <2>7. \A i \in 1 .. n + 1 : i \in 1 .. n \/ i = n + 1
    OBVIOUS
  <2>8. ASSUME NEW i \in 2 .. n + 1
        PROVE  SlotOK(pollfds[i])'
    <3>1. CASE i = n + 1
      <4>1. SlotOK(f)'
        BY <1>0, <1>1, <1>3, <1>10 DEF SlotOK
      <4> QED
        BY <2>3, <3>1, <4>1
    <3>2. CASE i # n + 1
      <4>1. i \in 2 .. n /\ i \in 1 .. n
        BY <3>2
      <4> QED
        BY <1>6, <1>15, <2>3, <4>1
    <3> QED
      BY <3>1, <3>2
  <2>9. \A i, j \in 1 .. n + 1 : pollfds'[i] = pollfds'[j] => i = j \/ pollfds'[i] = -1
    BY <1>6, <1>7, <2>3, <2>7
  <2>10. ASSUME NEW d \in Clients, cn'[d].fd # 0, cn'[d].fd < FdRange
         PROVE  (\E i \in 1 .. n + 1 : pollfds'[i] = cn'[d].fd) /\ phandlers'[cn'[d].fd] = d
    <3>1. CASE d = c
      <4>1. n + 1 \in 1 .. n + 1
        OBVIOUS
      <4> QED
        BY <1>1, <1>3, <2>3, <2>4, <3>1, <4>1
    <3>2. CASE d # c
      <4>1. cn'[d].fd = cn[d].fd /\ cn[d].fd # f /\ cn[d].fd \in 1 .. FdRange - 1
        <5>1. cn[d].fd \in 0 .. NFds
          BY DEF SimpleInv, SimpleTypes, ConnStates
        <5>2. cn'[d].fd = cn[d].fd /\ cn[d].fd # f
          BY <1>1, <1>3, <3>2
        <5> QED
          BY <1>0, <2>10, <5>1, <5>2
      <4>2. PICK i \in 1 .. n : pollfds[i] = cn[d].fd
        BY <1>6, <2>10, <4>1
      <4>3. i \in 1 .. n + 1
        OBVIOUS
      <4>4. phandlers[cn[d].fd] = d
        BY <1>6, <2>10, <4>1
      <4> QED
        BY <2>3, <2>4, <4>1, <4>2, <4>3, <4>4
    <3> QED
      BY <3>1, <3>2
  <2>11. pollfds'[1] = 0
    BY <1>6, <2>3, <2>6
  <2>12. PollInv'
    BY <2>3, <2>5, <2>6, <2>8, <2>9, <2>10, <2>11 DEF PollInv
  <2> QED
    BY <2>1, <2>2, <2>3, <2>4, <2>12
<1> QED
  BY <1>9, <1>10, <1>11

\* handle_accept of the poll server.
LEMMA PollAcceptKeeps ==
    ASSUME SimpleInv, NEW t \in {0, 1}, NEW e, Taken(t, e), poll_handle_accept(t, e),
           srv = "poll", UNCHANGED <<srv, nofile, bufConns, evConns>>
    PROVE  SimpleInv'
<1>1. srv \notin Threaded /\ NextEvent(t, e) /\ UNCHANGED sock_num /\ proc = "up"
  BY DEF poll_handle_accept, Taken, Threaded
<1>2. CASE FreeFds = {} \/ lq[t] = <<>>
  <2>1. UNCHANGED <<cn, lq, pollfds, phandlers, proc>>
    BY <1>2 DEF poll_handle_accept
  <2> QED
    BY <1>1, <2>1, NothingAccepted
<1>3. CASE ~(FreeFds = {} \/ lq[t] = <<>>)
  <2>1. /\ cn' = Accepted(t, t, Min(FreeFds)) /\ lq' = [lq EXCEPT ![t] = Tail(@)]
        /\ add_fd(Head(lq[t]), Min(FreeFds)) /\ Min(FreeFds) \in FreeFds
    BY <1>3, LowestFree DEF poll_handle_accept
  <2>2. PICK r : AcceptStep(t, Head(lq[t]), r) /\ r.fd = Min(FreeFds)
    <3>1. PICK r : AcceptStep(t, Head(lq[t]), r)
      BY <1>1, <1>3, <2>1, LoopsAreThreads, AcceptedIsStep
    <3>2. cn'[Head(lq[t])] = r /\ Head(lq[t]) \in Clients
      BY <3>1, AcceptStepValues
    <3>3. cn \in [Clients -> ConnStates]
      BY DEF SimpleInv, SimpleTypes
    <3>4. cn'[Head(lq[t])].fd = Min(FreeFds)
      BY <2>1, <3>2, <3>3 DEF Accepted, ConnStates
    <3> QED
      BY <3>1, <3>2, <3>4
  <2>3. /\ cn' \in [Clients -> ConnStates] /\ lq' \in [{0, 1} -> Seq(Clients)]
        /\ thr' \in [ServerThreads -> ServerThreadStates]
        /\ StreamInv' /\ ConnInv' /\ QueueInv' /\ ThreadInv'
    BY <1>1, <2>2, AcceptAtLoop
  <2>4. /\ PollInv' /\ DeathCauses'
        /\ proc' \in {"up", "overrun"} /\ pollfds' \in Seq(-1 .. NFds)
        /\ phandlers' \in [1 .. FdRange - 1 -> ClientOrNone]
    BY <1>1, <2>1, <2>2, AddFdPoll
  <2>5. SimpleTypes'
    BY <1>1, <2>3, <2>4 DEF SimpleInv, SimpleTypes
  <2>6. BenchInv' /\ TableInv'
    BY <1>1 DEF SimpleInv, BenchInv, TableInv
  <2> QED
    BY <2>3, <2>4, <2>5, <2>6 DEF SimpleInv
<1> QED
  BY <1>2, <1>3

\* No thread moves while the acceptor of bench accepts.
LEMMA AcceptHandsIdle ==
    ASSUME SimpleInv, NEW t, NEW c, NEW r, AcceptStep(t, c, r), thr' = thr
    PROVE  \A d \in Clients : InHand(d)' = InHand(d)
<1>1. /\ cn'[c] = r /\ c \in Clients /\ \A d \in Clients : d # c => cn'[d] = cn[d]
      /\ cn[c].fd = 0 /\ cn' \in [Clients -> ConnStates]
  BY AcceptStepValues
<1>2. InHand(c) = <<>> /\ \A v \in ServerThreads : ~(thr[v].pc = "send" /\ thr[v].at = c)
  BY <1>1, NoHand
<1>3. PICK o \in ServerThreads : o = cn'[c].own
  BY <1>1 DEF ConnStates
<1>4. InHand(c)' = <<>>
  BY <1>2, <1>3 DEF InHand
<1>5. \A d \in Clients : d # c => InHand(d)' = InHand(d)
  BY <1>1 DEF InHand
<1> QED
  BY <1>2, <1>4, <1>5

\* An entry is handed over to loop i: none, or a connection that is in no list.
LEMMA BenchHandsOver ==
    ASSUME SimpleInv, srv = "bench", NEW i \in {0, 1}, NEW x \in ClientOrNone,
           bufConns' = [bufConns EXCEPT ![i] = Append(@, x)], UNCHANGED <<srv, evConns>>,
           x # 0 => cn[x].fd = 0 /\ cn'[x].fd # 0 /\ cn'[x].own = i,
           \A d \in Clients : d # x => cn'[d].fd = cn[d].fd /\ cn'[d].own = cn[d].own
    PROVE  BenchInv' /\ bufConns' \in [{0, 1} -> Seq(ClientOrNone)]
<1>1. bufConns \in [{0, 1} -> Seq(ClientOrNone)] /\ evConns \in [{0, 1} -> Seq(ClientOrNone)]
  BY DEF SimpleInv, SimpleTypes
<1>2. PICK b \in Seq(ClientOrNone) : b = bufConns[i]
  BY <1>1
<1>3. PICK n \in Nat : n = Len(b)
  OBVIOUS
<1>4. bufConns' = [bufConns EXCEPT ![i] = Append(b, x)]
  BY <1>2
<1>5. /\ bufConns' \in [{0, 1} -> Seq(ClientOrNone)]
      /\ \A t \in {0, 1} : t # i => bufConns'[t] = bufConns[t]
      /\ bufConns'[i] = Append(b, x)
  BY <1>1, <1>4
<1>6. /\ DOMAIN bufConns'[i] = 1 .. n + 1 /\ DOMAIN bufConns[i] = 1 .. n
      /\ bufConns'[i][n + 1] = x /\ \A k \in 1 .. n : bufConns'[i][k] = bufConns[i][k]
  BY <1>2, <1>3, <1>5
<1>7. \A t \in {0, 1} : \A k \in DOMAIN bufConns'[t] :
         \/ (k \in DOMAIN bufConns[t] /\ bufConns'[t][k] = bufConns[t][k])
         \/ (t = i /\ k = n + 1 /\ bufConns'[t][k] = x)
  BY <1>5, <1>6
<1>8. \A d \in Clients : d # 0
  BY SimpleAssumption DEF Clients
<1> SUFFICES ASSUME NEW t \in {0, 1}, NEW d \in Clients,
                    (\E k \in DOMAIN bufConns'[t] : bufConns'[t][k] = d)
                      \/ (\E k \in DOMAIN evConns[t] : evConns[t][k] = d)
             PROVE  ListedOnce(t, d)'
  BY <1>5 DEF BenchInv
<1>9. CASE d # x
  <2>1. \A k \in DOMAIN bufConns'[t] : bufConns'[t][k] = d =>
           k \in DOMAIN bufConns[t] /\ bufConns[t][k] = d
    BY <1>7, <1>9
  <2>2. ListedOnce(t, d)
    BY <2>1 DEF SimpleInv, BenchInv
  <2> QED
    BY <1>9, <2>1, <2>2 DEF ListedOnce
<1>10. CASE d = x
  <2>1. \A u \in {0, 1} : /\ \A k \in DOMAIN bufConns[u] : bufConns[u][k] # x
                          /\ \A k \in DOMAIN evConns[u] : evConns[u][k] # x
    BY <1>8, <1>10 DEF SimpleInv, BenchInv, ListedOnce
  <2>2. \A k \in DOMAIN bufConns'[t] : bufConns'[t][k] = x => t = i /\ k = n + 1
    BY <1>7, <2>1
  <2>3. t = i
    BY <1>10, <2>1, <2>2
  <2> QED
    BY <1>8, <1>10, <2>1, <2>2, <2>3 DEF ListedOnce
<1> QED
  BY <1>9, <1>10

\* The acceptor thread of bench.
LEMMA AcceptorKeeps ==
    ASSUME SimpleInv, Acceptor_accept, UNCHANGED <<srv, nofile>>
    PROVE  SimpleInv'
<1>1. /\ srv = "bench" /\ srv \notin Threaded /\ proc = "up"
      /\ UNCHANGED <<thr, evConns, pollfds, phandlers, sock_num, proc>>
  BY DEF Acceptor_accept, pollerVars, Threaded
<1>2. 0 \in ClientOrNone /\ \A d \in Clients : d # 0 /\ d \in ClientOrNone
  BY SimpleAssumption DEF ClientOrNone, Clients
<1>3. CASE UNCHANGED <<cn, lq>> /\ bufConns' = [bufConns EXCEPT ![1] = Append(@, 0)]
  <2>1. UNCHANGED <<cn, lq>> /\ bufConns' = [bufConns EXCEPT ![1] = Append(@, 0)]
    BY <1>3
  <2>2. BenchInv' /\ bufConns' \in [{0, 1} -> Seq(ClientOrNone)]
    BY <1>1, <1>2, <2>1, BenchHandsOver
  <2>3. SimpleTypes'
    BY <1>1, <2>1, <2>2 DEF SimpleInv, SimpleTypes
  <2>4. ThreadInv'
    BY <1>1, <2>1, EventsStay DEF SimpleInv
  <2>5. StreamInv'
    <3>1. \A d \in Clients : InHand(d)' = InHand(d)
      BY <1>1, <2>1 DEF InHand
    <3> QED
      BY <2>1, <3>1, SameStreams
  <2>6. PollInv'
    BY <1>1 DEF SimpleInv, PollInv
  <2> QED
    BY <1>1, <2>1, <2>2, <2>3, <2>4, <2>5, <2>6, SameConns DEF SimpleInv
<1>4. ASSUME NEW f \in FreeFds, lq[0] # <<>>, lq' = [lq EXCEPT ![0] = Tail(@)],
             cn' = Accepted(0, f % 2, f),
             bufConns' = [bufConns EXCEPT ![f % 2] = Append(@, Head(lq[0]))]
      PROVE  SimpleInv'
  <2>1. lq[0] \in Seq(Clients)
    BY DEF SimpleInv, SimpleTypes
  <2>2. PICK c \in Clients : c = Head(lq[0]) /\ c # 0
    BY <1>2, <1>4, <2>1
  <2>3. f \in Nat
    BY SimpleAssumption DEF SimpleInv, SimpleTypes, FreeFds
  <2>5. PICK i \in {0, 1} : i = f % 2
    BY <2>3
  <2>6. /\ cn' = Accepted(0, i, f) /\ lq' = [lq EXCEPT ![0] = Tail(@)]
        /\ bufConns' = [bufConns EXCEPT ![i] = Append(@, c)]
    BY <1>4, <2>2, <2>5
  <2>7. PICK r : AcceptStep(0, c, r) /\ r.own = i
    BY <1>1, <1>4, <2>2, <2>6, LoopsAreThreads, AcceptedIsStep
  <2>8. /\ cn' \in [Clients -> ConnStates] /\ cn'[c] = r
        /\ \A d \in Clients : d # c => cn'[d] = cn[d]
        /\ cn[c].fd = 0 /\ r.fd # 0
    BY <2>7, AcceptStepValues
  <2>9. BenchInv' /\ bufConns' \in [{0, 1} -> Seq(ClientOrNone)]
    <3>1. /\ c \in ClientOrNone /\ cn[c].fd = 0 /\ cn'[c].fd # 0 /\ cn'[c].own = i
          /\ \A d \in Clients : d # c => cn'[d].fd = cn[d].fd /\ cn'[d].own = cn[d].own
      BY <1>2, <2>7, <2>8
    <3>2. UNCHANGED <<srv, evConns>> /\ srv = "bench"
      BY <1>1
    <3> QED
      BY <2>6, <3>1, <3>2, BenchHandsOver
  <2>10. QueueInv' /\ ConnInv' /\ lq' \in [{0, 1} -> Seq(Clients)]
    BY <2>7, AcceptQueue, AcceptConn
  <2>11. StreamInv'
    BY <1>1, <2>7, AcceptHandsIdle, AcceptStreams
  <2>12. ThreadInv'
    <3>1. ASSUME NEW t \in ServerThreads
          PROVE  ThreadOK(t)'
      <4>1. \A d \in Clients : cn[d].fd # 0 => cn'[d].fd = cn[d].fd /\ cn'[d].own = cn[d].own
        BY <2>8
      <4> QED
        BY <1>1, <4>1, ThreadStays
    <3> QED
      BY <3>1 DEF ThreadInv, ThreadOK
  <2>13. SimpleTypes'
    BY <1>1, <2>8, <2>9, <2>10 DEF SimpleInv, SimpleTypes
  <2>14. PollInv' /\ TableInv'
    BY <1>1 DEF SimpleInv, PollInv, TableInv
  <2>15. DeathCauses'
    BY <1>1 DEF DeathCauses, SigpipeNeedsHalfClose, OverrunNeedsTableFull
  <2> QED
    BY <2>9, <2>10, <2>11, <2>12, <2>13, <2>14, <2>15 DEF SimpleInv
<1> QED
  BY <1>3, <1>4 DEF Acceptor_accept

\* Without a free descriptor, as many clients are accepted as there are descriptors.
LEMMA NoFreeFd ==
    ASSUME SimpleInv, FreeFds = {}
    PROVE  Cardinality(AcceptedClients) >= nofile
<1>1. nofile \in 1 .. NFds /\ nofile \in Nat
  BY SimpleAssumption DEF SimpleInv, SimpleTypes
<1> DEFINE G == [f \in 1 .. nofile |-> CHOOSE c \in Clients : cn[c].fd = f]
<1>2. \A f \in 1 .. nofile : \E c \in Clients : cn[c].fd = f
  BY DEF FreeFds
<1>3. \A f \in 1 .. nofile : G[f] \in Clients /\ cn[G[f]].fd = f
  BY <1>2
<1>4. \A f \in 1 .. nofile : G[f] \in AcceptedClients
  <2>1. \A c \in Clients : cn[c].fd # 0 => cn[c].accepted
    BY ConnFacts DEF FdOK
  <2>2. \A f \in 1 .. nofile : f # 0
    BY <1>1
  <2> QED
    BY <1>3, <2>1, <2>2 DEF AcceptedClients
<1>5. G \in Injection(1 .. nofile, AcceptedClients)
  <2>1. G \in [1 .. nofile -> AcceptedClients]
    BY <1>4
  <2>2. \A f, g \in 1 .. nofile : G[f] = G[g] => f = g
    BY <1>3
  <2> QED
    BY <2>1, <2>2 DEF Injection, IsInjective
<1>6. IsFiniteSet(AcceptedClients) /\ Cardinality(AcceptedClients) \in Nat
  <2>1. AcceptedClients \in SUBSET Clients
    BY DEF AcceptedClients
  <2> QED
    BY <2>1, SetsFinite
<1>7. Cardinality(1 .. nofile) <= Cardinality(AcceptedClients)
  BY <1>5, <1>6, FS_Injection
<1>8. Cardinality(1 .. nofile) = nofile
  BY <1>1, FS_Interval
<1> QED
  BY <1>1, <1>6, <1>7, <1>8

\* main of server.cpp and of the IPv6 server.
LEMMA AcceptInMainKeeps ==
    ASSUME SimpleInv, AcceptInMain, srv \in Threaded,
           UNCHANGED <<srv, nofile, pollfds, phandlers, bufConns, evConns>>
    PROVE  SimpleInv'
<1>1. proc = "up" /\ srv # "poll" /\ srv # "bench"
  BY DEF AcceptInMain, Threaded
<1>2. PollInv' /\ BenchInv'
  BY <1>1 DEF SimpleInv, PollInv, BenchInv
<1>3. /\ Cardinality(AcceptedClients) \in Nat /\ sock_num \in 0 .. MaxConns
      /\ MaxConns \in Nat /\ nofile \in Nat
  <2>1. AcceptedClients \in SUBSET Clients
    BY DEF AcceptedClients
  <2> QED
    BY <2>1, SetsFinite, SimpleAssumption DEF SimpleInv, SimpleTypes
<1>4. CASE sock_num = MaxConns
  <2>1. proc' = "overrun" /\ UNCHANGED <<cn, thr, lq, sock_num>>
    BY <1>4 DEF AcceptInMain
  <2>2. SimpleTypes'
    BY <2>1 DEF SimpleInv, SimpleTypes
  <2>3. StreamInv'
    <3>1. \A d \in Clients : InHand(d)' = InHand(d)
      BY <2>1 DEF InHand
    <3> QED
      BY <2>1, <3>1, SameStreams
  <2>4. ThreadInv'
    BY <2>1, EventsStay DEF SimpleInv
  <2>5. ConnInv' /\ QueueInv' /\ TableInv'
    BY <2>1 DEF SimpleInv, ConnInv, ErrorOK, FdOK, QueueInv, TableInv, AcceptedClients
  <2>6. DeathCauses'
    <3>1. AcceptedClients' = AcceptedClients
      BY <2>1 DEF AcceptedClients
    <3>2. Cardinality(AcceptedClients) = MaxConns \/ Cardinality(AcceptedClients) >= nofile
      BY <1>4 DEF SimpleInv, TableInv
    <3>3. PICK m \in Nat : m = Min({MaxConns, nofile}) /\ m <= MaxConns /\ m <= nofile
      BY <1>3, MinOfTwo
    <3>4. Cardinality(AcceptedClients) >= m
      BY <1>3, <3>2, <3>3
    <3>5. Cardinality(AcceptedClients') >= Min({MaxConns, nofile})
      BY <3>1, <3>3, <3>4
    <3>6. SigpipeNeedsHalfClose'
      BY <2>1 DEF SigpipeNeedsHalfClose
    <3>7. OverrunNeedsTableFull'
      BY <1>4, <2>1, <3>5 DEF OverrunNeedsTableFull
    <3> QED
      BY <3>6, <3>7 DEF DeathCauses
  <2> QED
    BY <1>2, <2>2, <2>3, <2>4, <2>5, <2>6 DEF SimpleInv
<1>5. CASE sock_num # MaxConns
  <2>1. sock_num' = sock_num + 1 /\ proc' = proc /\ sock_num' \in 0 .. MaxConns
    BY <1>3, <1>5 DEF AcceptInMain
  <2>2. DeathCauses'
    BY <1>1, <2>1 DEF DeathCauses, SigpipeNeedsHalfClose, OverrunNeedsTableFull
  <2>3. CASE FreeFds = {} /\ UNCHANGED <<cn, thr, lq>>
    <3>1. UNCHANGED <<cn, thr, lq>>
      BY <2>3
    <3>2. SimpleTypes'
      BY <2>1, <3>1 DEF SimpleInv, SimpleTypes
    <3>3. StreamInv'
      <4>1. \A d \in Clients : InHand(d)' = InHand(d)
        BY <3>1 DEF InHand
      <4> QED
        BY <3>1, <4>1, SameStreams
    <3>4. ThreadInv'
      BY <3>1, EventsStay DEF SimpleInv
    <3>5. ConnInv' /\ QueueInv'
      BY <3>1 DEF SimpleInv, ConnInv, ErrorOK, FdOK, QueueInv
    <3>6. TableInv'
      <4>1. Cardinality(AcceptedClients) >= nofile /\ AcceptedClients' = AcceptedClients
        BY <2>3, <3>1, NoFreeFd DEF AcceptedClients
      <4> QED
        BY <4>1 DEF TableInv
    <3> QED
      BY <1>2, <2>2, <3>2, <3>3, <3>4, <3>5, <3>6 DEF SimpleInv
  <2>4. ASSUME NEW f \in FreeFds, cn' = Accepted(0, Head(lq[0]), f),
               lq' = [lq EXCEPT ![0] = Tail(@)], thr' = [thr EXCEPT ![Head(lq[0])].pc = "loop"]
        PROVE  SimpleInv'
    <3>1. lq[0] \in Seq(Clients) /\ lq[0] # <<>>
      BY DEF SimpleInv, SimpleTypes, AcceptInMain
    <3>2. PICK c \in Clients : c = Head(lq[0])
      BY <3>1
    <3>3. c \in ServerThreads /\ c # 0
      BY SimpleAssumption DEF Clients, ServerThreads
    <3>4. /\ cn' = Accepted(0, c, f) /\ lq' = [lq EXCEPT ![0] = Tail(@)]
          /\ thr' = [thr EXCEPT ![c].pc = "loop"]
      BY <2>4, <3>2
    <3>5. PICK r : AcceptStep(0, c, r)
      BY <3>1, <3>2, <3>3, <3>4, AcceptedIsStep
    <3>6. /\ cn' \in [Clients -> ConnStates] /\ cn'[c] = r
          /\ \A d \in Clients : d # c => cn'[d] = cn[d]
          /\ cn[c].fd = 0 /\ r.fd # 0
      BY <3>5, AcceptStepValues
    <3>7. thr[c] \in ServerThreadStates /\ thr \in [ServerThreads -> ServerThreadStates]
      BY <3>3 DEF SimpleInv, SimpleTypes
    <3>8. PICK s : s = [thr[c] EXCEPT !.pc = "loop"]
      OBVIOUS
    <3>9. /\ s \in ServerThreadStates /\ s.pc = "loop" /\ s.batch = thr[c].batch
          /\ s.at = thr[c].at /\ s.buf = thr[c].buf
      BY <3>7, <3>8 DEF ServerThreadStates
    <3>10. /\ thr' = [thr EXCEPT ![c] = s] /\ thr'[c] = s
           /\ thr' \in [ServerThreads -> ServerThreadStates]
           /\ \A u \in ServerThreads : u # c => thr'[u] = thr[u]
      BY <3>3, <3>4, <3>7, <3>8, <3>9
    <3>11. WorkerOK(c) /\ Len(thr[c].buf) <= BufSize
      BY <3>3 DEF SimpleInv, ThreadInv
    <3>12. ThreadOK(c)'
      BY <3>3, <3>6, <3>9, <3>10, <3>11 DEF ThreadOK, WorkerOK
    <3>13. ThreadInv'
      BY <3>3, <3>6, <3>10, <3>12, ThreadsStep
    <3>14. StreamInv'
      <4>1. thr[c].pc # "send" /\ s.pc # "send"
        BY <3>6, <3>9, <3>11 DEF WorkerOK
      <4>2. \A d \in Clients : InHand(d)' = InHand(d)
        BY <3>3, <3>5, <3>10, <4>1, AcceptHands
      <4> QED
        BY <3>5, <4>2, AcceptStreams
    <3>15. QueueInv' /\ ConnInv' /\ lq' \in [{0, 1} -> Seq(Clients)]
      BY <3>5, AcceptQueue, AcceptConn
    <3>16. SimpleTypes'
      BY <2>1, <3>6, <3>10, <3>15 DEF SimpleInv, SimpleTypes
    <3>17. TableInv'
      <4>1. Cardinality(AcceptedClients') = Cardinality(AcceptedClients) + 1
        BY <3>5, AcceptSets
      <4>2. nofile' = nofile /\ srv' = srv
        OBVIOUS
      <4>3. sock_num = Cardinality(AcceptedClients) \/ Cardinality(AcceptedClients) >= nofile
        BY DEF SimpleInv, TableInv
      <4>4. sock_num' = Cardinality(AcceptedClients') \/ Cardinality(AcceptedClients') >= nofile
        BY <1>3, <2>1, <4>1, <4>3
      <4> QED
        BY <4>2, <4>4 DEF TableInv
    <3> QED
      BY <1>2, <2>2, <3>13, <3>14, <3>15, <3>16, <3>17 DEF SimpleInv
  <2> QED
    BY <1>5, <2>3, <2>4 DEF AcceptInMain
<1> QED
  BY <1>4, <1>5

-----------------------------------------------------------------------------
(* recv and send *)

\* recv of an open connection keeps it, with what it returned in hand.
LEMMA RecvConn ==
    ASSUME SimpleInv, NEW c \in Clients, cn[c].fd # 0, InHand(c) = <<>>, RecvRet(c) > 0,
           cn' = [cn EXCEPT ![c] = AfterRecv(c)], UNCHANGED <<srv, nofile>>,
           NEW k, k = SubSeq(cn[c].inq, 1, RecvRet(c))
    PROVE  /\ ConnStep(c, AfterRecv(c)) /\ AfterRecv(c).fd = cn[c].fd
           /\ StreamOK(c, AfterRecv(c), k)
           /\ k \in Seq(Bytes) /\ Len(k) <= BufSize /\ k # <<>>
<1>1. /\ cn[c] \in ConnStates /\ StreamOK(c, cn[c], <<>>)
      /\ cn[c].sent \in Nat /\ cn[c].inq \in Seq(Bytes) /\ cn[c].got \in Seq(Bytes)
      /\ ErrorOK(c) /\ FdOK(c)
  BY ConnFacts
<1>2. PICK r : r = AfterRecv(c)
  OBVIOUS
<1>3. PICK m \in Nat : m = RecvRet(c)
  BY RecvRetRange DEF SimpleInv
<1>4. m > 0 /\ m <= BufSize /\ m <= Len(cn[c].inq)
  BY <1>3, RecvRetRange DEF SimpleInv
<1>5. /\ r \in ConnStates /\ r.peer = cn[c].peer /\ r.sent = cn[c].sent
      /\ r.fd = cn[c].fd /\ r.own = cn[c].own /\ r.accepted = cn[c].accepted
      /\ r.got = cn[c].got /\ r.full = cn[c].full /\ r.err = cn[c].err
      /\ r.inq = SubSeq(cn[c].inq, m + 1, Len(cn[c].inq))
  BY <1>2, <1>3, <1>4, AfterRecvFields DEF SimpleInv
<1>6. Kept(c, r)
  BY <1>1, <1>5 DEF Kept, ErrorOK
<1>7. PICK n \in Nat, q \in Seq(Bytes), g \in Seq(Bytes) :
         n = cn[c].sent /\ q = cn[c].inq /\ g = cn[c].got
  BY <1>1
<1>8. StreamIs(c, n, q, <<>>, g)
  BY <1>1, <1>7 DEF StreamOK
<1>9. PICK p : p = SubSeq(q, m + 1, Len(q))
  OBVIOUS
<1>10. /\ StreamIs(c, n, p, k, g) /\ Len(k) = m /\ k \in Seq(Bytes)
       /\ StreamWhole(n, q, <<>>, g) => StreamWhole(n, p, k, g)
  <2>1. k = SubSeq(q, 1, m) /\ m <= Len(q)
    BY <1>3, <1>4, <1>7
  <2> QED
    <3>1. Divides(q, m, k, p)
      BY <1>9, <2>1 DEF Divides
    <3>2. PICK h : h = <<>>
      OBVIOUS
    <3>3. StreamIs(c, n, q, h, g)
      BY <1>8, <3>2
    <3>4. Len(h) = 0
      BY <3>2
    <3>5. /\ StreamIs(c, n, p, k, g) /\ k \in Seq(Bytes)
          /\ StreamWhole(n, q, h, g) => StreamWhole(n, p, k, g)
      <4>1. StreamIs(c, n, p, k, g)
        BY ONLY <3>1, <3>3, <3>4, StreamReceived, n \in Nat, m \in Nat, q \in Seq(Bytes), g \in Seq(Bytes)
      <4>2. k \in Seq(Bytes)
        BY ONLY <3>1, <3>3, <3>4, StreamReceived, n \in Nat, m \in Nat, q \in Seq(Bytes), g \in Seq(Bytes)
      <4>3. StreamWhole(n, q, h, g) => StreamWhole(n, p, k, g)
        BY ONLY <3>1, <3>3, <3>4, StreamReceived, n \in Nat, m \in Nat, q \in Seq(Bytes), g \in Seq(Bytes)
      <4> QED
        BY <4>1, <4>2, <4>3
    <3>6. Len(k) = m
      BY ONLY <2>1, q \in Seq(Bytes), m \in Nat
    <3> QED
      BY <3>2, <3>5, <3>6
<1>11. StreamOK(c, r, k)
  <2>1. Promised(r) => StreamWhole(n, q, <<>>, g)
    BY <1>1, <1>5, <1>7 DEF StreamOK, Promised
  <2>2. n <= Sends[c]
    BY <1>1, <1>7 DEF StreamOK
  <2> QED
    BY <1>5, <1>7, <1>9, <1>10, <2>1, <2>2 DEF StreamOK
<1>12. Len(k) <= BufSize /\ k # <<>>
  <2>1. Len(<<>>) = 0
    OBVIOUS
  <2> QED
    BY <1>4, <1>10, <2>1
<1> QED
  BY <1>2, <1>5, <1>6, <1>10, <1>11, <1>12 DEF ConnStep

\* r is q after a loop looked at ret: kept or closed.
EchoOutcome(q, ret, r) ==
    /\ r.peer = q.peer /\ r.sent = q.sent /\ r.inq = q.inq /\ r.err = q.err
    /\ r.own = q.own /\ r.accepted = q.accepted /\ r.got = q.got /\ r.full = q.full
    /\ r.fd \in {q.fd, 0} /\ (ret <= 0 /\ srv # "epoll" => r.fd = 0)

\* What the loops do with the connection after the call, q.
LEMMA AfterEchoTo ==
    ASSUME SimpleTypes, NEW c \in Clients, NEW q \in ConnStates, NEW ret \in Int,
           srv \in Programs \ Threaded,
           NEW o, o = AfterEcho([cn EXCEPT ![c] = q], c, ret)
    PROVE  \E r \in ConnStates : o = [cn EXCEPT ![c] = r] /\ EchoOutcome(q, ret, r)
<1>1. cn \in [Clients -> ConnStates]
  BY DEF SimpleTypes
<1>2. PICK z : z = [q EXCEPT !.fd = 0]
  OBVIOUS
<1>3. /\ z \in ConnStates /\ z.peer = q.peer /\ z.sent = q.sent /\ z.inq = q.inq /\ z.err = q.err
      /\ z.own = q.own /\ z.accepted = q.accepted /\ z.got = q.got /\ z.full = q.full /\ z.fd = 0
  <2>1. 0 \in 0 .. NFds
    BY SimpleAssumption
  <2> QED
    BY <1>2, <2>1 DEF ConnStates
<1>4. PICK f : f = [cn EXCEPT ![c] = q]
  OBVIOUS
<1>5. Closed(f, c) = [cn EXCEPT ![c] = z]
  BY <1>1, <1>2, <1>4 DEF Closed
<1>6. AfterEcho(f, c, ret) \in {f, Closed(f, c)}
      /\ (ret <= 0 /\ srv # "epoll" => AfterEcho(f, c, ret) = Closed(f, c))
  <2>1. CASE srv = "epoll"
    BY <2>1 DEF AfterEcho, server_epoll_loop_after, server_epoll_close_fd
  <2>2. CASE srv = "reuseport"
    BY <2>2 DEF AfterEcho, reuseport_loop_after, reuseport_close_fd
  <2>3. CASE srv = "handle"
    BY <2>3 DEF AfterEcho, handle_Connection_handle, handle_Connection_dtor
  <2>4. CASE srv = "handle_c"
    BY <2>4 DEF AfterEcho, connection_handler, connection_destructor
  <2>5. CASE srv = "poll"
    BY <2>5 DEF AfterEcho, poll_Connection_handle
  <2>6. CASE srv = "bench"
    BY <2>6 DEF AfterEcho, bench_handle
  <2> QED
    BY <2>1, <2>2, <2>3, <2>4, <2>5, <2>6 DEF Programs, Threaded
<1>7. CASE AfterEcho(f, c, ret) = Closed(f, c)
  BY <1>3, <1>4, <1>5, <1>7 DEF EchoOutcome
<1>8. CASE AfterEcho(f, c, ret) # Closed(f, c)
  BY <1>4, <1>6, <1>8 DEF EchoOutcome
<1> QED
  BY <1>7, <1>8

\* A recv of a loop that returned nothing.
LEMMA LoopRecvConn ==
    ASSUME SimpleInv, NEW c \in Clients, cn[c].fd # 0, InHand(c) = <<>>, ~(RecvRet(c) > 0),
           srv \in Programs \ Threaded, UNCHANGED <<srv, nofile>>,
           srv = "poll" => cn[c].fd < FdRange,
           cn' = AfterEcho([cn EXCEPT ![c] = AfterRecv(c)], c, RecvRet(c))
    PROVE  \E r : ConnStep(c, r) /\ StreamOK(c, r, <<>>)
<1>1. cn[c] \in ConnStates /\ StreamOK(c, cn[c], <<>>) /\ ErrorOK(c) /\ FdOK(c)
  BY ConnFacts
<1>2. PICK q \in ConnStates : q = AfterRecv(c)
  BY AfterRecvFields DEF SimpleInv
<1>3. /\ q.peer = cn[c].peer /\ q.sent = cn[c].sent
      /\ q.fd = cn[c].fd /\ q.own = cn[c].own /\ q.accepted = cn[c].accepted
      /\ q.got = cn[c].got /\ q.full = cn[c].full /\ q.inq = cn[c].inq
      /\ q.err = (IF RecvRet(c) = -1 /\ cn[c].err = "ECONNRESET" THEN "shut" ELSE cn[c].err)
  BY <1>2, AfterRecvFields DEF SimpleInv
<1>4. PICK ret \in Int : ret = RecvRet(c) /\ ret <= 0
  BY RecvRetRange DEF SimpleInv
<1>45. cn' = AfterEcho([cn EXCEPT ![c] = q], c, ret)
  BY <1>2, <1>4
<1>46. SimpleTypes
  BY DEF SimpleInv
<1>5. PICK r \in ConnStates :
              /\ cn' = [cn EXCEPT ![c] = r]
              /\ r.peer = q.peer /\ r.sent = q.sent /\ r.inq = q.inq /\ r.err = q.err
              /\ r.own = q.own /\ r.accepted = q.accepted /\ r.got = q.got /\ r.full = q.full
              /\ r.fd \in {q.fd, 0} /\ (ret <= 0 /\ srv # "epoll" => r.fd = 0)
  <2>1. PICK o : o = cn'
    OBVIOUS
  <2>2. o = AfterEcho([cn EXCEPT ![c] = q], c, ret)
    BY <2>1, <1>45
  <2>3. PICK r \in ConnStates : o = [cn EXCEPT ![c] = r] /\ EchoOutcome(q, ret, r)
    BY <1>46, <2>2, AfterEchoTo
  <2> QED
    BY <2>1, <2>3 DEF EchoOutcome
<1>6. Kept(c, r)
  BY <1>1, <1>3, <1>4, <1>5 DEF Kept, ErrorOK, FdOK
<1>7. StreamOK(c, r, <<>>)
  BY <1>1, <1>3, <1>5, StreamSame DEF Promised
<1> QED
  BY <1>5, <1>6, <1>7 DEF ConnStep

\* The one send of a loop: what it does not take is dropped.
LEMMA LoopSendConn ==
    ASSUME SimpleInv, NEW c \in Clients, cn[c].fd # 0, NEW b \in Seq(Bytes), b # <<>>,
           InHand(c) = b, ~SendKills(c),
           srv \in Programs \ Threaded, UNCHANGED <<srv, nofile>>,
           srv = "poll" => cn[c].fd < FdRange,
           cn' = AfterEcho([cn EXCEPT ![c] = AfterSend(c, b)], c, SendRet(c, Len(b)))
    PROVE  \E r : ConnStep(c, r) /\ StreamOK(c, r, <<>>)
<1>1. /\ cn[c] \in ConnStates /\ StreamOK(c, cn[c], b)
      /\ cn[c].sent \in Nat /\ cn[c].inq \in Seq(Bytes) /\ cn[c].got \in Seq(Bytes)
      /\ ErrorOK(c) /\ FdOK(c)
  BY ConnFacts
<1>2. PICK m \in Int : m = SendRet(c, Len(b))
  <2>1. Len(b) \in Nat \ {0}
    OBVIOUS
  <2> QED
    BY <2>1, SendRetRange DEF SimpleInv
<1>3. (m = -1 \/ m > 0) /\ (m > 0 => m <= Len(b) /\ cn[c].err = "none")
  <2>1. Len(b) \in Nat \ {0}
    OBVIOUS
  <2> QED
    BY <1>2, <2>1, SendRetRange DEF SimpleInv
<1>4. PICK q \in ConnStates : q = AfterSend(c, b)
  BY AfterSendFields DEF SimpleInv
<1>5. /\ q.peer = cn[c].peer /\ q.sent = cn[c].sent
      /\ q.fd = cn[c].fd /\ q.own = cn[c].own /\ q.accepted = cn[c].accepted /\ q.inq = cn[c].inq
      /\ m > 0 => /\ q.got = cn[c].got \o SubSeq(b, 1, m) /\ q.err = cn[c].err
                  /\ q.full = (cn[c].full \/ m < Len(b))
      /\ m = -1 => /\ q.got = cn[c].got /\ q.full = (cn[c].full \/ cn[c].err = "none")
                   /\ q.err = (IF cn[c].err = "ECONNRESET" THEN "shut" ELSE cn[c].err)
  BY <1>2, <1>4, AfterSendFields DEF SimpleInv
<1>55. cn' = AfterEcho([cn EXCEPT ![c] = q], c, m)
  BY <1>2, <1>4
<1>56. SimpleTypes
  BY DEF SimpleInv
<1>6. PICK r \in ConnStates :
              /\ cn' = [cn EXCEPT ![c] = r]
              /\ r.peer = q.peer /\ r.sent = q.sent /\ r.inq = q.inq /\ r.err = q.err
              /\ r.own = q.own /\ r.accepted = q.accepted /\ r.got = q.got /\ r.full = q.full
              /\ r.fd \in {q.fd, 0} /\ (m <= 0 /\ srv # "epoll" => r.fd = 0)
  <2>1. PICK o : o = cn'
    OBVIOUS
  <2>2. o = AfterEcho([cn EXCEPT ![c] = q], c, m)
    BY <2>1, <1>55
  <2>3. PICK r \in ConnStates : o = [cn EXCEPT ![c] = r] /\ EchoOutcome(q, m, r)
    BY <1>56, <2>2, AfterEchoTo
  <2> QED
    BY <2>1, <2>3 DEF EchoOutcome
<1>7. Kept(c, r)
  <2>1. m = -1 => m <= 0
    OBVIOUS
  <2> QED
    BY <1>1, <1>3, <1>5, <1>6, <2>1 DEF Kept, ErrorOK, FdOK, SendKills
<1>8. PICK n \in Nat, u \in Seq(Bytes), g \in Seq(Bytes) :
         n = cn[c].sent /\ u = cn[c].inq /\ g = cn[c].got
  BY <1>1
<1>9. StreamIs(c, n, u, b, g) /\ n <= Sends[c] /\ (Promised(cn[c]) => StreamWhole(n, u, b, g))
  BY <1>1, <1>8 DEF StreamOK
<1>10. CASE m > 0
  <2>0. PICK y : y = SubSeq(b, 1, m)
    OBVIOUS
  <2>1. PICK x : x = g \o y
    OBVIOUS
  <2>2. PICK k : k = SubSeq(b, m + 1, Len(b))
    OBVIOUS
  <2>3. m \in Nat /\ m <= Len(b)
    BY <1>3, <1>10
  <2>4. /\ StreamIs(c, n, u, k, x) /\ Len(k) = Len(b) - m /\ k \in Seq(Bytes)
        /\ StreamWhole(n, u, b, g) => StreamWhole(n, u, k, x)
    <3>1. StreamIs(c, n, u, b, g)
      BY <1>9
    <3>3. Joins(g, y, x)
      BY <2>1 DEF Joins
    <3>2. Divides(b, m, y, k)
      BY <2>0, <2>2, <2>3 DEF Divides
    <3>4. /\ StreamIs(c, n, u, k, x) /\ k \in Seq(Bytes)
          /\ StreamWhole(n, u, b, g) => StreamWhole(n, u, k, x)
      <4>1. StreamIs(c, n, u, k, x)
        BY ONLY <2>3, <3>1, <3>2, <3>3, StreamSent, n \in Nat, u \in Seq(Bytes), b \in Seq(Bytes), g \in Seq(Bytes)
      <4>2. k \in Seq(Bytes)
        BY ONLY <2>3, <3>1, <3>2, <3>3, StreamSent, n \in Nat, u \in Seq(Bytes), b \in Seq(Bytes), g \in Seq(Bytes)
      <4>3. StreamWhole(n, u, b, g) => StreamWhole(n, u, k, x)
        BY ONLY <2>3, <3>1, <3>2, <3>3, StreamSent, n \in Nat, u \in Seq(Bytes), b \in Seq(Bytes), g \in Seq(Bytes)
      <4> QED
        BY <4>1, <4>2, <4>3
    <3>5. Len(k) = Len(b) - m
      BY <2>2, <2>3
    <3> QED
      BY <3>4, <3>5
  <2>5. r.got = x /\ x \in Seq(Bytes)
    BY <1>5, <1>6, <1>8, <1>10, <2>0, <2>1 DEF ConnStates
  <2>6. StreamIs(c, n, u, <<>>, x)
    BY <2>4, <2>5, StreamDropped
  <2>7. ASSUME Promised(r)
        PROVE  StreamWhole(n, u, <<>>, x)
    <3>1. Promised(cn[c]) /\ ~(m < Len(b))
      BY <1>5, <1>6, <1>10, <2>7 DEF Promised
    <3>2. Len(k) = 0
      <4>1. PICK lb \in Nat : lb = Len(b)
        OBVIOUS
      <4>2. Len(k) = lb - m /\ m <= lb /\ ~(m < lb)
        BY <2>3, <2>4, <3>1, <4>1
      <4> QED
        BY <4>2
    <3>3. k = <<>>
      BY <2>4, <3>2
    <3> QED
      BY <1>9, <2>4, <3>1, <3>3
  <2>8. StreamOK(c, r, <<>>)
    BY <1>5, <1>6, <1>8, <1>9, <2>5, <2>6, <2>7 DEF StreamOK
  <2> QED
    BY <1>6, <1>7, <2>8 DEF ConnStep
<1>11. CASE m = -1
  <2>1. r.got = g
    BY <1>5, <1>6, <1>8, <1>11
  <2>2. StreamIs(c, n, u, <<>>, g)
    BY <1>9, StreamDropped
  <2>3. ~Promised(r)
    BY <1>1, <1>5, <1>6, <1>11 DEF Promised, ErrorOK
  <2>4. StreamOK(c, r, <<>>)
    BY <1>5, <1>6, <1>8, <1>9, <2>1, <2>2, <2>3 DEF StreamOK
  <2> QED
    BY <1>6, <1>7, <2>4 DEF ConnStep
<1> QED
  BY <1>3, <1>10, <1>11

-----------------------------------------------------------------------------
(* Loops serve connections *)

\* What the owner of c has in hand of it before it receives.
LEMMA OwnerIdle ==
    ASSUME NEW t, NEW c, cn[c].own = t, thr[t].pc # "send"
    PROVE  InHand(c) = <<>>
  BY DEF InHand

\* The thread holds the bytes it received for event e.
LEMMA LoopReceives ==
    ASSUME SimpleInv, NEW t \in {0, 1}, srv \notin Threaded, NEW e, Taken(t, e),
           NEW c \in Clients, e.conn = c, RecvRet(c) > 0,
           cn' = [cn EXCEPT ![c] = AfterRecv(c)],
           thr' = [thr EXCEPT ![t].pc = "send", ![t].at = c,
                     ![t].buf = SubSeq(cn[c].inq, 1, RecvRet(c))],
           UNCHANGED <<srv, nofile, lq, sock_num, proc, pollfds, phandlers, bufConns, evConns>>
    PROVE  SimpleInv'
<1>1. /\ t \in ServerThreads /\ e \in thr[t].batch /\ thr[t].pc = "loop"
      /\ c \in ClientOrNone /\ c # 0
  BY LoopsAreThreads, SimpleAssumption DEF Taken, Clients, ClientOrNone
<1>2. LoopOK(t)
  BY <1>1 DEF SimpleInv, ThreadInv
<1>3. EventOK(t, e)
  BY <1>1, <1>2 DEF LoopOK
<1>4. cn[c].fd # 0 /\ cn[c].own = t
  BY <1>1, <1>3 DEF EventOK
<1>5. InHand(c) = <<>>
  BY <1>1, <1>4, OwnerIdle
<1>6. PICK k : k = SubSeq(cn[c].inq, 1, RecvRet(c))
  OBVIOUS
<1>7. PICK r : r = AfterRecv(c)
  OBVIOUS
<1>8. /\ ConnStep(c, r) /\ r.fd = cn[c].fd /\ StreamOK(c, r, k)
      /\ k \in Seq(Bytes) /\ Len(k) <= BufSize /\ k # <<>>
  BY <1>4, <1>5, <1>6, <1>7, RecvConn
<1>9. thr[t] \in ServerThreadStates /\ thr \in [ServerThreads -> ServerThreadStates]
  BY <1>1 DEF SimpleInv, SimpleTypes
<1>10. PICK s : s = [thr[t] EXCEPT !.pc = "send", !.at = c, !.buf = k]
  OBVIOUS
<1>11. s \in ServerThreadStates /\ s.pc = "send" /\ s.at = c /\ s.buf = k /\ s.batch = thr[t].batch
  BY <1>1, <1>8, <1>9, <1>10 DEF ServerThreadStates
<1>12. thr' = [thr EXCEPT ![t] = s]
  BY <1>1, <1>6, <1>9, <1>10 DEF ServerThreadStates
<1>13. /\ thr' \in [ServerThreads -> ServerThreadStates] /\ thr'[t] = s
       /\ \A u \in ServerThreads : u # t => thr'[u] = thr[u]
  BY ONLY <1>1, <1>9, <1>11, <1>12
<1>14. /\ cn' \in [Clients -> ConnStates] /\ cn'[c] = r
       /\ \A d \in Clients : d # c => cn'[d] = cn[d]
  BY <1>8, ConnStepValues DEF SimpleInv
<1>15. \A d \in Clients : cn'[d].fd = cn[d].fd /\ cn'[d].own = cn[d].own
  BY <1>8, <1>14 DEF ConnStep, Kept
<1>16. SimpleTypes'
  BY <1>13, <1>14 DEF SimpleInv, SimpleTypes
<1>17. StreamInv'
  <2>1. InHand(c)' = k
    BY <1>4, <1>11, <1>13, <1>15 DEF InHand
  <2>2. \A d \in Clients : d # c => InHand(d)' = InHand(d)
    <3>1. /\ t \in ServerThreads /\ thr'[t] = s
          /\ \A u \in ServerThreads : u # t => thr'[u] = thr[u]
      BY <1>1, <1>13
    <3>2. /\ \A d \in Clients : d # c => cn'[d].own = cn[d].own
          /\ thr[t].pc = "send" => thr[t].at = c
          /\ s.pc = "send" => s.at = c
      BY <1>1, <1>11, <1>15
    <3> QED
      BY ONLY SimpleInv, <3>1, <3>2, OtherHands
  <2>3. ConnStep(c, r) /\ StreamOK(c, r, k) /\ SimpleTypes /\ StreamInv
    BY <1>8 DEF SimpleInv
  <2> QED
    BY ONLY <2>1, <2>2, <2>3, StreamsStay
<1>18. ThreadOK(t)'
  <2>1. ASSUME NEW g \in thr[t].batch
        PROVE  EventOK(t, g)'
    <3>1. EventOK(t, g) /\ (g.conn # 0 => g.conn \in Clients)
      BY <1>1, <1>2, EventTypes DEF LoopOK, SimpleInv
    <3> QED
      BY <1>11, <1>13, <1>15, <3>1 DEF EventOK
  <2>2. LoopOK(t)'
    BY <1>1, <1>2, <1>11, <1>13, <2>1 DEF LoopOK, Loops
  <2> QED
    BY <1>8, <1>11, <1>13, <2>2 DEF ThreadOK
<1>19. ThreadInv'
  BY <1>1, <1>13, <1>15, <1>18, ThreadsStep
<1>20. ConnInv' /\ QueueInv' /\ TableInv' /\ DeathCauses'
  BY <1>8, ConnStepConn, ConnStepQueue, ConnStepDeath DEF SimpleInv
<1>21. PollInv' /\ BenchInv'
  BY <1>8, ConnStepPoll, ConnStepBench DEF SimpleInv
<1> QED
  BY <1>16, <1>17, <1>19, <1>20, <1>21 DEF SimpleInv

\* The thread is done with event e of c, and keeps nothing of it.
Served(t, e, c, r) ==
    /\ e \in thr[t].batch /\ c \in Clients /\ e.conn = c
    /\ thr[t].pc = "loop" \/ (thr[t].pc = "send" /\ thr[t].at = c)
    /\ ConnStep(c, r) /\ StreamOK(c, r, <<>>) /\ NextEvent(t, e)
    /\ UNCHANGED <<lq, sock_num, proc, bufConns>>

\* The other connections keep their index.
OthersIndexed(t, c) ==
    \A u \in {0, 1} : \A i \in DOMAIN evConns[u] : evConns[u][i] # c \/ u # t =>
       i \in DOMAIN evConns'[u] /\ evConns'[u][i] = evConns[u][i]

TablesKeep ==
    /\ PollInv' /\ pollfds' \in Seq(-1 .. NFds) /\ phandlers' \in [1 .. FdRange - 1 -> ClientOrNone]
    /\ BenchInv' /\ evConns' \in [{0, 1} -> Seq(ClientOrNone)]

LEMMA LoopServed ==
    ASSUME SimpleInv, NEW t \in {0, 1}, srv \notin Threaded, NEW e, NEW c, NEW r,
           Served(t, e, c, r), OthersIndexed(t, c), TablesKeep
    PROVE  SimpleInv'
<1>0. /\ e \in thr[t].batch /\ c \in Clients /\ e.conn = c
      /\ thr[t].pc = "loop" \/ (thr[t].pc = "send" /\ thr[t].at = c)
      /\ ConnStep(c, r) /\ StreamOK(c, r, <<>>) /\ NextEvent(t, e)
      /\ lq' = lq /\ sock_num' = sock_num /\ proc' = proc /\ bufConns' = bufConns
      /\ PollInv' /\ pollfds' \in Seq(-1 .. NFds) /\ phandlers' \in [1 .. FdRange - 1 -> ClientOrNone]
      /\ BenchInv' /\ evConns' \in [{0, 1} -> Seq(ClientOrNone)]
  BY DEF Served, TablesKeep
<1>1. t \in ServerThreads /\ c # 0
  BY <1>0, LoopsAreThreads, SimpleAssumption DEF Clients
<1>2. cn[c].own = t
  BY <1>0, <1>1 DEF SimpleInv, ThreadInv, LoopOK, EventOK
<1>3. PICK s \in ServerThreadStates :
              /\ thr' = [thr EXCEPT ![t] = s] /\ s.buf = <<>> /\ s.at = 0
              /\ s.pc = IF thr[t].batch \subseteq {e} THEN "wait" ELSE "loop"
  <2>1. SimpleTypes /\ NextEvent(t, e)
    BY <1>0 DEF SimpleInv
  <2> QED
    BY ONLY <1>1, <2>1, NextEventState
<1>4. s.pc # "send"
  BY <1>3
<1>5. /\ thr' \in [ServerThreads -> ServerThreadStates] /\ thr'[t] = s
      /\ \A u \in ServerThreads : u # t => thr'[u] = thr[u]
  BY <1>1, <1>3 DEF SimpleInv, SimpleTypes
<1>6. /\ cn' \in [Clients -> ConnStates] /\ cn'[c] = r
      /\ \A d \in Clients : d # c => cn'[d] = cn[d]
      /\ srv' = srv /\ nofile' = nofile
  BY <1>0, ConnStepValues DEF SimpleInv, ConnStep
<1>7. SimpleTypes'
  BY <1>0, <1>5, <1>6 DEF SimpleInv, SimpleTypes
<1>8. StreamInv'
  <2>1. InHand(c)' = <<>>
    BY <1>0, <1>2, <1>4, <1>5, <1>6 DEF InHand, ConnStep, Kept
  <2>2. \A d \in Clients : d # c => InHand(d)' = InHand(d)
    <3>1. thr[t].pc = "send" => thr[t].at = c
      BY <1>0
    <3>2. \A d \in Clients : d # c => cn'[d].own = cn[d].own
      BY <1>6
    <3> QED
      BY ONLY SimpleInv, <1>1, <1>4, <1>5, <3>1, <3>2, OtherHands
  <2> QED
    BY <1>0, <2>1, <2>2, StreamsStay DEF SimpleInv
<1>9. ThreadOK(t)'
  <2>1. \A d \in Clients : d # c => cn'[d].fd = cn[d].fd /\ cn'[d].own = cn[d].own
    BY <1>6
  <2>2. \A i \in DOMAIN evConns[t] : evConns[t][i] # c =>
              i \in DOMAIN evConns'[t] /\ evConns'[t][i] = evConns[t][i]
    BY DEF OthersIndexed
  <2>3. srv' = srv
    BY <1>6
  <2> QED
    BY <1>0, <1>1, <2>1, <2>2, <2>3, NextEventOK
<1>10. ThreadInv'
  <2>1. \A d \in Clients : cn[d].fd # 0 /\ cn[d].own # t
              => cn'[d].fd = cn[d].fd /\ cn'[d].own = cn[d].own
    BY <1>2, <1>6
  <2>2. \A u \in {0, 1} : \A i \in DOMAIN evConns[u] : u # t =>
           i \in DOMAIN evConns'[u] /\ evConns'[u][i] = evConns[u][i]
    BY DEF OthersIndexed
  <2> QED
    BY <1>0, <1>1, <1>5, <1>6, <1>9, <2>1, <2>2, ThreadsStep
<1>11. ConnInv' /\ QueueInv' /\ TableInv' /\ DeathCauses'
  BY <1>0, ConnStepConn, ConnStepQueue, ConnStepDeath DEF SimpleInv
<1> QED
  BY <1>0, <1>7, <1>8, <1>10, <1>11 DEF SimpleInv

\* The destructor of a connection of poll gives up its slot.
LEMMA DtorPoll ==
    ASSUME SimpleInv, srv = "poll", proc = "up", NEW c, NEW r, ConnStep(c, r), cn[c].fd # 0,
           poll_Connection_dtor(c), UNCHANGED proc
    PROVE  /\ PollInv' /\ pollfds' \in Seq(-1 .. NFds)
           /\ phandlers' \in [1 .. FdRange - 1 -> ClientOrNone]
<1>1. /\ cn'[c] = r /\ c \in Clients /\ \A d \in Clients : d # c => cn'[d] = cn[d]
      /\ srv' = srv /\ r.fd \in {cn[c].fd, 0}
      /\ r.fd # cn[c].fd => cn[c].fd < FdRange
  BY ConnStepValues DEF SimpleInv, ConnStep, Kept
<1>2. pollfds \in Seq(-1 .. NFds) /\ phandlers \in [1 .. FdRange - 1 -> ClientOrNone]
  BY DEF SimpleInv, SimpleTypes
<1>3. CASE r.fd = cn[c].fd
  <2>1. UNCHANGED <<pollfds, phandlers>>
    BY <1>1, <1>3 DEF poll_Connection_dtor, pollerVars
  <2> QED
    BY <1>2, <1>3, <2>1, ConnStepPoll DEF SimpleInv
<1>4. CASE r.fd # cn[c].fd
  <2>1. PICK f \in 1 .. NFds : f = cn[c].fd
    <3>1. cn[c].fd \in 0 .. NFds
      BY <1>1 DEF SimpleInv, SimpleTypes, ConnStates
    <3> QED
      BY <3>1
  <2>2. remove_fd(f)
    BY <1>1, <1>4, <2>1 DEF poll_Connection_dtor
  <2>3. PICK n \in Nat : n = Len(pollfds) /\ DOMAIN pollfds = 1 .. n
    BY <1>2
  <2>4. /\ n <= MaxFds /\ n = 1 + Cardinality(ListedOnes) /\ pollfds[1] = 0
        /\ \A i \in 2 .. n : SlotOK(pollfds[i])
        /\ \A i, j \in 1 .. n : pollfds[i] = pollfds[j] => i = j \/ pollfds[i] = -1
        /\ \A d \in Clients : cn[d].fd # 0 /\ cn[d].fd < FdRange =>
              (\E i \in 1 .. n : pollfds[i] = cn[d].fd) /\ phandlers[cn[d].fd] = d
    BY <2>3 DEF SimpleInv, PollInv
  <2>5. PICK j \in 1 .. n : j = Slot(f) /\ pollfds[j] = f
    <3>1. \E i \in DOMAIN pollfds : pollfds[i] = f
      BY <1>1, <1>4, <2>1, <2>3, <2>4
    <3> QED
      BY <2>3, <3>1 DEF Slot
  <2>6. pollfds' = [pollfds EXCEPT ![j] = -1] /\ phandlers' = [phandlers EXCEPT ![f] = 0]
    BY <2>2, <2>5 DEF remove_fd
  <2>7. /\ pollfds' \in Seq(-1 .. NFds) /\ Len(pollfds') = n /\ pollfds'[j] = -1
        /\ \A i \in 1 .. n : i # j => pollfds'[i] = pollfds[i]
    <3>0. PICK S : S = -1 .. NFds
      OBVIOUS
    <3>1. -1 \in S /\ pollfds \in Seq(S)
      BY <1>2, <3>0, SimpleAssumption
    <3>2. pollfds \in [1 .. n -> S]
      BY ONLY <2>3, <3>1
    <3>3. /\ pollfds' \in [1 .. n -> S] /\ pollfds'[j] = -1
          /\ \A i \in 1 .. n : i # j => pollfds'[i] = pollfds[i]
      BY ONLY <2>6, <3>1, <3>2, j \in 1 .. n
    <3>4. pollfds' \in Seq(S) /\ Len(pollfds') = n
      BY ONLY <3>3, n \in Nat
    <3> QED
      BY <3>0, <3>3, <3>4
  <2>8. /\ phandlers' \in [1 .. FdRange - 1 -> ClientOrNone]
        /\ \A g \in 1 .. FdRange - 1 : g # f => phandlers'[g] = phandlers[g]
    <3>1. 0 \in ClientOrNone
      BY SimpleAssumption DEF ClientOrNone
    <3> QED
      BY <1>2, <2>6, <3>1
  <2>9. j # 1
    BY <2>1, <2>4, <2>5
  <2>10. ListedOnes' = ListedOnes
    BY ConnStepSets DEF SimpleInv
  <2>11. \A i \in 1 .. n : i # j => pollfds[i] # f
    <3>1. f # -1
      OBVIOUS
    <3> QED
      BY <2>4, <2>5, <3>1
  <2>12. ASSUME NEW i \in 2 .. n
         PROVE  SlotOK(pollfds[i])'
    <3>0. i \in 1 .. n
      OBVIOUS
    <3>1. CASE i = j
      BY <2>7, <3>1 DEF SlotOK
    <3>2. CASE i # j /\ pollfds[i] # -1
      <4>1. /\ pollfds[i] # 0 /\ pollfds[i] < FdRange
            /\ \E d \in Clients : cn[d].fd = pollfds[i]
        BY <2>4, <3>2 DEF SlotOK
      <4>2. PICK d \in Clients : cn[d].fd = pollfds[i]
        BY <4>1
      <4>3. d # c
        BY <2>1, <2>11, <3>0, <3>2, <4>2
      <4>4. cn'[d].fd = pollfds'[i] /\ pollfds'[i] = pollfds[i]
        BY <1>1, <2>7, <3>0, <3>2, <4>2, <4>3
      <4> QED
        BY <4>1, <4>4 DEF SlotOK
    <3>3. CASE i # j /\ pollfds[i] = -1
      BY <2>7, <3>0, <3>3 DEF SlotOK
    <3> QED
      BY <3>1, <3>2, <3>3
  <2>13. \A i, k \in 1 .. n : pollfds'[i] = pollfds'[k] => i = k \/ pollfds'[i] = -1
    BY <2>4, <2>7
  <2>14. ASSUME NEW d \in Clients, cn'[d].fd # 0, cn'[d].fd < FdRange
         PROVE  (\E i \in 1 .. n : pollfds'[i] = cn'[d].fd) /\ phandlers'[cn'[d].fd] = d
    <3>1. d # c /\ cn'[d].fd = cn[d].fd
      BY <1>1, <1>4, <2>14
    <3>2. cn[d].fd # f
      BY <1>1, <2>1, <3>1 DEF SimpleInv, ConnInv, FdOK
    <3>3. cn[d].fd \in 1 .. FdRange - 1
      <4>1. cn[d].fd \in 0 .. NFds /\ FdRange \in Nat
        BY SimpleAssumption DEF SimpleInv, SimpleTypes, ConnStates
      <4> QED
        BY <2>14, <3>1, <4>1
    <3>4. PICK i \in 1 .. n : pollfds[i] = cn[d].fd
      BY <2>4, <2>14, <3>1
    <3>5. pollfds'[i] = cn[d].fd
      BY <2>5, <2>7, <3>2, <3>4
    <3>6. phandlers'[cn[d].fd] = d
      BY <2>4, <2>8, <2>14, <3>1, <3>2, <3>3
    <3> QED
      BY <3>1, <3>5, <3>6
  <2>15. pollfds'[1] = 0
    <3>1. 1 \in 1 .. n
      BY <2>5
    <3> QED
      BY <2>4, <2>7, <2>9, <3>1
  <2>16. PollInv'
    BY <2>4, <2>7, <2>10, <2>12, <2>13, <2>14, <2>15 DEF PollInv
  <2> QED
    BY <2>7, <2>8, <2>16
<1> QED
  BY <1>3, <1>4

\* rm_conn takes a connection out of the list of its loop.
LEMMA RmConnBench ==
    ASSUME SimpleInv, srv = "bench", NEW t \in {0, 1}, NEW c, NEW r, ConnStep(c, r),
           cn[c].fd # 0, cn[c].own = t, rm_conn(t, c), UNCHANGED bufConns,
           \E i \in DOMAIN evConns[t] : evConns[t][i] = c
    PROVE  /\ BenchInv' /\ evConns' \in [{0, 1} -> Seq(ClientOrNone)]
           /\ \A u \in {0, 1} : \A i \in DOMAIN evConns[u] : evConns[u][i] # c \/ u # t =>
                 i \in DOMAIN evConns'[u] /\ evConns'[u][i] = evConns[u][i]
<1>1. /\ cn'[c] = r /\ c \in Clients /\ \A d \in Clients : d # c => cn'[d] = cn[d]
      /\ srv' = srv /\ r.fd \in {cn[c].fd, 0}
  BY ConnStepValues DEF SimpleInv, ConnStep, Kept
<1>2. evConns \in [{0, 1} -> Seq(ClientOrNone)]
  BY DEF SimpleInv, SimpleTypes
<1>3. CASE r.fd = cn[c].fd
  <2>1. UNCHANGED evConns
    BY <1>1, <1>3 DEF rm_conn
  <2> QED
    BY <1>2, <1>3, <2>1, ConnStepBench DEF SimpleInv
<1>4. CASE r.fd # cn[c].fd
  <2>1. evConns' = [evConns EXCEPT ![t] = [i \in DOMAIN @ |-> IF @[i] = c THEN 0 ELSE @[i]]]
    BY <1>1, <1>4 DEF rm_conn
  <2>2. PICK l \in Seq(ClientOrNone) : l = evConns[t]
    BY <1>2
  <2>3. PICK k : k = [i \in DOMAIN l |-> IF l[i] = c THEN 0 ELSE l[i]]
    OBVIOUS
  <2>4. evConns' = [evConns EXCEPT ![t] = k]
    BY <1>2, <2>1, <2>2, <2>3
  <2>5. /\ k \in Seq(ClientOrNone) /\ DOMAIN k = DOMAIN l
        /\ \A i \in DOMAIN l : k[i] = IF l[i] = c THEN 0 ELSE l[i]
    <3>1. PICK n \in Nat : DOMAIN l = 1 .. n /\ l \in [1 .. n -> ClientOrNone]
      BY <2>2
    <3>2. 0 \in ClientOrNone
      BY SimpleAssumption DEF ClientOrNone
    <3>3. k \in [1 .. n -> ClientOrNone]
      BY <2>3, <3>1, <3>2
    <3>4. k \in Seq(ClientOrNone)
      BY <3>3
    <3> QED
      BY <2>3, <3>4
  <2>6. /\ evConns' \in [{0, 1} -> Seq(ClientOrNone)] /\ evConns'[t] = k
        /\ \A u \in {0, 1} : u # t => evConns'[u] = evConns[u]
    BY <1>2, <2>4, <2>5
  <2>7. \A u \in {0, 1} : \A i \in DOMAIN evConns[u] : evConns[u][i] # c \/ u # t =>
           i \in DOMAIN evConns'[u] /\ evConns'[u][i] = evConns[u][i]
    BY <2>2, <2>5, <2>6
  <2>8. \A d \in Clients : d # 0
    BY SimpleAssumption DEF Clients
  <2>9. \A u \in {0, 1} : \A i \in DOMAIN evConns'[u] :
           /\ i \in DOMAIN evConns[u]
           /\ \A d \in Clients : evConns'[u][i] = d => evConns[u][i] = d /\ ~(u = t /\ d = c)
    BY <2>2, <2>5, <2>6, <2>8
  <2>10. ListedOnce(t, c)
    BY <1>1 DEF SimpleInv, BenchInv
  <2>11. BenchInv'
    <3> SUFFICES ASSUME NEW u \in {0, 1}, NEW d \in Clients,
                        (\E i \in DOMAIN bufConns[u] : bufConns[u][i] = d)
                          \/ (\E i \in DOMAIN evConns'[u] : evConns'[u][i] = d)
                 PROVE  ListedOnce(u, d)'
      BY DEF BenchInv
    <3>1. ListedOnce(u, d)
      BY <2>9 DEF SimpleInv, BenchInv
    <3>2. d # c
      <4>1. CASE u # t
        BY <3>1, <4>1 DEF ListedOnce
      <4>2. CASE u = t
        BY <2>9, <2>10, <4>2 DEF ListedOnce
      <4> QED
        BY <4>1, <4>2
    <3> QED
      BY <1>1, <2>9, <3>1, <3>2 DEF ListedOnce
  <2> QED
    BY <2>6, <2>7, <2>11
<1> QED
  BY <1>3, <1>4

\* SIGPIPE.
LEMMA KillKeeps ==
    ASSUME SimpleInv, NEW t \in ServerThreads, thr[t].pc = "send", SendKills(thr[t].at),
           proc = "up", proc' = "sigpipe",
           UNCHANGED <<srv, nofile, cn, thr, lq, pollfds, phandlers, bufConns, evConns, sock_num>>
    PROVE  SimpleInv'
<1>1. SimpleTypes'
  BY DEF SimpleInv, SimpleTypes
<1>2. StreamInv'
  <2>1. \A d \in Clients : InHand(d)' = InHand(d)
    BY DEF InHand
  <2> QED
    BY <2>1, SameStreams
<1>3. ThreadInv'
  BY EventsStay DEF SimpleInv
<1>4. ConnInv' /\ QueueInv' /\ TableInv'
  BY DEF SimpleInv, ConnInv, ErrorOK, FdOK, QueueInv, TableInv, AcceptedClients
<1>5. PollInv' /\ BenchInv'
  BY DEF SimpleInv, PollInv, SlotOK, ListedOnes, AcceptedClients, BenchInv, ListedOnce
<1>6. DeathCauses'
  <2>1. PICK c \in Clients : c = thr[t].at /\ cn[c].fd # 0
    BY Sender
  <2>2. cn[c].err \in {"EPIPE", "shut"} /\ ErrorOK(c)
    BY <2>1, ConnFacts DEF SendKills
  <2>3. cn[c].err = "EPIPE" \/ srv \in {"epoll", "server6"}
    BY <2>1, <2>2 DEF ErrorOK
  <2> QED
    BY <2>1, <2>3 DEF DeathCauses, SigpipeNeedsHalfClose, OverrunNeedsTableFull
<1> QED
  BY <1>1, <1>2, <1>3, <1>4, <1>5, <1>6 DEF SimpleInv

\* The connection of an event is open and the loop's own.
LEMMA EventFacts ==
    ASSUME SimpleInv, NEW t \in {0, 1}, srv \notin Threaded, NEW e \in thr[t].batch, e.conn # 0
    PROVE  /\ e.conn \in Clients /\ cn[e.conn].fd # 0 /\ cn[e.conn].fd = e.fd
           /\ cn[e.conn].own = t /\ ConnAt(e.fd) = e.conn
           /\ srv = "poll" => cn[e.conn].fd < FdRange
<1>1. t \in ServerThreads
  BY LoopsAreThreads
<1>2. e.conn \in Clients
  BY <1>1, EventTypes DEF SimpleInv
<1>3. EventOK(t, e)
  BY <1>1 DEF SimpleInv, ThreadInv, LoopOK
<1>4. /\ cn[e.conn].fd # 0 /\ cn[e.conn].fd = e.fd /\ cn[e.conn].own = t
      /\ srv = "poll" => cn[e.conn].fd < FdRange
  BY <1>3 DEF EventOK
<1>5. \A d \in Clients : cn[d].fd = e.fd => d = e.conn
  BY <1>2, <1>4 DEF SimpleInv, ConnInv, FdOK
<1> QED
  BY <1>2, <1>4, <1>5 DEF ConnAt

\* EchoRecv: bytes in hand, or the event is done.
LEMMA EchoRecvCases ==
    ASSUME SimpleInv, NEW t \in {0, 1}, srv \in Programs \ Threaded, NEW e, Taken(t, e),
           NEW c, c = e.conn, c # 0, EchoRecv(t, e, c), UNCHANGED <<srv, nofile>>
    PROVE  /\ UNCHANGED <<lq, sock_num, proc>> /\ proc = "up" /\ c \in Clients
           /\ cn[c].fd # 0 /\ cn[c].own = t /\ e \in thr[t].batch /\ thr[t].pc = "loop"
           /\ \/ /\ RecvRet(c) > 0 /\ cn' = [cn EXCEPT ![c] = AfterRecv(c)]
                 /\ thr' = [thr EXCEPT ![t].pc = "send", ![t].at = c,
                              ![t].buf = SubSeq(cn[c].inq, 1, RecvRet(c))]
                 /\ cn'[c].fd = cn[c].fd
              \/ NextEvent(t, e) /\ \E r : ConnStep(c, r) /\ StreamOK(c, r, <<>>)
<1>1. proc = "up" /\ thr[t].pc = "loop" /\ e \in thr[t].batch
  BY DEF Taken
<1>2. c \in Clients /\ cn[c].fd # 0 /\ cn[c].own = t /\ (srv = "poll" => cn[c].fd < FdRange)
  BY <1>1, EventFacts
<1>3. InHand(c) = <<>>
  BY <1>1, <1>2, OwnerIdle
<1>4. UNCHANGED <<lq, sock_num, proc>>
  BY DEF EchoRecv
<1>5. CASE RecvRet(c) > 0
  <2>1. /\ cn' = [cn EXCEPT ![c] = AfterRecv(c)]
        /\ thr' = [thr EXCEPT ![t].pc = "send", ![t].at = c,
                              ![t].buf = SubSeq(cn[c].inq, 1, RecvRet(c))]
    BY <1>5 DEF EchoRecv
  <2>2. cn'[c].fd = cn[c].fd
    <3>1. AfterRecv(c).fd = cn[c].fd
      BY <1>2, AfterRecvFields DEF SimpleInv
    <3>2. cn'[c] = AfterRecv(c)
      BY <1>2, <2>1 DEF SimpleInv, SimpleTypes
    <3> QED
      BY <3>1, <3>2
  <2> QED
    BY <1>1, <1>2, <1>4, <1>5, <2>1, <2>2
<1>6. CASE ~(RecvRet(c) > 0)
  <2>1. /\ cn' = AfterEcho([cn EXCEPT ![c] = AfterRecv(c)], c, RecvRet(c)) /\ NextEvent(t, e)
    BY <1>6 DEF EchoRecv
  <2>2. \E r : ConnStep(c, r) /\ StreamOK(c, r, <<>>)
    BY <1>2, <1>3, <1>6, <2>1, LoopRecvConn
  <2> QED
    BY <1>1, <1>2, <1>4, <2>1, <2>2
<1> QED
  BY <1>5, <1>6

\* EchoSend: the process dies, or the event is done.
LEMMA EchoSendCases ==
    ASSUME SimpleInv, NEW t \in {0, 1}, srv \in Programs \ Threaded, EchoSend(t),
           UNCHANGED <<srv, nofile>>, NEW c, c = thr[t].at
    PROVE  /\ UNCHANGED <<lq, sock_num>> /\ proc = "up" /\ c \in Clients /\ thr[t].pc = "send"
           /\ cn[c].fd # 0 /\ cn[c].own = t
           /\ \/ proc' = "sigpipe" /\ UNCHANGED <<cn, thr>> /\ SendKills(c)
              \/ /\ proc' = "up" /\ \E r : ConnStep(c, r) /\ StreamOK(c, r, <<>>)
                 /\ \E e \in thr[t].batch : e.conn = c /\ NextEvent(t, e)
<1>1. proc = "up" /\ thr[t].pc = "send" /\ UNCHANGED <<lq, sock_num>> /\ t \in ServerThreads
  BY LoopsAreThreads DEF EchoSend
<1>2. /\ c \in Clients /\ cn[c].fd # 0 /\ cn[c].own = t
      /\ InHand(c) = thr[t].buf /\ thr[t].buf # <<>> /\ thr[t].buf \in Seq(Bytes)
      /\ srv = "poll" => cn[c].fd < FdRange
  BY <1>1, Sender
<1>3. CASE SendKills(c)
  BY <1>1, <1>2, <1>3 DEF EchoSend
<1>4. CASE ~SendKills(c)
  <2>1. /\ cn' = AfterEcho([cn EXCEPT ![c] = AfterSend(c, thr[t].buf)], c, SendRet(c, Len(thr[t].buf)))
        /\ \E e \in thr[t].batch : e.conn = c /\ NextEvent(t, e)
        /\ proc' = proc
    BY <1>4 DEF EchoSend
  <2>2. PICK b \in Seq(Bytes) : b = thr[t].buf
    BY <1>2
  <2>3. cn' = AfterEcho([cn EXCEPT ![c] = AfterSend(c, b)], c, SendRet(c, Len(b)))
    BY <2>1, <2>2
  <2>4. b # <<>> /\ InHand(c) = b
    BY <1>2, <2>2
  <2>5. \E r : ConnStep(c, r) /\ StreamOK(c, r, <<>>)
    BY <1>2, <1>4, <2>3, <2>4, LoopSendConn
  <2> QED
    BY <1>1, <1>2, <2>1, <2>5
<1> QED
  BY <1>3, <1>4

\* Events of the four epoll loops that do not accept.
LEMMA EpollEchoKeeps ==
    ASSUME SimpleInv, NEW t \in {0, 1}, srv \in Programs \ (Threaded \cup {"poll", "bench"}),
           UNCHANGED <<srv, nofile, pollfds, phandlers, bufConns, evConns>>,
           \/ \E e \in thr[t].batch : Taken(t, e) /\ e.conn # 0 /\ EchoRecv(t, e, e.conn)
           \/ EchoSend(t)
    PROVE  SimpleInv'
<1>1. srv \in Programs \ Threaded /\ srv # "poll" /\ srv # "bench"
  OBVIOUS
<1>2. /\ pollfds' \in Seq(-1 .. NFds) /\ phandlers' \in [1 .. FdRange - 1 -> ClientOrNone]
      /\ evConns' \in [{0, 1} -> Seq(ClientOrNone)]
  BY DEF SimpleInv, SimpleTypes
<1>3. ASSUME NEW e \in thr[t].batch, NEW c \in Clients, e.conn = c, NEW r, ConnStep(c, r),
             StreamOK(c, r, <<>>), NextEvent(t, e), UNCHANGED <<lq, sock_num, proc>>,
             thr[t].pc = "loop" \/ (thr[t].pc = "send" /\ thr[t].at = c)
      PROVE  SimpleInv'
  <2>1. PollInv' /\ BenchInv'
    BY <1>1, <1>3, ConnStepPoll, ConnStepBench DEF SimpleInv
  <2>2. OthersIndexed(t, c) /\ TablesKeep
    BY <1>2, <2>1 DEF OthersIndexed, TablesKeep
  <2>3. srv \notin Threaded /\ Served(t, e, c, r)
    BY <1>1, <1>3 DEF Served
  <2> QED
    BY ONLY SimpleInv, t \in {0, 1}, <2>2, <2>3, LoopServed
<1>4. ASSUME NEW e \in thr[t].batch, Taken(t, e), e.conn # 0, EchoRecv(t, e, e.conn)
      PROVE  SimpleInv'
  <2>1. PICK c : c = e.conn
    OBVIOUS
  <2>2. /\ UNCHANGED <<lq, sock_num, proc>> /\ c \in Clients /\ thr[t].pc = "loop"
        /\ \/ /\ RecvRet(c) > 0 /\ cn' = [cn EXCEPT ![c] = AfterRecv(c)]
              /\ thr' = [thr EXCEPT ![t].pc = "send", ![t].at = c,
                              ![t].buf = SubSeq(cn[c].inq, 1, RecvRet(c))]
           \/ NextEvent(t, e) /\ \E r : ConnStep(c, r) /\ StreamOK(c, r, <<>>)
    BY <1>1, <1>4, <2>1, EchoRecvCases, ZenonT(30)
  <2>3. CASE /\ RecvRet(c) > 0 /\ cn' = [cn EXCEPT ![c] = AfterRecv(c)]
             /\ thr' = [thr EXCEPT ![t].pc = "send", ![t].at = c,
                              ![t].buf = SubSeq(cn[c].inq, 1, RecvRet(c))]
    BY <1>1, <1>4, <2>1, <2>2, <2>3, LoopReceives
  <2>4. CASE NextEvent(t, e) /\ \E r : ConnStep(c, r) /\ StreamOK(c, r, <<>>)
    BY <1>3, <2>1, <2>2, <2>4
  <2> QED
    BY <2>2, <2>3, <2>4
<1>5. ASSUME EchoSend(t)
      PROVE  SimpleInv'
  <2>1. PICK c : c = thr[t].at
    OBVIOUS
  <2>2. /\ UNCHANGED <<lq, sock_num>> /\ proc = "up" /\ c \in Clients /\ thr[t].pc = "send"
        /\ \/ proc' = "sigpipe" /\ UNCHANGED <<cn, thr>> /\ SendKills(c)
           \/ /\ proc' = "up" /\ \E r : ConnStep(c, r) /\ StreamOK(c, r, <<>>)
              /\ \E e \in thr[t].batch : e.conn = c /\ NextEvent(t, e)
    BY <1>1, <1>5, <2>1, EchoSendCases
  <2>3. CASE proc' = "sigpipe" /\ UNCHANGED <<cn, thr>> /\ SendKills(c)
    BY <2>1, <2>2, <2>3, LoopsAreThreads, KillKeeps
  <2>4. CASE /\ proc' = "up" /\ \E r : ConnStep(c, r) /\ StreamOK(c, r, <<>>)
             /\ \E e \in thr[t].batch : e.conn = c /\ NextEvent(t, e)
    BY <1>3, <2>1, <2>2, <2>4
  <2> QED
    BY <2>2, <2>3, <2>4
<1> QED
  BY <1>4, <1>5

\* Events of the poll server that do not accept.
LEMMA PollEchoKeeps ==
    ASSUME SimpleInv, NEW t \in {0, 1}, srv = "poll", UNCHANGED <<srv, nofile, bufConns, evConns>>,
           \/ \E e \in thr[t].batch : /\ Taken(t, e) /\ e.conn # 0 /\ EchoRecv(t, e, e.conn)
                                      /\ poll_Connection_dtor(e.conn)
           \/ /\ EchoSend(t)
              /\ IF proc' = "up" THEN poll_Connection_dtor(thr[t].at) ELSE UNCHANGED pollerVars
    PROVE  SimpleInv'
<1>1. srv \in Programs \ Threaded /\ srv # "bench"
  BY DEF Programs, Threaded
<1>2. evConns' \in [{0, 1} -> Seq(ClientOrNone)]
  BY DEF SimpleInv, SimpleTypes
<1>3. ASSUME NEW e \in thr[t].batch, NEW c \in Clients, e.conn = c, NEW r, ConnStep(c, r),
             StreamOK(c, r, <<>>), NextEvent(t, e), UNCHANGED <<lq, sock_num, proc>>, proc = "up",
             thr[t].pc = "loop" \/ (thr[t].pc = "send" /\ thr[t].at = c), poll_Connection_dtor(c)
      PROVE  SimpleInv'
  <2>1. c # 0
    BY SimpleAssumption DEF Clients
  <2>2. cn[c].fd # 0
    BY <1>1, <1>3, <2>1, EventFacts
  <2>3. /\ PollInv' /\ pollfds' \in Seq(-1 .. NFds)
        /\ phandlers' \in [1 .. FdRange - 1 -> ClientOrNone]
    BY <1>3, <2>2, DtorPoll
  <2>4. BenchInv'
    BY <1>1, <1>3, ConnStepBench DEF SimpleInv
  <2>5. OthersIndexed(t, c) /\ TablesKeep
    BY <1>2, <2>3, <2>4 DEF OthersIndexed, TablesKeep
  <2>6. srv \notin Threaded /\ Served(t, e, c, r)
    BY <1>1, <1>3 DEF Served
  <2> QED
    BY ONLY SimpleInv, t \in {0, 1}, <2>5, <2>6, LoopServed
<1>4. ASSUME NEW e \in thr[t].batch, Taken(t, e), e.conn # 0, EchoRecv(t, e, e.conn),
             poll_Connection_dtor(e.conn)
      PROVE  SimpleInv'
  <2>1. PICK c : c = e.conn
    OBVIOUS
  <2>2. /\ UNCHANGED <<lq, sock_num, proc>> /\ proc = "up" /\ c \in Clients /\ thr[t].pc = "loop"
        /\ \/ /\ RecvRet(c) > 0 /\ cn' = [cn EXCEPT ![c] = AfterRecv(c)]
              /\ thr' = [thr EXCEPT ![t].pc = "send", ![t].at = c,
                              ![t].buf = SubSeq(cn[c].inq, 1, RecvRet(c))]
              /\ cn'[c].fd = cn[c].fd
           \/ NextEvent(t, e) /\ \E r : ConnStep(c, r) /\ StreamOK(c, r, <<>>)
    BY <1>1, <1>4, <2>1, EchoRecvCases
  <2>3. CASE /\ RecvRet(c) > 0 /\ cn' = [cn EXCEPT ![c] = AfterRecv(c)]
             /\ thr' = [thr EXCEPT ![t].pc = "send", ![t].at = c,
                              ![t].buf = SubSeq(cn[c].inq, 1, RecvRet(c))]
             /\ cn'[c].fd = cn[c].fd
    <3>1. UNCHANGED <<pollfds, phandlers>>
      BY <1>4, <2>1, <2>3 DEF poll_Connection_dtor, pollerVars
    <3> QED
      BY <1>1, <1>4, <2>1, <2>2, <2>3, <3>1, LoopReceives
  <2>4. CASE NextEvent(t, e) /\ \E r : ConnStep(c, r) /\ StreamOK(c, r, <<>>)
    BY <1>3, <1>4, <2>1, <2>2, <2>4
  <2> QED
    BY <2>2, <2>3, <2>4
<1>5. ASSUME EchoSend(t),
             IF proc' = "up" THEN poll_Connection_dtor(thr[t].at) ELSE UNCHANGED pollerVars
      PROVE  SimpleInv'
  <2>1. PICK c : c = thr[t].at
    OBVIOUS
  <2>2. /\ UNCHANGED <<lq, sock_num>> /\ proc = "up" /\ c \in Clients /\ thr[t].pc = "send"
        /\ \/ proc' = "sigpipe" /\ UNCHANGED <<cn, thr>> /\ SendKills(c)
           \/ /\ proc' = "up" /\ \E r : ConnStep(c, r) /\ StreamOK(c, r, <<>>)
              /\ \E e \in thr[t].batch : e.conn = c /\ NextEvent(t, e)
    BY <1>1, <1>5, <2>1, EchoSendCases
  <2>3. CASE proc' = "sigpipe" /\ UNCHANGED <<cn, thr>> /\ SendKills(c)
    <3>1. UNCHANGED <<pollfds, phandlers>>
      BY <1>5, <2>3 DEF pollerVars
    <3> QED
      BY <2>1, <2>2, <2>3, <3>1, LoopsAreThreads, KillKeeps
  <2>4. CASE /\ proc' = "up" /\ \E r : ConnStep(c, r) /\ StreamOK(c, r, <<>>)
             /\ \E e \in thr[t].batch : e.conn = c /\ NextEvent(t, e)
    <3>1. poll_Connection_dtor(c)
      BY <1>5, <2>1, <2>4
    <3> QED
      BY <1>3, <2>1, <2>2, <2>4, <3>1
  <2> QED
    BY <2>2, <2>3, <2>4
<1> QED
  BY <1>4, <1>5

\* The connection of an event of bench is listed at the event's index.
LEMMA BenchEvent ==
    ASSUME SimpleInv, NEW t \in {0, 1}, srv = "bench", NEW e \in thr[t].batch
    PROVE  /\ e.conn # 0 /\ e.idx \in DOMAIN evConns[t] /\ evConns[t][e.idx] = e.conn
           /\ e.conn \in Clients /\ cn[e.conn].fd # 0 /\ cn[e.conn].own = t
<1>1. t \in ServerThreads /\ srv \notin Threaded
  BY LoopsAreThreads DEF Threaded
<1>2. EventOK(t, e)
  BY <1>1 DEF SimpleInv, ThreadInv, LoopOK
<1>3. e.conn # 0
  BY <1>2 DEF EventOK
<1>4. e.idx \in DOMAIN evConns[t] /\ evConns[t][e.idx] = e.conn
  BY <1>2, <1>3 DEF EventOK
<1> QED
  BY <1>1, <1>3, <1>4, EventFacts

\* Events of the bench server.
LEMMA BenchEchoKeeps ==
    ASSUME SimpleInv, NEW t \in {0, 1}, srv = "bench",
           UNCHANGED <<srv, nofile, bufConns, pollfds, phandlers>>,
           \/ \E e \in thr[t].batch : /\ Taken(t, e) /\ EchoRecv(t, e, evConns[t][e.idx])
                                      /\ rm_conn(t, evConns[t][e.idx])
           \/ EchoSend(t) /\ rm_conn(t, thr[t].at)
    PROVE  SimpleInv'
<1>1. srv \in Programs \ Threaded /\ srv # "poll"
  BY DEF Programs, Threaded
<1>2. /\ pollfds' \in Seq(-1 .. NFds) /\ phandlers' \in [1 .. FdRange - 1 -> ClientOrNone]
  BY DEF SimpleInv, SimpleTypes
<1>3. ASSUME NEW e \in thr[t].batch, NEW c \in Clients, e.conn = c, NEW r, ConnStep(c, r),
             StreamOK(c, r, <<>>), NextEvent(t, e), UNCHANGED <<lq, sock_num, proc>>,
             thr[t].pc = "loop" \/ (thr[t].pc = "send" /\ thr[t].at = c), rm_conn(t, c)
      PROVE  SimpleInv'
  <2>1. /\ cn[c].fd # 0 /\ cn[c].own = t
        /\ \E i \in DOMAIN evConns[t] : evConns[t][i] = c
    BY <1>3, BenchEvent
  <2>2. /\ BenchInv' /\ evConns' \in [{0, 1} -> Seq(ClientOrNone)]
        /\ \A u \in {0, 1} : \A i \in DOMAIN evConns[u] : evConns[u][i] # c \/ u # t =>
              i \in DOMAIN evConns'[u] /\ evConns'[u][i] = evConns[u][i]
    BY <1>3, <2>1, RmConnBench
  <2>3. PollInv'
    BY <1>1, <1>3, ConnStepPoll DEF SimpleInv
  <2>4. OthersIndexed(t, c) /\ TablesKeep
    BY <1>2, <2>2, <2>3 DEF OthersIndexed, TablesKeep
  <2>5. srv \notin Threaded /\ Served(t, e, c, r)
    BY <1>1, <1>3 DEF Served
  <2> QED
    BY ONLY SimpleInv, t \in {0, 1}, <2>4, <2>5, LoopServed
<1>4. ASSUME NEW e \in thr[t].batch, Taken(t, e), EchoRecv(t, e, evConns[t][e.idx]),
             rm_conn(t, evConns[t][e.idx])
      PROVE  SimpleInv'
  <2>1. PICK c : c = e.conn /\ c # 0 /\ evConns[t][e.idx] = c
    BY <1>4, BenchEvent
  <2>2. EchoRecv(t, e, c) /\ rm_conn(t, c)
    BY <1>4, <2>1
  <2>3. /\ UNCHANGED <<lq, sock_num, proc>> /\ c \in Clients /\ thr[t].pc = "loop"
        /\ \/ /\ RecvRet(c) > 0 /\ cn' = [cn EXCEPT ![c] = AfterRecv(c)]
              /\ thr' = [thr EXCEPT ![t].pc = "send", ![t].at = c,
                              ![t].buf = SubSeq(cn[c].inq, 1, RecvRet(c))]
              /\ cn'[c].fd = cn[c].fd
           \/ NextEvent(t, e) /\ \E r : ConnStep(c, r) /\ StreamOK(c, r, <<>>)
    BY <1>1, <1>4, <2>1, <2>2, EchoRecvCases
  <2>4. CASE /\ RecvRet(c) > 0 /\ cn' = [cn EXCEPT ![c] = AfterRecv(c)]
             /\ thr' = [thr EXCEPT ![t].pc = "send", ![t].at = c,
                              ![t].buf = SubSeq(cn[c].inq, 1, RecvRet(c))]
             /\ cn'[c].fd = cn[c].fd
    <3>1. UNCHANGED evConns
      BY <2>2, <2>4 DEF rm_conn
    <3> QED
      BY <1>1, <1>4, <2>1, <2>3, <2>4, <3>1, LoopReceives
  <2>5. CASE NextEvent(t, e) /\ \E r : ConnStep(c, r) /\ StreamOK(c, r, <<>>)
    BY <1>3, <1>4, <2>1, <2>2, <2>3, <2>5
  <2> QED
    BY <2>3, <2>4, <2>5
<1>5. ASSUME EchoSend(t), rm_conn(t, thr[t].at)
      PROVE  SimpleInv'
  <2>1. PICK c : c = thr[t].at
    OBVIOUS
  <2>2. /\ UNCHANGED <<lq, sock_num>> /\ proc = "up" /\ c \in Clients /\ thr[t].pc = "send"
        /\ \/ proc' = "sigpipe" /\ UNCHANGED <<cn, thr>> /\ SendKills(c)
           \/ /\ proc' = "up" /\ \E r : ConnStep(c, r) /\ StreamOK(c, r, <<>>)
              /\ \E e \in thr[t].batch : e.conn = c /\ NextEvent(t, e)
    BY <1>1, <1>5, <2>1, EchoSendCases
  <2>3. rm_conn(t, c)
    BY <1>5, <2>1
  <2>4. CASE proc' = "sigpipe" /\ UNCHANGED <<cn, thr>> /\ SendKills(c)
    <3>1. UNCHANGED evConns
      BY <2>3, <2>4 DEF rm_conn
    <3> QED
      BY <2>1, <2>2, <2>4, <3>1, LoopsAreThreads, KillKeeps
  <2>5. CASE /\ proc' = "up" /\ \E r : ConnStep(c, r) /\ StreamOK(c, r, <<>>)
             /\ \E e \in thr[t].batch : e.conn = c /\ NextEvent(t, e)
    BY <1>3, <2>1, <2>2, <2>3, <2>5
  <2> QED
    BY <2>2, <2>4, <2>5
<1> QED
  BY <1>4, <1>5

\* epoll_wait of bench: an event per listed connection that is readable.
LEMMA BenchWaitKeeps ==
    ASSUME SimpleInv, NEW t \in {0, 1}, srv = "bench", bench_epoll_wait(t),
           UNCHANGED <<srv, nofile>>
    PROVE  SimpleInv'
<1> DEFINE ready == {i \in Registered(t) : Readable(evConns[t][i])}
           evs == {[idx |-> i, conn |-> evConns[t][i], fd |-> cn[evConns[t][i]].fd] : i \in ready}
<1>1. t \in ServerThreads /\ srv \notin Threaded
  BY LoopsAreThreads DEF Threaded
<1>2. thr[t] \in ServerThreadStates /\ thr \in [ServerThreads -> ServerThreadStates]
  BY <1>1 DEF SimpleInv, SimpleTypes
<1>3. LoopOK(t) /\ Len(thr[t].buf) <= BufSize
  BY <1>1 DEF SimpleInv, ThreadInv
<1>4. PICK l \in Seq(ClientOrNone) : l = evConns[t] /\ DOMAIN l \subseteq Nat
  BY DEF SimpleInv, SimpleTypes
<1>5. \A d \in ClientOrNone : d # 0 => d \in Clients
  BY SimpleAssumption DEF ClientOrNone, Clients
<1>6. \A i \in ready : i \in DOMAIN l /\ l[i] \in Clients /\ l[i] # 0 /\ i \in Nat /\ l[i] \in ClientOrNone
  <2>1. \A i \in DOMAIN l : l[i] \in ClientOrNone
    BY <1>4
  <2> QED
    BY <1>4, <1>5, <2>1 DEF Registered
<1>7. ASSUME NEW i \in ready
      PROVE  /\ cn[l[i]].fd # 0 /\ cn[l[i]].own = t /\ cn[l[i]].fd \in 0 .. NFds
             /\ \A j \in DOMAIN l : l[j] = l[i] => j = i
  <2>1. ListedOnce(t, l[i])
    BY <1>4, <1>6 DEF SimpleInv, BenchInv
  <2>2. cn[l[i]].fd \in 0 .. NFds
    BY <1>6 DEF SimpleInv, SimpleTypes, ConnStates
  <2> QED
    BY <1>4, <1>6, <2>1, <2>2 DEF ListedOnce
<1>8. \A e \in evs : /\ e \in BenchEvents /\ e.idx \in ready /\ e.conn = l[e.idx]
                     /\ e.fd = cn[l[e.idx]].fd
  BY <1>4, <1>6, <1>7 DEF BenchEvents
<1>9. \A e, g \in BenchEvents : e.idx = g.idx /\ e.conn = g.conn /\ e.fd = g.fd => e = g
  BY DEF BenchEvents
<1>10. \A e, g \in evs : e.conn = g.conn => e = g
  <2> SUFFICES ASSUME NEW e \in evs, NEW g \in evs, e.conn = g.conn
               PROVE  e = g
    OBVIOUS
  <2>1. e.idx = g.idx
    BY <1>6, <1>7, <1>8
  <2> QED
    BY <1>8, <1>9, <2>1
<1>11. PICK b \in SUBSET (PollEvents \cup BenchEvents) : b = evs
  <2>1. evs \subseteq PollEvents \cup BenchEvents
    BY <1>8
  <2> QED
    BY <2>1
<1>12. PICK p \in {"wait", "loop"} : p = IF ready = {} THEN "wait" ELSE "loop"
  OBVIOUS
<1>13. PICK s : s = [thr[t] EXCEPT !.pc = p, !.batch = b]
  OBVIOUS
<1>14. s \in ServerThreadStates /\ s.pc = p /\ s.batch = b /\ s.at = thr[t].at /\ s.buf = thr[t].buf
  BY <1>2, <1>11, <1>12, <1>13 DEF ServerThreadStates
<1>15. thr' = [thr EXCEPT ![t] = s] /\ thr[t].pc = "poll"
  <2>1. thr' = [thr EXCEPT ![t].pc = p, ![t].batch = b] /\ thr[t].pc = "poll"
    BY <1>11, <1>12 DEF bench_epoll_wait
  <2> QED
    BY <1>1, <1>2, <1>13, <2>1 DEF ServerThreadStates
<1>16. thr'[t] = s
  BY <1>1, <1>2, <1>15
<1>17. UNCHANGED <<cn, lq, bufConns, evConns, pollfds, phandlers, sock_num, proc>>
  BY DEF bench_epoll_wait, benchVars, pollerVars
<1>18. ASSUME NEW e \in b
       PROVE  EventOK(t, e)'
  <2>1. /\ e \in BenchEvents /\ e.idx \in DOMAIN evConns[t] /\ evConns[t][e.idx] = e.conn
        /\ e.conn # 0 /\ e.fd # 0 /\ cn[e.conn].fd = e.fd /\ cn[e.conn].own = t
    BY <1>4, <1>6, <1>7, <1>8, <1>11
  <2>2. \A g \in thr'[t].batch : g.conn = e.conn => g = e
    BY <1>10, <1>11, <1>14, <1>16
  <2> QED
    BY <1>17, <2>1, <2>2 DEF EventOK
<1>19. t \in Loops /\ thr[t].at = 0
  BY <1>3, <1>15 DEF LoopOK
<1>20. p = "wait" => b = {}
  BY <1>11, <1>12
<1>21. LoopOK(t)'
  BY <1>12, <1>14, <1>16, <1>18, <1>19, <1>20 DEF LoopOK, Loops
<1>22. ThreadOK(t)'
  BY <1>1, <1>3, <1>12, <1>14, <1>16, <1>21 DEF ThreadOK
<1> QED
  BY <1>1, <1>12, <1>14, <1>15, <1>17, <1>22, OnlyThread

\* dump_conn gives everything handed over its index.
LEMMA DumpConnKeeps ==
    ASSUME SimpleInv, NEW t \in {0, 1}, srv = "bench", dump_conn(t), UNCHANGED <<srv, nofile>>
    PROVE  SimpleInv'
<1>1. t \in ServerThreads /\ srv \notin Threaded
  BY LoopsAreThreads DEF Threaded
<1>2. thr[t] \in ServerThreadStates /\ thr \in [ServerThreads -> ServerThreadStates]
  BY <1>1 DEF SimpleInv, SimpleTypes
<1>3. LoopOK(t) /\ Len(thr[t].buf) <= BufSize
  BY <1>1 DEF SimpleInv, ThreadInv
<1>4. PICK s : s = [thr[t] EXCEPT !.pc = "poll"]
  OBVIOUS
<1>5. /\ s \in ServerThreadStates /\ s.pc = "poll" /\ s.batch = thr[t].batch
      /\ s.at = thr[t].at /\ s.buf = thr[t].buf
  BY <1>2, <1>4 DEF ServerThreadStates
<1>6. thr' = [thr EXCEPT ![t] = s] /\ thr[t].pc = "wait"
  BY <1>1, <1>2, <1>4 DEF dump_conn, ServerThreadStates
<1>7. thr'[t] = s /\ thr' \in [ServerThreads -> ServerThreadStates]
      /\ \A u \in ServerThreads : u # t => thr'[u] = thr[u]
  BY <1>1, <1>2, <1>5, <1>6
<1>8. UNCHANGED <<cn, lq, pollfds, phandlers, sock_num, proc>>
  BY DEF dump_conn, pollerVars
<1>9. PICK l \in Seq(ClientOrNone), k \in Seq(ClientOrNone) : l = evConns[t] /\ k = bufConns[t]
  BY DEF SimpleInv, SimpleTypes
<1>10. PICK m : m = l \o k
  OBVIOUS
<1>11. PICK a \in Nat, z \in Nat : /\ a = Len(l) /\ z = Len(k)
                                   /\ DOMAIN l = 1 .. a /\ DOMAIN k = 1 .. z
  BY <1>9
<1>12. /\ m \in Seq(ClientOrNone) /\ DOMAIN m = 1 .. a + z
       /\ \A i \in 1 .. a : m[i] = l[i]
       /\ \A i \in 1 .. a + z : i > a => m[i] = k[i - a] /\ i - a \in 1 .. z
  <2>1. m \in Seq(ClientOrNone) /\ Len(m) = a + z
    BY <1>9, <1>10, <1>11, ConcatProperties
  <2>2. \A i \in 1 .. a + z : m[i] = IF i <= a THEN l[i] ELSE k[i - a]
    BY <1>9, <1>10, <1>11, ConcatProperties
  <2> QED
    BY <2>1, <2>2
<1>13. /\ evConns' \in [{0, 1} -> Seq(ClientOrNone)] /\ evConns'[t] = m
       /\ \A u \in {0, 1} : u # t => evConns'[u] = evConns[u]
  <2>1. evConns' = [evConns EXCEPT ![t] = m]
    BY <1>9, <1>10 DEF dump_conn, SimpleInv, SimpleTypes
  <2> QED
    BY <1>12, <2>1 DEF SimpleInv, SimpleTypes
<1>14. /\ bufConns' \in [{0, 1} -> Seq(ClientOrNone)] /\ DOMAIN bufConns'[t] = {}
       /\ \A u \in {0, 1} : u # t => bufConns'[u] = bufConns[u]
  <2>0. PICK n \in Seq(ClientOrNone) : n = <<>> /\ DOMAIN n = {}
    <3>1. PICK n \in Seq(ClientOrNone) : n = <<>> /\ Len(n) = 0
      BY EmptySeq
    <3>2. DOMAIN n = 1 .. 0
      BY ONLY <3>1, n \in Seq(ClientOrNone)
    <3>3. 1 .. 0 = {}
      BY ONLY TRUE
    <3> QED
      BY <3>1, <3>2, <3>3, Zenon
  <2>1. bufConns' = [bufConns EXCEPT ![t] = n]
    BY <2>0 DEF dump_conn
  <2> QED
    BY <2>0, <2>1 DEF SimpleInv, SimpleTypes
<1>15. SimpleTypes'
  BY <1>7, <1>8, <1>13, <1>14 DEF SimpleInv, SimpleTypes
<1>16. StreamInv'
  <2>1. \A d \in Clients : InHand(d)' = InHand(d)
    BY <1>1, <1>5, <1>6, <1>8, SameHands
  <2> QED
    BY <1>8, <2>1, SameStreams
<1>17. ThreadOK(t)'
  <2>1. thr[t].batch = {} /\ thr[t].at = 0 /\ t \in Loops
    BY <1>3, <1>6 DEF LoopOK
  <2>2. LoopOK(t)'
    BY <1>5, <1>7, <2>1 DEF LoopOK, Loops
  <2> QED
    BY <1>1, <1>3, <1>5, <1>7, <2>2 DEF ThreadOK
<1>18. ThreadInv'
  BY <1>1, <1>7, <1>8, <1>13, <1>17, ThreadsStep
<1>19. BenchInv'
  <2> SUFFICES ASSUME NEW u \in {0, 1}, NEW c \in Clients,
                      (\E i \in DOMAIN bufConns'[u] : bufConns'[u][i] = c)
                        \/ (\E i \in DOMAIN evConns'[u] : evConns'[u][i] = c)
               PROVE  ListedOnce(u, c)'
    BY DEF BenchInv
  <2>1. CASE u # t
    <3>1. ListedOnce(u, c)
      BY <1>13, <1>14, <2>1 DEF SimpleInv, BenchInv
    <3> QED
      BY <1>8, <1>13, <1>14, <2>1, <3>1 DEF ListedOnce
  <2>2. CASE u = t
    <3>1. PICK i \in 1 .. a + z : m[i] = c
      BY <1>12, <1>13, <1>14, <2>2
    <3>2. ListedOnce(t, c)
      <4>1. CASE i <= a
        <5>0. i \in 1 .. a
          BY <4>1
        <5>1. i \in DOMAIN l /\ l[i] = c
          BY <1>11, <1>12, <3>1, <5>0
        <5>2. i \in DOMAIN evConns[t] /\ evConns[t][i] = c
          BY <1>9, <5>1
        <5> QED
          BY <5>2 DEF SimpleInv, BenchInv
      <4>2. CASE i > a
        <5>1. i - a \in DOMAIN bufConns[t] /\ bufConns[t][i - a] = c
          BY <1>9, <1>11, <1>12, <3>1, <4>2
        <5> QED
          BY <5>1 DEF SimpleInv, BenchInv
      <4> QED
        BY <1>11, <4>1, <4>2
    <3>3. /\ \A p, q \in 1 .. z : k[p] = c /\ k[q] = c => p = q
          /\ \A p, q \in 1 .. a : l[p] = c /\ l[q] = c => p = q
          /\ \A p \in 1 .. z, q \in 1 .. a : ~(k[p] = c /\ l[q] = c)
      <4>1. DOMAIN bufConns[t] = 1 .. z /\ DOMAIN evConns[t] = 1 .. a
        BY <1>9, <1>11
      <4>2. bufConns[t] = k /\ evConns[t] = l
        BY <1>9
      <4> QED
        BY ONLY <3>2, <4>1, <4>2 DEF ListedOnce
    <3>4. ASSUME NEW p \in 1 .. a + z, NEW q \in 1 .. a + z, m[p] = c, m[q] = c
          PROVE  p = q
      <4>1. CASE p <= a /\ q <= a
        BY <1>12, <3>3, <3>4, <4>1
      <4>2. CASE p > a /\ q > a
        <5>1. p - a \in 1 .. z /\ q - a \in 1 .. z /\ k[p - a] = c /\ k[q - a] = c
          BY <1>12, <3>4, <4>2
        <5>2. p - a = q - a
          BY ONLY <3>3, <5>1
        <5> QED
          BY <5>2
      <4>3. CASE p > a /\ q <= a
        <5>1. p - a \in 1 .. z /\ q \in 1 .. a /\ k[p - a] = c /\ l[q] = c
          BY <1>12, <3>4, <4>3
        <5> QED
          BY <3>3, <5>1
      <4>4. CASE p <= a /\ q > a
        <5>1. q - a \in 1 .. z /\ p \in 1 .. a /\ k[q - a] = c /\ l[p] = c
          BY <1>12, <3>4, <4>4
        <5> QED
          BY <3>3, <5>1
      <4> QED
        BY <4>1, <4>2, <4>3, <4>4
    <3>5. cn'[c].fd # 0 /\ cn'[c].own = t /\ u = t
      BY <1>8, <2>2, <3>2 DEF ListedOnce
    <3>6. DOMAIN bufConns'[t] = {} /\ evConns'[t] = m /\ DOMAIN m = 1 .. a + z
      BY <1>12, <1>13, <1>14
    <3> QED
      BY ONLY <3>4, <3>5, <3>6 DEF ListedOnce
  <2> QED
    BY <2>1, <2>2
<1>20. PollInv'
  BY <1>8 DEF SimpleInv, PollInv, SlotOK, ListedOnes, AcceptedClients
<1>21. ConnInv' /\ QueueInv' /\ TableInv' /\ DeathCauses'
  BY <1>8, SameConns
<1> QED
  BY <1>15, <1>16, <1>18, <1>19, <1>20, <1>21 DEF SimpleInv

\* A step of a loop of bench.
LEMMA BenchRunKeeps ==
    ASSUME SimpleInv, NEW t \in {0, 1}, bench_run(t), UNCHANGED <<srv, nofile>>
    PROVE  SimpleInv'
<1>1. CASE dump_conn(t) \/ bench_epoll_wait(t)
  BY <1>1, DumpConnKeeps, BenchWaitKeeps DEF bench_run
<1>2. CASE ~(dump_conn(t) \/ bench_epoll_wait(t))
  <2>1. UNCHANGED <<bufConns, pollfds, phandlers>> /\ srv = "bench"
    BY <1>2 DEF bench_run, pollerVars
  <2>2. \/ \E e \in thr[t].batch : /\ Taken(t, e) /\ EchoRecv(t, e, evConns[t][e.idx])
                                   /\ rm_conn(t, evConns[t][e.idx])
        \/ EchoSend(t) /\ rm_conn(t, thr[t].at)
    BY <1>2 DEF bench_run
  <2> QED
    BY <2>1, <2>2, BenchEchoKeeps
<1> QED
  BY <1>1, <1>2

-----------------------------------------------------------------------------
(* The loops *)

\* The event loops of epoll, reuseport, handle and handle_c.
LEMMA EpollLoopKeeps ==
    ASSUME SimpleInv, NEW t \in {0, 1}, UNCHANGED <<srv, nofile>>,
           server_epoll_loop(t) \/ reuseport_loop(t) \/ handle_loop(t) \/ handle_c_loop(t)
    PROVE  SimpleInv'
<1>1. /\ srv \in Programs \ (Threaded \cup {"poll", "bench"})
      /\ UNCHANGED <<pollfds, phandlers, bufConns, evConns>>
  BY DEF server_epoll_loop, reuseport_loop, handle_loop, handle_c_loop, pollerVars, benchVars,
         Programs, Threaded
<1>2. srv \notin Threaded /\ srv # "bench"
  BY <1>1
<1>3. \/ LoopWait(t)
      \/ \E e \in thr[t].batch : Taken(t, e) /\ AcceptOne(t, e)
      \/ \E e \in thr[t].batch : Taken(t, e) /\ e.conn # 0 /\ EchoRecv(t, e, e.conn)
      \/ EchoSend(t)
  <2>1. CASE server_epoll_loop(t)
    <3>1. \A e \in thr[t].batch : e.conn # 0 => ConnAt(e.fd) = e.conn
      BY <1>2, EventFacts
    <3> QED
      BY <2>1, <3>1 DEF server_epoll_loop, server_epoll_handle_accept, server_epoll_handle_echo
  <2>2. CASE reuseport_loop(t)
    <3>1. \A e \in thr[t].batch : e.conn # 0 => ConnAt(e.fd) = e.conn
      BY <1>2, EventFacts
    <3> QED
      BY <2>2, <3>1 DEF reuseport_loop, reuseport_handle_accept, reuseport_handle_echo
  <2>3. CASE handle_loop(t)
    BY <2>3 DEF handle_loop, handle_handle_accept, handle_Connection_echo
  <2>4. CASE handle_c_loop(t)
    BY <2>4 DEF handle_c_loop, handle_c_handle_accept, connection_echo
  <2> QED
    BY <2>1, <2>2, <2>3, <2>4
<1> QED
  BY <1>1, <1>2, <1>3, LoopWaitKeeps, AcceptOneKeeps, EpollEchoKeeps

\* The loop of the poll server: descriptor 0 is the listener, and the handler
\* of every other one is its connection's.
LEMMA PollLoopKeeps ==
    ASSUME SimpleInv, NEW t \in {0, 1}, UNCHANGED <<srv, nofile>>, poll_loop(t)
    PROVE  SimpleInv'
<1>1. /\ srv = "poll" /\ srv \notin Threaded /\ srv # "bench"
      /\ UNCHANGED <<bufConns, evConns>> /\ t \in ServerThreads
  BY LoopsAreThreads DEF poll_loop, benchVars, Threaded
<1>2. CASE LoopWait(t)
  BY <1>1, <1>2, LoopWaitKeeps
<1>3. ASSUME NEW e \in thr[t].batch, Taken(t, e), e.fd = 0, poll_handle_accept(t, e)
      PROVE  SimpleInv'
  BY <1>1, <1>3, PollAcceptKeeps
<1>4. ASSUME NEW e \in thr[t].batch, Taken(t, e), e.fd # 0, EchoRecv(t, e, phandlers[e.fd]),
             poll_Connection_dtor(phandlers[e.fd])
      PROVE  SimpleInv'
  <2>1. EventOK(t, e)
    BY <1>1 DEF SimpleInv, ThreadInv, LoopOK
  <2>2. e.conn # 0
    BY <1>4, <2>1 DEF EventOK
  <2>3. e.conn \in Clients /\ cn[e.conn].fd = e.fd
    BY <1>1, <2>2, EventFacts
  <2>4. phandlers[e.fd] = e.conn
    <3>1. e.fd # 0 /\ e.fd < FdRange
      BY <1>1, <1>4, <2>1, <2>2 DEF EventOK
    <3>2. srv = "poll" /\ proc # "overrun"
      BY <1>1, <1>4 DEF Taken
    <3>3. \A c \in Clients : cn[c].fd # 0 /\ cn[c].fd < FdRange => phandlers[cn[c].fd] = c
      BY <3>2 DEF SimpleInv, PollInv
    <3> QED
      BY <2>3, <3>1, <3>3
  <2> QED
    BY <1>1, <1>4, <2>2, <2>4, PollEchoKeeps
<1>5. ASSUME EchoSend(t),
             IF proc' = "up" THEN poll_Connection_dtor(thr[t].at) ELSE UNCHANGED pollerVars
      PROVE  SimpleInv'
  BY <1>1, <1>5, PollEchoKeeps
<1>6. \/ LoopWait(t)
      \/ \E e \in thr[t].batch : Taken(t, e) /\ e.fd = 0 /\ poll_handle_accept(t, e)
      \/ \E e \in thr[t].batch : /\ Taken(t, e) /\ e.fd # 0 /\ EchoRecv(t, e, phandlers[e.fd])
                                 /\ poll_Connection_dtor(phandlers[e.fd])
      \/ /\ EchoSend(t)
         /\ IF proc' = "up" THEN poll_Connection_dtor(thr[t].at) ELSE UNCHANGED pollerVars
  BY DEF poll_loop
<1> QED
  BY <1>2, <1>3, <1>4, <1>5, <1>6

\* A step of a loop.
LEMMA LoopThreadKeeps ==
    ASSUME SimpleInv, NEW t \in {0, 1}, LoopThread(t), UNCHANGED <<srv, nofile>>
    PROVE  SimpleInv'
  BY EpollLoopKeeps, PollLoopKeeps, BenchRunKeeps DEF LoopThread

-----------------------------------------------------------------------------
(* Workers *)

\* The worker of c makes a step on c: k is what it has in hand afterwards.
LEMMA WorkerMoves ==
    ASSUME SimpleInv, srv \in Threaded, NEW c \in Clients, cn[c].fd # 0, thr[c].pc # "none",
           NEW r, ConnStep(c, r), NEW k, StreamOK(c, r, k),
           NEW s \in ServerThreadStates, thr' = [thr EXCEPT ![c] = s],
           s.batch = thr[c].batch, s.at \in {0, c}, Len(s.buf) <= BufSize,
           s.pc = "send" => s.at = c /\ s.buf = k /\ k # <<>>, s.pc # "send" => k = <<>>,
           s.pc \in {"loop", "send"} => r.fd # 0,
           UNCHANGED <<lq, sock_num, proc, pollfds, phandlers, bufConns, evConns>>
    PROVE  SimpleInv'
<1>1. c \in ServerThreads /\ c # 0 /\ srv \notin {"poll", "bench"}
  BY SimpleAssumption DEF Clients, ServerThreads, Threaded
<1>2. WorkerOK(c)
  BY <1>1 DEF SimpleInv, ThreadInv
<1>3. cn[c].own = c
  BY ConnFacts DEF FdOK
<1>4. /\ thr' \in [ServerThreads -> ServerThreadStates] /\ thr'[c] = s
      /\ \A u \in ServerThreads : u # c => thr'[u] = thr[u]
  BY <1>1 DEF SimpleInv, SimpleTypes
<1>5. /\ cn' \in [Clients -> ConnStates] /\ cn'[c] = r
      /\ \A d \in Clients : d # c => cn'[d] = cn[d]
      /\ srv' = srv /\ nofile' = nofile
  BY ConnStepValues DEF SimpleInv
<1>6. r.own = c
  BY <1>3 DEF ConnStep, Kept
<1>7. SimpleTypes'
  BY <1>4, <1>5 DEF SimpleInv, SimpleTypes
<1>8. StreamInv'
  <2>1. InHand(c)' = k
    BY <1>4, <1>5, <1>6 DEF InHand
  <2>2. \A d \in Clients : d # c => InHand(d)' = InHand(d)
    <3>1. /\ thr[c].pc = "send" => thr[c].at = c
          /\ s.pc = "send" => s.at = c
      BY <1>2 DEF WorkerOK
    <3>2. \A d \in Clients : d # c => cn'[d].own = cn[d].own
      BY <1>5
    <3> QED
      BY ONLY SimpleInv, <1>1, <1>4, <3>1, <3>2, OtherHands
  <2> QED
    BY <2>1, <2>2, StreamsStay DEF SimpleInv
<1>9. ThreadOK(c)'
  <2>1. WorkerOK(c)'
    BY <1>1, <1>2, <1>4, <1>5 DEF WorkerOK
  <2> QED
    BY <1>4, <1>5, <2>1 DEF ThreadOK
<1>10. ThreadInv'
  <2>1. \A d \in Clients : cn[d].fd # 0 /\ cn[d].own # c
              => cn'[d].fd = cn[d].fd /\ cn'[d].own = cn[d].own
    BY <1>3, <1>5
  <2> QED
    BY <1>1, <1>4, <1>5, <1>9, <2>1, ThreadsStep
<1>11. ConnInv' /\ QueueInv' /\ TableInv' /\ DeathCauses'
  BY ConnStepConn, ConnStepQueue, ConnStepDeath DEF SimpleInv
<1>12. PollInv' /\ BenchInv'
  BY <1>1, ConnStepPoll, ConnStepBench DEF SimpleInv
<1> QED
  BY <1>7, <1>8, <1>10, <1>11, <1>12 DEF SimpleInv

\* What a worker that goes on has.
LEMMA WorkerFacts ==
    ASSUME SimpleInv, srv \in Threaded, NEW c \in Clients, thr[c].pc \in {"loop", "send"}
    PROVE  /\ c \in ServerThreads /\ thr[c] \in ServerThreadStates /\ cn[c].fd # 0
           /\ cn[c].own = c /\ cn[c].accepted /\ thr[c].at \in {0, c} /\ Len(thr[c].buf) <= BufSize
           /\ thr[c].buf \in Seq(Bytes) /\ c \in ClientOrNone
           /\ thr[c].pc = "loop" => InHand(c) = <<>>
           /\ thr[c].pc = "send" => InHand(c) = thr[c].buf /\ thr[c].buf # <<>> /\ thr[c].at = c
           /\ thr \in [ServerThreads -> ServerThreadStates]
<1>1. c \in ServerThreads /\ c # 0 /\ c \in ClientOrNone
  BY SimpleAssumption DEF Clients, ServerThreads, ClientOrNone
<1>2. /\ WorkerOK(c) /\ Len(thr[c].buf) <= BufSize /\ (thr[c].pc = "send" => thr[c].buf # <<>>)
  BY <1>1 DEF SimpleInv, ThreadInv
<1>3. cn[c].fd # 0
  BY <1>2 DEF WorkerOK
<1>4. cn[c].own = c /\ cn[c].accepted
  BY <1>3, ConnFacts DEF FdOK
<1>5. thr[c] \in ServerThreadStates /\ thr[c].buf \in Seq(Bytes)
      /\ thr \in [ServerThreads -> ServerThreadStates]
  BY <1>1 DEF SimpleInv, SimpleTypes, ServerThreadStates
<1>6. /\ thr[c].pc = "loop" => InHand(c) = <<>>
      /\ thr[c].pc = "send" => InHand(c) = thr[c].buf /\ thr[c].buf # <<>> /\ thr[c].at = c
  BY <1>2, <1>4 DEF InHand, WorkerOK
<1> QED
  BY <1>1, <1>2, <1>3, <1>4, <1>5, <1>6 DEF WorkerOK

\* A record with its descriptor closed.
LEMMA ClosedFields ==
    ASSUME NEW q \in ConnStates, NEW r, r = [q EXCEPT !.fd = 0]
    PROVE  /\ r \in ConnStates /\ r.peer = q.peer /\ r.sent = q.sent /\ r.inq = q.inq
           /\ r.err = q.err /\ r.own = q.own /\ r.accepted = q.accepted /\ r.got = q.got
           /\ r.full = q.full /\ r.fd = 0
<1>1. 0 \in 0 .. NFds
  BY SimpleAssumption
<1> QED
  BY <1>1 DEF ConnStates

\* The recv of a worker.
LEMMA WorkerRecvKeeps ==
    ASSUME SimpleInv, srv \in Threaded, NEW c \in Clients, WorkerRecv(c),
           UNCHANGED <<srv, nofile, pollfds, phandlers, bufConns, evConns>>
    PROVE  SimpleInv'
<1>1. /\ proc = "up" /\ thr[c].pc = "loop" /\ UNCHANGED <<lq, sock_num, proc>>
  BY DEF WorkerRecv
<1>2. /\ c \in ServerThreads /\ thr[c] \in ServerThreadStates /\ cn[c].fd # 0
      /\ cn[c].own = c /\ cn[c].accepted /\ thr[c].at \in {0, c} /\ Len(thr[c].buf) <= BufSize
      /\ InHand(c) = <<>> /\ thr \in [ServerThreads -> ServerThreadStates] /\ c \in ClientOrNone
  BY <1>1, WorkerFacts
<1>3. CASE RecvRet(c) > 0
  <2>1. PICK k : k = SubSeq(cn[c].inq, 1, RecvRet(c))
    OBVIOUS
  <2>2. PICK r : r = AfterRecv(c)
    OBVIOUS
  <2>3. /\ ConnStep(c, r) /\ r.fd = cn[c].fd /\ StreamOK(c, r, k)
        /\ k \in Seq(Bytes) /\ Len(k) <= BufSize /\ k # <<>>
    BY <1>2, <1>3, <2>1, <2>2, RecvConn DEF WorkerRecv
  <2>4. PICK s : s = [thr[c] EXCEPT !.pc = "send", !.at = c, !.buf = k]
    OBVIOUS
  <2>5. s \in ServerThreadStates /\ s.pc = "send" /\ s.at = c /\ s.buf = k /\ s.batch = thr[c].batch
    BY <1>2, <2>3, <2>4 DEF ServerThreadStates
  <2>6. thr' = [thr EXCEPT ![c] = s]
    <3>1. thr' = [thr EXCEPT ![c].pc = "send", ![c].at = c, ![c].buf = k]
      BY <1>3, <2>1 DEF WorkerRecv
    <3> QED
      BY <1>2, <2>4, <3>1 DEF ServerThreadStates
  <2> QED
    BY <1>1, <1>2, <2>3, <2>5, <2>6, WorkerMoves
<1>4. CASE ~(RecvRet(c) > 0)
  <2>1. PICK q \in ConnStates : q = AfterRecv(c)
    BY AfterRecvFields DEF SimpleInv
  <2>2. /\ q.peer = cn[c].peer /\ q.sent = cn[c].sent /\ q.own = cn[c].own
        /\ q.accepted = cn[c].accepted /\ q.got = cn[c].got /\ q.full = cn[c].full
        /\ q.err = (IF RecvRet(c) = -1 /\ cn[c].err = "ECONNRESET" THEN "shut" ELSE cn[c].err)
        /\ q.inq = cn[c].inq
    BY <1>4, <2>1, AfterRecvFields DEF SimpleInv
  <2>3. PICK r : r = [q EXCEPT !.fd = 0]
    OBVIOUS
  <2>4. /\ r \in ConnStates /\ r.peer = q.peer /\ r.sent = q.sent /\ r.inq = q.inq
        /\ r.err = q.err /\ r.own = q.own /\ r.accepted = q.accepted /\ r.got = q.got
        /\ r.full = q.full /\ r.fd = 0
    BY <2>3, ClosedFields
  <2>5. cn' = [cn EXCEPT ![c] = r]
    <3>1. cn' = Closed([cn EXCEPT ![c] = q], c)
      BY <1>4, <2>1 DEF WorkerRecv
    <3>2. cn \in [Clients -> ConnStates]
      BY DEF SimpleInv, SimpleTypes
    <3> QED
      BY <2>3, <3>1, <3>2 DEF Closed
  <2>6. ErrorOK(c) /\ StreamOK(c, cn[c], <<>>)
    BY <1>2, ConnFacts
  <2>7. Kept(c, r)
    BY <1>2, <2>2, <2>4, <2>6 DEF Kept, ErrorOK, Threaded
  <2>8. ConnStep(c, r)
    BY <2>5, <2>7 DEF ConnStep
  <2>9. StreamOK(c, r, <<>>)
    <3>1. Promised(r) => Promised(cn[c])
      BY <2>2, <2>4 DEF Promised
    <3> QED
      BY <2>2, <2>4, <2>6, <3>1, StreamSame
  <2>10. PICK s : s = [thr[c] EXCEPT !.pc = "exit"]
    OBVIOUS
  <2>11. /\ s \in ServerThreadStates /\ s.pc = "exit" /\ s.at = thr[c].at
         /\ s.buf = thr[c].buf /\ s.batch = thr[c].batch
    BY <1>2, <2>10 DEF ServerThreadStates
  <2>12. thr' = [thr EXCEPT ![c] = s]
    <3>1. thr' = [thr EXCEPT ![c].pc = "exit"]
      BY <1>4 DEF WorkerRecv
    <3> QED
      BY <1>2, <2>10, <3>1
  <2> QED
    BY <1>1, <1>2, <2>8, <2>9, <2>11, <2>12, WorkerMoves
<1> QED
  BY <1>3, <1>4

\* A send that takes m bytes of b, y, and leaves k.
SendTakes(c, b, m, y, k) ==
    /\ m = SendRet(c, Len(b)) /\ m # -1 /\ Divides(b, m, y, k)
    /\ cn' = [cn EXCEPT ![c] = AfterSend(c, b)] /\ UNCHANGED <<srv, nofile>>

\* A send of a worker that takes bytes: the rest stays in hand.
LEMMA WorkerSendTakes ==
    ASSUME SimpleInv, srv \in Threaded, NEW c \in Clients, NEW b \in Seq(Bytes),
           b # <<>>, InHand(c) = b, NEW m \in Int, NEW y, NEW k, SendTakes(c, b, m, y, k)
    PROVE  /\ \E r : ConnStep(c, r) /\ StreamOK(c, r, k) /\ r.fd = cn[c].fd
           /\ k \in Seq(Bytes)
<1>1. /\ cn[c] \in ConnStates /\ StreamOK(c, cn[c], b)
      /\ cn[c].sent \in Nat /\ cn[c].inq \in Seq(Bytes) /\ cn[c].got \in Seq(Bytes)
      /\ ErrorOK(c) /\ FdOK(c)
  BY ConnFacts
<1>0. /\ m = SendRet(c, Len(b)) /\ m # -1 /\ Divides(b, m, y, k)
      /\ cn' = [cn EXCEPT ![c] = AfterSend(c, b)] /\ UNCHANGED <<srv, nofile>>
  BY DEF SendTakes
<1>2. m > 0 /\ m <= Len(b) /\ cn[c].err = "none"
  <2>1. Len(b) \in Nat \ {0}
    OBVIOUS
  <2> QED
    BY <1>0, <2>1, SendRetRange DEF SimpleInv
<1>3. PICK r \in ConnStates : r = AfterSend(c, b)
  BY AfterSendFields DEF SimpleInv
<1>4. /\ r.peer = cn[c].peer /\ r.sent = cn[c].sent
      /\ r.fd = cn[c].fd /\ r.own = cn[c].own /\ r.accepted = cn[c].accepted /\ r.inq = cn[c].inq
      /\ r.got = cn[c].got \o SubSeq(b, 1, m) /\ r.err = cn[c].err
  BY <1>0, <1>2, <1>3, AfterSendFields DEF SimpleInv
<1>5. Kept(c, r)
  BY <1>1, <1>2, <1>4 DEF Kept, ErrorOK
<1>6. ConnStep(c, r)
  BY <1>0, <1>3, <1>5 DEF ConnStep
<1>7. PICK n \in Nat, u \in Seq(Bytes), g \in Seq(Bytes) :
         n = cn[c].sent /\ u = cn[c].inq /\ g = cn[c].got
  BY <1>1
<1>8. StreamIs(c, n, u, b, g) /\ n <= Sends[c] /\ (Promised(cn[c]) => StreamWhole(n, u, b, g))
  BY <1>1, <1>7 DEF StreamOK
<1>9. y = SubSeq(b, 1, m) /\ m \in Nat
  BY <1>0 DEF Divides
<1>10. PICK x : x = g \o y
  OBVIOUS
<1>11. m \in Nat
  BY <1>9
<1>12. Joins(g, y, x)
  BY <1>10 DEF Joins
<1>13. Divides(b, m, y, k)
  BY <1>0
<1>14. StreamIs(c, n, u, k, x)
  BY ONLY <1>8, <1>11, <1>12, <1>13, StreamSent, n \in Nat, u \in Seq(Bytes), b \in Seq(Bytes), g \in Seq(Bytes)
<1>15. StreamWhole(n, u, b, g) => StreamWhole(n, u, k, x)
  BY ONLY <1>8, <1>11, <1>12, <1>13, StreamSent, n \in Nat, u \in Seq(Bytes), b \in Seq(Bytes), g \in Seq(Bytes)
<1>16. k \in Seq(Bytes)
  BY ONLY <1>8, <1>11, <1>12, <1>13, StreamSent, n \in Nat, u \in Seq(Bytes), b \in Seq(Bytes), g \in Seq(Bytes)
<1>17. Promised(r) => Promised(cn[c])
  BY <1>4 DEF Promised
<1>18. r.sent = n /\ r.inq = u /\ r.got = x
  BY <1>4, <1>7, <1>9, <1>10
<1>19. StreamOK(c, r, k)
  BY <1>8, <1>14, <1>15, <1>17, <1>18 DEF StreamOK
<1> QED
  BY <1>4, <1>6, <1>16, <1>19

\* A send of a worker that fails: the client has reset the connection.
LEMMA WorkerSendFails ==
    ASSUME SimpleInv, NEW c \in Clients, NEW b \in Seq(Bytes), b # <<>>, InHand(c) = b,
           cn[c].accepted, SendRet(c, Len(b)) = -1, ~SendKills(c),
           cn[c].err # "none" \/ cn[c].unread < SndCap
    PROVE  \E q \in ConnStates :
              /\ q = AfterSend(c, b) /\ q.peer = "rst" /\ q.err = "shut" /\ q.fd = cn[c].fd
              /\ cn[c].err = "ECONNRESET"
              /\ q.sent = cn[c].sent /\ q.inq = cn[c].inq /\ q.got = cn[c].got
              /\ q.own = cn[c].own /\ q.accepted /\ cn[c].peer = "rst"
<1>1. cn[c] \in ConnStates /\ ErrorOK(c)
  BY ConnFacts
<1>2. cn[c].err # "none"
  <2>1. ASSUME cn[c].err = "none", cn[c].unread < SndCap
        PROVE  SendRet(c, Len(b)) # -1
    <3>1. Len(b) \in Nat \ {0}
      OBVIOUS
    <3>2. PICK n \in Nat \ {0}, v \in Nat : n = Len(b) /\ v = cn[c].unread
      BY <1>1, <3>1 DEF ConnStates
    <3>3. SndCap \in Nat /\ v < SndCap
      BY <2>1, <3>2, SimpleAssumption
    <3>4. SendRet(c, Len(b)) = IF n <= SndCap - v THEN n ELSE SndCap - v
      BY <2>1, <3>2, <3>3, MinOfTwo DEF SendRet
    <3> QED
      BY <3>2, <3>3, <3>4
  <2> QED
    BY <2>1
<1>3. cn[c].err = "ECONNRESET"
  BY <1>1, <1>2 DEF ConnStates, SendKills, Errors
<1>4. PICK q \in ConnStates : q = AfterSend(c, b)
  BY AfterSendFields DEF SimpleInv
<1>5. /\ q.peer = cn[c].peer /\ q.sent = cn[c].sent
      /\ q.fd = cn[c].fd /\ q.own = cn[c].own /\ q.accepted = cn[c].accepted /\ q.inq = cn[c].inq
      /\ q.got = cn[c].got /\ q.err = "shut"
  BY <1>3, <1>4, AfterSendFields DEF SimpleInv
<1> QED
  BY <1>1, <1>3, <1>4, <1>5 DEF ErrorOK

\* A send of either send_full that does not fail.
LEMMA SendFullKeeps ==
    ASSUME SimpleInv, srv \in Threaded, NEW c \in Clients, thr[c].pc = "send",
           SendRet(c, Len(thr[c].buf)) # -1,
           cn' = [cn EXCEPT ![c] = AfterSend(c, thr[c].buf)],
           thr' = [thr EXCEPT
                      ![c].buf = SubSeq(@, SendRet(c, Len(thr[c].buf)) + 1, Len(@)),
                      ![c].pc = IF SendRet(c, Len(thr[c].buf)) = Len(thr[c].buf) THEN "loop" ELSE @],
           UNCHANGED <<srv, nofile, lq, sock_num, proc, pollfds, phandlers, bufConns, evConns>>
    PROVE  SimpleInv'
<1>1. /\ c \in ServerThreads /\ thr[c] \in ServerThreadStates /\ cn[c].fd # 0
      /\ thr[c].at = c /\ Len(thr[c].buf) <= BufSize /\ thr[c].buf \in Seq(Bytes)
      /\ InHand(c) = thr[c].buf /\ thr[c].buf # <<>>
      /\ thr \in [ServerThreads -> ServerThreadStates]
  BY WorkerFacts
<1>2. PICK b \in Seq(Bytes) : b = thr[c].buf
  BY <1>1
<1>3. PICK m \in Int : m = SendRet(c, Len(b))
  <2>1. Len(b) \in Nat \ {0}
    BY <1>1, <1>2
  <2> QED
    BY <2>1, SendRetRange DEF SimpleInv
<1>4. PICK k : k = SubSeq(b, m + 1, Len(b))
  OBVIOUS
<1>5. PICK l \in Nat : l = Len(b)
  OBVIOUS
<1>6. /\ cn' = [cn EXCEPT ![c] = AfterSend(c, b)] /\ b # <<>> /\ InHand(c) = b /\ m # -1
      /\ l <= BufSize
  BY <1>1, <1>2, <1>3, <1>5
<1>7. /\ \E r : ConnStep(c, r) /\ StreamOK(c, r, k) /\ r.fd = cn[c].fd
      /\ m \in Nat /\ m <= l /\ k \in Seq(Bytes) /\ Len(k) = l - m
  <2>1. m \in Nat /\ m <= Len(b)
    <3>1. Len(b) \in Nat \ {0}
      BY <1>1, <1>2
    <3>2. m = -1 \/ (m > 0 /\ m <= Len(b))
      BY <1>3, <3>1, SendRetRange DEF SimpleInv
    <3> QED
      BY <1>6, <3>2
  <2>2. PICK y : y = SubSeq(b, 1, m)
    OBVIOUS
  <2>3. Divides(b, m, y, k)
    BY <1>4, <2>1, <2>2 DEF Divides
  <2>4. k \in Seq(Bytes) /\ \E r : ConnStep(c, r) /\ StreamOK(c, r, k) /\ r.fd = cn[c].fd
    <3>1. SendTakes(c, b, m, y, k)
      BY <1>3, <1>6, <2>3 DEF SendTakes
    <3> QED
      BY ONLY SimpleInv, srv \in Threaded, c \in Clients, b \in Seq(Bytes), m \in Int,
              <1>6, <3>1, WorkerSendTakes
  <2>5. Len(k) = l - m
    BY ONLY <1>4, <1>5, <2>1, b \in Seq(Bytes), m \in Int
  <2> QED
    BY <1>5, <2>1, <2>4, <2>5
<1>8. PICK r : ConnStep(c, r) /\ StreamOK(c, r, k) /\ r.fd = cn[c].fd
  BY <1>7
<1>9. PICK p \in {"loop", "send"} : p = IF m = l THEN "loop" ELSE "send"
  OBVIOUS
<1>10. PICK s : s = [thr[c] EXCEPT !.buf = k, !.pc = p]
  OBVIOUS
<1>11. s \in ServerThreadStates /\ s.pc = p /\ s.at = c /\ s.buf = k /\ s.batch = thr[c].batch
  BY <1>1, <1>7, <1>9, <1>10 DEF ServerThreadStates
<1>12. thr' = [thr EXCEPT ![c] = s]
  <2>1. thr' = [thr EXCEPT ![c].buf = k, ![c].pc = p]
    BY <1>1, <1>2, <1>3, <1>4, <1>5, <1>9 DEF ServerThreadStates
  <2> QED
    BY <1>1, <1>10, <2>1 DEF ServerThreadStates
<1>13. Len(k) <= BufSize /\ (p = "send" => k # <<>>) /\ (p # "send" => k = <<>>)
  <2>1. PICK lk \in Nat : lk = Len(k) /\ lk = l - m /\ (lk = 0 <=> k = <<>>)
    BY <1>7
  <2>a. l \in Nat /\ l <= BufSize /\ m \in Nat /\ BufSize \in Nat
    BY <1>6, <1>7, SimpleAssumption
  <2>2. lk <= BufSize
    BY ONLY <2>a, <2>1, lk \in Nat
  <2>3. m = l <=> lk = 0
    BY <1>7, <2>1
  <2> QED
    BY <1>9, <2>1, <2>2, <2>3
<1> QED
  <2>0. cn[c].fd # 0
    BY <1>1
  <2>1. /\ Len(s.buf) <= BufSize /\ s.batch = thr[c].batch /\ s.at \in {0, c}
        /\ (s.pc = "send" => s.at = c /\ s.buf = k /\ k # <<>>)
        /\ (s.pc # "send" => k = <<>>) /\ (s.pc \in {"loop", "send"} => r.fd # 0)
        /\ thr[c].pc # "none" /\ s \in ServerThreadStates
    BY <1>1, <1>8, <1>11, <1>13
  <2>2. UNCHANGED <<lq, sock_num, proc, pollfds, phandlers, bufConns, evConns>>
    OBVIOUS
  <2> QED
    BY ONLY SimpleInv, srv \in Threaded, c \in Clients, <1>8, <1>11, <1>12,
            <2>0, <2>1, <2>2, WorkerMoves

\* send_full of server.cpp: a failure closes.
LEMMA ServerSendKeeps ==
    ASSUME SimpleInv, srv \in Threaded, NEW c \in Clients, send_full(c),
           UNCHANGED <<srv, nofile, pollfds, phandlers, bufConns, evConns>>
    PROVE  SimpleInv'
<1>1. /\ proc = "up" /\ thr[c].pc = "send" /\ UNCHANGED <<lq, sock_num>>
      /\ cn[c].err # "none" \/ cn[c].unread < SndCap
  BY DEF send_full, SendFull
<1>2. /\ c \in ServerThreads /\ thr[c] \in ServerThreadStates /\ cn[c].fd # 0 /\ cn[c].accepted
      /\ thr[c].at = c /\ thr[c].buf \in Seq(Bytes) /\ c \in ClientOrNone
      /\ InHand(c) = thr[c].buf /\ thr[c].buf # <<>>
      /\ thr \in [ServerThreads -> ServerThreadStates]
  BY <1>1, WorkerFacts
<1>3. CASE SendKills(c)
  <2>1. proc' = "sigpipe" /\ UNCHANGED <<cn, thr>>
    BY <1>3 DEF send_full, SendFull
  <2> QED
    BY <1>1, <1>2, <1>3, <2>1, KillKeeps
<1>4. CASE ~SendKills(c) /\ SendRet(c, Len(thr[c].buf)) # -1
  <2>1. /\ cn' = [cn EXCEPT ![c] = AfterSend(c, thr[c].buf)] /\ proc' = proc
        /\ thr' = [thr EXCEPT
                      ![c].buf = SubSeq(@, SendRet(c, Len(thr[c].buf)) + 1, Len(@)),
                      ![c].pc = IF SendRet(c, Len(thr[c].buf)) = Len(thr[c].buf) THEN "loop" ELSE @]
    BY <1>4 DEF send_full, SendFull
  <2> QED
    BY <1>1, <1>4, <2>1, SendFullKeeps
<1>5. CASE ~SendKills(c) /\ SendRet(c, Len(thr[c].buf)) = -1
  <2>1. /\ cn' = Closed([cn EXCEPT ![c] = AfterSend(c, thr[c].buf)], c)
        /\ thr' = [thr EXCEPT ![c].pc = "exit", ![c].buf = <<>>] /\ proc' = proc
    BY <1>5 DEF send_full, SendFull
  <2>2. PICK q \in ConnStates :
              /\ q = AfterSend(c, thr[c].buf) /\ q.peer = "rst" /\ q.err = "shut" /\ q.fd = cn[c].fd
              /\ cn[c].err = "ECONNRESET"
              /\ q.sent = cn[c].sent /\ q.inq = cn[c].inq /\ q.got = cn[c].got
              /\ q.own = cn[c].own /\ q.accepted /\ cn[c].peer = "rst"
    BY <1>1, <1>2, <1>5, WorkerSendFails
  <2>3. PICK r : r = [q EXCEPT !.fd = 0]
    OBVIOUS
  <2>4. /\ r \in ConnStates /\ r.peer = q.peer /\ r.sent = q.sent /\ r.inq = q.inq
        /\ r.err = q.err /\ r.own = q.own /\ r.accepted = q.accepted /\ r.got = q.got
        /\ r.full = q.full /\ r.fd = 0
    BY <2>3, ClosedFields
  <2>5. cn' = [cn EXCEPT ![c] = r]
    <3>1. cn' = Closed([cn EXCEPT ![c] = q], c)
      BY <2>1, <2>2
    <3>2. cn \in [Clients -> ConnStates]
      BY DEF SimpleInv, SimpleTypes
    <3> QED
      BY <2>3, <3>1, <3>2 DEF Closed
  <2>6. Kept(c, r)
    BY <1>2, <2>2, <2>4 DEF Kept, Threaded
  <2>7. ConnStep(c, r)
    BY <2>5, <2>6 DEF ConnStep
  <2>8. StreamOK(c, r, <<>>)
    <3>1. StreamOK(c, cn[c], thr[c].buf)
      BY <1>2, ConnFacts
    <3>2. StreamIs(c, r.sent, r.inq, <<>>, r.got) /\ r.sent <= Sends[c]
      <4>1. PICK b \in Seq(Bytes), n \in Nat, u \in Seq(Bytes), g \in Seq(Bytes) :
               b = thr[c].buf /\ n = cn[c].sent /\ u = cn[c].inq /\ g = cn[c].got
        BY <1>2, ConnFacts
      <4>2. StreamIs(c, n, u, b, g) /\ n <= Sends[c]
        BY <3>1, <4>1 DEF StreamOK
      <4>3. StreamIs(c, n, u, <<>>, g)
        BY <4>2, StreamDropped
      <4> QED
        BY <2>2, <2>4, <4>1, <4>2, <4>3
    <3> QED
      BY <2>2, <2>4, <3>2 DEF StreamOK, Promised
  <2>9. PICK n \in Seq(Bytes) : n = <<>> /\ Len(n) = 0
    BY EmptySeq
  <2>10. PICK s : s = [thr[c] EXCEPT !.pc = "exit", !.buf = n]
    OBVIOUS
  <2>11. /\ s \in ServerThreadStates /\ s.pc = "exit" /\ s.at = c
         /\ s.buf = n /\ s.batch = thr[c].batch
    BY <1>2, <2>9, <2>10 DEF ServerThreadStates
  <2>12. thr' = [thr EXCEPT ![c] = s]
    BY <1>2, <2>1, <2>9, <2>10 DEF ServerThreadStates
  <2>13. Len(s.buf) <= BufSize
    BY <2>9, <2>11, SimpleAssumption
  <2> QED
    BY <1>1, <1>2, <2>1, <2>7, <2>8, <2>11, <2>12, <2>13, WorkerMoves
<1> QED
  BY <1>3, <1>4, <1>5

\* send_full of the IPv6 server: a failure is tried again.
LEMMA Server6SendKeeps ==
    ASSUME SimpleInv, srv = "server6", NEW c \in Clients, send_full6(c),
           UNCHANGED <<srv, nofile, pollfds, phandlers, bufConns, evConns>>
    PROVE  SimpleInv'
<1>0. srv \in Threaded
  BY DEF Threaded
<1>1. /\ proc = "up" /\ thr[c].pc = "send" /\ UNCHANGED <<lq, sock_num>>
      /\ cn[c].err # "none" \/ cn[c].unread < SndCap
  BY DEF send_full6, SendFull
<1>2. /\ c \in ServerThreads /\ thr[c] \in ServerThreadStates /\ cn[c].fd # 0 /\ cn[c].accepted
      /\ thr[c].at = c /\ thr[c].buf \in Seq(Bytes) /\ Len(thr[c].buf) <= BufSize
      /\ InHand(c) = thr[c].buf /\ thr[c].buf # <<>>
      /\ thr \in [ServerThreads -> ServerThreadStates]
  BY <1>0, <1>1, WorkerFacts
<1>3. CASE SendKills(c)
  <2>1. proc' = "sigpipe" /\ UNCHANGED <<cn, thr>>
    BY <1>3 DEF send_full6, SendFull
  <2> QED
    BY <1>1, <1>2, <1>3, <2>1, KillKeeps
<1>4. CASE ~SendKills(c) /\ SendRet(c, Len(thr[c].buf)) # -1
  <2>1. /\ cn' = [cn EXCEPT ![c] = AfterSend(c, thr[c].buf)] /\ proc' = proc
        /\ thr' = [thr EXCEPT
                      ![c].buf = SubSeq(@, SendRet(c, Len(thr[c].buf)) + 1, Len(@)),
                      ![c].pc = IF SendRet(c, Len(thr[c].buf)) = Len(thr[c].buf) THEN "loop" ELSE @]
    BY <1>4 DEF send_full6, SendFull
  <2> QED
    BY <1>0, <1>1, <1>4, <2>1, SendFullKeeps
<1>5. CASE ~SendKills(c) /\ SendRet(c, Len(thr[c].buf)) = -1
  <2>1. cn' = [cn EXCEPT ![c] = AfterSend(c, thr[c].buf)] /\ thr' = thr /\ proc' = proc
    BY <1>5 DEF send_full6, SendFull
  <2>2. PICK q \in ConnStates :
              /\ q = AfterSend(c, thr[c].buf) /\ q.peer = "rst" /\ q.err = "shut" /\ q.fd = cn[c].fd
              /\ cn[c].err = "ECONNRESET"
              /\ q.sent = cn[c].sent /\ q.inq = cn[c].inq /\ q.got = cn[c].got
              /\ q.own = cn[c].own /\ q.accepted /\ cn[c].peer = "rst"
    BY <1>1, <1>2, <1>5, WorkerSendFails
  <2>3. ConnStep(c, q)
    BY <1>2, <2>1, <2>2 DEF ConnStep, Kept
  <2>4. StreamOK(c, q, thr[c].buf)
    <3>1. StreamOK(c, cn[c], thr[c].buf)
      BY <1>2, ConnFacts
    <3>2. ~Promised(q)
      BY <2>2 DEF Promised
    <3> QED
      BY <2>2, <3>1, <3>2, StreamSame
  <2>5. PICK s : s = thr[c]
    OBVIOUS
  <2>6. /\ thr' = [thr EXCEPT ![c] = s] /\ s \in ServerThreadStates
        /\ thr[c].pc # "none" /\ s.batch = thr[c].batch /\ s.at \in {0, c} /\ Len(s.buf) <= BufSize
        /\ (s.pc = "send" => s.at = c /\ s.buf = thr[c].buf /\ thr[c].buf # <<>>)
        /\ (s.pc # "send" => thr[c].buf = <<>>) /\ (s.pc \in {"loop", "send"} => q.fd # 0)
    BY <1>1, <1>2, <2>1, <2>2, <2>5
  <2>7. UNCHANGED <<lq, sock_num, proc, pollfds, phandlers, bufConns, evConns>>
    BY <1>1, <2>1
  <2> QED
    BY ONLY SimpleInv, c \in Clients, <1>0, <1>2, <2>3, <2>4, <2>6, <2>7, WorkerMoves
<1> QED
  BY <1>3, <1>4, <1>5

\* A step of a worker.
LEMMA WorkerKeeps ==
    ASSUME SimpleInv, NEW c \in Clients, server_worker(c) \/ server6_worker(c),
           UNCHANGED <<srv, nofile>>
    PROVE  SimpleInv'
<1>1. UNCHANGED <<pollfds, phandlers, bufConns, evConns>> /\ srv \in Threaded
  BY DEF server_worker, server6_worker, pollerVars, benchVars, Threaded
<1>2. CASE server_worker(c)
  BY <1>1, <1>2, WorkerRecvKeeps, ServerSendKeeps DEF server_worker
<1>3. CASE server6_worker(c)
  BY <1>1, <1>3, WorkerRecvKeeps, Server6SendKeeps DEF server6_worker
<1> QED
  BY <1>2, <1>3

-----------------------------------------------------------------------------
(* The theorems *)

\* The programs start with no client, and every loop waiting.
LEMMA SimpleInitInv ==
    ASSUME SimpleInit
    PROVE  SimpleInv
<1>1. /\ Clients \subseteq Nat \ {0} /\ 0 \in ServerThreads /\ 0 \in ClientOrNone
      /\ Clients \subseteq ServerThreads /\ 0 \in 0 .. NFds /\ 0 \in 0 .. SndCap
      /\ 0 \in 0 .. MaxConns /\ 0 \in -1 .. NFds
      /\ \A c \in Clients : Sends[c] \in Nat
  BY SimpleAssumption DEF Clients, ServerThreads, ClientOrNone
<1>2. /\ <<>> \in Seq(Bytes) /\ <<>> \in Seq(Clients) /\ <<>> \in Seq(ClientOrNone) /\ Len(<<>>) = 0
  BY EmptySeq
<1>3. NoClient \in ConnStates
  BY <1>1, <1>2 DEF NoClient, ConnStates, Errors
<1>4. \A c \in Clients : cn[c] = NoClient
  BY DEF SimpleInit
<1>5. /\ thr \in [ServerThreads -> ServerThreadStates]
      /\ \A t \in ServerThreads :
            /\ thr[t].pc = (IF t \in Loops THEN "wait" ELSE "none")
            /\ thr[t].batch = {} /\ thr[t].at = 0 /\ thr[t].buf = <<>>
  <2>1. PICK n \in Seq(Bytes) : n = <<>>
    BY <1>2
  <2>2. \A t \in ServerThreads :
           [pc |-> IF t \in Loops THEN "wait" ELSE "none", batch |-> {}, at |-> 0, buf |-> n]
             \in ServerThreadStates
    BY <1>1 DEF ServerThreadStates
  <2>3. thr = [t \in ServerThreads |->
                [pc |-> IF t \in Loops THEN "wait" ELSE "none", batch |-> {}, at |-> 0, buf |-> n]]
    BY <2>1 DEF SimpleInit
  <2>4. thr \in [ServerThreads -> ServerThreadStates]
    BY ONLY <2>2, <2>3
  <2>5. \A t \in ServerThreads :
            /\ thr[t].pc = (IF t \in Loops THEN "wait" ELSE "none")
            /\ thr[t].batch = {} /\ thr[t].at = 0 /\ thr[t].buf = n
    BY <2>3
  <2> QED
    BY <2>1, <2>4, <2>5
<1>6. pollfds \in Seq(-1 .. NFds) /\ Len(pollfds) = 1 /\ pollfds[1] = 0
  <2>1. PICK S : S = -1 .. NFds
    OBVIOUS
  <2>2. <<0>> \in Seq(S) /\ Len(<<0>>) = 1 /\ <<0>>[1] = 0
    BY <1>1, <2>1
  <2> QED
    BY <2>1, <2>2 DEF SimpleInit
<1>7. SimpleTypes
  <2>1. /\ srv \in Programs /\ proc = "up" /\ sock_num = 0 /\ nofile \in 1 .. NFds
        /\ cn = [c \in Clients |-> NoClient] /\ phandlers = [f \in 1 .. FdRange - 1 |-> 0]
        /\ lq = [t \in {0, 1} |-> <<>>]
        /\ bufConns = [t \in {0, 1} |-> <<>>] /\ evConns = [t \in {0, 1} |-> <<>>]
    BY DEF SimpleInit
  <2>2. cn \in [Clients -> ConnStates] /\ phandlers \in [1 .. FdRange - 1 -> ClientOrNone]
    BY ONLY <1>1, <1>3, <2>1
  <2>3. /\ lq \in [{0, 1} -> Seq(Clients)] /\ bufConns \in [{0, 1} -> Seq(ClientOrNone)]
        /\ evConns \in [{0, 1} -> Seq(ClientOrNone)]
    BY ONLY <1>2, <2>1
  <2> QED
    BY <1>1, <1>5, <1>6, <2>1, <2>2, <2>3 DEF SimpleTypes
<1>8. StreamInv
  <2> SUFFICES ASSUME NEW c \in Clients
               PROVE  StreamOK(c, cn[c], InHand(c))
    BY DEF StreamInv
  <2>1. cn[c].sent = 0 /\ cn[c].inq = <<>> /\ cn[c].got = <<>> /\ cn[c].own = 0
    BY <1>4 DEF NoClient
  <2>2. InHand(c) = <<>>
    BY <1>1, <1>5, <2>1 DEF InHand
  <2>3. StreamIs(c, 0, <<>>, <<>>, <<>>) /\ StreamWhole(0, <<>>, <<>>, <<>>)
    BY <1>2 DEF StreamIs, StreamWhole
  <2> QED
    BY <1>1, <2>1, <2>2, <2>3 DEF StreamOK
<1>9. ConnInv
  BY <1>4 DEF ConnInv, ErrorOK, FdOK, NoClient
<1>10. QueueInv /\ BenchInv
  <2>1. \A t \in {0, 1} : DOMAIN lq[t] = {} /\ DOMAIN bufConns[t] = {} /\ DOMAIN evConns[t] = {}
    <3>1. \A t \in {0, 1} : lq[t] = <<>> /\ bufConns[t] = <<>> /\ evConns[t] = <<>>
      BY DEF SimpleInit
    <3>2. DOMAIN <<>> = {}
      OBVIOUS
    <3> QED
      BY <3>1, <3>2, Zenon
  <2> QED
    BY <2>1 DEF QueueInv, BenchInv
<1>11. ThreadInv
  <2> SUFFICES ASSUME NEW t \in ServerThreads
               PROVE  /\ Len(thr[t].buf) <= BufSize /\ (thr[t].pc = "send" => thr[t].buf # <<>>)
                      /\ IF srv \in Threaded THEN WorkerOK(t) ELSE LoopOK(t)
    BY DEF ThreadInv
  <2>1. /\ Len(thr[t].buf) = 0 /\ thr[t].batch = {} /\ thr[t].at = 0
        /\ thr[t].pc = (IF t \in Loops THEN "wait" ELSE "none")
    BY <1>2, <1>5
  <2> QED
    BY <2>1, SimpleAssumption DEF WorkerOK, LoopOK
<1>12. /\ Cardinality(AcceptedClients) = 0 /\ Cardinality(ListedOnes) = 0
  <2>1. AcceptedClients = {} /\ ListedOnes = {}
    BY <1>4 DEF AcceptedClients, ListedOnes, NoClient
  <2> QED
    BY <2>1, FS_EmptySet
<1>13. PollInv
  <2>1. \A c \in Clients : cn[c].fd = 0
    BY <1>4 DEF NoClient
  <2>2. Len(pollfds) <= MaxFds
    BY <1>6, SimpleAssumption
  <2> QED
    BY <1>6, <1>12, <2>1, <2>2 DEF PollInv
<1>14. TableInv /\ DeathCauses
  BY <1>12 DEF SimpleInit, TableInv, DeathCauses, SigpipeNeedsHalfClose, OverrunNeedsTableFull
<1> QED
  BY <1>7, <1>8, <1>9, <1>10, <1>11, <1>13, <1>14 DEF SimpleInv

\* Every step keeps the invariant.
LEMMA SimpleNextInv ==
    ASSUME SimpleInv, [SimpleNext]_simpleVars
    PROVE  SimpleInv'
<1>1. CASE SimpleNext
  <2>1. UNCHANGED <<srv, nofile>>
    BY <1>1 DEF SimpleNext
  <2>2. ASSUME NEW c \in Clients,
               \/ \E t \in {0, 1} : Connect(c, t)
               \/ ClientSend(c) \/ ClientRead(c) \/ ClientFin(c) \/ ClientReset(c)
               \/ server_worker(c) \/ server6_worker(c)
        PROVE  SimpleInv'
    <3>1. CASE \E t \in {0, 1} : Connect(c, t)
      BY <2>1, <3>1, ConnectKeeps
    <3>2. CASE ClientSend(c)
      BY <2>1, <3>2, ClientSendKeeps
    <3>3. CASE ClientRead(c) \/ ClientFin(c) \/ ClientReset(c)
      BY <2>1, <3>3, ClientOtherKeeps
    <3>4. CASE server_worker(c) \/ server6_worker(c)
      BY <2>1, <3>4, WorkerKeeps
    <3> QED
      BY <2>2, <3>1, <3>2, <3>3, <3>4
  <2>3. ASSUME NEW t \in {0, 1}, LoopThread(t)
        PROVE  SimpleInv'
    BY <2>1, <2>3, LoopThreadKeeps
  <2>4. CASE server_main \/ server6_main
    <3>1. /\ AcceptInMain /\ srv \in Threaded
          /\ UNCHANGED <<pollfds, phandlers, bufConns, evConns>>
      BY <2>4 DEF server_main, server6_main, pollerVars, benchVars, Threaded
    <3> QED
      BY <2>1, <3>1, AcceptInMainKeeps
  <2>5. CASE Acceptor_accept
    BY <2>1, <2>5, AcceptorKeeps
  <2>6. \/ \E c \in Clients :
             \/ \E t \in {0, 1} : Connect(c, t)
             \/ ClientSend(c) \/ ClientRead(c) \/ ClientFin(c) \/ ClientReset(c)
             \/ server_worker(c) \/ server6_worker(c)
        \/ \E t \in {0, 1} : LoopThread(t)
        \/ server_main \/ server6_main \/ Acceptor_accept
    BY <1>1 DEF SimpleNext
  <2> QED
    BY <2>2, <2>3, <2>4, <2>5, <2>6
<1>2. CASE UNCHANGED simpleVars
  <2>1. UNCHANGED <<srv, cn, thr, lq, pollfds, phandlers, bufConns, evConns, sock_num, nofile, proc>>
    BY <1>2 DEF simpleVars
  <2>2. SimpleTypes'
    BY <2>1 DEF SimpleInv, SimpleTypes
  <2>3. StreamInv'
    <3>1. \A d \in Clients : InHand(d)' = InHand(d)
      BY <2>1 DEF InHand
    <3> QED
      BY <2>1, <3>1, SameStreams
  <2>4. ThreadInv'
    BY <2>1, EventsStay DEF SimpleInv
  <2>5. PollInv' /\ BenchInv'
    BY <2>1 DEF SimpleInv, PollInv, SlotOK, ListedOnes, AcceptedClients, BenchInv, ListedOnce
  <2>6. ConnInv' /\ QueueInv' /\ TableInv' /\ DeathCauses'
    BY <2>1, SameConns
  <2> QED
    BY <2>2, <2>3, <2>4, <2>5, <2>6 DEF SimpleInv
<1> QED
  BY <1>1, <1>2

\* The invariant says what the clients get back.
LEMMA SimpleInvEcho ==
    ASSUME SimpleInv
    PROVE  EchoIntegrity
<1>1. SimpleTypeOK
  <2>1. ASSUME NEW c \in Clients
        PROVE  /\ cn[c].peer \in {"idle", "open", "fin", "rst"}
               /\ cn[c].fd \in 0 .. NFds /\ cn[c].own \in ServerThreads
               /\ cn[c].err \in {"none", "ECONNRESET", "EPIPE", "shut"}
               /\ cn[c].unread \in 0 .. SndCap /\ cn[c].sent \in 0 .. Sends[c]
               /\ cn[c].fd # 0 => \A d \in Clients \ {c} : cn[d].fd # cn[c].fd
    <3>1. cn[c] \in ConnStates /\ FdOK(c) /\ StreamOK(c, cn[c], InHand(c)) /\ Sends[c] \in Nat
      BY ConnFacts
    <3>2. cn[c].sent \in 0 .. Sends[c]
      BY <3>1 DEF ConnStates, StreamOK
    <3> QED
      BY <3>1, <3>2 DEF ConnStates, Errors, FdOK
  <2>2. ASSUME NEW t \in ServerThreads
        PROVE  /\ thr[t].pc \in {"none", "wait", "poll", "loop", "send", "exit"}
               /\ thr[t].at \in 0 .. Len(Sends) /\ Len(thr[t].buf) <= BufSize
    BY DEF SimpleInv, SimpleTypes, ServerThreadStates, ClientOrNone, ThreadInv
  <2>3. /\ srv \in Programs /\ proc \in {"up", "sigpipe", "overrun"}
        /\ Len(pollfds) <= MaxFds /\ sock_num \in 0 .. MaxConns
    BY DEF SimpleInv, SimpleTypes, PollInv
  <2> QED
    BY <2>1, <2>2, <2>3 DEF SimpleTypeOK
<1>2. EchoOwnBytes
  <2> SUFFICES ASSUME NEW c \in Clients, NEW i \in DOMAIN cn[c].got
               PROVE  /\ cn[c].got[i][1] = c
                      /\ i > 1 => cn[c].got[i - 1][2] < cn[c].got[i][2]
    BY DEF EchoOwnBytes
  <2>1. PICK g \in Seq(Bytes), n \in Nat : g = cn[c].got /\ n = Len(g) /\ DOMAIN g = 1 .. n
    BY ConnFacts
  <2>2. /\ \A j \in 1 .. n : g[j][1] = c
        /\ \A j \in 2 .. n : g[j - 1][2] < g[j][2]
    BY <2>1, ConnFacts DEF StreamOK, StreamIs
  <2>3. i \in 1 .. n
    BY <2>1
  <2> QED
    BY <2>1, <2>2, <2>3
<1>3. LossNeedsFullWindow
  BY ConnFacts DEF LossNeedsFullWindow, StreamOK, StreamWhole, Promised, InHand
<1> QED
  BY <1>1, <1>2, <1>3 DEF EchoIntegrity

\* The invariant says what events and slots stand for.
LEMMA SimpleInvEvents ==
    ASSUME SimpleInv
    PROVE  EventsKnowConnections
<1>1. NoStaleEvents
  <2> SUFFICES ASSUME NEW t \in {0, 1}, NEW e \in thr[t].batch, e.conn # 0
               PROVE  /\ cn[e.conn].fd = e.fd /\ cn[e.conn].own = t
                      /\ srv = "bench" => evConns[t][e.idx] = e.conn
    BY DEF NoStaleEvents
  <2>1. t \in ServerThreads
    BY LoopsAreThreads
  <2>2. srv \notin Threaded
    BY <2>1 DEF SimpleInv, ThreadInv, WorkerOK
  <2>3. EventOK(t, e)
    BY <2>1, <2>2 DEF SimpleInv, ThreadInv, LoopOK
  <2> QED
    BY <2>3 DEF EventOK
<1>2. PollerKnowsConnections
  <2> SUFFICES ASSUME srv = "poll", proc # "overrun"
               PROVE  /\ \A c \in Clients : cn[c].fd # 0 =>
                            IF cn[c].fd < FdRange
                            THEN /\ Cardinality({i \in DOMAIN pollfds : pollfds[i] = cn[c].fd}) = 1
                                 /\ phandlers[cn[c].fd] = c
                            ELSE cn[c].fd \notin Range(pollfds)
                      /\ Range(pollfds) \subseteq {-1, 0} \cup {cn[c].fd : c \in Clients}
    BY DEF PollerKnowsConnections
  <2>1. PICK n \in Nat : n = Len(pollfds) /\ DOMAIN pollfds = 1 .. n
    BY DEF SimpleInv, SimpleTypes
  <2>2. /\ \A i, j \in 1 .. n : pollfds[i] = pollfds[j] => i = j \/ pollfds[i] = -1
        /\ pollfds[1] = 0 /\ \A i \in 2 .. n : SlotOK(pollfds[i])
        /\ \A c \in Clients : cn[c].fd # 0 /\ cn[c].fd < FdRange =>
              (\E i \in 1 .. n : pollfds[i] = cn[c].fd) /\ phandlers[cn[c].fd] = c
    BY <2>1 DEF SimpleInv, PollInv
  <2>3. \A c \in Clients : cn[c].fd # -1
    BY DEF SimpleInv, SimpleTypes, ConnStates
  <2>4. \A x \in Range(pollfds) : x = 0 \/ SlotOK(x)
    <3>1. \A i \in 1 .. n : i = 1 \/ i \in 2 .. n
      OBVIOUS
    <3> QED
      BY <2>1, <2>2, <3>1 DEF Range
  <2>5. ASSUME NEW c \in Clients, cn[c].fd # 0, cn[c].fd < FdRange
        PROVE  /\ Cardinality({i \in DOMAIN pollfds : pollfds[i] = cn[c].fd}) = 1
               /\ phandlers[cn[c].fd] = c
    <3>1. PICK i \in 1 .. n : pollfds[i] = cn[c].fd
      BY <2>2, <2>5
    <3>2. {j \in DOMAIN pollfds : pollfds[j] = cn[c].fd} = {i}
      BY <2>1, <2>2, <2>3, <3>1
    <3> QED
      BY <2>2, <2>5, <3>2, FS_Singleton
  <2>6. ASSUME NEW c \in Clients, cn[c].fd # 0, ~(cn[c].fd < FdRange)
        PROVE  cn[c].fd \notin Range(pollfds)
    BY <2>3, <2>4, <2>6 DEF SlotOK
  <2>7. Range(pollfds) \subseteq {-1, 0} \cup {cn[c].fd : c \in Clients}
    BY <2>4 DEF SlotOK
  <2> QED
    BY <2>5, <2>6, <2>7
<1> QED
  BY <1>1, <1>2 DEF EventsKnowConnections

\* The invariant holds in every state.
LEMMA SimpleAlways == SimpleSpec => []SimpleInv
<1>1. SimpleInit => SimpleInv
  BY SimpleInitInv
<1>2. SimpleInv /\ [SimpleNext]_simpleVars => SimpleInv'
  BY SimpleNextInv
<1> QED
  BY <1>1, <1>2, PTL DEF SimpleSpec

\* A client gets its own bytes back, each at most once and in order, and misses
\* some only after a reset or a full window, whatever else the threads do.
THEOREM EchoIsIntact == SimpleSpec => []EchoIntegrity
<1>1. SimpleInv => EchoIntegrity
  BY SimpleInvEcho
<1> QED
  BY <1>1, SimpleAlways, PTL

\* A descriptor, pointer or index in a batch stands for the connection it was
\* reported for; every connection of the poll server whose descriptor handlers has
\* room for has its slot and handler, and a refused one has none.
THEOREM EventsAreNeverStale == SimpleSpec => []EventsKnowConnections
<1>1. SimpleInv => EventsKnowConnections
  BY SimpleInvEvents
<1> QED
  BY <1>1, SimpleAlways, PTL

\* What ends a process: a send after the error was reported, or a full table,
\* which takes max_conns connections, or only as many as there are descriptors.
THEOREM DeathHasItsCause == SimpleSpec => []DeathCauses
<1>1. SimpleInv => DeathCauses
  BY DEF SimpleInv
<1> QED
  BY <1>1, SimpleAlways, PTL

=============================================================================
