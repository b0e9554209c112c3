-------------------- MODULE EpolletEpolloutHandleProofs --------------------
(***************************************************************************)
(* For every ring size, counter width, queue size, window and number of    *)
(* bytes: the edge-triggered server keeps the echoed stream right, cuts    *)
(* off only clients that left or overran the ring, never sleeps on an edge *)
(* it has missed, and implements EchoService.                              *)
(***************************************************************************)
EXTENDS EpolletEpolloutHandle, EchoConnectionProofs

(***************************************************************************)
(* recv_buf gives up on a full ring and when recvmsg has nothing to return *)
(* but an end or an error; otherwise it empties the receive queue or fills *)
(* the ring.                                                               *)
(***************************************************************************)
LEMMA RecvEffect ==
  ASSUME ConnInv, recv_buf
  PROVE  \/ Delete /\ (BlankSize = 0 \/ RcvQueued = 0)
         \/ /\ SockTypeOK' /\ BufTypeOK' /\ RingInv'
            /\ \E n \in Nat :
                  /\ n <= BlankSize /\ n <= RcvQueued
                  /\ n = BlankSize \/ n = RcvQueued
                  /\ Store(blank_iovec, n)
            /\ pc' = "send_buf"
            /\ UNCHANGED <<epoll_event, ev>>
<1> DEFINE result == recv_result(iov_total(blank_iovec))
<1>0. SockTypeOK /\ BufTypeOK /\ RingInv BY DEF ConnInv, ConnTypeOK
<1>1. BlankSize \in Nat /\ iov_total(blank_iovec) = BlankSize
      /\ \A i \in 0 .. BlankSize - 1 :
            iov_cell(blank_iovec, i) = (p + i) % max_pkt_size
  BY WholeIovecs DEF blank_iovec
<1>2. result \in Int /\ RcvQueued \in Nat /\ result <= RcvQueued
      /\ result <= BlankSize
  BY <1>0, <1>1, RecvBound
<1>3. RcvQueued > 0 => result = BlankSize \/ result = RcvQueued
  BY <1>1 DEF recv_result, Smaller
<1>4. \/ Delete /\ (BlankSize <= 0 \/ result <= 0)
      \/ /\ ~(BlankSize <= 0 \/ result <= 0)
         /\ Store(blank_iovec, result)
         /\ pc' = "send_buf"
         /\ UNCHANGED <<epoll_event, ev>>
  BY DEF recv_buf
<1> HIDE DEF result
<1>5. CASE Delete /\ (BlankSize <= 0 \/ result <= 0)
  BY <1>1, <1>2, <1>3, <1>5
<1>6. CASE /\ ~(BlankSize <= 0 \/ result <= 0)
           /\ Store(blank_iovec, result)
           /\ pc' = "send_buf"
           /\ UNCHANGED <<epoll_event, ev>>
  <2>1. result \in Nat /\ RcvQueued > 0 BY <1>2, <1>6
  <2>2. \A i \in 0 .. result - 1 :
           iov_cell(blank_iovec, i) = (p + i) % max_pkt_size
    BY <1>1, <1>2, <2>1
  <2>3. SockTypeOK' /\ BufTypeOK' /\ RingInv'
    BY <1>0, <1>2, <1>6, <2>1, <2>2, StoreKeeps
  <2> QED BY <1>2, <1>3, <1>6, <2>1, <2>3
<1> QED BY <1>4, <1>5, <1>6

(***************************************************************************)
(* send_buf gives up only on a reset connection; otherwise, bytes it could *)
(* not send leave SOCK_NOSPACE set and too little room for an EPOLLOUT.    *)
(***************************************************************************)
LEMMA SendEffect ==
  ASSUME ConnInv, NEW next, send_buf(next)
  PROVE  \/ SendError /\ rst
         \/ /\ SockTypeOK' /\ BufTypeOK' /\ RingInv'
            /\ \E n \in Nat :
                  /\ n <= ExistSize
                  /\ Drain(exist_iovec, n)
                  /\ Len(out') = Len(out) + n
            /\ taken' > Len(out') => nospace' /\ SndRoom' < SndLowat
            /\ pc' = next
            /\ UNCHANGED <<epoll_event, ev>>
<1> DEFINE result == send_result(iov_total(exist_iovec))
           n      == IF ExistSize <= 0 \/ result = Eagain THEN 0 ELSE result
<1>0. SockTypeOK /\ BufTypeOK /\ RingInv BY DEF ConnInv, ConnTypeOK
<1>1. ExistSize \in Nat /\ iov_total(exist_iovec) = ExistSize
      /\ ExistSize = taken - Len(out)
      /\ \A i \in 0 .. ExistSize - 1 :
            iov_cell(exist_iovec, i) = (f + i) % max_pkt_size
  BY WholeIovecs DEF exist_iovec
<1>2. result \in Int /\ result <= ExistSize
      /\ (result >= 0 \/ result \in {Eagain, Error})
  BY <1>0, <1>1, SendBound
<1>3. SndRoom \in Int /\ SndLowat > 0 /\ SndLowat \in Nat
      /\ taken \in Nat /\ Len(out) \in Nat /\ SndCap \in Nat /\ acked \in Nat
  BY Numbers
<1>4. /\ result = Error => rst
      /\ result = Eagain => SndRoom <= 0
      /\ result >= 0 /\ result < ExistSize => SndRoom = result
  BY <1>0, <1>1, <1>3 DEF send_result, Smaller, Eagain, Error, SockTypeOK
<1>5. \/ SendError /\ ExistSize > 0 /\ result = Error
      \/ /\ ~(ExistSize > 0 /\ result = Error)
         /\ Drain(exist_iovec, n)
         /\ pc' = next
         /\ UNCHANGED <<epoll_event, ev>>
  BY DEF send_buf
<1>6. nospace' = (nospace \/ (ExistSize > 0 /\ n < ExistSize))
  BY <1>1 DEF send_buf
<1> HIDE DEF result
<1>7. CASE SendError /\ ExistSize > 0 /\ result = Error
  BY <1>4, <1>7
<1>8. CASE /\ ~(ExistSize > 0 /\ result = Error)
           /\ Drain(exist_iovec, n)
           /\ pc' = next
           /\ UNCHANGED <<epoll_event, ev>>
  <2>1. n \in Nat /\ n <= ExistSize BY <1>1, <1>2, <1>8 DEF Eagain, Error
  <2>2. n < ExistSize => SndRoom <= n
    BY <1>1, <1>2, <1>3, <1>4, <1>8, <2>1 DEF Eagain, Error
  <2> HIDE DEF n
  <2>3. \A i \in 0 .. n - 1 :
           iov_cell(exist_iovec, i) = (f + i) % max_pkt_size
    BY <1>1, <2>1
  <2>4. SockTypeOK' /\ BufTypeOK' /\ RingInv' /\ Len(out') = Len(out) + n
    BY <1>0, <1>8, <2>1, <2>3, DrainKeeps
  <2>5. taken' = taken /\ acked' = acked BY <1>8 DEF Drain
  <2>6. SndRoom' = SndRoom - n
    BY <1>3, <2>1, <2>4, <2>5 DEF SndRoom
  <2>7. taken' > Len(out') => n < ExistSize
    BY <1>1, <1>3, <2>1, <2>4, <2>5
  <2>8. taken' > Len(out') => nospace' /\ SndRoom' < SndLowat
    <3>1. n < ExistSize => ExistSize > 0 /\ SndRoom' < SndLowat
      BY <1>1, <1>3, <2>1, <2>2, <2>6
    <3> QED BY <1>6, <2>7, <3>1, Zenon
  <2> QED BY <1>8, <2>1, <2>4, <2>8
<1> QED BY <1>5, <1>7, <1>8

\* The client of this server is a client like the others'.
LEMMA EdgeClientIsClient == EdgeClient => Client
BY DEF EdgeClient, Wakes, Reads, SendInWindow, Client, Peer

-----------------------------------------------------------------------------
\* The inductive invariant of types and ring contents ...
BaseInv == ConnInv /\ TypeOK

\* ... holds initially ...
LEMMA InitBase == Init => BaseInv
BY InitKeeps DEF Init, BaseInv, ConnInv, TypeOK, ConnInit

\* ... and is kept by every step of the loop thread, the kernel and the client.
LEMMA NextBase == BaseInv /\ [Next]_vars => BaseInv'
<1> SUFFICES ASSUME BaseInv, [Next]_vars PROVE BaseInv' OBVIOUS
<1>0. ConnInv BY DEF BaseInv
<1>1. ASSUME Delete \/ SendError, UNCHANGED window,
             ready' \in BOOLEAN, nospace' \in BOOLEAN
      PROVE  BaseInv'
  BY <1>0, <1>1, GiveUpKeeps DEF BaseInv, TypeOK, ConnInv
<1>2. CASE Acceptor_handle /\ UNCHANGED window
  BY <1>0, <1>2, AcceptKeeps
     DEF Acceptor_handle, Accept, BaseInv, TypeOK, ConnInv
<1>3. CASE EpollWait /\ UNCHANGED window
  <2>1. ready' \in BOOLEAN /\ nospace' \in BOOLEAN BY <1>3 DEF EpollWait
  <2>2. CASE Level(epoll_event) = {}
    <3>1. UNCHANGED <<sockVars, bufVars, connVars>>
      BY <1>3, <2>2 DEF EpollWait
    <3>2. ConnInv'
      BY <1>0, <3>1, QuietKeeps DEF connVars, ConnInv, ConnTypeOK
    <3> QED BY <1>3, <2>1, <3>1, <3>2
            DEF BaseInv, TypeOK, ConnInv, connVars
  <2>3. CASE Level(epoll_event) # {}
    BY <1>0, <1>1, <1>3, <2>1, <2>3, DispatchKeeps
       DEF EpollWait, BaseInv, TypeOK, ConnInv
  <2> QED BY <2>2, <2>3
<1>4. CASE recv_buf /\ UNCHANGED window
  <2>1. UNCHANGED <<ready, nospace>> BY <1>4 DEF recv_buf, edgeVars
  <2> QED BY <1>0, <1>1, <1>4, <2>1, RecvEffect
          DEF BaseInv, TypeOK, ConnInv, ConnTypeOK
<1>5. ASSUME NEW next \in {"recv_buf", "epoll_wait"}, send_buf(next),
             UNCHANGED window
      PROVE  BaseInv'
  <2>1. ready' = ready /\ nospace' \in BOOLEAN
    BY <1>5 DEF send_buf, BaseInv, TypeOK
  <2> QED BY <1>0, <1>1, <1>5, <2>1, SendEffect
          DEF BaseInv, TypeOK, ConnInv, ConnTypeOK
<1>6. CASE (handle_write \/ handle_read) /\ UNCHANGED window
  BY <1>5, <1>6 DEF handle_write, handle_read
<1>7. CASE EdgeClient /\ UNCHANGED window
  <2>1. ready' \in BOOLEAN /\ nospace' \in BOOLEAN
    BY <1>7 DEF EdgeClient, Wakes, Reads, BaseInv, TypeOK
  <2> QED BY <1>0, <1>7, <2>1, EdgeClientIsClient, ClientKeeps
          DEF BaseInv, TypeOK, ConnInv, connVars
<1>8. CASE UNCHANGED vars
  BY <1>0, <1>8, QuietKeeps
     DEF BaseInv, TypeOK, ConnInv, ConnTypeOK, vars, connVars, edgeVars
<1> QED BY <1>2, <1>3, <1>4, <1>6, <1>7, <1>8 DEF Next, Server

-----------------------------------------------------------------------------
(***************************************************************************)
(* What is true inside a handler, and makes the two properties of the      *)
(* sleeping loop and the one of a deleted connection inductive: the client *)
(* keeps to its window; a handler on its way to recv_buf has something to  *)
(* read; and past recv_buf, or on a way without it, the queue is empty     *)
(* unless an event came meanwhile.                                         *)
(***************************************************************************)
ToRead  == pc = "recv_buf" \/ (pc = "handle_write" /\ EPOLLIN \in ev)
AllRead == pc \in {"epoll_wait", "send_buf"}
           \/ (pc = "handle_write" /\ EPOLLIN \notin ev)

EdgeInv ==
    /\ arrived - acked <= window
    /\ pc # "accept" => epoll_event = {EPOLLIN, EPOLLOUT}
    /\ ToRead => RcvQueued > 0 \/ fin \/ rst
    /\ Enough /\ ~ready /\ AllRead => RcvQueued = 0
    /\ NoLostWrite
    /\ DropsOnlyOverrun

\* Before the accept nothing has been sent.
LEMMA InitEdge == Init => EdgeInv
<1> SUFFICES ASSUME Init PROVE EdgeInv OBVIOUS
<1>1. arrived - acked <= window
  BY WindowAssumption DEF Init, ConnInit, SockInit
<1> QED BY <1>1 DEF Init, ConnInit, EdgeInv, ToRead, AllRead, NoLostWrite,
               Asleep, DropsOnlyOverrun, NeverDropsClient, Open

\* A connection given up on satisfies EdgeInv if it was right to do so.
LEMMA GiveUpEdge ==
  ASSUME EdgeInv, pc # "accept", Delete \/ SendError, UNCHANGED window,
         fin \/ rst \/ (~Enough /\ taken - Len(out) = max_pkt_size - 1)
  PROVE  EdgeInv'
<1>1. pc' \in {"deleted", "killed"}
      /\ UNCHANGED <<sockVars, epoll_event>>
  BY DEF Delete, SendError
<1>2. UNCHANGED <<arrived, taken, out, acked, fin, rst>> BY <1>1 DEF sockVars
<1>3. DropsOnlyOverrun'
  BY <1>2 DEF DropsOnlyOverrun, NeverDropsClient, Enough
<1>4. ~ ToRead' /\ ~ AllRead' /\ ~ Asleep' /\ pc' # "accept"
  BY <1>1 DEF ToRead, AllRead, Asleep
<1> QED BY <1>1, <1>2, <1>3, <1>4 DEF EdgeInv, NoLostWrite

\* What epoll_wait reports of a socket registered for both directions.
LEMMA LevelOfBoth ==
  ASSUME epoll_event = {EPOLLIN, EPOLLOUT}
  PROVE  /\ EPOLLIN \in Level(epoll_event) <=> RcvQueued > 0 \/ fin \/ rst
         /\ EPOLLOUT \in Level(epoll_event) <=> SndRoom >= SndLowat \/ rst
         /\ Level(epoll_event) \ {EPOLLIN, EPOLLOUT} # {} => rst
BY DEF Level, EPOLLIN, EPOLLOUT, EPOLLERR

\* Taking the socket off the ready list loses no event.
LEMMA EpollWaitEdge ==
  ASSUME ConnInv, EdgeInv, EpollWait, UNCHANGED window
  PROVE  EdgeInv'
<1>0. pc = "epoll_wait" /\ epoll_event = {EPOLLIN, EPOLLOUT}
  BY DEF EpollWait, EdgeInv
<1>1. /\ EPOLLIN \in Level(epoll_event) <=> RcvQueued > 0 \/ fin \/ rst
      /\ EPOLLOUT \in Level(epoll_event) <=> SndRoom >= SndLowat \/ rst
      /\ Level(epoll_event) \ {EPOLLIN, EPOLLOUT} # {} => rst
  BY <1>0, LevelOfBoth
<1>2. RcvQueued \in Nat /\ SndRoom \in Int /\ SndLowat \in Nat BY Numbers
<1>3. CASE Level(epoll_event) = {}
  <2>1. UNCHANGED <<sockVars, connVars>> /\ nospace' = (nospace \/ SndRoom < SndLowat)
    BY <1>3 DEF EpollWait
  <2>2. UNCHANGED <<arrived, taken, out, acked, fin, rst, epoll_event, ev, pc>>
    BY <2>1 DEF sockVars, connVars
  <2>3. RcvQueued = 0 /\ SndRoom < SndLowat BY <1>1, <1>2, <1>3
  <2>4. RcvQueued' = 0 /\ SndRoom' < SndLowat /\ nospace'
    BY <2>1, <2>2, <2>3 DEF RcvQueued, SndRoom
  <2>5. ~ ToRead' /\ Open' BY <1>0, <2>2 DEF ToRead, Open
  <2> QED BY <1>0, <2>2, <2>4, <2>5
          DEF EdgeInv, NoLostWrite, DropsOnlyOverrun, NeverDropsClient
<1>4. CASE Level(epoll_event) # {}
  <2>1. Dispatch(Level(epoll_event), "handle_write", "recv_buf")
    BY <1>4 DEF EpollWait
  <2>2. CASE Level(epoll_event) \ {EPOLLIN, EPOLLOUT} # {}
    BY <1>0, <1>1, <2>1, <2>2, GiveUpEdge DEF Dispatch
  <2>3. CASE Level(epoll_event) \ {EPOLLIN, EPOLLOUT} = {}
    <3>1. /\ ev' = Level(epoll_event)
          /\ pc' = IF EPOLLOUT \in Level(epoll_event)
                   THEN "handle_write" ELSE "recv_buf"
          /\ UNCHANGED <<sockVars, epoll_event>>
      BY <2>1, <2>3 DEF Dispatch
    <3>2. UNCHANGED <<arrived, taken, out, acked, fin, rst, epoll_event>>
      BY <3>1 DEF sockVars
    <3>3. UNCHANGED RcvQueued BY <3>2 DEF RcvQueued
    <3>4. EPOLLIN \in Level(epoll_event) \/ EPOLLOUT \in Level(epoll_event)
      BY <1>4, <2>3
    <3>5. ToRead' => RcvQueued' > 0 \/ fin' \/ rst'
      BY <1>1, <3>1, <3>2, <3>3, <3>4 DEF ToRead
    <3>6. AllRead' => RcvQueued' = 0
      BY <1>1, <1>2, <3>1, <3>3 DEF AllRead
    <3>7. Open' /\ ~ Asleep' BY <3>1 DEF Open, Asleep
    <3> QED BY <1>0, <3>1, <3>2, <3>5, <3>6, <3>7
            DEF EdgeInv, NoLostWrite, DropsOnlyOverrun, NeverDropsClient
  <2> QED BY <2>2, <2>3
<1> QED BY <1>3, <1>4

(***************************************************************************)
(* recv_buf leaves nothing in the receive queue if the ring is large       *)
(* enough for the window, and then never finds the ring full either.       *)
(***************************************************************************)
LEMMA RecvEdge ==
  ASSUME ConnInv, TypeOK, EdgeInv, recv_buf, UNCHANGED window
  PROVE  EdgeInv'
<1>0. pc = "recv_buf" /\ ToRead /\ epoll_event = {EPOLLIN, EPOLLOUT}
  BY DEF recv_buf, ToRead, EdgeInv
<1>1. /\ arrived \in Nat /\ taken \in Nat /\ acked \in Nat /\ Len(out) \in Nat
      /\ acked <= Len(out) /\ max_pkt_size \in Nat /\ RcvQueued \in Nat
  BY Numbers
<1>2. window \in Nat BY WindowAssumption DEF TypeOK
<1>3. arrived - acked <= window BY DEF EdgeInv
<1>4. BlankSize \in Nat /\ BlankSize = max_pkt_size - 1 - (taken - Len(out))
  BY WholeIovecs
<1>5. Enough => RcvQueued <= BlankSize
  BY <1>1, <1>2, <1>3, <1>4 DEF Enough, RcvQueued
<1>6. CASE Delete /\ (BlankSize = 0 \/ RcvQueued = 0)
  <2>1. RcvQueued > 0 \/ fin \/ rst BY <1>0 DEF EdgeInv
  <2>2. RcvQueued > 0 => BlankSize = 0 /\ ~Enough BY <1>1, <1>4, <1>5, <1>6
  <2>3. BlankSize = 0 => taken - Len(out) = max_pkt_size - 1 BY <1>1, <1>4
  <2> QED BY <1>0, <1>6, <2>1, <2>2, <2>3, GiveUpEdge
<1>7. ASSUME NEW n \in Nat, n <= BlankSize, n <= RcvQueued,
             n = BlankSize \/ n = RcvQueued,
             Store(blank_iovec, n), pc' = "send_buf",
             UNCHANGED <<epoll_event, ev>>
      PROVE  EdgeInv'
  <2>1. taken' = taken + n /\ UNCHANGED <<arrived, out, acked, fin, rst>>
    BY <1>7 DEF Store
  <2>2. RcvQueued' = RcvQueued - n BY <1>1, <2>1 DEF RcvQueued
  <2>3. Enough => RcvQueued' = 0 BY <1>1, <1>4, <1>5, <1>7, <2>2
  <2>4. ~ ToRead' /\ ~ Asleep' /\ Open' BY <1>7 DEF ToRead, Asleep, Open
  <2> QED BY <1>0, <1>3, <1>7, <2>1, <2>3, <2>4
          DEF EdgeInv, NoLostWrite, DropsOnlyOverrun, NeverDropsClient, Enough
<1> QED BY <1>6, <1>7, RecvEffect

\* send_buf goes back to epoll_wait only with everything sent or an event due.
LEMMA SendEdge ==
  ASSUME ConnInv, EdgeInv, NEW next, send_buf(next), UNCHANGED window,
         \/ pc = "handle_write"
            /\ next = IF EPOLLIN \in ev THEN "recv_buf" ELSE "epoll_wait"
         \/ pc = "send_buf" /\ next = "epoll_wait"
  PROVE  EdgeInv'
<1>0. pc # "accept" /\ epoll_event = {EPOLLIN, EPOLLOUT} BY DEF EdgeInv
<1>1. CASE SendError /\ rst BY <1>0, <1>1, GiveUpEdge
<1>2. ASSUME NEW n \in Nat, Drain(exist_iovec, n),
             taken' > Len(out') => nospace' /\ SndRoom' < SndLowat,
             pc' = next, UNCHANGED <<epoll_event, ev>>
      PROVE  EdgeInv'
  <2>1. UNCHANGED <<arrived, taken, acked, fin, rst, ready>>
    BY <1>2 DEF Drain, send_buf
  <2>2. UNCHANGED RcvQueued BY <2>1 DEF RcvQueued
  <2>3. ToRead' => ToRead BY <1>2 DEF ToRead
  <2>4. AllRead' => AllRead BY <1>2 DEF AllRead
  <2>5. Open' BY <1>2 DEF Open
  <2>6. NoLostWrite' BY <1>2 DEF NoLostWrite
  <2> QED BY <1>0, <1>2, <2>1, <2>2, <2>3, <2>4, <2>5, <2>6
          DEF EdgeInv, DropsOnlyOverrun, NeverDropsClient, Enough
<1> QED BY <1>1, <1>2, SendEffect

(***************************************************************************)
(* The client's data, FIN and RST put the socket on the ready list; its    *)
(* reads do so if they free enough space for a waiting sender.             *)
(***************************************************************************)
LEMMA ClientEdge ==
  ASSUME ConnInv, TypeOK, EdgeInv, EdgeClient, UNCHANGED window
  PROVE  EdgeInv'
<1>0. UNCHANGED <<taken, out, epoll_event, ev, pc>> /\ Open /\ Open'
  <2>1. Client BY EdgeClientIsClient
  <2> QED BY <2>1, ClientKeeps DEF connVars, Client, Peer, Open
<1>1. /\ arrived \in Nat /\ taken \in Nat /\ acked \in Nat /\ Len(out) \in Nat
      /\ SndCap \in Nat /\ SndLowat \in Nat /\ taken <= arrived
      /\ RcvQueued \in Nat /\ SndRoom \in Int
  BY Numbers
<1>2. window \in Nat BY WindowAssumption DEF TypeOK
<1>3. DropsOnlyOverrun' BY <1>0 DEF DropsOnlyOverrun, NeverDropsClient
<1>4. (ToRead' <=> ToRead) /\ (AllRead' <=> AllRead)
  BY <1>0 DEF ToRead, AllRead
<1>5. CASE Wakes(SendInWindow)
  <2>1. ready' /\ arrived' = arrived + 1 /\ arrived - acked < window
        /\ UNCHANGED <<acked, fin, rst>>
    BY <1>5 DEF Wakes, Peer, SendInWindow, ClientSend
  <2>2. arrived' - acked' <= window' BY <1>1, <1>2, <2>1
  <2>3. RcvQueued' > 0 BY <1>0, <1>1, <2>1 DEF RcvQueued
  <2>4. NoLostWrite' BY <2>1 DEF NoLostWrite, Asleep
  <2> QED BY <1>0, <1>3, <2>1, <2>2, <2>3, <2>4 DEF EdgeInv
<1>6. CASE Wakes(ClientShutdown) \/ Wakes(ClientReset)
  <2>1. ready' /\ UNCHANGED <<arrived, acked>> /\ (fin' \/ rst')
    BY <1>6 DEF Wakes, Peer, ClientShutdown, ClientReset
  <2>2. NoLostWrite' BY <2>1 DEF NoLostWrite, Asleep
  <2> QED BY <1>0, <1>3, <2>1, <2>2 DEF EdgeInv
<1>7. CASE Reads
  <2> DEFINE wake == nospace /\ SndRoom' >= SndLowat
  <2>1. acked' = acked + 1 /\ UNCHANGED <<arrived, fin, rst>>
        /\ ready' = (ready \/ wake) /\ nospace' = (nospace /\ ~wake)
    BY <1>7 DEF Reads, Peer, ClientRead
  <2>2. arrived' - acked' <= window' BY <1>1, <1>2, <2>1 DEF EdgeInv
  <2>3. UNCHANGED RcvQueued BY <1>0, <2>1 DEF RcvQueued
  <2>4. SndRoom' \in Int BY <1>0, <1>1, <2>1 DEF SndRoom
  <2>6. NoLostWrite'
    <3> SUFFICES ASSUME Asleep', taken' > Len(out')
                 PROVE  nospace' /\ SndRoom' < SndLowat
      BY DEF NoLostWrite
    <3>1. ~ready /\ ~wake BY <2>1, Zenon DEF Asleep
    <3>2. nospace BY <1>0, <3>1 DEF EdgeInv, NoLostWrite, Asleep
    <3>3. SndRoom' < SndLowat BY <1>1, <2>4, <3>1, <3>2
    <3> QED BY <2>1, <3>1, <3>2, <3>3, Zenon
  <2>7. ~ready' => ~ready BY <2>1, Zenon
  <2> QED BY <1>0, <1>3, <1>4, <2>1, <2>2, <2>3, <2>6, <2>7
          DEF EdgeInv, Enough
<1> QED BY <1>5, <1>6, <1>7 DEF EdgeClient

\* Every step keeps EdgeInv.
LEMMA NextEdge == BaseInv /\ EdgeInv /\ [Next]_vars => EdgeInv'
<1> SUFFICES ASSUME BaseInv, EdgeInv, [Next]_vars PROVE EdgeInv' OBVIOUS
<1>0. ConnInv /\ TypeOK BY DEF BaseInv
<1>1. CASE Acceptor_handle /\ UNCHANGED window
  <2>1. /\ epoll_event' = {EPOLLIN, EPOLLOUT} /\ pc' = "epoll_wait" /\ ready'
        /\ UNCHANGED <<arrived, taken, out, acked, fin, rst>>
    BY <1>1 DEF Acceptor_handle, Accept, sockVars
  <2>2. ~ ToRead' /\ ~ Asleep' /\ Open' BY <2>1 DEF ToRead, Asleep, Open
  <2> QED BY <1>1, <2>1, <2>2
          DEF EdgeInv, NoLostWrite, DropsOnlyOverrun, NeverDropsClient
<1>2. CASE EpollWait /\ UNCHANGED window BY <1>0, <1>2, EpollWaitEdge
<1>3. CASE recv_buf /\ UNCHANGED window BY <1>0, <1>3, RecvEdge
<1>4. CASE handle_write /\ UNCHANGED window
  <2>1. PICK next : /\ next = IF EPOLLIN \in ev THEN "recv_buf" ELSE "epoll_wait"
                    /\ send_buf(next)
    BY <1>4 DEF handle_write
  <2> QED BY <1>0, <1>4, <2>1, SendEdge DEF handle_write
<1>5. CASE handle_read /\ UNCHANGED window
  BY <1>0, <1>5, SendEdge DEF handle_read
<1>6. CASE EdgeClient /\ UNCHANGED window BY <1>0, <1>6, ClientEdge
<1>7. CASE UNCHANGED vars
  BY <1>7 DEF vars, sockVars, connVars, edgeVars, EdgeInv, ToRead, AllRead,
              NoLostWrite, Asleep, DropsOnlyOverrun, NeverDropsClient, Open,
              Enough, RcvQueued, SndRoom
<1> QED BY <1>1, <1>2, <1>3, <1>4, <1>5, <1>6, <1>7 DEF Next, Server

(***************************************************************************)
(* Ring and echoed stream stay right across every wrap, and handle returns *)
(* -1 only for a client that has left or has overrun the ring.             *)
(***************************************************************************)
THEOREM StreamIsSafe == Spec => []StreamSafe
<1>1. Init => BaseInv /\ EdgeInv BY InitBase, InitEdge
<1>2. BaseInv /\ EdgeInv /\ [Next]_vars => (BaseInv /\ EdgeInv)'
  BY NextBase, NextEdge
<1>3. BaseInv /\ EdgeInv => StreamSafe
  BY DEF BaseInv, ConnInv, EdgeInv, StreamSafe
<1> QED BY <1>1, <1>2, <1>3, PTL DEF Spec

(***************************************************************************)
(* The loop never sleeps on bytes it could write, nor, with a client       *)
(* within the window, on bytes it could read: edge triggering without a    *)
(* loop over recvmsg loses no edge.                                        *)
(***************************************************************************)
THEOREM EdgesAreNotLost == Spec => []NoLostEdges
<1>1. Init => BaseInv /\ EdgeInv BY InitBase, InitEdge
<1>2. BaseInv /\ EdgeInv /\ [Next]_vars => (BaseInv /\ EdgeInv)'
  BY NextBase, NextEdge
<1>3. EdgeInv => NoLostEdges
  BY DEF EdgeInv, NoLostEdges, NoLostRead, AllRead, Asleep
<1> QED BY <1>1, <1>2, <1>3, PTL DEF Spec

-----------------------------------------------------------------------------
\* Every step is a step of EchoService or leaves what it sees unchanged.
LEMMA NextService ==
  ConnInv /\ ConnInv' /\ [Next]_vars => [Service!Next]_(Service!vars)
<1> SUFFICES ASSUME ConnInv, ConnInv', [Next]_vars
             PROVE  [Service!Next]_(Service!vars)
  OBVIOUS
<1>1. ASSUME Open, Delete \/ SendError PROVE [Service!Next]_(Service!vars)
  BY <1>1, ServiceGiveUp
<1>2. CASE Acceptor_handle
  <2>1. Open' = Open /\ UNCHANGED <<arrived, out, bufVars>>
    BY <1>2 DEF Acceptor_handle, Accept, Open, sockVars
  <2> QED BY <2>1, ServiceQuiet
<1>3. CASE EpollWait
  <2>1. Open BY <1>3 DEF EpollWait, Open
  <2>2. CASE ~ Delete
    <3>1. Open' = Open /\ UNCHANGED <<arrived, out, bufVars>>
      BY <1>3, <2>2 DEF EpollWait, Dispatch, Open, sockVars, connVars
    <3> QED BY <3>1, ServiceQuiet
  <2> QED BY <1>1, <2>1, <2>2
<1>4. CASE recv_buf
  <2>1. Open BY <1>4 DEF recv_buf, Open
  <2>2. CASE ~ Delete
    <3>1. PICK n \in Nat : n <= BlankSize /\ n <= RcvQueued /\ Store(blank_iovec, n)
      BY <1>4, <2>2, RecvEffect
    <3>2. Open' BY <1>4, <2>2, RecvEffect DEF Open
    <3> QED BY <2>1, <3>1, <3>2, ServiceStore
  <2> QED BY <1>1, <2>1, <2>2
<1>5. ASSUME NEW next \in {"recv_buf", "epoll_wait"}, send_buf(next), Open
      PROVE  [Service!Next]_(Service!vars)
  <2>1. CASE ~ SendError
    <3>1. PICK n \in Nat : /\ n <= ExistSize
                           /\ Drain(exist_iovec, n)
                           /\ Len(out') = Len(out) + n
      BY <1>5, <2>1, SendEffect
    <3>2. Open' BY <1>5, <2>1, SendEffect DEF Open
    <3> QED BY <1>5, <3>1, <3>2, ServiceDrain
  <2> QED BY <1>1, <1>5, <2>1
<1>6. CASE handle_write \/ handle_read
  BY <1>5, <1>6 DEF handle_write, handle_read, Open
<1>7. CASE EdgeClient BY <1>7, EdgeClientIsClient, ServiceClient
<1>8. CASE UNCHANGED vars
  <2>1. Open' = Open /\ UNCHANGED <<arrived, out, bufVars>>
    BY <1>8 DEF vars, sockVars, connVars, Open
  <2> QED BY <2>1, ServiceQuiet
<1> QED BY <1>2, <1>3, <1>4, <1>6, <1>7, <1>8 DEF Next, Server

(***************************************************************************)
(* The edge-triggered server implements the abstract echo service: no byte *)
(* is lost, repeated or reordered, and at most max_pkt_size - 1 are held,  *)
(* whatever the client's window.                                           *)
(***************************************************************************)
THEOREM ImplementsService == Spec => ServiceSpec
<1>1. Init => BaseInv /\ Service!Init BY InitBase, ServiceInit DEF Init
<1>2. BaseInv /\ [Next]_vars => BaseInv' BY NextBase
<1>3. BaseInv /\ BaseInv' /\ [Next]_vars => [Service!Next]_(Service!vars)
  BY NextService DEF BaseInv
<1> QED BY <1>1, <1>2, <1>3, PTL DEF Spec, ServiceSpec, Service!Spec
=============================================================================
