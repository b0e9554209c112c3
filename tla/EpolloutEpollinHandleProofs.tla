-------------------- MODULE EpolloutEpollinHandleProofs --------------------
(***************************************************************************)
(* For every ring size, counter width, queue size and number of bytes:     *)
(* the types, the echoed stream, the flow-control rule and the refinement  *)
(* of EchoService by server_epollout_epollin_handle.cpp and by its _native *)
(* sibling.                                                                *)
(***************************************************************************)
EXTENDS EpolloutEpollinHandle, EchoConnectionProofs

(***************************************************************************)
(* What the proofs use of an iovec array given to recvmsg or recv: it      *)
(* describes blank cells from p on, in order, and some if there are any;   *)
(* and of one given to sendmsg or send: filled cells from f on.            *)
(***************************************************************************)
BlankPart(iov) ==
    /\ iov_total(iov) \in Nat
    /\ iov_total(iov) <= BlankSize
    /\ BlankSize > 0 => iov_total(iov) > 0
    /\ \A i \in 0 .. iov_total(iov) - 1 :
          iov_cell(iov, i) = (p + i) % max_pkt_size

ExistPart(iov) ==
    /\ iov_total(iov) \in Nat
    /\ iov_total(iov) <= ExistSize
    /\ ExistSize > 0 => iov_total(iov) > 0
    /\ \A i \in 0 .. iov_total(iov) - 1 :
          iov_cell(iov, i) = (f + i) % max_pkt_size

\* Both programs receive into such a part, the whole or its first segment.
LEMMA BlankParts ==
  ASSUME ConnInv
  PROVE  BlankPart(blank_iovec) /\ BlankPart(blank_first)
<1> DEFINE iov == get_blank_iovec(f, p)
           mf  == f % max_pkt_size
           mp  == p % max_pkt_size
<1>1. f \in uint64_t /\ p \in uint64_t /\ (p - f) % U64 < max_pkt_size
      /\ BlankSize \in Nat /\ max_pkt_size \in Nat /\ max_pkt_size > 1
  BY BufSizes, RingAssumption
     DEF ConnInv, ConnTypeOK, BufTypeOK, RingInv
<1>2. iov_total(iov) = BlankSize
      /\ \A i \in 0 .. BlankSize - 1 : iov_cell(iov, i) = (p + i) % max_pkt_size
  BY <1>1, BlankIovec DEF BlankCovers, BlankSize
<1>3. mf \in Cells /\ mp \in Cells BY <1>1, CellOfP
<1>4. iov = IF mp < mf THEN << Seg(mp, mf - mp - 1) >>
            ELSE IF mf = 0 THEN << Seg(mp, max_pkt_size - mp - 1) >>
            ELSE IF mf = 1 THEN << Seg(mp, max_pkt_size - mp) >>
            ELSE << Seg(mp, max_pkt_size - mp), Seg(0, mf - 1) >>
  BY DEF get_blank_iovec
<1> HIDE DEF mf, mp, iov
<1>5. BlankPart(iov) BY <1>1, <1>2 DEF BlankPart
<1>6. CASE Len(iov) = 1
  <2>1. << iov[1] >> = iov BY <1>4, <1>6
  <2> QED BY <1>5, <2>1 DEF blank_iovec, blank_first, iov
<1>7. CASE iov = << Seg(mp, max_pkt_size - mp), Seg(0, mf - 1) >> /\ mf >= 2
  <2> DEFINE s == << Seg(mp, max_pkt_size - mp) >>
  <2>1. << iov[1] >> = s BY <1>7
  <2>2. iov_total(s) = max_pkt_size - mp /\ iov_total(s) \in Nat
        /\ iov_total(s) > 0 /\ iov_total(iov) = iov_total(s) + (mf - 1)
    BY <1>1, <1>3, <1>7 DEF iov_total, Seg, Cells
  <2>3. ASSUME NEW i \in 0 .. iov_total(s) - 1
        PROVE  iov_cell(s, i) = iov_cell(iov, i)
    BY <1>1, <1>3, <1>7, <2>2 DEF iov_cell, Seg, Cells
  <2> HIDE DEF s
  <2>4. mf \in Nat BY <1>3 DEF Cells
  <2>5. iov_total(s) <= BlankSize BY <1>1, <1>2, <1>7, <2>2, <2>4
  <2>6. \A i \in 0 .. iov_total(s) - 1 : i \in 0 .. BlankSize - 1
    BY <1>1, <2>2, <2>5
  <2>7. BlankPart(s) BY <1>2, <2>2, <2>3, <2>5, <2>6 DEF BlankPart
  <2> QED BY <1>5, <2>1, <2>7 DEF blank_iovec, blank_first, iov
<1>8. Len(iov) = 1
      \/ (iov = << Seg(mp, max_pkt_size - mp), Seg(0, mf - 1) >> /\ mf >= 2)
  <2>1. mf \in Nat BY <1>1, <1>3 DEF Cells
  <2> QED BY <1>4, <2>1
<1> QED BY <1>6, <1>7, <1>8

\* Both programs send from such a part, the whole or its first segment.
LEMMA ExistParts ==
  ASSUME ConnInv
  PROVE  ExistPart(exist_iovec) /\ ExistPart(exist_first)
<1> DEFINE iov == get_exist_iovec(f, p)
           mf  == f % max_pkt_size
           mp  == p % max_pkt_size
<1>1. f \in uint64_t /\ p \in uint64_t /\ (p - f) % U64 < max_pkt_size
      /\ ExistSize \in Nat /\ max_pkt_size \in Nat /\ max_pkt_size > 1
  BY BufSizes, RingAssumption
     DEF ConnInv, ConnTypeOK, BufTypeOK, RingInv
<1>2. iov_total(iov) = ExistSize
      /\ \A i \in 0 .. ExistSize - 1 : iov_cell(iov, i) = (f + i) % max_pkt_size
  BY <1>1, ExistIovec DEF ExistCovers, ExistSize
<1>3. mf \in Cells /\ mp \in Cells BY <1>1, CellOfP
<1>4. iov = IF mf <= mp THEN << Seg(mf, mp - mf) >>
            ELSE IF mp = 0 THEN << Seg(mf, max_pkt_size - mf) >>
            ELSE << Seg(mf, max_pkt_size - mf), Seg(0, mp) >>
  BY DEF get_exist_iovec
<1> HIDE DEF mf, mp, iov
<1>5. ExistPart(iov) BY <1>1, <1>2 DEF ExistPart
<1>6. CASE Len(iov) = 1
  <2>1. << iov[1] >> = iov BY <1>4, <1>6
  <2> QED BY <1>5, <2>1 DEF exist_iovec, exist_first, iov
<1>7. CASE iov = << Seg(mf, max_pkt_size - mf), Seg(0, mp) >>
  <2> DEFINE s == << Seg(mf, max_pkt_size - mf) >>
  <2>1. << iov[1] >> = s BY <1>7
  <2>2. iov_total(s) = max_pkt_size - mf /\ iov_total(s) \in Nat
        /\ iov_total(s) > 0 /\ iov_total(iov) = iov_total(s) + mp
    BY <1>1, <1>3, <1>7 DEF iov_total, Seg, Cells
  <2>3. ASSUME NEW i \in 0 .. iov_total(s) - 1
        PROVE  iov_cell(s, i) = iov_cell(iov, i)
    BY <1>1, <1>3, <1>7, <2>2 DEF iov_cell, Seg, Cells
  <2> HIDE DEF s
  <2>4. mp \in Nat BY <1>3 DEF Cells
  <2>5. iov_total(s) <= ExistSize BY <1>1, <1>2, <2>2, <2>4
  <2>6. \A i \in 0 .. iov_total(s) - 1 : i \in 0 .. ExistSize - 1
    BY <1>1, <2>2, <2>5
  <2>7. ExistPart(s) BY <1>2, <2>2, <2>3, <2>5, <2>6 DEF ExistPart
  <2> QED BY <1>5, <2>1, <2>7 DEF exist_iovec, exist_first, iov
<1>8. Len(iov) = 1 \/ iov = << Seg(mf, max_pkt_size - mf), Seg(0, mp) >>
  BY <1>4
<1> QED BY <1>6, <1>7, <1>8

-----------------------------------------------------------------------------

(***************************************************************************)
(* What recv_buf does when it does not give up: some n bytes enter the     *)
(* ring, and EPOLLIN ends up enabled exactly if the ring is not full.      *)
(***************************************************************************)
LEMMA RecvEffect ==
  ASSUME ConnInv, NEW iov, BlankPart(iov), receive(iov)
  PROVE  \/ Delete
         \/ /\ SockTypeOK' /\ BufTypeOK' /\ RingInv'
            /\ \E n \in Nat :
                  /\ n <= BlankSize /\ n <= RcvQueued
                  /\ Store(iov, n)
                  /\ epoll_event' = set_epollin(epoll_event,
                                        taken' - Len(out') < max_pkt_size - 1)
                  /\ pc' = IF n > 0 THEN "send_buf" ELSE "epoll_wait"
            /\ UNCHANGED ev
<1> DEFINE result == recv_result(iov_total(iov))
           n      == IF BlankSize = 0 \/ result = Eagain THEN 0 ELSE result
<1>0. SockTypeOK /\ BufTypeOK /\ RingInv /\ Counters
  BY DEF ConnInv, ConnTypeOK, RingInv
<1> SUFFICES ASSUME ~ Delete
             PROVE  /\ SockTypeOK' /\ BufTypeOK' /\ RingInv'
                    /\ n \in Nat
                    /\ n <= BlankSize /\ n <= RcvQueued
                    /\ Store(iov, n)
                    /\ epoll_event' = set_epollin(epoll_event,
                                          taken' - Len(out') < max_pkt_size - 1)
                    /\ pc' = IF n > 0 THEN "send_buf" ELSE "epoll_wait"
                    /\ UNCHANGED ev
  OBVIOUS
<1>1. f \in uint64_t /\ p \in uint64_t /\ (p - f) % U64 < max_pkt_size
      /\ BlankSize \in Nat /\ max_pkt_size \in Nat
  BY <1>0, BufSizes, RingAssumption DEF BufTypeOK
<1>2. iov_total(iov) \in Nat /\ iov_total(iov) <= BlankSize
      /\ \A i \in 0 .. iov_total(iov) - 1 :
            iov_cell(iov, i) = (p + i) % max_pkt_size
  BY DEF BlankPart
<1>3. /\ ~(BlankSize > 0 /\ result \in {0, Error})
      /\ Store(iov, n)
      /\ epoll_event' = set_epollin(epoll_event,
                                    get_blank_size(f, add_exist(p, n)) # 0)
      /\ pc' = IF n > 0 THEN "send_buf" ELSE "epoll_wait"
      /\ UNCHANGED ev
  BY DEF receive
<1>4. result \in Int /\ RcvQueued \in Nat /\ result <= RcvQueued
      /\ result <= iov_total(iov) /\ (result >= 0 \/ result \in {Eagain, Error})
  BY <1>0, <1>1, <1>2, RecvBound
<1> HIDE DEF result
<1>5. n \in Nat /\ n <= iov_total(iov) /\ n <= BlankSize /\ n <= RcvQueued
  BY <1>1, <1>2, <1>3, <1>4 DEF Eagain, Error
<1> HIDE DEF n
<1>6. \A i \in 0 .. n - 1 : iov_cell(iov, i) = (p + i) % max_pkt_size
  BY <1>1, <1>2, <1>5
<1>7. SockTypeOK' /\ BufTypeOK' /\ RingInv'
  BY <1>0, <1>3, <1>5, <1>6, StoreKeeps
<1>8. BlankSize' = max_pkt_size - 1 - (taken' - Len(out'))
  BY <1>7, BufSizesNext DEF RingInv, BufSizesRight
<1>9. BlankSize' = get_blank_size(f, add_exist(p, n))
  BY <1>3 DEF BlankSize, Store
<1>10. taken' \in Nat /\ Len(out') \in Nat
       /\ taken' - Len(out') < max_pkt_size
  BY <1>7 DEF SockTypeOK, RingInv, Counters
<1>11. (get_blank_size(f, add_exist(p, n)) # 0)
           = (taken' - Len(out') < max_pkt_size - 1)
  BY <1>1, <1>8, <1>9, <1>10
<1> QED BY <1>3, <1>5, <1>7, <1>11

(***************************************************************************)
(* What send_buf does when it does not give up: some n bytes leave the     *)
(* ring, EPOLLOUT ends up enabled exactly if bytes are left, and EPOLLIN   *)
(* is enabled if any left.                                                 *)
(***************************************************************************)
LEMMA SendEffect ==
  ASSUME ConnInv, NEW iov, NEW next, ExistPart(iov), transmit(iov, next)
  PROVE  \/ Delete \/ SendError
         \/ /\ SockTypeOK' /\ BufTypeOK' /\ RingInv'
            /\ \E n \in Nat :
                  /\ n <= ExistSize
                  /\ Drain(iov, n)
                  /\ Len(out') = Len(out) + n
                  /\ LET m == set_epollout(epoll_event, taken' > Len(out'))
                     IN  epoll_event' = IF n > 0 THEN set_epollin(m, TRUE) ELSE m
            /\ pc' = next
            /\ UNCHANGED ev
<1> DEFINE result == send_result(iov_total(iov))
           n      == IF ExistSize = 0 \/ result = Eagain THEN 0 ELSE result
           left   == get_exist_size(add_blank(f, n), p)
           m(b)   == set_epollout(epoll_event, b)
<1>0. SockTypeOK /\ BufTypeOK /\ RingInv /\ Counters
  BY DEF ConnInv, ConnTypeOK, RingInv
<1> SUFFICES ASSUME ~ Delete, ~ SendError
             PROVE  /\ SockTypeOK' /\ BufTypeOK' /\ RingInv'
                    /\ n \in Nat
                    /\ n <= ExistSize
                    /\ Drain(iov, n)
                    /\ Len(out') = Len(out) + n
                    /\ epoll_event' = IF n > 0
                                      THEN set_epollin(m(taken' > Len(out')), TRUE)
                                      ELSE m(taken' > Len(out'))
                    /\ pc' = next
                    /\ UNCHANGED ev
  OBVIOUS
<1>1. f \in uint64_t /\ p \in uint64_t /\ (p - f) % U64 < max_pkt_size
      /\ ExistSize \in Nat /\ max_pkt_size \in Nat
  BY <1>0, BufSizes, RingAssumption DEF BufTypeOK
<1>2. iov_total(iov) \in Nat /\ iov_total(iov) <= ExistSize
      /\ \A i \in 0 .. iov_total(iov) - 1 :
            iov_cell(iov, i) = (f + i) % max_pkt_size
  BY DEF ExistPart
<1>3. /\ ~(ExistSize > 0 /\ result = Error)
      /\ Drain(iov, n)
      /\ epoll_event' = IF n > 0 THEN set_epollin(m(left # 0), TRUE)
                                 ELSE m(left # 0)
      /\ pc' = next
      /\ UNCHANGED ev
  BY DEF transmit
<1>4. result \in Int /\ result <= iov_total(iov)
      /\ (result >= 0 \/ result \in {Eagain, Error})
  BY <1>0, <1>1, <1>2, SendBound
<1> HIDE DEF result
<1>5. n \in Nat /\ n <= iov_total(iov) /\ n <= ExistSize
  BY <1>1, <1>2, <1>3, <1>4 DEF Eagain, Error
<1> HIDE DEF n, left
<1>6. \A i \in 0 .. n - 1 : iov_cell(iov, i) = (f + i) % max_pkt_size
  BY <1>1, <1>2, <1>5
<1>7. SockTypeOK' /\ BufTypeOK' /\ RingInv' /\ Len(out') = Len(out) + n
  BY <1>0, <1>3, <1>5, <1>6, DrainKeeps
<1>8. ExistSize' = taken' - Len(out')
  BY <1>7, BufSizesNext DEF RingInv, BufSizesRight
<1>9. ExistSize' = left
  BY <1>3 DEF ExistSize, Drain, left
<1>10. taken' \in Nat /\ Len(out') \in Nat /\ Len(out') <= taken'
  BY <1>7 DEF SockTypeOK, RingInv, Counters
<1>11. (left # 0) = (taken' > Len(out'))
  BY <1>8, <1>9, <1>10
<1> QED BY <1>3, <1>5, <1>7, <1>11

\* Every step of the loop thread is one of these, whichever program it runs.
LEMMA ServerSteps ==
  ASSUME ConnInv, Server
  PROVE  \/ Acceptor_handle \/ EpollWait
         \/ \E iov \in {blank_iovec, blank_first} :
               BlankPart(iov) /\ receive(iov)
         \/ \E iov \in {exist_iovec, exist_first},
               next \in {"recv_buf", "epoll_wait"} :
               /\ pc \in {"handle_write", "send_buf"}
               /\ ExistPart(iov) /\ transmit(iov, next)
<1>1. CASE recv_buf \/ recv_buf_native
  BY <1>1, BlankParts DEF recv_buf, recv_buf_native
<1>2. ASSUME NEW next \in {"recv_buf", "epoll_wait"},
             send_buf(next) \/ send_buf_native(next),
             pc \in {"handle_write", "send_buf"}
      PROVE  \E iov \in {exist_iovec, exist_first},
                n \in {"recv_buf", "epoll_wait"} :
                /\ pc \in {"handle_write", "send_buf"}
                /\ ExistPart(iov) /\ transmit(iov, n)
  BY <1>2, ExistParts DEF send_buf, send_buf_native
<1>3. CASE handle_write \/ handle_read
  BY <1>2, <1>3 DEF handle_write, handle_read
<1> QED BY <1>1, <1>3 DEF Server

-----------------------------------------------------------------------------
\* The inductive invariant behind the type and stream theorems.
BaseInv == ConnInv /\ TypeOK

\* The invariant of types and ring contents holds initially ...
LEMMA InitBase == Init => BaseInv
BY InitKeeps DEF Init, BaseInv, ConnInv, TypeOK, ConnInit

\* ... and every step of the loop thread and of the client keeps it.
LEMMA NextBase == BaseInv /\ [Next]_vars => BaseInv'
<1> SUFFICES ASSUME BaseInv, [Next]_vars PROVE BaseInv' OBVIOUS
<1>0. ConnInv BY DEF BaseInv
<1>1. ASSUME Delete \/ SendError, UNCHANGED native PROVE BaseInv'
  BY <1>0, <1>1, GiveUpKeeps DEF BaseInv, TypeOK, ConnInv
<1>2. CASE Acceptor_handle /\ UNCHANGED native
  BY <1>0, <1>2, AcceptKeeps
     DEF Acceptor_handle, Accept, BaseInv, TypeOK, ConnInv
<1>3. CASE EpollWait /\ UNCHANGED native
  BY <1>0, <1>1, <1>3, DispatchKeeps DEF EpollWait, BaseInv, TypeOK, ConnInv
<1>4. ASSUME NEW iov, BlankPart(iov), receive(iov), UNCHANGED native
      PROVE  BaseInv'
  BY <1>0, <1>1, <1>4, RecvEffect
     DEF BaseInv, TypeOK, ConnInv, ConnTypeOK, set_epollin
<1>5. ASSUME NEW iov, NEW next \in {"recv_buf", "epoll_wait"},
             ExistPart(iov), transmit(iov, next), UNCHANGED native
      PROVE  BaseInv'
  BY <1>0, <1>1, <1>5, SendEffect
     DEF BaseInv, TypeOK, ConnInv, ConnTypeOK, set_epollin, set_epollout
<1>6. CASE Server /\ UNCHANGED native
  BY <1>0, <1>2, <1>3, <1>4, <1>5, <1>6, ServerSteps
<1>7. CASE Client /\ UNCHANGED native
  BY <1>0, <1>7, ClientKeeps DEF BaseInv, TypeOK, ConnInv, connVars
<1>8. CASE UNCHANGED vars
  BY <1>0, <1>8, QuietKeeps
     DEF BaseInv, TypeOK, ConnInv, ConnTypeOK, vars, connVars
<1> QED BY <1>6, <1>7, <1>8 DEF Next

(***************************************************************************)
(* Types are kept and the ring always holds exactly the bytes in transit;  *)
(* in particular the bytes sent back are the bytes received, in order.     *)
(***************************************************************************)
THEOREM RingCorrect == Spec => [](TypeOK /\ RingInv)
<1>1. Init => BaseInv BY InitBase
<1>2. BaseInv /\ [Next]_vars => BaseInv' BY NextBase
<1>3. BaseInv => TypeOK /\ RingInv BY DEF BaseInv, ConnInv
<1> QED BY <1>1, <1>2, <1>3, PTL DEF Spec

-----------------------------------------------------------------------------
(***************************************************************************)
(* FlowControl speaks of the loop in epoll_wait.  To be inductive it must  *)
(* also say what holds inside a handler: both rules until recv_buf has     *)
(* run, and between recv_buf and send_buf only the one for EPOLLIN, since  *)
(* the bytes just received may be in the ring with EPOLLOUT still off.     *)
(***************************************************************************)
FlowInv ==
    /\ pc \in {"epoll_wait", "handle_write", "recv_buf"} => InRule /\ OutRule
    /\ pc = "send_buf" => InRule
    /\ pc = "accept" => taken = 0 /\ Len(out) = 0

\* FlowInv holds before the connection is accepted.
LEMMA InitFlow == Init => FlowInv
<1> SUFFICES ASSUME Init PROVE FlowInv OBVIOUS
<1>1. Len(<< >>) = 0 OBVIOUS
<1> QED BY <1>1 DEF Init, ConnInit, SockInit, FlowInv

\* Each handler step establishes the part of FlowInv its exit needs.
LEMMA NextFlow == ConnInv /\ FlowInv /\ [Next]_vars => FlowInv'
<1> SUFFICES ASSUME ConnInv, FlowInv, [Next]_vars PROVE FlowInv' OBVIOUS
<1>0. taken \in Nat /\ Len(out) \in Nat /\ max_pkt_size \in Nat
      /\ Len(out) <= taken /\ taken - Len(out) < max_pkt_size
  BY RingAssumption
     DEF ConnInv, ConnTypeOK, SockTypeOK, RingInv, Counters
<1>1. CASE Delete \/ SendError
  BY <1>1, GiveUpKeeps DEF FlowInv
<1>2. CASE EpollWait /\ ~ Delete
  BY <1>2 DEF EpollWait, Dispatch, FlowInv, InRule, OutRule, sockVars
<1>3. ASSUME NEW iov, BlankPart(iov), receive(iov), ~ Delete
      PROVE  FlowInv'
  <2>1. PICK n \in Nat :
           /\ Store(iov, n)
           /\ epoll_event' = set_epollin(epoll_event,
                                         taken' - Len(out') < max_pkt_size - 1)
           /\ pc' = IF n > 0 THEN "send_buf" ELSE "epoll_wait"
    BY <1>3, RecvEffect
  <2>2. pc = "recv_buf" BY <1>3 DEF receive
  <2>3. out' = out /\ taken' = taken + n BY <2>1 DEF Store
  <2>4. InRule' BY <2>1 DEF InRule, set_epollin
  <2>5. CASE n > 0 BY <2>1, <2>4, <2>5 DEF FlowInv
  <2>6. CASE n = 0
    <3>1. OutRule'
      BY <1>0, <2>1, <2>2, <2>3, <2>6
         DEF FlowInv, OutRule, set_epollin, EPOLLIN, EPOLLOUT
    <3> QED BY <2>1, <2>4, <2>6, <3>1 DEF FlowInv
  <2> QED BY <2>5, <2>6
<1>4. ASSUME NEW iov, NEW next \in {"recv_buf", "epoll_wait"},
             ExistPart(iov), transmit(iov, next),
             pc \in {"handle_write", "send_buf"}, ~ Delete, ~ SendError
      PROVE  FlowInv'
  <2> DEFINE m == set_epollout(epoll_event, taken' > Len(out'))
  <2>1. PICK n \in Nat :
           /\ n <= ExistSize
           /\ Drain(iov, n)
           /\ Len(out') = Len(out) + n
           /\ epoll_event' = IF n > 0 THEN set_epollin(m, TRUE) ELSE m
    BY <1>4, SendEffect
  <2>2. taken' = taken /\ pc' = next BY <2>1, <1>4, SendEffect DEF Drain
  <2>3. OutRule'
    BY <2>1 DEF OutRule, set_epollin, set_epollout, EPOLLIN, EPOLLOUT
  <2>4. InRule'
    <3>1. CASE n > 0
      BY <1>0, <2>1, <2>2, <3>1 DEF InRule, set_epollin
    <3>2. CASE n = 0
      <4>1. InRule BY <1>4 DEF FlowInv
      <4>2. epoll_event' = m BY <2>1, <3>2
      <4>3. EPOLLIN \in m <=> EPOLLIN \in epoll_event
        BY DEF set_epollout, EPOLLIN, EPOLLOUT
      <4> HIDE DEF m
      <4> QED BY <1>0, <2>1, <2>2, <3>2, <4>1, <4>2, <4>3 DEF InRule
    <3> QED BY <3>1, <3>2
  <2> QED BY <2>2, <2>3, <2>4 DEF FlowInv
<1>6. CASE Client
  BY <1>6, ClientKeeps DEF FlowInv, InRule, OutRule, connVars
<1>7. CASE UNCHANGED vars
  BY <1>7 DEF FlowInv, InRule, OutRule, vars, sockVars, connVars
<1>8. CASE Acceptor_handle
  <2>1. taken = 0 /\ Len(out) = 0 BY <1>8 DEF FlowInv, Acceptor_handle, Accept
  <2>2. max_pkt_size > 1 BY RingAssumption
  <2> QED BY <1>0, <1>8, <2>1, <2>2
             DEF Acceptor_handle, Accept, FlowInv, InRule, OutRule, sockVars,
                 EPOLLIN, EPOLLOUT
<1>9. CASE Server
  BY <1>1, <1>2, <1>3, <1>4, <1>8, <1>9, ServerSteps
<1> QED BY <1>6, <1>7, <1>9 DEF Next

(***************************************************************************)
(* The flow-control rule of outline.txt holds of this server for every     *)
(* ring and queue size: in epoll_wait, EPOLLOUT is on exactly if the ring  *)
(* is not empty and EPOLLIN exactly if it is not full.                     *)
(***************************************************************************)
THEOREM FlowControlled == Spec => []FlowControl
<1>1. Init => BaseInv /\ FlowInv BY InitBase, InitFlow
<1>2. BaseInv /\ FlowInv /\ [Next]_vars => (BaseInv /\ FlowInv)'
  BY NextBase, NextFlow DEF BaseInv
<1>3. FlowInv => FlowControl BY DEF FlowInv, FlowControl
<1> QED BY <1>1, <1>2, <1>3, PTL DEF Spec

-----------------------------------------------------------------------------
\* recvmsg on a non-empty buffer returns 0 or an error only to a client gone.
LEMMA RecvGivesUp ==
  ASSUME ConnInv, NEW iov, BlankPart(iov), receive(iov), Delete
  PROVE  fin \/ rst
<1> DEFINE result == recv_result(iov_total(iov))
           n      == IF BlankSize = 0 \/ result = Eagain THEN 0 ELSE result
<1>0. SockTypeOK /\ BufTypeOK /\ Counters /\ f \in uint64_t /\ p \in uint64_t
  BY DEF ConnInv, ConnTypeOK, BufTypeOK, RingInv
<1>1. (p - f) % U64 < max_pkt_size /\ BlankSize \in Nat BY <1>0, BufSizes, RingAssumption
<1>2. iov_total(iov) \in Nat /\ iov_total(iov) <= BlankSize
      /\ (BlankSize > 0 => iov_total(iov) > 0)
  BY DEF BlankPart
<1>3. \/ BlankSize < 0
      \/ BlankSize > 0 /\ result \in {0, Error}
      \/ get_blank_size(f, add_exist(p, n)) < 0
  <2>1. pc' = "deleted" BY DEF Delete
  <2> QED BY <2>1 DEF receive
<1>4. RcvQueued \in Nat /\ result \in Int /\ result <= iov_total(iov)
      /\ (result >= 0 \/ result \in {Eagain, Error})
  BY <1>0, <1>1, <1>2, RecvBound
<1>5. CASE BlankSize > 0 /\ result \in {0, Error}
  BY <1>1, <1>2, <1>4, <1>5 DEF recv_result, Smaller, Eagain, Error
<1> HIDE DEF result
<1>6. ASSUME ~(BlankSize > 0 /\ result \in {0, Error}) PROVE FALSE
  <2> DEFINE b == get_blank_size(f, add_exist(p, n))
  <2>1. b < 0 BY <1>1, <1>3, <1>6
  <2>2. b >= 0 /\ b \in Int
    <3>1. n \in Nat /\ n <= BlankSize BY <1>1, <1>2, <1>4, <1>6 DEF Eagain, Error
    <3> HIDE DEF n
    <3>2. b = BlankSize - n
      BY <1>0, <1>1, <3>1, SizesAfterAdd DEF BlankSize
    <3> QED BY <1>1, <3>1, <3>2
  <2> QED BY <2>1, <2>2
<1> QED BY <1>5, <1>6

\* sendmsg fails only on a connection the client has reset.
LEMMA SendGivesUp ==
  ASSUME ConnInv, NEW iov, NEW next \in {"recv_buf", "epoll_wait"},
         ExistPart(iov), transmit(iov, next), Delete \/ SendError
  PROVE  rst
<1> DEFINE result == send_result(iov_total(iov))
           n      == IF ExistSize = 0 \/ result = Eagain THEN 0 ELSE result
           left   == get_exist_size(add_blank(f, n), p)
<1>0. SockTypeOK /\ BufTypeOK /\ Counters /\ f \in uint64_t /\ p \in uint64_t
  BY DEF ConnInv, ConnTypeOK, BufTypeOK, RingInv
<1>1. (p - f) % U64 < max_pkt_size /\ ExistSize \in Nat BY <1>0, BufSizes, RingAssumption
<1>2. iov_total(iov) \in Nat /\ iov_total(iov) <= ExistSize BY DEF ExistPart
<1>3. (ExistSize > 0 /\ result = Error) \/ ExistSize < 0 \/ left < 0
  <2>1. pc' \in {"deleted", "killed"} BY DEF Delete, SendError
  <2> QED BY <2>1 DEF transmit
<1>4. result \in Int /\ result <= iov_total(iov)
      /\ (result >= 0 \/ result \in {Eagain, Error})
  BY <1>0, <1>1, <1>2, SendBound
<1>5. CASE ExistSize > 0 /\ result = Error
  BY <1>0, <1>1, <1>2, <1>5, SocketAssumption
     DEF send_result, Smaller, SndRoom, SockTypeOK, Eagain, Error
<1> HIDE DEF result
<1>6. ASSUME ~(ExistSize > 0 /\ result = Error) PROVE FALSE
  <2>1. n \in Nat /\ n <= ExistSize BY <1>1, <1>2, <1>4, <1>6 DEF Eagain, Error
  <2>2. left < 0 BY <1>1, <1>3, <1>6
  <2> HIDE DEF n
  <2>3. left = ExistSize - n
    BY <1>0, <1>1, <2>1, SizesAfterAdd DEF ExistSize
  <2> QED BY <1>1, <2>1, <2>2, <2>3
<1> QED BY <1>5, <1>6

\* A step of the server that ends the connection finds the client gone.
LEMMA NextDrops ==
  ConnInv /\ NeverDropsClient /\ [Next]_vars => NeverDropsClient'
<1> SUFFICES ASSUME ConnInv, NeverDropsClient, [Next]_vars
             PROVE  NeverDropsClient'
  OBVIOUS
<1>0. ASSUME UNCHANGED <<fin, rst>>, Open' \/ fin \/ rst
      PROVE  NeverDropsClient'
  BY <1>0 DEF NeverDropsClient
<1>1. CASE Acceptor_handle
  BY <1>1 DEF Acceptor_handle, Accept, NeverDropsClient, Open
<1>2. CASE EpollWait
  <2>1. UNCHANGED <<fin, rst>>
    BY <1>2 DEF EpollWait, Dispatch, Delete, sockVars
  <2>2. CASE pc' \in {"handle_write", "recv_buf"}
    BY <2>2 DEF NeverDropsClient, Open
  <2>3. CASE Level(epoll_event) \ {EPOLLIN, EPOLLOUT} # {}
    BY <1>0, <2>1, <2>3 DEF Level
  <2> QED BY <1>2, <2>2, <2>3 DEF EpollWait, Dispatch
<1>3. ASSUME NEW iov, BlankPart(iov), receive(iov)
      PROVE  NeverDropsClient'
  <2>1. CASE Delete
    BY <1>0, <1>3, <2>1, RecvGivesUp DEF Delete, sockVars
  <2>2. CASE ~ Delete
    BY <1>3, <2>2, RecvEffect DEF NeverDropsClient, Open
  <2> QED BY <2>1, <2>2
<1>4. ASSUME NEW iov, NEW next \in {"recv_buf", "epoll_wait"},
             ExistPart(iov), transmit(iov, next)
      PROVE  NeverDropsClient'
  <2>1. CASE Delete \/ SendError
    BY <1>0, <1>4, <2>1, SendGivesUp DEF Delete, SendError, sockVars
  <2>2. CASE ~ Delete /\ ~ SendError
    BY <1>4, <2>2, SendEffect DEF NeverDropsClient, Open
  <2> QED BY <2>1, <2>2
<1>5. CASE Server
  BY <1>1, <1>2, <1>3, <1>4, <1>5, ServerSteps
<1>6. CASE Client
  BY <1>6 DEF Client, Peer, connVars, Open, NeverDropsClient
<1>7. CASE UNCHANGED vars
  BY <1>7 DEF vars, sockVars, connVars, Open, NeverDropsClient
<1> QED BY <1>5, <1>6, <1>7 DEF Next

(***************************************************************************)
(* No ring state and no moment of EAGAIN makes this server close the       *)
(* connection of a client that neither shut down nor reset it.             *)
(***************************************************************************)
THEOREM ClientNeverDropped == Spec => []NeverDropsClient
<1>1. Init => BaseInv /\ NeverDropsClient
  BY InitBase DEF Init, ConnInit, NeverDropsClient, Open
<1>2. BaseInv /\ NeverDropsClient /\ [Next]_vars
        => (BaseInv /\ NeverDropsClient)'
  BY NextBase, NextDrops DEF BaseInv
<1> QED BY <1>1, <1>2, PTL DEF Spec

-----------------------------------------------------------------------------
\* Every step is a step of EchoService or leaves what it sees unchanged.
LEMMA NextService ==
  ConnInv /\ ConnInv' /\ [Next]_vars => [Service!Next]_(Service!vars)
<1> SUFFICES ASSUME ConnInv, ConnInv', [Next]_vars
             PROVE  [Service!Next]_(Service!vars)
  OBVIOUS
<1>1. CASE Server /\ (Delete \/ SendError)
  <2>1. Open
    BY <1>1 DEF Server, Acceptor_handle, Accept, EpollWait, Dispatch, recv_buf,
                recv_buf_native, receive, handle_write, handle_read, Open
  <2> QED BY <1>1, <2>1, ServiceGiveUp
<1>2. CASE Acceptor_handle
  <2>1. Open' = Open /\ UNCHANGED <<arrived, out, bufVars>>
    BY <1>2 DEF Acceptor_handle, Accept, Open, sockVars
  <2> QED BY <2>1, ServiceQuiet
<1>3. CASE EpollWait /\ ~ Delete
  <2>1. Open' = Open /\ UNCHANGED <<arrived, out, bufVars>>
    BY <1>3 DEF EpollWait, Dispatch, Open, sockVars
  <2> QED BY <2>1, ServiceQuiet
<1>4. ASSUME NEW iov, BlankPart(iov), receive(iov), ~ Delete
      PROVE  [Service!Next]_(Service!vars)
  <2>1. PICK n \in Nat : /\ n <= BlankSize /\ n <= RcvQueued
                         /\ Store(iov, n)
                         /\ pc' = IF n > 0 THEN "send_buf" ELSE "epoll_wait"
    BY <1>4, RecvEffect
  <2>2. Open /\ Open' BY <1>4, <2>1 DEF receive, Open
  <2> QED BY <2>1, <2>2, ServiceStore
<1>5. ASSUME NEW iov, NEW next \in {"recv_buf", "epoll_wait"},
             ExistPart(iov), transmit(iov, next), Open, ~ Delete, ~ SendError
      PROVE  [Service!Next]_(Service!vars)
  <2>1. PICK n \in Nat : /\ n <= ExistSize
                         /\ Drain(iov, n)
                         /\ Len(out') = Len(out) + n
    BY <1>5, SendEffect
  <2>2. Open' BY <1>5, SendEffect DEF Open
  <2> QED BY <1>5, <2>1, <2>2, ServiceDrain
<1>6. CASE Server /\ ~ Delete /\ ~ SendError
  <2>1. pc \in {"handle_write", "send_buf"} => Open BY DEF Open
  <2> QED BY <1>2, <1>3, <1>4, <1>5, <1>6, <2>1, ServerSteps
<1>7. CASE Client BY <1>7, ServiceClient
<1>8. CASE UNCHANGED vars
  <2>1. Open' = Open /\ UNCHANGED <<arrived, out, bufVars>>
    BY <1>8 DEF vars, sockVars, connVars, Open
  <2> QED BY <2>1, ServiceQuiet
<1> QED BY <1>1, <1>6, <1>7, <1>8 DEF Next

(***************************************************************************)
(* The server implements the abstract echo service: no byte is lost,       *)
(* repeated or reordered between recvmsg and sendmsg, and at most          *)
(* max_pkt_size - 1 are held.                                              *)
(***************************************************************************)
THEOREM ImplementsService == Spec => ServiceSpec
<1>1. Init => BaseInv /\ Service!Init BY InitBase, ServiceInit DEF Init
<1>2. BaseInv /\ [Next]_vars => BaseInv' BY NextBase
<1>3. BaseInv /\ BaseInv' /\ [Next]_vars => [Service!Next]_(Service!vars)
  BY NextService DEF BaseInv
<1> QED BY <1>1, <1>2, <1>3, PTL DEF Spec, ServiceSpec, Service!Spec
=============================================================================
