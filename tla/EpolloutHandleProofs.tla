------------------------ MODULE EpolloutHandleProofs ------------------------
(***************************************************************************)
(* For every ring size, counter width, queue size and number of bytes: the *)
(* echoed stream, the write flow-control rule and the refinement of        *)
(* EchoService by server_epollout_handle.cpp and by its _native sibling,   *)
(* whose loops make one recv or send per segment and let the client act    *)
(* between two calls.                                                      *)
(***************************************************************************)
EXTENDS EpolloutHandle, EchoConnectionProofs

\* The cells of segment s are those of the counter values from x on.
Describes(s, x) ==
    \A i \in 0 .. s.len - 1 : s.base + i = (x + i) % max_pkt_size

(***************************************************************************)
(* What the loops use of an array of one or two segments: each is not      *)
(* empty, and one after the other they describe size cells from x on.      *)
(***************************************************************************)
Segmented(v, x, size) ==
    /\ v[1].len \in Nat /\ v[1].len > 0
    /\ Describes(v[1], x)
    /\ \/ Len(v) = 1 /\ v[1].len = size
       \/ /\ Len(v) = 2 /\ Tail(v) = << v[2] >>
          /\ v[2] \in [base : Cells, len : Cells]
          /\ v[2].len > 0
          /\ v[1].len + v[2].len = size
          /\ Describes(v[2], x + v[1].len)

\* The first segment given to recv or send on its own.
LEMMA FirstSegment ==
  ASSUME NEW v, NEW x \in Int, NEW size \in Nat, Segmented(v, x, size)
  PROVE  /\ v[1].len \in Nat /\ v[1].len > 0 /\ v[1].len <= size
         /\ \A i \in 0 .. v[1].len - 1 :
               iov_cell(<< v[1] >>, i) = (x + i) % max_pkt_size
<1>1. v[1].len \in Nat /\ v[1].len > 0 /\ v[1].len <= size
  <2>1. CASE Len(v) = 1 BY <2>1 DEF Segmented
  <2>2. CASE Len(v) = 2
    <3>1. v[2].len \in Nat BY <2>2, RingAssumption DEF Segmented, Cells
    <3> QED BY <2>2, <3>1 DEF Segmented
  <2> QED BY <2>1, <2>2 DEF Segmented
<1>2. ASSUME NEW i \in 0 .. v[1].len - 1
      PROVE  iov_cell(<< v[1] >>, i) = (x + i) % max_pkt_size
  BY <1>1 DEF Segmented, Describes, iov_cell
<1> QED BY <1>1, <1>2

\* The blank cells as the class hands them to the loop.
LEMMA BlankSegmented ==
  ASSUME ConnInv, BlankSize > 0
  PROVE  Segmented(get_blank_iovec(f, p), p, BlankSize)
<1> DEFINE v  == get_blank_iovec(f, p)
           mf == f % max_pkt_size
           mp == p % max_pkt_size
<1>1. f \in uint64_t /\ p \in uint64_t /\ p \in Int
      /\ (p - f) % U64 < max_pkt_size
      /\ BlankSize \in Nat /\ max_pkt_size \in Nat /\ max_pkt_size > 1
  BY BufSizes, RingAssumption
     DEF ConnInv, ConnTypeOK, BufTypeOK, RingInv, uint64_t
<1>2. iov_total(v) = BlankSize
      /\ \A i \in 0 .. BlankSize - 1 : iov_cell(v, i) = (p + i) % max_pkt_size
  BY WholeIovecs
<1>3. mf \in 0 .. max_pkt_size - 1 /\ mp \in 0 .. max_pkt_size - 1
  BY <1>1, CellOfP DEF Cells
<1>4. v = IF mp < mf THEN << Seg(mp, mf - mp - 1) >>
          ELSE IF mf = 0 THEN << Seg(mp, max_pkt_size - mp - 1) >>
          ELSE IF mf = 1 THEN << Seg(mp, max_pkt_size - mp) >>
          ELSE << Seg(mp, max_pkt_size - mp), Seg(0, mf - 1) >>
  BY DEF get_blank_iovec
<1> HIDE DEF mf, mp, v
<1>5. ASSUME NEW l \in Int, v = << Seg(mp, l) >>
      PROVE  Segmented(v, p, BlankSize)
  <2>1. Len(v) = 1 /\ v[1] = [base |-> mp, len |-> l] BY <1>5 DEF Seg
  <2>2. l = BlankSize BY <1>2, <2>1 DEF iov_total
  <2>3. \A i \in 0 .. l - 1 : iov_cell(v, i) = v[1].base + i
    BY <2>1 DEF iov_cell
  <2>4. Describes(v[1], p) BY <1>2, <2>1, <2>2, <2>3 DEF Describes
  <2> QED BY <1>1, <2>1, <2>2, <2>4 DEF Segmented
<1>6. ASSUME v = << Seg(mp, max_pkt_size - mp), Seg(0, mf - 1) >>, mf >= 2
      PROVE  Segmented(v, p, BlankSize)
  <2>1. /\ Len(v) = 2 /\ Tail(v) = << v[2] >>
        /\ v[1] = [base |-> mp, len |-> max_pkt_size - mp]
        /\ v[2] = [base |-> 0, len |-> mf - 1]
    BY <1>6 DEF Seg
  <2>2. v[2] \in [base : Cells, len : Cells] BY <1>1, <1>3, <1>6, <2>1 DEF Cells
  <2>3. v[1].len \in Nat /\ v[1].len > 0 /\ v[2].len \in Nat /\ v[2].len > 0
        /\ v[1].len + v[2].len = BlankSize
    BY <1>1, <1>2, <1>3, <1>6, <2>1 DEF iov_total
  <2>4. ASSUME NEW i \in 0 .. v[1].len - 1
        PROVE  v[1].base + i = (p + i) % max_pkt_size
    <3>1. i \in 0 .. BlankSize - 1 BY <2>3
    <3>2. iov_cell(v, i) = v[1].base + i BY <2>3 DEF iov_cell
    <3> QED BY <1>2, <3>1, <3>2
  <2>5. ASSUME NEW i \in 0 .. v[2].len - 1
        PROVE  v[2].base + i = ((p + v[1].len) + i) % max_pkt_size
    <3>1. v[1].len + i \in 0 .. BlankSize - 1 /\ ~(v[1].len + i < v[1].len)
          /\ (v[1].len + i) - v[1].len = i
      BY <1>1, <2>3
    <3>2. iov_cell(v, v[1].len + i) = v[2].base + i BY <3>1 DEF iov_cell
    <3>3. p + (v[1].len + i) = (p + v[1].len) + i BY <1>1, <2>3
    <3> QED BY <1>2, <3>1, <3>2, <3>3
  <2>6. Describes(v[1], p) BY <2>4 DEF Describes
  <2>7. Describes(v[2], p + v[1].len) BY <2>5 DEF Describes
  <2>8. Len(v) = 2 /\ Tail(v) = << v[2] >> BY <2>1
  <2> QED BY <2>2, <2>3, <2>6, <2>7, <2>8 DEF Segmented
<1>7. \/ \E l \in Int : v = << Seg(mp, l) >>
      \/ v = << Seg(mp, max_pkt_size - mp), Seg(0, mf - 1) >> /\ mf >= 2
  BY <1>1, <1>3, <1>4
<1> QED BY <1>5, <1>6, <1>7 DEF v

\* The filled cells as the class hands them to the loop.
LEMMA ExistSegmented ==
  ASSUME ConnInv, ExistSize > 0
  PROVE  Segmented(get_exist_iovec(f, p), f, ExistSize)
<1> DEFINE v  == get_exist_iovec(f, p)
           mf == f % max_pkt_size
           mp == p % max_pkt_size
<1>1. f \in uint64_t /\ p \in uint64_t /\ f \in Int
      /\ (p - f) % U64 < max_pkt_size
      /\ ExistSize \in Nat /\ max_pkt_size \in Nat /\ max_pkt_size > 1
  BY BufSizes, RingAssumption
     DEF ConnInv, ConnTypeOK, BufTypeOK, RingInv, uint64_t
<1>2. iov_total(v) = ExistSize
      /\ \A i \in 0 .. ExistSize - 1 : iov_cell(v, i) = (f + i) % max_pkt_size
  BY WholeIovecs
<1>3. mf \in 0 .. max_pkt_size - 1 /\ mp \in 0 .. max_pkt_size - 1
  BY <1>1, CellOfP DEF Cells
<1>4. v = IF mf <= mp THEN << Seg(mf, mp - mf) >>
          ELSE IF mp = 0 THEN << Seg(mf, max_pkt_size - mf) >>
          ELSE << Seg(mf, max_pkt_size - mf), Seg(0, mp) >>
  BY DEF get_exist_iovec
<1> HIDE DEF mf, mp, v
<1>5. ASSUME NEW l \in Int, v = << Seg(mf, l) >>
      PROVE  Segmented(v, f, ExistSize)
  <2>1. Len(v) = 1 /\ v[1] = [base |-> mf, len |-> l] BY <1>5 DEF Seg
  <2>2. l = ExistSize BY <1>2, <2>1 DEF iov_total
  <2>3. \A i \in 0 .. l - 1 : iov_cell(v, i) = v[1].base + i
    BY <2>1 DEF iov_cell
  <2>4. Describes(v[1], f) BY <1>2, <2>1, <2>2, <2>3 DEF Describes
  <2> QED BY <1>1, <2>1, <2>2, <2>4 DEF Segmented
<1>6. ASSUME v = << Seg(mf, max_pkt_size - mf), Seg(0, mp) >>, mp >= 1
      PROVE  Segmented(v, f, ExistSize)
  <2>1. /\ Len(v) = 2 /\ Tail(v) = << v[2] >>
        /\ v[1] = [base |-> mf, len |-> max_pkt_size - mf]
        /\ v[2] = [base |-> 0, len |-> mp]
    BY <1>6 DEF Seg
  <2>2. v[2] \in [base : Cells, len : Cells] BY <1>1, <1>3, <1>6, <2>1 DEF Cells
  <2>3. v[1].len \in Nat /\ v[1].len > 0 /\ v[2].len \in Nat /\ v[2].len > 0
        /\ v[1].len + v[2].len = ExistSize
    BY <1>1, <1>2, <1>3, <1>6, <2>1 DEF iov_total
  <2>4. ASSUME NEW i \in 0 .. v[1].len - 1
        PROVE  v[1].base + i = (f + i) % max_pkt_size
    <3>1. i \in 0 .. ExistSize - 1 BY <2>3
    <3>2. iov_cell(v, i) = v[1].base + i BY <2>3 DEF iov_cell
    <3> QED BY <1>2, <3>1, <3>2
  <2>5. ASSUME NEW i \in 0 .. v[2].len - 1
        PROVE  v[2].base + i = ((f + v[1].len) + i) % max_pkt_size
    <3>1. v[1].len + i \in 0 .. ExistSize - 1 /\ ~(v[1].len + i < v[1].len)
          /\ (v[1].len + i) - v[1].len = i
      BY <1>1, <2>3
    <3>2. iov_cell(v, v[1].len + i) = v[2].base + i BY <3>1 DEF iov_cell
    <3>3. f + (v[1].len + i) = (f + v[1].len) + i BY <1>1, <2>3
    <3> QED BY <1>2, <3>1, <3>2, <3>3
  <2>6. Describes(v[1], f) BY <2>4 DEF Describes
  <2>7. Describes(v[2], f + v[1].len) BY <2>5 DEF Describes
  <2>8. Len(v) = 2 /\ Tail(v) = << v[2] >> BY <2>1
  <2> QED BY <2>2, <2>3, <2>6, <2>7, <2>8 DEF Segmented
<1>7. \/ \E l \in Int : v = << Seg(mf, l) >>
      \/ v = << Seg(mf, max_pkt_size - mf), Seg(0, mp) >> /\ mp >= 1
  BY <1>1, <1>3, <1>4
<1> QED BY <1>5, <1>6, <1>7 DEF v

\* A second segment still describes the cells from the moved counter on.
LEMMA DescribesAfterAdd ==
  ASSUME NEW s, NEW x \in Int, NEW n \in Nat, Describes(s, x + n)
  PROVE  Describes(s, (x + n) % U64)
<1>1. U64 \in Nat /\ U64 > 0 /\ max_pkt_size \in Nat /\ max_pkt_size > 0
      /\ U64 % max_pkt_size = 0
  BY RingAssumption
<1> DEFINE a == x + n
<1>2. a \in Int OBVIOUS
<1> HIDE DEF a
<1>3. ASSUME NEW i \in Int
      PROVE  ((a % U64) + i) % max_pkt_size = (a + i) % max_pkt_size
  <2>1. a % U64 \in Int BY <1>1, <1>2, DivMod
  <2>2. (a % U64) % max_pkt_size = a % max_pkt_size BY <1>1, <1>2, ModOfMod
  <2>3. (((a % U64) % max_pkt_size) + i) % max_pkt_size
           = ((a % U64) + i) % max_pkt_size
    BY <1>1, <2>1, ModShift
  <2>4. ((a % max_pkt_size) + i) % max_pkt_size = (a + i) % max_pkt_size
    BY <1>1, <1>2, ModShift
  <2> QED BY <2>2, <2>3, <2>4
<1>4. \A i \in 0 .. s.len - 1 : i \in Int OBVIOUS
<1> QED BY <1>3, <1>4 DEF Describes, a

-----------------------------------------------------------------------------
(***************************************************************************)
(* The invariant of the loops.  Between two calls exactly one segment is   *)
(* left; it describes all the blank cells (receiving) or all the filled    *)
(* ones (sending, left counts them), although the client has acted and the *)
(* counters have moved since get_*_iovec computed it.                      *)
(***************************************************************************)
RecvRest == /\ Len(iov) = 1 /\ iov[1].len > 0
            /\ iov[1].len = BlankSize
            /\ Describes(iov[1], p)

SendRest == /\ Len(iov) = 1 /\ iov[1].len > 0
            /\ iov[1].len = ExistSize
            /\ Describes(iov[1], f)
            /\ left = ExistSize

LoopInv ==
    \/ iov = << >>
    \/ ~Open
    \/ pc = "recv_buf" /\ native /\ RecvRest
    \/ (pc = "handle_write" \/ (pc = "send_buf" /\ native)) /\ SendRest

BaseInv == ConnInv /\ TypeOK /\ LoopInv

\* In the handlers the loops' segments are as Segmented says.
LEMMA LoopSegments ==
  ASSUME BaseInv, iov # << >>
  PROVE  /\ pc = "recv_buf" => native /\ Segmented(iov, p, BlankSize)
                               /\ BlankSize > 0
         /\ pc \in {"handle_write", "send_buf"} =>
               /\ pc = "send_buf" => native
               /\ Segmented(iov, f, ExistSize) /\ left = ExistSize
               /\ ExistSize > 0
         /\ pc \notin {"accept", "epoll_wait"}
<1>1. BlankSize \in Nat /\ ExistSize \in Nat BY WholeIovecs DEF BaseInv
<1> QED BY <1>1 DEF BaseInv, LoopInv, Open, RecvRest, SendRest, Segmented

\* recv_buf of the program with recvmsg.
LEMMA RecvmsgEffect ==
  ASSUME ConnInv, recv_buf
  PROVE  \/ Return("send_buf")
         \/ Delete /\ UNCHANGED loopVars /\ RcvQueued = 0
         \/ /\ SockTypeOK' /\ BufTypeOK' /\ RingInv'
            /\ \E n \in Nat : /\ n <= BlankSize /\ n <= RcvQueued
                              /\ Store(blank_iovec, n)
            /\ pc' = "send_buf"
            /\ UNCHANGED <<epoll_event, ev, loopVars>>
<1> DEFINE result == recv_result(iov_total(blank_iovec))
<1>0. SockTypeOK /\ BufTypeOK /\ RingInv BY DEF ConnInv, ConnTypeOK
<1>1. BlankSize \in Nat /\ iov_total(blank_iovec) = BlankSize
      /\ \A i \in 0 .. BlankSize - 1 :
            iov_cell(blank_iovec, i) = (p + i) % max_pkt_size
  BY WholeIovecs DEF blank_iovec
<1>2. result \in Int /\ RcvQueued \in Nat /\ result <= RcvQueued
      /\ result <= BlankSize
  BY <1>0, <1>1, RecvBound
<1>3. RcvQueued > 0 /\ BlankSize > 0 => result > 0
  BY <1>1, <1>2 DEF recv_result, Smaller
<1>4. \/ Return("send_buf")
      \/ Delete /\ UNCHANGED loopVars /\ BlankSize > 0 /\ result <= 0
      \/ /\ BlankSize > 0 /\ result > 0
         /\ Store(blank_iovec, result)
         /\ pc' = "send_buf"
         /\ UNCHANGED <<epoll_event, ev, loopVars>>
  BY <1>1, <1>2 DEF recv_buf
<1> HIDE DEF result
<1>5. CASE Delete /\ UNCHANGED loopVars /\ BlankSize > 0 /\ result <= 0
  BY <1>1, <1>2, <1>3, <1>5
<1>6. CASE /\ BlankSize > 0 /\ result > 0
           /\ Store(blank_iovec, result)
           /\ pc' = "send_buf"
           /\ UNCHANGED <<epoll_event, ev, loopVars>>
  <2>1. result \in Nat BY <1>2, <1>6
  <2>2. \A i \in 0 .. result - 1 :
           iov_cell(blank_iovec, i) = (p + i) % max_pkt_size
    BY <1>1, <1>2, <2>1
  <2>3. SockTypeOK' /\ BufTypeOK' /\ RingInv'
    BY <1>0, <1>2, <1>6, <2>1, <2>2, StoreKeeps
  <2> QED BY <1>2, <1>6, <2>1, <2>3
<1> QED BY <1>4, <1>5, <1>6

\* send_buf of the program with sendmsg.
LEMMA SendmsgEffect ==
  ASSUME ConnInv, send_buf
  PROVE  \/ Return("epoll_wait") /\ ExistSize = 0
         \/ SendError /\ UNCHANGED loopVars /\ rst
         \/ /\ SockTypeOK' /\ BufTypeOK' /\ RingInv'
            /\ \E n \in Nat : /\ n <= ExistSize
                              /\ Drain(exist_iovec, n)
                              /\ Len(out') = Len(out) + n
            /\ epoll_event' = set_epollout(taken' > Len(out'))
            /\ pc' = "epoll_wait"
            /\ UNCHANGED <<ev, loopVars>>
<1> DEFINE result == send_result(iov_total(exist_iovec))
           n      == IF result = Eagain THEN 0 ELSE result
<1>0. SockTypeOK /\ BufTypeOK /\ RingInv BY DEF ConnInv, ConnTypeOK
<1>1. ExistSize \in Nat /\ iov_total(exist_iovec) = ExistSize
      /\ ExistSize = taken - Len(out)
      /\ \A i \in 0 .. ExistSize - 1 :
            iov_cell(exist_iovec, i) = (f + i) % max_pkt_size
  BY WholeIovecs DEF exist_iovec
<1>2. result \in Int /\ result <= ExistSize
      /\ (result >= 0 \/ result \in {Eagain, Error})
  BY <1>0, <1>1, SendBound
<1>3. taken \in Nat /\ Len(out) \in Nat BY Numbers
<1>4. result = Error => rst
  BY <1>0, <1>1, SocketAssumption
     DEF send_result, Smaller, Eagain, Error, SockTypeOK, SndRoom
<1>5. \/ Return("epoll_wait") /\ ExistSize = 0
      \/ SendError /\ UNCHANGED loopVars /\ result = Error
      \/ /\ result # Error
         /\ Drain(exist_iovec, n)
         /\ epoll_event' = set_epollout(n # ExistSize)
         /\ pc' = "epoll_wait"
         /\ UNCHANGED <<ev, loopVars>>
  BY <1>1 DEF send_buf
<1> HIDE DEF result
<1>6. CASE /\ result # Error
           /\ Drain(exist_iovec, n)
           /\ epoll_event' = set_epollout(n # ExistSize)
           /\ pc' = "epoll_wait"
           /\ UNCHANGED <<ev, loopVars>>
  <2>1. n \in Nat /\ n <= ExistSize BY <1>1, <1>2, <1>6 DEF Eagain, Error
  <2> HIDE DEF n
  <2>2. \A i \in 0 .. n - 1 :
           iov_cell(exist_iovec, i) = (f + i) % max_pkt_size
    BY <1>1, <2>1
  <2>3. SockTypeOK' /\ BufTypeOK' /\ RingInv' /\ Len(out') = Len(out) + n
    BY <1>0, <1>6, <2>1, <2>2, DrainKeeps
  <2>4. taken' = taken BY <1>6 DEF Drain
  <2>5. ExistSize = taken - Len(out) /\ ExistSize \in Nat BY <1>1
  <2>6. n # ExistSize <=> taken' > Len(out')
    BY <1>3, <2>1, <2>3, <2>4, <2>5
  <2>7. epoll_event' = set_epollout(taken' > Len(out'))
    BY <1>6, <2>6 DEF set_epollout
  <2> QED BY <1>6, <2>1, <2>3, <2>7
<1> QED BY <1>4, <1>5, <1>6

(***************************************************************************)
(* One round of recv_buf_native's loop: it gives up only on a client that  *)
(* is gone; otherwise it leaves the loop, or goes on with a last segment   *)
(* that describes the cells that are blank now.                            *)
(***************************************************************************)
LEMMA RecvNativeEffect ==
  ASSUME BaseInv, recv_buf_native
  PROVE  \/ Return("send_buf") /\ iov = << >>
         \/ Delete /\ UNCHANGED loopVars /\ (fin \/ rst)
         \/ /\ SockTypeOK' /\ BufTypeOK' /\ RingInv'
            /\ \E v : \E n \in Nat : /\ n <= BlankSize /\ n <= RcvQueued
                                     /\ Store(v, n)
            /\ UNCHANGED <<epoll_event, ev, left, native>>
            /\ \/ pc' = "send_buf" /\ iov' = << >>
               \/ /\ pc' = "recv_buf" /\ RecvRest'
                  /\ iov' \in Seq([base : Cells, len : Cells])
<1> DEFINE segs   == IF iov = << >> THEN blank_segments ELSE iov
           result == recv_result(segs[1].len)
           n      == IF result = Eagain THEN 0 ELSE result
           more   == n = segs[1].len /\ Len(segs) > 1
<1>0. ConnInv /\ SockTypeOK /\ BufTypeOK /\ RingInv /\ Counters
  BY DEF BaseInv, ConnInv, ConnTypeOK, RingInv
<1>1. pc = "recv_buf" /\ native BY DEF recv_buf_native
<1>2. BlankSize \in Nat /\ p \in Int /\ f \in uint64_t /\ p \in uint64_t
      /\ (p - f) % U64 < max_pkt_size
  BY <1>0, WholeIovecs, BufSizes DEF BufTypeOK, uint64_t
<1>3. CASE iov = << >> /\ BlankSize <= 0
  BY <1>3 DEF recv_buf_native
<1>4. CASE ~(iov = << >> /\ BlankSize <= 0)
  <2>1. Segmented(segs, p, BlankSize)
    <3>1. CASE iov = << >>
      BY <1>0, <1>2, <1>4, <3>1, BlankSegmented DEF blank_segments
    <3>2. CASE iov # << >> BY <1>1, <3>2, LoopSegments
    <3> QED BY <3>1, <3>2
  <2>2. \/ Delete /\ UNCHANGED loopVars /\ result \in {0, Error}
        \/ /\ result \notin {0, Error}
           /\ Store(<< segs[1] >>, n)
           /\ iov' = IF more THEN Tail(segs) ELSE << >>
           /\ pc' = IF more THEN pc ELSE "send_buf"
           /\ UNCHANGED <<epoll_event, ev, left, native>>
    BY <1>4 DEF recv_buf_native
  <2> HIDE DEF segs
  <2>3. segs[1].len \in Nat /\ segs[1].len > 0 /\ segs[1].len <= BlankSize
        /\ \A i \in 0 .. segs[1].len - 1 :
              iov_cell(<< segs[1] >>, i) = (p + i) % max_pkt_size
    BY <1>2, <2>1, FirstSegment
  <2>4. result \in Int /\ RcvQueued \in Nat /\ result <= RcvQueued
        /\ result <= segs[1].len
        /\ (result >= 0 \/ result \in {Eagain, Error})
    BY <1>0, <2>3, RecvBound
  <2>5. result \in {0, Error} => fin \/ rst
    BY <2>3, <2>4 DEF recv_result, Smaller, Eagain, Error
  <2> HIDE DEF result
  <2>6. CASE Delete /\ UNCHANGED loopVars /\ result \in {0, Error}
    BY <2>5, <2>6
  <2>7. CASE /\ result \notin {0, Error}
             /\ Store(<< segs[1] >>, n)
             /\ iov' = IF more THEN Tail(segs) ELSE << >>
             /\ pc' = IF more THEN pc ELSE "send_buf"
             /\ UNCHANGED <<epoll_event, ev, left, native>>
    <3>1. n \in Nat /\ n <= segs[1].len /\ n <= RcvQueued /\ n <= BlankSize
      BY <1>2, <2>3, <2>4, <2>7 DEF Eagain, Error
    <3> HIDE DEF n
    <3>2. \A i \in 0 .. n - 1 :
             iov_cell(<< segs[1] >>, i) = (p + i) % max_pkt_size
      BY <2>3, <3>1
    <3>3. SockTypeOK' /\ BufTypeOK' /\ RingInv'
      BY <1>0, <2>7, <3>1, <3>2, StoreKeeps
    <3>4. CASE ~more BY <2>7, <3>1, <3>3, <3>4
    <3>5. CASE more
      <4>1. /\ Tail(segs) = << segs[2] >> /\ n = segs[1].len
            /\ segs[2] \in [base : Cells, len : Cells]
            /\ segs[2].len > 0
            /\ segs[1].len + segs[2].len = BlankSize
            /\ Describes(segs[2], p + n)
        BY <2>1, <3>5 DEF Segmented
      <4>2. iov' = << segs[2] >> /\ pc' = "recv_buf" BY <1>1, <2>7, <3>5, <4>1
      <4>3. p' = (p + n) % U64 /\ f' = f BY <2>7 DEF Store, add_exist
      <4>4. BlankSize' = BlankSize - n
        BY <1>2, <3>1, <4>3, SizesAfterAdd DEF BlankSize, add_exist
      <4>5. Describes(segs[2], p') BY <1>2, <3>1, <4>1, <4>3, DescribesAfterAdd
      <4>6. segs[2].len \in Nat BY <4>1, RingAssumption DEF Cells
      <4>7. segs[2].len = BlankSize' BY <1>2, <3>1, <4>1, <4>4, <4>6
      <4>8. Len(iov') = 1 /\ iov'[1] = segs[2]
            /\ iov' \in Seq([base : Cells, len : Cells])
        BY <4>1, <4>2
      <4>9. RecvRest'
        BY <4>1, <4>5, <4>7, <4>8 DEF RecvRest, Describes
      <4> QED BY <2>7, <3>1, <3>3, <4>2, <4>8, <4>9
    <3> QED BY <3>4, <3>5
  <2> QED BY <2>2, <2>6, <2>7
<1> QED BY <1>3, <1>4

(***************************************************************************)
(* One round of send_buf_native's loop: it gives up only on a reset        *)
(* connection; it leaves the loop with EPOLLOUT on exactly if bytes are    *)
(* left, or goes on with a last segment that describes what is left.       *)
(***************************************************************************)
LEMMA SendNativeEffect ==
  ASSUME BaseInv, NEW next, send_buf_native(next),
         pc = "handle_write" \/ (pc = "send_buf" /\ native)
  PROVE  \/ Return(next) /\ iov = << >> /\ ExistSize = 0
         \/ SendError /\ UNCHANGED loopVars /\ rst
         \/ /\ SockTypeOK' /\ BufTypeOK' /\ RingInv'
            /\ \E v : \E n \in Nat : /\ n <= ExistSize
                                     /\ Drain(v, n)
                                     /\ Len(out') = Len(out) + n
            /\ UNCHANGED <<ev, native>>
            /\ \/ /\ pc' = next /\ iov' = << >> /\ left' = 0
                  /\ epoll_event' = set_epollout(taken' > Len(out'))
               \/ /\ pc' = pc /\ SendRest'
                  /\ iov' \in Seq([base : Cells, len : Cells])
                  /\ epoll_event' = epoll_event
<1> DEFINE segs    == IF iov = << >> THEN get_exist_iovec(f, p) ELSE iov
           to_send == IF iov = << >> THEN ExistSize ELSE left
           result  == send_result(segs[1].len)
           n       == IF result = Eagain THEN 0 ELSE result
           rest    == to_send - n
           more    == rest # 0 /\ n = segs[1].len /\ Len(segs) > 1
<1>0. ConnInv /\ SockTypeOK /\ BufTypeOK /\ RingInv /\ Counters
  BY DEF BaseInv, ConnInv, ConnTypeOK, RingInv
<1>1. ExistSize \in Nat /\ f \in Int /\ f \in uint64_t /\ p \in uint64_t
      /\ (p - f) % U64 < max_pkt_size /\ ExistSize = taken - Len(out)
      /\ taken \in Nat /\ Len(out) \in Nat
  BY <1>0, WholeIovecs, BufSizes, Numbers DEF BufTypeOK, uint64_t
<1>2. to_send = ExistSize BY LoopSegments
<1>3. CASE ExistSize <= 0
  <2>1. iov = << >> BY <1>3, <1>1, LoopSegments
  <2>2. to_send <= 0 BY <1>2, <1>3
  <2>3. Return(next) BY <2>2 DEF send_buf_native
  <2> QED BY <1>1, <1>3, <2>1, <2>3
<1>4. CASE ExistSize > 0
  <2>1. Segmented(segs, f, ExistSize)
    <3>1. CASE iov = << >> BY <1>0, <1>4, <3>1, ExistSegmented
    <3>2. CASE iov # << >> BY <3>2, LoopSegments
    <3> QED BY <3>1, <3>2
  <2>2. \/ SendError /\ UNCHANGED loopVars /\ result = Error
        \/ /\ result # Error
           /\ Drain(<< segs[1] >>, n)
           /\ epoll_event' = IF rest = 0 THEN set_epollout(FALSE)
                             ELSE IF n < segs[1].len THEN set_epollout(TRUE)
                             ELSE epoll_event
           /\ iov' = IF more THEN Tail(segs) ELSE << >>
           /\ left' = IF more THEN rest ELSE 0
           /\ pc' = IF more THEN pc ELSE next
           /\ UNCHANGED <<ev, native>>
    <3>1. ~(to_send <= 0) BY <1>1, <1>2, <1>4
    <3> QED BY <3>1 DEF send_buf_native
  <2> HIDE DEF segs, to_send
  <2>3. segs[1].len \in Nat /\ segs[1].len > 0 /\ segs[1].len <= ExistSize
        /\ \A i \in 0 .. segs[1].len - 1 :
              iov_cell(<< segs[1] >>, i) = (f + i) % max_pkt_size
    BY <1>1, <2>1, FirstSegment
  <2>4. result \in Int /\ result <= segs[1].len
        /\ (result >= 0 \/ result \in {Eagain, Error})
    BY <1>0, <2>3, SendBound
  <2>5. result = Error => rst
    BY <1>0, <2>3, SocketAssumption
       DEF send_result, Smaller, Eagain, Error, SockTypeOK, SndRoom
  <2> HIDE DEF result
  <2>6. CASE SendError /\ UNCHANGED loopVars /\ result = Error
    BY <2>5, <2>6
  <2>7. CASE /\ result # Error
             /\ Drain(<< segs[1] >>, n)
             /\ epoll_event' = IF rest = 0 THEN set_epollout(FALSE)
                               ELSE IF n < segs[1].len THEN set_epollout(TRUE)
                               ELSE epoll_event
             /\ iov' = IF more THEN Tail(segs) ELSE << >>
             /\ left' = IF more THEN rest ELSE 0
             /\ pc' = IF more THEN pc ELSE next
             /\ UNCHANGED <<ev, native>>
    <3>1. n \in Nat /\ n <= segs[1].len /\ n <= ExistSize
      BY <1>1, <2>3, <2>4, <2>7 DEF Eagain, Error
    <3> HIDE DEF n
    <3>2. \A i \in 0 .. n - 1 :
             iov_cell(<< segs[1] >>, i) = (f + i) % max_pkt_size
      BY <2>3, <3>1
    <3>3. SockTypeOK' /\ BufTypeOK' /\ RingInv' /\ Len(out') = Len(out) + n
      BY <1>0, <2>7, <3>1, <3>2, DrainKeeps
    <3>4. taken' = taken /\ p' = p /\ f' = (f + n) % U64
      BY <2>7 DEF Drain, add_blank
    <3>5. rest = ExistSize - n BY <1>2
    <3>6. (rest = 0 <=> ~(taken' > Len(out'))) BY <1>1, <3>1, <3>3, <3>4, <3>5
    <3>7. CASE more
      <4>1. /\ Tail(segs) = << segs[2] >> /\ n = segs[1].len
            /\ segs[2] \in [base : Cells, len : Cells]
            /\ segs[2].len > 0
            /\ segs[1].len + segs[2].len = ExistSize
            /\ Describes(segs[2], f + n)
        BY <2>1, <3>7 DEF Segmented
      <4>2. iov' = << segs[2] >> /\ pc' = pc /\ left' = ExistSize - n
            /\ epoll_event' = epoll_event
        <5>1. ~(n < segs[1].len) BY <3>1, <4>1
        <5> QED BY <2>7, <3>5, <3>7, <4>1, <5>1
      <4>3. ExistSize' = ExistSize - n
        BY <1>1, <3>1, <3>4, SizesAfterAdd DEF ExistSize, add_blank
      <4>4. Describes(segs[2], f') BY <1>1, <3>1, <3>4, <4>1, DescribesAfterAdd
      <4>5. segs[2].len \in Nat BY <4>1, RingAssumption DEF Cells
      <4>6. segs[2].len = ExistSize' BY <1>1, <3>1, <4>1, <4>3, <4>5
      <4>7. Len(iov') = 1 /\ iov'[1] = segs[2]
            /\ iov' \in Seq([base : Cells, len : Cells])
        BY <4>1, <4>2
      <4>8. SendRest'
        BY <4>1, <4>2, <4>3, <4>4, <4>6, <4>7 DEF SendRest, Describes
      <4> QED BY <2>7, <3>1, <3>3, <4>2, <4>7, <4>8
    <3>8. CASE ~more
      <4>1. rest # 0 => n < segs[1].len
        <5>1. ASSUME n = segs[1].len, rest # 0 PROVE FALSE
          <6>1. Len(segs) = 1 /\ segs[1].len = ExistSize
            BY <2>1, <3>8, <5>1 DEF Segmented
          <6> QED BY <1>1, <3>5, <5>1, <6>1
        <5> QED BY <2>3, <3>1, <5>1
      <4>2. epoll_event' = set_epollout(taken' > Len(out'))
        BY <2>7, <3>6, <4>1 DEF set_epollout
      <4> QED BY <2>7, <3>1, <3>3, <3>8, <4>2
    <3> QED BY <3>7, <3>8
  <2> QED BY <2>2, <2>6, <2>7
<1> QED BY <1>1, <1>3, <1>4

-----------------------------------------------------------------------------
\* Types, ring contents and the loops' invariant hold initially ...
LEMMA InitBase == Init => BaseInv
<1> SUFFICES ASSUME Init PROVE BaseInv OBVIOUS
<1>1. ConnInv /\ pc = "accept" BY InitKeeps DEF Init, ConnInit
<1>2. LoopTypeOK
  <2>1. << >> \in Seq([base : Cells, len : Cells]) /\ Len(<< >>) = 0 OBVIOUS
  <2>2. 0 \in 0 .. max_pkt_size - 1 BY RingAssumption
  <2> QED BY <2>1, <2>2 DEF Init, LoopTypeOK
<1> QED BY <1>1, <1>2 DEF Init, BaseInv, ConnInv, TypeOK, LoopInv

\* Giving up leaves the loop's segment where it was: nobody looks at it again.
LEMMA GiveUpBase ==
  ASSUME BaseInv, Delete \/ SendError, UNCHANGED loopVars
  PROVE  BaseInv'
<1>1. ConnInv' /\ pc' \in {"deleted", "killed"} BY GiveUpKeeps DEF BaseInv
<1> QED BY <1>1 DEF BaseInv, TypeOK, LoopTypeOK, LoopInv, Open, ConnInv, loopVars

\* Whatever touches no byte and runs outside the loops keeps the invariant.
LEMMA QuietBase ==
  ASSUME BaseInv, iov = << >>, UNCHANGED <<sockVars, bufVars, loopVars>>,
         epoll_event' \subseteq {EPOLLIN, EPOLLOUT},
         ev' \subseteq {EPOLLIN, EPOLLOUT, EPOLLERR},
         pc' \in {"epoll_wait", "handle_write", "recv_buf", "send_buf"}
  PROVE  BaseInv'
<1>1. ConnInv' BY QuietKeeps DEF BaseInv
<1> QED BY <1>1 DEF BaseInv, TypeOK, LoopTypeOK, LoopInv, ConnInv, loopVars

\* ... and every step of the loop thread and of the client keeps them.
LEMMA NextBase == BaseInv /\ [Next]_vars => BaseInv'
<1> SUFFICES ASSUME BaseInv, [Next]_vars PROVE BaseInv' OBVIOUS
<1>0. /\ ConnInv /\ ConnTypeOK /\ TypeOK /\ LoopTypeOK /\ max_pkt_size \in Nat
      /\ max_pkt_size > 1
  BY RingAssumption DEF BaseInv, ConnInv, TypeOK
<1>1. pc \in {"accept", "epoll_wait"} => iov = << >> BY LoopSegments
<1>2. ASSUME NEW next \in {"epoll_wait", "recv_buf", "send_buf"}, Return(next),
             iov = << >>
      PROVE  BaseInv'
  BY <1>0, <1>2, QuietBase DEF Return, ConnTypeOK
<1>3. CASE Acceptor_handle
  <2>1. iov = << >> /\ epoll_event' = {EPOLLIN} /\ pc' = "epoll_wait"
        /\ UNCHANGED <<sockVars, bufVars, ev, loopVars>>
    BY <1>1, <1>3 DEF Acceptor_handle, Accept
  <2> QED BY <1>0, <2>1, QuietBase DEF ConnTypeOK
<1>4. CASE EpollWait
  <2>1. iov = << >> /\ UNCHANGED loopVars BY <1>1, <1>4 DEF EpollWait, Dispatch
  <2>2. CASE Delete BY <2>1, <2>2, GiveUpBase
  <2>3. CASE ~ Delete
    <3>1. /\ UNCHANGED <<sockVars, bufVars, epoll_event>> /\ ConnInv'
          /\ pc' \in {"handle_write", "recv_buf"}
      BY <1>0, <1>4, <2>3, DispatchKeeps DEF EpollWait
    <3> QED BY <2>1, <3>1, QuietBase DEF ConnInv, ConnTypeOK
  <2> QED BY <2>2, <2>3
<1>5. CASE recv_buf
  <2>1. iov = << >> BY <1>5, LoopSegments DEF recv_buf
  <2>2. CASE Return("send_buf") BY <1>2, <2>1, <2>2
  <2>3. CASE Delete /\ UNCHANGED loopVars BY <2>3, GiveUpBase
  <2>4. CASE /\ SockTypeOK' /\ BufTypeOK' /\ RingInv' /\ pc' = "send_buf"
             /\ UNCHANGED <<epoll_event, ev, loopVars>>
    BY <1>0, <2>1, <2>4
       DEF BaseInv, ConnInv, ConnTypeOK, TypeOK, LoopTypeOK, LoopInv, loopVars
  <2> QED BY <1>0, <1>5, <2>2, <2>3, <2>4, RecvmsgEffect
<1>6. CASE send_buf
  <2>1. iov = << >> BY <1>6, LoopSegments DEF send_buf
  <2>2. CASE Return("epoll_wait") BY <1>2, <2>1, <2>2
  <2>3. CASE SendError /\ UNCHANGED loopVars BY <2>3, GiveUpBase
  <2>4. CASE /\ SockTypeOK' /\ BufTypeOK' /\ RingInv' /\ pc' = "epoll_wait"
             /\ epoll_event' = set_epollout(taken' > Len(out'))
             /\ UNCHANGED <<ev, loopVars>>
    BY <1>0, <2>1, <2>4
       DEF BaseInv, ConnInv, ConnTypeOK, TypeOK, LoopTypeOK, LoopInv, loopVars,
           set_epollout
  <2> QED BY <1>0, <1>6, <2>2, <2>3, <2>4, SendmsgEffect
<1>7. CASE recv_buf_native
  <2>1. native BY <1>7 DEF recv_buf_native
  <2>2. CASE Return("send_buf") /\ iov = << >> BY <1>2, <2>2
  <2>3. CASE Delete /\ UNCHANGED loopVars BY <2>3, GiveUpBase
  <2>4. CASE /\ SockTypeOK' /\ BufTypeOK' /\ RingInv'
             /\ UNCHANGED <<epoll_event, ev, left, native>>
             /\ \/ pc' = "send_buf" /\ iov' = << >>
                \/ /\ pc' = "recv_buf" /\ RecvRest'
                   /\ iov' \in Seq([base : Cells, len : Cells])
    <3>1. ConnInv' BY <1>0, <2>4 DEF ConnInv, ConnTypeOK
    <3>2. LoopInv' BY <2>1, <2>4 DEF LoopInv
    <3>3. iov' \in Seq([base : Cells, len : Cells]) /\ Len(iov') <= 1
      <4>1. << >> \in Seq([base : Cells, len : Cells]) /\ Len(<< >>) = 0 OBVIOUS
      <4>2. CASE iov' = << >> BY <4>1, <4>2
      <4>3. CASE Len(iov') = 1 /\ iov' \in Seq([base : Cells, len : Cells])
        BY <4>3
      <4> QED BY <2>4, <4>2, <4>3 DEF RecvRest
    <3> QED BY <1>0, <2>4, <3>1, <3>2, <3>3
            DEF BaseInv, ConnInv, TypeOK, LoopTypeOK
  <2> QED BY <1>7, <2>2, <2>3, <2>4, RecvNativeEffect
<1>8. ASSUME NEW next \in {"recv_buf", "epoll_wait"}, send_buf_native(next),
             pc = "handle_write" \/ (pc = "send_buf" /\ native)
      PROVE  BaseInv'
  <2>1. CASE Return(next) /\ iov = << >> BY <1>2, <2>1
  <2>2. CASE SendError /\ UNCHANGED loopVars BY <2>2, GiveUpBase
  <2>3. CASE /\ SockTypeOK' /\ BufTypeOK' /\ RingInv'
             /\ UNCHANGED <<ev, native>>
             /\ \/ /\ pc' = next /\ iov' = << >> /\ left' = 0
                   /\ epoll_event' = set_epollout(taken' > Len(out'))
                \/ /\ pc' = pc /\ SendRest'
                   /\ iov' \in Seq([base : Cells, len : Cells])
                   /\ epoll_event' = epoll_event
    <3>1. ConnInv' BY <1>0, <2>3 DEF ConnInv, ConnTypeOK, set_epollout
    <3>2. LoopInv' BY <1>8, <2>3 DEF LoopInv
    <3>3. iov' \in Seq([base : Cells, len : Cells]) /\ Len(iov') <= 1
      <4>1. << >> \in Seq([base : Cells, len : Cells]) /\ Len(<< >>) = 0 OBVIOUS
      <4>2. CASE iov' = << >> BY <4>1, <4>2
      <4>3. CASE Len(iov') = 1 /\ iov' \in Seq([base : Cells, len : Cells])
        BY <4>3
      <4> QED BY <2>3, <4>2, <4>3 DEF SendRest
    <3>4. left' \in 0 .. max_pkt_size - 1
      <4>1. ExistSize' \in 0 .. max_pkt_size - 1
        <5>1. ExistSize' = taken' - Len(out')
          BY <2>3, BufSizesNext DEF RingInv, BufSizesRight
        <5>2. taken' \in Nat /\ Len(out') \in Nat /\ Len(out') <= taken'
              /\ taken' - Len(out') < max_pkt_size
          BY <2>3, SocketAssumption DEF RingInv, Counters, SockTypeOK
        <5> QED BY <1>0, <5>1, <5>2
      <4> QED BY <1>0, <2>3, <4>1 DEF SendRest
    <3>5. pc' \in {"epoll_wait", "recv_buf", "handle_write", "send_buf"}
      BY <1>8, <2>3
    <3> QED BY <1>0, <2>3, <3>1, <3>2, <3>3, <3>4, <3>5
            DEF BaseInv, ConnInv, TypeOK, LoopTypeOK
  <2> QED BY <1>8, <2>1, <2>2, <2>3, SendNativeEffect
<1>9. CASE handle_write \/ handle_read_native
  BY <1>8, <1>9 DEF handle_write, handle_read_native
<1>10. CASE Client /\ UNCHANGED loopVars
  <2>1. ConnInv' /\ UNCHANGED <<bufVars, connVars, loopVars>>
    BY <1>0, <1>10, ClientKeeps
  <2> QED BY <2>1 DEF BaseInv, TypeOK, ConnInv, LoopTypeOK, LoopInv, RecvRest,
              SendRest, Describes, Open, BlankSize, ExistSize, bufVars,
              connVars, loopVars
<1>11. CASE UNCHANGED vars
  <2>1. UNCHANGED <<sockVars, bufVars, connVars, loopVars>> BY <1>11 DEF vars
  <2>2. ConnInv' BY <1>0, <2>1, QuietKeeps DEF ConnTypeOK, connVars
  <2> QED BY <2>1, <2>2 DEF BaseInv, TypeOK, ConnInv, LoopTypeOK, LoopInv,
              RecvRest, SendRest, Describes, Open, BlankSize, ExistSize,
              bufVars, connVars, loopVars
<1> QED BY <1>3, <1>4, <1>5, <1>6, <1>7, <1>9, <1>10, <1>11 DEF Next, Server

-----------------------------------------------------------------------------
(***************************************************************************)
(* WriteControl speaks of the loop in epoll_wait, NeverDropsClient of a    *)
(* deleted connection.  Inside the handlers: the rule for EPOLLOUT holds   *)
(* through handle_write; once bytes may have been received only "on means  *)
(* not empty" is left of it; and the program with recvmsg, to which EAGAIN *)
(* is fatal, calls it only with something to return.                       *)
(***************************************************************************)
ToRead == pc = "recv_buf" \/ (pc = "handle_write" /\ EPOLLIN \in ev)

HandleInv ==
    /\ pc = "accept" => taken = 0 /\ Len(out) = 0
    /\ pc # "accept" => EPOLLIN \in epoll_event
    /\ pc \in {"epoll_wait", "handle_write"} => OutRule
    /\ pc \in {"recv_buf", "send_buf"} =>
          (EPOLLOUT \in epoll_event => taken > Len(out))
    /\ ~native /\ ToRead => RcvQueued > 0 \/ fin \/ rst
    /\ NeverDropsClient

\* Before the accept nothing has been received or sent.
LEMMA InitHandle == Init => HandleInv
<1> SUFFICES ASSUME Init PROVE HandleInv OBVIOUS
<1>1. Len(<< >>) = 0 OBVIOUS
<1> QED BY <1>1 DEF Init, ConnInit, SockInit, HandleInv, ToRead,
                   NeverDropsClient, Open

\* Giving up is right if the client is gone.
LEMMA GiveUpHandle ==
  ASSUME HandleInv, pc # "accept", Delete \/ SendError, fin \/ rst
  PROVE  HandleInv'
<1>1. pc' \in {"deleted", "killed"} /\ UNCHANGED <<fin, rst, epoll_event>>
  BY DEF Delete, SendError, sockVars
<1> QED BY <1>1 DEF HandleInv, ToRead, NeverDropsClient

\* After a send the mask is right, wherever the handler goes on.
LEMMA SentHandle ==
  ASSUME ConnInv, HandleInv, UNCHANGED <<ev, native>>, NEW v, NEW n \in Nat,
         Drain(v, n), epoll_event' = set_epollout(taken' > Len(out')),
         \/ pc' = "epoll_wait"
         \/ pc' = "recv_buf" /\ (native \/ ToRead)
  PROVE  HandleInv'
<1>1. UNCHANGED <<arrived, taken, fin, rst>> BY DEF Drain
<1>2. UNCHANGED RcvQueued BY <1>1 DEF RcvQueued
<1>3. OutRule' /\ EPOLLIN \in epoll_event'
      /\ (EPOLLOUT \in epoll_event' => taken' > Len(out'))
  BY DEF OutRule, set_epollout, EPOLLIN, EPOLLOUT
<1>4. ~native' /\ ToRead' => RcvQueued' > 0 \/ fin' \/ rst'
  BY <1>1, <1>2 DEF ToRead, HandleInv
<1>5. Open' BY DEF Open
<1> QED BY <1>3, <1>4, <1>5 DEF HandleInv, NeverDropsClient

\* After a receive EPOLLOUT may be off with bytes in the ring, not the reverse.
LEMMA ReceivedHandle ==
  ASSUME ConnInv, HandleInv, pc = "recv_buf", UNCHANGED <<epoll_event, ev, native>>,
         NEW v, NEW n \in Nat, Store(v, n),
         pc' = "send_buf" \/ (pc' = "recv_buf" /\ native)
  PROVE  HandleInv'
<1>1. taken' = taken + n /\ UNCHANGED out BY DEF Store
<1>2. taken \in Nat /\ Len(out) \in Nat BY Numbers
<1>3. taken > Len(out) => taken' > Len(out') BY <1>1, <1>2
<1>4. ~native' /\ ToRead' => FALSE BY DEF ToRead
<1>5. Open' BY DEF Open
<1> QED BY <1>3, <1>4, <1>5 DEF HandleInv, NeverDropsClient

\* Every step keeps HandleInv.
LEMMA NextHandle == BaseInv /\ HandleInv /\ [Next]_vars => HandleInv'
<1> SUFFICES ASSUME BaseInv, HandleInv, [Next]_vars PROVE HandleInv' OBVIOUS
<1>0. ConnInv /\ taken \in Nat /\ Len(out) \in Nat /\ Len(out) <= taken
      /\ ExistSize = taken - Len(out) /\ RcvQueued \in Nat
      /\ epoll_event \subseteq {EPOLLIN, EPOLLOUT}
  BY Numbers, WholeIovecs DEF BaseInv, ConnInv, ConnTypeOK
<1>1. CASE Acceptor_handle
  <2>1. /\ pc = "accept" /\ pc' = "epoll_wait" /\ epoll_event' = {EPOLLIN}
        /\ UNCHANGED <<taken, out>>
    BY <1>1 DEF Acceptor_handle, Accept, sockVars
  <2>2. ~(taken' > Len(out')) BY <2>1 DEF HandleInv
  <2>3. OutRule' BY <2>1, <2>2 DEF OutRule, EPOLLIN, EPOLLOUT
  <2> QED BY <2>1, <2>3 DEF HandleInv, ToRead, NeverDropsClient, Open
<1>2. CASE EpollWait
  <2>0. pc = "epoll_wait" BY <1>2 DEF EpollWait, Dispatch
  <2>1. CASE Delete /\ Level(epoll_event) \ {EPOLLIN, EPOLLOUT} # {}
    <3>1. rst BY <1>0, <2>1 DEF Level
    <3> QED BY <2>0, <2>1, <3>1, GiveUpHandle
  <2>2. CASE Level(epoll_event) \ {EPOLLIN, EPOLLOUT} = {}
    <3>1. /\ ev' = Level(epoll_event) /\ Level(epoll_event) # {}
          /\ pc' = IF EPOLLOUT \in Level(epoll_event)
                   THEN "handle_write" ELSE "recv_buf"
          /\ UNCHANGED <<arrived, taken, out, fin, rst, epoll_event>>
      BY <1>2, <2>2 DEF EpollWait, Dispatch, sockVars
    <3>2. OutRule /\ OutRule' BY <2>0, <3>1 DEF HandleInv, OutRule
    <3>3. EPOLLIN \in Level(epoll_event) => RcvQueued > 0 \/ fin \/ rst
      BY DEF Level, EPOLLIN, EPOLLOUT, EPOLLERR
    <3>4. EPOLLIN \in Level(epoll_event) \/ EPOLLOUT \in Level(epoll_event)
      BY <2>2, <3>1
    <3>5. ToRead' => RcvQueued' > 0 \/ fin' \/ rst'
      BY <3>1, <3>3, <3>4 DEF ToRead, RcvQueued
    <3>6. EPOLLOUT \in epoll_event' => taken' > Len(out')
      BY <3>2 DEF OutRule
    <3>7. Open' /\ EPOLLIN \in epoll_event'
      BY <2>0, <3>1 DEF Open, HandleInv
    <3> QED BY <3>1, <3>2, <3>5, <3>6, <3>7 DEF HandleInv, NeverDropsClient
  <2> QED BY <1>2, <2>1, <2>2 DEF EpollWait, Dispatch
<1>3. CASE recv_buf \/ recv_buf_native
  <2>0. pc = "recv_buf" BY <1>3 DEF recv_buf, recv_buf_native
  <2>1. CASE Return("send_buf")
    <3>1. pc' = "send_buf" /\ UNCHANGED <<taken, out, epoll_event>>
      BY <2>1 DEF Return, sockVars
    <3> QED BY <2>0, <3>1 DEF HandleInv, ToRead, NeverDropsClient, Open
  <2>2. CASE Delete /\ (fin \/ rst) BY <2>0, <2>2, GiveUpHandle
  <2>3. CASE recv_buf /\ Delete /\ RcvQueued = 0
    <3>1. ~native /\ ToRead BY <2>3 DEF recv_buf, ToRead
    <3>2. fin \/ rst BY <1>0, <2>3, <3>1 DEF HandleInv
    <3> QED BY <2>2, <2>3, <3>2
  <2>4. ASSUME NEW v, NEW n \in Nat, Store(v, n),
               UNCHANGED <<epoll_event, ev, native>>,
               pc' = "send_buf" \/ (pc' = "recv_buf" /\ native)
        PROVE  HandleInv'
    BY <1>0, <2>0, <2>4, ReceivedHandle
  <2>5. CASE recv_buf
    BY <1>0, <2>1, <2>3, <2>4, <2>5, RecvmsgEffect DEF loopVars
  <2>6. CASE recv_buf_native
    <3>1. native BY <2>6 DEF recv_buf_native
    <3> QED BY <2>1, <2>2, <2>4, <2>6, <3>1, RecvNativeEffect
  <2> QED BY <1>3, <2>5, <2>6
<1>4. CASE send_buf
  <2>0. pc = "send_buf" BY <1>4 DEF send_buf
  <2>1. CASE Return("epoll_wait") /\ ExistSize = 0
    <3>1. pc' = "epoll_wait" /\ UNCHANGED <<taken, out, epoll_event>>
      BY <2>1 DEF Return, sockVars
    <3>2. ~(taken > Len(out)) BY <1>0, <2>1
    <3>3. OutRule' BY <2>0, <3>1, <3>2 DEF OutRule, HandleInv
    <3> QED BY <2>0, <3>1, <3>3 DEF HandleInv, ToRead, NeverDropsClient, Open
  <2>2. CASE SendError /\ rst BY <2>0, <2>2, GiveUpHandle
  <2>3. ASSUME NEW n \in Nat, Drain(exist_iovec, n), UNCHANGED <<ev, loopVars>>,
               epoll_event' = set_epollout(taken' > Len(out')),
               pc' = "epoll_wait"
        PROVE  HandleInv'
    BY <1>0, <2>3, SentHandle DEF loopVars
  <2> QED BY <1>0, <1>4, <2>1, <2>2, <2>3, SendmsgEffect
<1>5. ASSUME NEW next, send_buf_native(next),
             \/ pc = "handle_write"
                /\ next = IF EPOLLIN \in ev THEN "recv_buf" ELSE "epoll_wait"
             \/ pc = "send_buf" /\ native /\ next = "epoll_wait"
      PROVE  HandleInv'
  <2>1. CASE Return(next) /\ ExistSize = 0
    <3>1. pc' = next /\ UNCHANGED <<arrived, taken, out, fin, rst, epoll_event, ev, native>>
      BY <2>1 DEF Return, sockVars, loopVars
    <3>2. ~(taken > Len(out)) BY <1>0, <2>1
    <3>3. EPOLLOUT \notin epoll_event BY <1>5, <3>2 DEF OutRule, HandleInv
    <3>4. OutRule' BY <3>1, <3>2, <3>3 DEF OutRule
    <3>5. ToRead' => ToRead BY <1>5, <3>1 DEF ToRead
    <3>6. UNCHANGED RcvQueued BY <3>1 DEF RcvQueued
    <3>7. Open' /\ pc' \in {"epoll_wait", "recv_buf"}
          /\ EPOLLIN \in epoll_event'
      BY <1>5, <3>1 DEF Open, HandleInv
    <3> QED BY <3>1, <3>3, <3>4, <3>5, <3>6, <3>7 DEF HandleInv, NeverDropsClient
  <2>2. CASE SendError /\ rst BY <1>5, <2>2, GiveUpHandle
  <2>3. ASSUME NEW v, NEW n \in Nat, Drain(v, n), UNCHANGED <<ev, native>>,
               epoll_event' = set_epollout(taken' > Len(out')), pc' = next
        PROVE  HandleInv'
    <3>1. pc' = "epoll_wait" \/ (pc' = "recv_buf" /\ (native \/ ToRead))
      BY <1>5, <2>3 DEF ToRead
    <3> QED BY <1>0, <2>3, <3>1, SentHandle
  <2>4. ASSUME NEW v, NEW n \in Nat, Drain(v, n), UNCHANGED <<ev, native>>,
               SockTypeOK' /\ BufTypeOK' /\ RingInv', Len(out') = Len(out) + n,
               epoll_event' = epoll_event, pc' = pc, SendRest'
        PROVE  HandleInv'
    <3>1. UNCHANGED <<arrived, taken, fin, rst>> BY <2>4 DEF Drain
    <3>2. taken' > Len(out')
      <4>1. ExistSize' = taken' - Len(out')
        BY <2>4, BufSizesNext DEF RingInv, BufSizesRight
      <4>2. taken' \in Nat /\ Len(out') \in Nat
        BY <2>4, SocketAssumption DEF SockTypeOK
      <4>3. ExistSize' > 0 BY <2>4 DEF SendRest
      <4> QED BY <4>1, <4>2, <4>3
    <3>3. taken > Len(out) BY <1>0, <2>4, <3>1, <3>2
    <3>4. OutRule => OutRule' BY <2>4, <3>2, <3>3 DEF OutRule
    <3>5. UNCHANGED RcvQueued BY <3>1 DEF RcvQueued
    <3>6. (ToRead' => ToRead) /\ Open' BY <1>5, <2>4 DEF ToRead, Open
    <3> QED BY <1>5, <2>4, <3>1, <3>2, <3>4, <3>5, <3>6
            DEF HandleInv, NeverDropsClient
  <2>5. pc = "handle_write" \/ (pc = "send_buf" /\ native) BY <1>5
  <2> QED BY <1>5, <2>1, <2>2, <2>3, <2>4, <2>5, SendNativeEffect
<1>6. CASE handle_write
  <2>1. PICK next : /\ next = IF EPOLLIN \in ev THEN "recv_buf" ELSE "epoll_wait"
                    /\ send_buf_native(next)
    BY <1>6 DEF handle_write
  <2> QED BY <1>5, <1>6, <2>1 DEF handle_write
<1>7. CASE handle_read_native
  BY <1>5, <1>7 DEF handle_read_native
<1>8. CASE Client /\ UNCHANGED loopVars
  <2>1. UNCHANGED <<taken, out, epoll_event, ev, pc, native>>
    BY <1>0, <1>8, ClientKeeps DEF connVars, loopVars
  <2>2. (arrived' = arrived \/ arrived' = arrived + 1)
        /\ (fin => fin') /\ (rst => rst')
    BY <1>8 DEF Client, Peer, ClientSend, ClientRead, ClientShutdown, ClientReset
  <2>3. RcvQueued > 0 => RcvQueued' > 0
    <3>1. arrived \in Nat /\ taken \in Nat BY <1>0, Numbers
    <3>2. RcvQueued' = RcvQueued \/ RcvQueued' = RcvQueued + 1
      BY <2>1, <2>2, <3>1 DEF RcvQueued
    <3> QED BY <1>0, <3>2
  <2> QED BY <2>1, <2>2, <2>3
          DEF HandleInv, OutRule, ToRead, NeverDropsClient, Open
<1>9. CASE UNCHANGED vars
  BY <1>9 DEF vars, sockVars, connVars, loopVars, HandleInv, OutRule, ToRead,
              NeverDropsClient, Open, RcvQueued
<1> QED BY <1>1, <1>2, <1>3, <1>4, <1>6, <1>7, <1>8, <1>9 DEF Next, Server

(***************************************************************************)
(* With both programs, through every interleaving of the client with the   *)
(* loops' calls, the ring and the echoed stream stay right and handle      *)
(* returns -1 only for a client that has left.                             *)
(***************************************************************************)
THEOREM StreamIsSafe == Spec => []StreamSafe
<1>1. Init => BaseInv /\ HandleInv BY InitBase, InitHandle
<1>2. BaseInv /\ HandleInv /\ [Next]_vars => (BaseInv /\ HandleInv)'
  BY NextBase, NextHandle
<1>3. BaseInv /\ HandleInv => StreamSafe
  BY DEF BaseInv, ConnInv, HandleInv, StreamSafe
<1> QED BY <1>1, <1>2, <1>3, PTL DEF Spec

(***************************************************************************)
(* Whenever the loop is back in epoll_wait EPOLLOUT is on exactly when the *)
(* ring is not empty, and EPOLLIN is on.                                   *)
(***************************************************************************)
THEOREM WriteIsControlled == Spec => []WriteControl
<1>1. Init => BaseInv /\ HandleInv BY InitBase, InitHandle
<1>2. BaseInv /\ HandleInv /\ [Next]_vars => (BaseInv /\ HandleInv)'
  BY NextBase, NextHandle
<1>3. HandleInv => WriteControl BY DEF HandleInv, WriteControl
<1> QED BY <1>1, <1>2, <1>3, PTL DEF Spec

-----------------------------------------------------------------------------
\* Every step is a step of EchoService or leaves what it sees unchanged.
LEMMA NextService ==
  BaseInv /\ BaseInv' /\ [Next]_vars => [Service!Next]_(Service!vars)
<1> SUFFICES ASSUME BaseInv, BaseInv', [Next]_vars
             PROVE  [Service!Next]_(Service!vars)
  OBVIOUS
<1>0. ConnInv /\ ConnInv' BY DEF BaseInv
<1>1. ASSUME Open, Delete \/ SendError PROVE [Service!Next]_(Service!vars)
  BY <1>0, <1>1, ServiceGiveUp
<1>2. ASSUME Open, NEW next \in {"epoll_wait", "recv_buf", "send_buf"},
             Return(next)
      PROVE  [Service!Next]_(Service!vars)
  <2>1. Open' = Open /\ UNCHANGED <<arrived, out, bufVars>>
    BY <1>2 DEF Return, Open, sockVars
  <2> QED BY <2>1, ServiceQuiet
<1>3. CASE Acceptor_handle
  <2>1. Open' = Open /\ UNCHANGED <<arrived, out, bufVars>>
    BY <1>3 DEF Acceptor_handle, Accept, Open, sockVars
  <2> QED BY <2>1, ServiceQuiet
<1>4. CASE EpollWait
  <2>1. Open BY <1>4 DEF EpollWait, Dispatch, Open
  <2>2. CASE ~ Delete
    <3>1. Open' = Open /\ UNCHANGED <<arrived, out, bufVars>>
      BY <1>4, <2>2 DEF EpollWait, Dispatch, Open, sockVars
    <3> QED BY <3>1, ServiceQuiet
  <2> QED BY <1>1, <2>1, <2>2
<1>5. CASE recv_buf \/ recv_buf_native
  <2>1. Open BY <1>5 DEF recv_buf, recv_buf_native, Open
  <2>2. ASSUME NEW v, NEW n \in Nat, n <= BlankSize, n <= RcvQueued, Store(v, n),
               pc' \in {"send_buf", "recv_buf"}
        PROVE  [Service!Next]_(Service!vars)
    <3>1. Open' BY <2>2 DEF Open
    <3> QED BY <1>0, <2>1, <2>2, <3>1, ServiceStore
  <2>3. CASE recv_buf
    BY <1>0, <1>1, <1>2, <2>1, <2>2, <2>3, RecvmsgEffect
  <2>4. CASE recv_buf_native
    BY <1>1, <1>2, <2>1, <2>2, <2>4, RecvNativeEffect
  <2> QED BY <1>5, <2>3, <2>4
<1>6. ASSUME Open, NEW v, NEW n \in Nat, n <= ExistSize, Drain(v, n),
             Len(out') = Len(out) + n,
             pc' \in {"send_buf", "recv_buf", "handle_write", "epoll_wait"}
      PROVE  [Service!Next]_(Service!vars)
  <2>1. Open' BY <1>6 DEF Open
  <2> QED BY <1>0, <1>6, <2>1, ServiceDrain
<1>7. CASE send_buf
  <2>1. Open BY <1>7 DEF send_buf, Open
  <2> QED BY <1>0, <1>1, <1>2, <1>6, <1>7, <2>1, SendmsgEffect
<1>8. ASSUME NEW next \in {"recv_buf", "epoll_wait"}, send_buf_native(next),
             pc = "handle_write" \/ (pc = "send_buf" /\ native)
      PROVE  [Service!Next]_(Service!vars)
  <2>1. Open BY <1>8 DEF Open
  <2> QED BY <1>1, <1>2, <1>6, <1>8, <2>1, SendNativeEffect
<1>9. CASE handle_write \/ handle_read_native
  BY <1>8, <1>9 DEF handle_write, handle_read_native
<1>10. CASE Client BY <1>0, <1>10, ServiceClient
<1>11. CASE UNCHANGED vars
  <2>1. Open' = Open /\ UNCHANGED <<arrived, out, bufVars>>
    BY <1>11 DEF vars, sockVars, connVars, Open
  <2> QED BY <2>1, ServiceQuiet
<1> QED BY <1>3, <1>4, <1>5, <1>7, <1>9, <1>10, <1>11 DEF Next, Server

(***************************************************************************)
(* Both programs implement the abstract echo service, the native one with  *)
(* one Receive or Send per segment: no byte is lost, repeated or reordered *)
(* and at most max_pkt_size - 1 are held.                                  *)
(***************************************************************************)
THEOREM ImplementsService == Spec => ServiceSpec
<1>1. Init => BaseInv /\ Service!Init BY InitBase, ServiceInit DEF Init
<1>2. BaseInv /\ [Next]_vars => BaseInv' BY NextBase
<1>3. BaseInv /\ BaseInv' /\ [Next]_vars => [Service!Next]_(Service!vars)
  BY NextService
<1> QED BY <1>1, <1>2, <1>3, PTL DEF Spec, ServiceSpec, Service!Spec
=============================================================================
