--------------------------- MODULE EpolloutHandle ---------------------------
(***************************************************************************)
(* Two programs.  In server_epollout_handle.cpp handle_read receives with  *)
(* recvmsg and sends with sendmsg, and handle_write sends segment by       *)
(* segment.  In its _native sibling both handlers use recv and send, one   *)
(* call per segment.                                                       *)
(***************************************************************************)
EXTENDS LtWriteControl

\* Types, and the steps the loop thread can be at.
TypeOK ==
    /\ ConnTypeOK
    /\ LoopTypeOK
    /\ pc \in {"accept", "epoll_wait", "handle_write", "recv_buf", "send_buf",
               "deleted", "killed"}

\* What the files' copies of class RingBuffer hand to the system calls.
blank_iovec    == get_blank_iovec(f, p)
exist_iovec    == get_exist_iovec(f, p)
blank_segments == get_blank_iovec(f, p)

Acceptor_handle == Accept({EPOLLIN}) /\ UNCHANGED loopVars

EpollWait ==
    /\ Dispatch(Level(epoll_event), "handle_write", "recv_buf")
    /\ UNCHANGED loopVars

handle_write ==
    /\ pc = "handle_write"
    /\ send_buf_native(IF EPOLLIN \in ev THEN "recv_buf" ELSE "epoll_wait")

\* Connection::recv_buf: a full ring is no error, a failed recvmsg always is.
recv_buf ==
    LET result == recv_result(iov_total(blank_iovec))
    IN  /\ pc = "recv_buf" /\ ~native
        /\ IF BlankSize <= 0 THEN Return("send_buf")
           ELSE IF result <= 0 THEN Delete /\ UNCHANGED loopVars
           ELSE /\ Store(blank_iovec, result)
                /\ pc' = "send_buf"
                /\ UNCHANGED <<epoll_event, ev, loopVars>>

\* Mutant: EPOLLOUT is asked for only when nothing at all could be sent.
send_buf_OnlyOnEagain ==
    LET result == send_result(iov_total(exist_iovec))
        n      == IF result = Eagain THEN 0 ELSE result
    IN  /\ pc = "send_buf" /\ ~native
        /\ IF ExistSize <= 0 THEN Return("epoll_wait")
           ELSE IF result = Error THEN SendError /\ UNCHANGED loopVars
           ELSE /\ Drain(exist_iovec, n)
                /\ epoll_event' = set_epollout(n = 0)
                /\ pc' = "epoll_wait"
                /\ UNCHANGED <<ev, loopVars>>

\* Connection::send_buf, the second half of handle_read.
send_buf ==
    LET result == send_result(iov_total(exist_iovec))
        n      == IF result = Eagain THEN 0 ELSE result
    IN  /\ pc = "send_buf" /\ ~native
        /\ IF ExistSize <= 0 THEN Return("epoll_wait")
           ELSE IF result = Error THEN SendError /\ UNCHANGED loopVars
           ELSE /\ Drain(exist_iovec, n)
                /\ epoll_event' = set_epollout(n # ExistSize)
                /\ pc' = "epoll_wait"
                /\ UNCHANGED <<ev, loopVars>>

\* Mutant: the loop goes on to the second segment after a short read.
recv_buf_native_NoBreak ==
    LET segs   == IF iov = << >> THEN blank_segments ELSE iov
        result == recv_result(segs[1].len)
        n      == IF result = Eagain THEN 0 ELSE result
        more   == Len(segs) > 1
    IN  /\ pc = "recv_buf" /\ native
        /\ IF iov = << >> /\ BlankSize <= 0 THEN Return("send_buf")
           ELSE IF result \in {0, Error} THEN Delete /\ UNCHANGED loopVars
           ELSE /\ Store(<< segs[1] >>, n)
                /\ iov' = IF more THEN Tail(segs) ELSE << >>
                /\ pc' = IF more THEN pc ELSE "send_buf"
                /\ UNCHANGED <<epoll_event, ev, left, native>>

(***************************************************************************)
(* One round of recv_buf_native's loop.  End of stream on the second       *)
(* segment gives the connection up, with what the first one received.      *)
(***************************************************************************)
recv_buf_native ==
    LET segs   == IF iov = << >> THEN blank_segments ELSE iov
        result == recv_result(segs[1].len)
        n      == IF result = Eagain THEN 0 ELSE result
        more   == n = segs[1].len /\ Len(segs) > 1
    IN  /\ pc = "recv_buf" /\ native
        /\ IF iov = << >> /\ BlankSize <= 0 THEN Return("send_buf")
           ELSE IF result \in {0, Error} THEN Delete /\ UNCHANGED loopVars
           ELSE /\ Store(<< segs[1] >>, n)
                /\ iov' = IF more THEN Tail(segs) ELSE << >>
                /\ pc' = IF more THEN pc ELSE "send_buf"
                /\ UNCHANGED <<epoll_event, ev, left, native>>

\* The second half of handle_read.
handle_read_native ==
    /\ pc = "send_buf" /\ native
    /\ send_buf_native("epoll_wait")

Server ==
    \/ Acceptor_handle
    \/ EpollWait
    \/ handle_write
    \/ recv_buf
    \/ send_buf
    \/ recv_buf_native
    \/ handle_read_native

Next == Server \/ (Client /\ UNCHANGED loopVars)

Spec == Init /\ [][Next]_vars

\* The loop thread keeps running; the client owes nothing.
FairSpec == Spec /\ WF_vars(Server)

(***************************************************************************)
(* Through the two calls per segment of the native loops the ring and the  *)
(* echoed stream stay right, and handle returns -1 only for a client that  *)
(* has left.                                                               *)
(***************************************************************************)
StreamSafe == TypeOK /\ RingInv /\ NeverDropsClient

(***************************************************************************)
(* The loop comes to rest unless the ring is full, every byte comes back   *)
(* to a client that reads, and a FIN closes the connection.                *)
(***************************************************************************)
WriteProgress == QuiescesUnlessFull /\ EveryByteEchoed /\ ShutdownCloses

=============================================================================
