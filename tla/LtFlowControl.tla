--------------------------- MODULE LtFlowControl ---------------------------
(***************************************************************************)
(* The Connection of the level-triggered servers that switch both EPOLLOUT *)
(* and EPOLLIN: server_epollout_epollin_handle.cpp, its _native sibling    *)
(* and tcp_echo1/main/server_epoll_lt_recvmsg.cpp.  They differ in the     *)
(* iovec they give the kernel, which is a parameter here.                  *)
(***************************************************************************)
EXTENDS EchoConnection

VARIABLE native     \* the program is the _native one

vars == <<sockVars, bufVars, connVars, native>>

\* Types, and the steps the loop thread can be at.
TypeOK ==
    /\ ConnTypeOK
    /\ pc \in {"accept", "epoll_wait", "handle_write", "recv_buf", "send_buf",
               "deleted", "killed"}
    /\ native \in BOOLEAN

set_epollout(mask, flag) ==
    IF flag THEN mask \cup {EPOLLOUT} ELSE mask \ {EPOLLOUT}

\* Mutant: EPOLLIN is never switched off.
set_epollin_AlwaysOn(mask, flag) == mask \cup {EPOLLIN}

set_epollin(mask, flag) ==
    IF flag THEN mask \cup {EPOLLIN} ELSE mask \ {EPOLLIN}

-----------------------------------------------------------------------------
\* Mutant: EAGAIN from sendmsg is an error like any other.
transmit_EagainFatal(iov, next) ==
    LET to_send == ExistSize
        result  == send_result(iov_total(iov))
    IN  IF to_send > 0 /\ result = Error THEN SendError
        ELSE IF to_send > 0 /\ result = Eagain THEN Delete
        ELSE /\ Drain(iov, IF to_send = 0 THEN 0 ELSE result)
             /\ epoll_event' = IF to_send > 0
                               THEN set_epollin(set_epollout(epoll_event,
                                                             result # to_send),
                                                TRUE)
                               ELSE set_epollout(epoll_event, FALSE)
             /\ pc' = next
             /\ UNCHANGED ev

\* recv_buf and, in handle_read, the test of what it returned.
receive(iov) ==
    LET to_read  == BlankSize
        result   == recv_result(iov_total(iov))
        recv_len == IF to_read = 0 \/ result = Eagain THEN 0 ELSE result
        to_read1 == get_blank_size(f, add_exist(p, recv_len))
    IN  /\ pc = "recv_buf"
        /\ IF \/ to_read < 0
              \/ to_read > 0 /\ result \in {0, Error}
              \/ to_read1 < 0
           THEN Delete
           ELSE /\ Store(iov, recv_len)
                /\ epoll_event' = set_epollin(epoll_event, to_read1 # 0)
                /\ pc' = IF recv_len > 0 THEN "send_buf" ELSE "epoll_wait"
                /\ UNCHANGED ev

(***************************************************************************)
(* send_buf, and what both its callers do with a positive count: space was *)
(* freed, so EPOLLIN is enabled again.                                     *)
(***************************************************************************)
transmit(iov, next) ==
    LET to_send  == ExistSize
        result   == send_result(iov_total(iov))
        send_len == IF to_send = 0 \/ result = Eagain THEN 0 ELSE result
        to_send1 == get_exist_size(add_blank(f, send_len), p)
        mask     == set_epollout(epoll_event, to_send1 # 0)
    IN  IF to_send > 0 /\ result = Error THEN SendError
        ELSE IF to_send < 0 \/ to_send1 < 0 THEN Delete
        ELSE /\ Drain(iov, send_len)
             /\ epoll_event' = IF send_len > 0 THEN set_epollin(mask, TRUE)
                                               ELSE mask
             /\ pc' = next
             /\ UNCHANGED ev

-----------------------------------------------------------------------------
(***************************************************************************)
(* Both flow-control rules of outline.txt, whenever the loop is back in    *)
(* epoll_wait, whichever of the two handlers ran and whatever partial read *)
(* and write they did.                                                     *)
(***************************************************************************)
FlowControl == pc = "epoll_wait" => OutRule /\ InRule

(***************************************************************************)
(* outline.txt: "the result of the activity is that at least one side      *)
(* becomes inactive".  After send_buf has sent, the ring is empty or the   *)
(* send queue is full; after recv_buf has received, the ring is full or    *)
(* the receive queue is empty.  (The _native program needs a second event  *)
(* for that when the ring is wrapped.)                                     *)
(***************************************************************************)
ExhaustsOneSide ==
    [][~native =>
       /\ Len(out') > Len(out) => taken' = Len(out') \/ SndRoom' = 0
       /\ taken' > taken => \/ taken' - Len(out') = max_pkt_size - 1
                            \/ RcvQueued' = 0]_vars

(***************************************************************************)
(* The switching of both event bits by set_epollin and set_epollout never  *)
(* costs progress: the loop comes to rest when nobody acts, every byte     *)
(* comes back to a client that reads, a FIN closes the connection, and     *)
(* each activity leaves one side inactive.                                 *)
(***************************************************************************)
FlowProgress == Quiesces /\ EveryByteEchoed /\ ShutdownCloses /\ ExhaustsOneSide

=============================================================================
