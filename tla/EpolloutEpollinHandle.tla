----------------------- MODULE EpolloutEpollinHandle -----------------------
(***************************************************************************)
(* Two programs that differ in two functions.                              *)
(* server_epollout_epollin_handle.cpp calls recvmsg and sendmsg over the   *)
(* whole blank or filled part of the ring.  Its _native sibling calls recv *)
(* and send on the first segment only; level triggering brings the thread  *)
(* back for the second one.                                                *)
(***************************************************************************)
EXTENDS LtFlowControl

Init == ConnInit /\ native \in BOOLEAN

\* Acceptor::handle and Connection::Connection.
Acceptor_handle == Accept({EPOLLIN})

\* EventLoop::run up to the first system call of Connection::handle.
EpollWait == Dispatch(Level(epoll_event), "handle_write", "recv_buf")

\* What the files' copies of class RingBuffer hand to the system calls.
blank_iovec == get_blank_iovec(f, p)
exist_iovec == get_exist_iovec(f, p)
blank_first == << get_blank_iovec(f, p)[1] >>
exist_first == << get_exist_iovec(f, p)[1] >>

recv_buf == ~native /\ receive(blank_iovec)

recv_buf_native == native /\ receive(blank_first)

send_buf(next) == ~native /\ transmit(exist_iovec, next)

\* Mutant: send is given the start of the array, not the first filled cell.
send_buf_native_WrongBase(next) ==
    native /\ transmit(<< [exist_first[1] EXCEPT !.base = 0] >>, next)

send_buf_native(next) == native /\ transmit(exist_first, next)

handle_write ==
    /\ pc = "handle_write"
    /\ LET next == IF EPOLLIN \in ev THEN "recv_buf" ELSE "epoll_wait"
       IN  send_buf(next) \/ send_buf_native(next)

\* Mutant: handle_read does not try to send what it has just received.
handle_read_NoSend ==
    /\ pc = "send_buf"
    /\ pc' = "epoll_wait"
    /\ UNCHANGED <<sockVars, bufVars, epoll_event, ev>>

\* The second half of handle_read.
handle_read ==
    /\ pc = "send_buf"
    /\ send_buf("epoll_wait") \/ send_buf_native("epoll_wait")

Server ==
    \/ Acceptor_handle
    \/ EpollWait
    \/ recv_buf
    \/ recv_buf_native
    \/ handle_write
    \/ handle_read

Next == (Server \/ Client) /\ UNCHANGED native

Spec == Init /\ [][Next]_vars

\* The loop thread keeps running; the client owes nothing.
FairSpec == Spec /\ WF_vars(Server /\ UNCHANGED native)
=============================================================================
