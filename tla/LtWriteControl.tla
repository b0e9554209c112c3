--------------------------- MODULE LtWriteControl ---------------------------
(***************************************************************************)
(* The Connection of the level-triggered servers that switch EPOLLOUT only *)
(* (EPOLLIN stays registered): server_epollout_handle.cpp and its _native  *)
(* sibling.  Their *_native functions loop over the iovec array with one   *)
(* recv or send per segment; the loop variables are state because the      *)
(* client acts between two calls.                                          *)
(***************************************************************************)
EXTENDS EchoConnection

VARIABLES
    iov,        \* segments the running loop has not used yet (<<>>: no loop)
    left,       \* to_send - have_send of the running send loop
    native      \* the program is the _native one

loopVars == <<iov, left, native>>

vars == <<sockVars, bufVars, connVars, loopVars>>

LoopTypeOK ==
    /\ iov \in Seq([base : Cells, len : Cells])
    /\ Len(iov) <= 1
    /\ left \in 0 .. max_pkt_size - 1
    /\ native \in BOOLEAN

Init == ConnInit /\ iov = << >> /\ left = 0 /\ native \in BOOLEAN

\* Mutant: the flag is kept, the registration is not.
set_epollout_NoCtl(flag) == {EPOLLIN}

\* EPOLLIN | (flag ? EPOLLOUT : 0)
set_epollout(flag) == {EPOLLIN} \cup (IF flag THEN {EPOLLOUT} ELSE {})

Return(next) ==
    /\ pc' = next
    /\ UNCHANGED <<sockVars, bufVars, epoll_event, ev, loopVars>>

-----------------------------------------------------------------------------
\* Mutant: a short send in the loop does not stop it.
send_buf_native_NoBreak(next) ==
    LET segs    == IF iov = << >> THEN get_exist_iovec(f, p) ELSE iov
        to_send == IF iov = << >> THEN ExistSize ELSE left
        result  == send_result(segs[1].len)
        n       == IF result = Eagain THEN 0 ELSE result
        rest    == to_send - n
        more    == rest # 0 /\ Len(segs) > 1
    IN  IF to_send <= 0 THEN Return(next)
        ELSE IF result = Error THEN SendError /\ UNCHANGED loopVars
        ELSE /\ Drain(<< segs[1] >>, n)
             /\ epoll_event' = IF rest = 0 THEN set_epollout(FALSE)
                               ELSE IF n < segs[1].len THEN set_epollout(TRUE)
                               ELSE epoll_event
             /\ iov' = IF more THEN Tail(segs) ELSE << >>
             /\ left' = IF more THEN rest ELSE 0
             /\ pc' = IF more THEN pc ELSE next
             /\ UNCHANGED <<ev, native>>

\* One round of send_buf_native's loop; after the last one, go on at next.
send_buf_native(next) ==
    LET segs    == IF iov = << >> THEN get_exist_iovec(f, p) ELSE iov
        to_send == IF iov = << >> THEN ExistSize ELSE left
        result  == send_result(segs[1].len)
        n       == IF result = Eagain THEN 0 ELSE result
        rest    == to_send - n
        more    == rest # 0 /\ n = segs[1].len /\ Len(segs) > 1
    IN  IF to_send <= 0 THEN Return(next)
        ELSE IF result = Error THEN SendError /\ UNCHANGED loopVars
        ELSE /\ Drain(<< segs[1] >>, n)
             /\ epoll_event' = IF rest = 0 THEN set_epollout(FALSE)
                               ELSE IF n < segs[1].len THEN set_epollout(TRUE)
                               ELSE epoll_event
             /\ iov' = IF more THEN Tail(segs) ELSE << >>
             /\ left' = IF more THEN rest ELSE 0
             /\ pc' = IF more THEN pc ELSE next
             /\ UNCHANGED <<ev, native>>

-----------------------------------------------------------------------------
(***************************************************************************)
(* The write flow-control rule of outline.txt, in epoll_wait: EPOLLOUT is  *)
(* on exactly when the ring is not empty; EPOLLIN is never off.            *)
(***************************************************************************)
WriteControl == pc = "epoll_wait" => OutRule /\ EPOLLIN \in epoll_event

(***************************************************************************)
(* outline.txt on level triggering without EPOLLIN flow control: "if the   *)
(* buffer is full [epoll] wakes the thread without end; that costs CPU".   *)
(* That is the only busy loop: unless the ring stays full for good, the    *)
(* thread ends up blocked in epoll_wait once the client is quiet.          *)
(***************************************************************************)
QuiescesUnlessFull ==
    \/ Quiesces
    \/ <>[](taken - Len(out) = max_pkt_size - 1)
=============================================================================
