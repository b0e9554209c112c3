----------------------- MODULE EpolletEpolloutHandle -----------------------
(***************************************************************************)
(* server_epollet_epollout_handle.cpp, and with the same Connection        *)
(* tcp_echo1/main/server_epoll_et_recvmsg.cpp: EPOLLIN | EPOLLOUT |        *)
(* EPOLLET registered once, no epoll_ctl afterwards.  The code comments    *)
(* "at this stage not support read flow control, just assume the read buf  *)
(* is enough": window is how much the client has in transit at most, and   *)
(* both clients that keep to that and clients that overrun are considered. *)
(***************************************************************************)
EXTENDS EchoConnection

CONSTANT Windows    \* bounds: bytes sent by the client and not read back

ASSUME WindowAssumption == Windows \subseteq Nat

(***************************************************************************)
(* The kernel's side of edge triggering.  An event of the socket puts it   *)
(* on epoll's ready list; epoll_wait takes it off and reports everything   *)
(* that is true of it then.  Freed send space is such an event only if     *)
(* somebody found the queue too full before (SOCK_NOSPACE).                *)
(***************************************************************************)
VARIABLES
    ready,      \* the socket is on the ready list
    nospace,    \* SOCK_NOSPACE
    window      \* the most this client ever has in transit

edgeVars == <<ready, nospace>>

vars == <<sockVars, bufVars, connVars, edgeVars, window>>

\* Types, and the steps the loop thread can be at.
TypeOK ==
    /\ ConnTypeOK
    /\ ready \in BOOLEAN /\ nospace \in BOOLEAN /\ window \in Windows
    /\ pc \in {"accept", "epoll_wait", "handle_write", "recv_buf", "send_buf",
               "deleted", "killed"}

\* This file's copy of class RingBuffer.
blank_iovec == get_blank_iovec(f, p)
exist_iovec == get_exist_iovec(f, p)

Init ==
    /\ ConnInit
    /\ ready = FALSE /\ nospace = FALSE
    /\ window \in Windows

\* A new socket is writable: registering it finds it ready.
Acceptor_handle ==
    /\ Accept({EPOLLIN, EPOLLOUT})
    /\ ready' = TRUE
    /\ UNCHANGED nospace

\* Looking at a full send queue asks for an event once there is space.
EpollWait ==
    /\ pc = "epoll_wait" /\ ready
    /\ ready' = FALSE
    /\ nospace' = (nospace \/ SndRoom < SndLowat)
    /\ IF Level(epoll_event) = {}
       THEN UNCHANGED <<sockVars, bufVars, connVars>>
       ELSE Dispatch(Level(epoll_event), "handle_write", "recv_buf")

-----------------------------------------------------------------------------
\* Mutant: a ring with one blank cell left is taken for full.
recv_buf_FullTooEarly ==
    LET result == recv_result(iov_total(blank_iovec))
    IN  /\ pc = "recv_buf"
        /\ IF BlankSize <= 1 \/ result <= 0 THEN Delete
           ELSE /\ Store(blank_iovec, result)
                /\ pc' = "send_buf"
                /\ UNCHANGED <<epoll_event, ev>>
        /\ UNCHANGED edgeVars

\* A full ring is an error, and so is everything recvmsg returns but a count.
recv_buf ==
    LET result == recv_result(iov_total(blank_iovec))
    IN  /\ pc = "recv_buf"
        /\ IF BlankSize <= 0 \/ result <= 0 THEN Delete
           ELSE /\ Store(blank_iovec, result)
                /\ pc' = "send_buf"
                /\ UNCHANGED <<epoll_event, ev>>
        /\ UNCHANGED edgeVars

\* sendmsg that could not take everything sets SOCK_NOSPACE.
send_buf(next) ==
    LET result == send_result(iov_total(exist_iovec))
        n      == IF ExistSize <= 0 \/ result = Eagain THEN 0 ELSE result
    IN  /\ IF ExistSize > 0 /\ result = Error THEN SendError
           ELSE /\ Drain(exist_iovec, n)
                /\ pc' = next
                /\ UNCHANGED <<epoll_event, ev>>
        /\ nospace' = (nospace \/ (ExistSize > 0 /\ n < iov_total(exist_iovec)))
        /\ UNCHANGED ready

handle_write ==
    /\ pc = "handle_write"
    /\ send_buf(IF EPOLLIN \in ev THEN "recv_buf" ELSE "epoll_wait")

\* Mutant: what was received waits for the next EPOLLOUT.
handle_read_NoSend ==
    /\ pc = "send_buf"
    /\ pc' = "epoll_wait"
    /\ UNCHANGED <<sockVars, bufVars, epoll_event, ev, edgeVars>>

\* The second half of handle_read.
handle_read ==
    /\ pc = "send_buf"
    /\ send_buf("epoll_wait")

Server ==
    \/ Acceptor_handle
    \/ EpollWait
    \/ recv_buf
    \/ handle_write
    \/ handle_read

-----------------------------------------------------------------------------
\* Data, FIN and RST wake the socket's epoll entry.
Wakes(A) == Peer(A) /\ ready' = TRUE /\ UNCHANGED nospace

SendInWindow == arrived - acked < window /\ ClientSend

\* Enough freed space wakes it if SOCK_NOSPACE is set, and clears the flag.
Reads ==
    LET wake == nospace /\ SndRoom' >= SndLowat
    IN  /\ Peer(ClientRead)
        /\ ready' = (ready \/ wake)
        /\ nospace' = (nospace /\ ~wake)

EdgeClient ==
    \/ Wakes(SendInWindow)
    \/ Wakes(ClientShutdown)
    \/ Wakes(ClientReset)
    \/ Reads

Next == (Server \/ EdgeClient) /\ UNCHANGED window

Spec == Init /\ [][Next]_vars

\* The loop thread keeps running; the client owes nothing.
FairSpec == Spec /\ WF_vars(Server /\ UNCHANGED window)

-----------------------------------------------------------------------------
\* "The read buf is enough": no more is in transit than the ring holds.
Enough == window < max_pkt_size

Asleep == pc = "epoll_wait" /\ ~ready

(***************************************************************************)
(* outline.txt on edge-triggered writing: "once there is data write it at  *)
(* once; what could not be written means the fd is not writable: wait for  *)
(* the next EPOLLOUT event".  The thread never sleeps on bytes that no     *)
(* EPOLLOUT event will come for.                                           *)
(***************************************************************************)
NoLostWrite ==
    Asleep /\ taken > Len(out) => nospace /\ SndRoom < SndLowat

(***************************************************************************)
(* outline.txt on edge-triggered reading: "the user has to read the fd,    *)
(* once readable, until it is not readable any more".                      *)
(***************************************************************************)
ReadsUntilUnreadable == Asleep => RcvQueued = 0 /\ ~fin

(***************************************************************************)
(* The part of that rule the code does keep as long as the ring is large   *)
(* enough: no byte is left in the receive queue without a coming event.    *)
(***************************************************************************)
NoLostRead == Enough /\ Asleep => RcvQueued = 0

(***************************************************************************)
(* A client that overruns the ring is the only one that is cut off without *)
(* having shut down or reset the connection, and only with a full ring.    *)
(***************************************************************************)
DropsOnlyOverrun ==
    \/ NeverDropsClient
    \/ ~Enough /\ taken - Len(out) = max_pkt_size - 1

(***************************************************************************)
(* No edge is missed: every byte of a client that keeps to the ring's size *)
(* and reads what it is sent is echoed.                                    *)
(***************************************************************************)
EchoedIfEnough == Enough => EveryByteEchoed

(***************************************************************************)
(* Ring and echoed stream stay right, and handle returns -1 only for a     *)
(* client that has left or has overrun the ring.                           *)
(***************************************************************************)
StreamSafe == TypeOK /\ RingInv /\ DropsOnlyOverrun

(***************************************************************************)
(* Whenever the loop sleeps without a pending edge there is nothing it     *)
(* could write and, with a client within the window, nothing to read.      *)
(***************************************************************************)
NoLostEdges == NoLostWrite /\ NoLostRead

=============================================================================
