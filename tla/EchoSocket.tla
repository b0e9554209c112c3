----------------------------- MODULE EchoSocket -----------------------------
(***************************************************************************)
(* What an echo server's Connection sees of the outside: one accepted      *)
(* non-blocking TCP socket and the client behind it.  This is kernel and   *)
(* client behaviour, modelled from how the servers call recv, recvmsg,     *)
(* send, sendmsg and epoll_wait; none of it is code of the repository.     *)
(*                                                                         *)
(* The bytes the client sends are numbered 1, 2, ... and a byte is         *)
(* represented by its number.                                              *)
(***************************************************************************)
EXTENDS RingBuffer

CONSTANTS
    RcvCap,     \* bytes the socket's receive queue holds
    SndCap,     \* bytes that fit between sendmsg and the client's read
    SndLowat,   \* free send space at which the kernel reports EPOLLOUT
    MaxBytes    \* bound: bytes the client sends in all

ASSUME SocketAssumption ==
    /\ RcvCap \in Nat \ {0} /\ SndCap \in Nat \ {0} /\ MaxBytes \in Nat
    /\ SndLowat \in 1 .. SndCap

VARIABLES
    arrived,    \* bytes that have reached the receive queue so far
    taken,      \* how many of them the server has received
    out,        \* the bytes the server has sent, in order
    acked,      \* how many of those the client has read
    fin,        \* the client has shut down its sending side
    rst         \* the client has reset the connection

sockVars == <<arrived, taken, out, acked, fin, rst>>

SockTypeOK ==
    /\ arrived \in 0 .. MaxBytes
    /\ taken \in 0 .. arrived
    /\ out \in Seq(Nat)
    /\ acked \in 0 .. Len(out)
    /\ fin \in BOOLEAN /\ rst \in BOOLEAN

SockInit ==
    /\ arrived = 0 /\ taken = 0
    /\ out = << >> /\ acked = 0
    /\ fin = FALSE /\ rst = FALSE

Smaller(a, b) == IF a <= b THEN a ELSE b

RcvQueued == arrived - taken
SndRoom   == SndCap - (Len(out) - acked)

-----------------------------------------------------------------------------
(***************************************************************************)
(* What the calls return: a count, 0 for end of stream, Eagain for -1 with *)
(* errno EAGAIN, Error for -1 with any other errno.  Bytes that arrived    *)
(* before a FIN or a RST can still be received.                            *)
(***************************************************************************)
Eagain == -1
Error  == -2

recv_result(len) ==
    IF RcvQueued > 0 THEN Smaller(RcvQueued, len)
    ELSE IF fin THEN 0
    ELSE IF rst THEN Error
    ELSE Eagain

send_result(len) ==
    IF rst THEN Error
    ELSE IF SndRoom > 0 THEN Smaller(SndRoom, len)
    ELSE Eagain

\* The events a level-triggered epoll_wait reports for a registered mask.
EPOLLIN  == "EPOLLIN"
EPOLLOUT == "EPOLLOUT"
EPOLLERR == "EPOLLERR"    \* with EPOLLHUP: reported whatever the mask

Level(mask) ==
    {e \in mask \cup {EPOLLERR} :
        \/ e = EPOLLIN  /\ (RcvQueued > 0 \/ fin \/ rst)
        \/ e = EPOLLOUT /\ (SndRoom >= SndLowat \/ rst)
        \/ e = EPOLLERR /\ rst}

-----------------------------------------------------------------------------
\* A byte of the client arrives.
ClientSend ==
    /\ ~fin /\ ~rst
    /\ RcvQueued < RcvCap
    /\ arrived < MaxBytes
    /\ arrived' = arrived + 1
    /\ UNCHANGED <<taken, out, acked, fin, rst>>

\* The client reads one echoed byte, which frees send space.
ClientRead ==
    /\ ~rst
    /\ acked < Len(out)
    /\ acked' = acked + 1
    /\ UNCHANGED <<arrived, taken, out, fin, rst>>

\* shutdown(SHUT_WR): the client will send no more, but still reads.
ClientShutdown ==
    /\ ~fin /\ ~rst
    /\ fin' = TRUE
    /\ UNCHANGED <<arrived, taken, out, acked, rst>>

\* The connection is reset: the client closed with unread data, or died.
ClientReset ==
    /\ ~rst
    /\ rst' = TRUE
    /\ UNCHANGED <<arrived, taken, out, acked, fin>>
=============================================================================
