--------------------------- MODULE EchoConnection ---------------------------
(***************************************************************************)
(* What the echo servers' Connection classes have in common: the thread of *)
(* EventLoop::run that serves one Connection, from the accept4 that makes  *)
(* it to the delete that ends it, and what every such server owes its      *)
(* client.  A server's module adds its own handlers.                       *)
(*                                                                         *)
(* A step of the thread is one system call that moves bytes, with the code *)
(* up to the next one; the client acts between any two steps.  epoll_ctl   *)
(* is not a step of its own: only the same thread's next epoll_wait sees   *)
(* what it changes.                                                        *)
(***************************************************************************)
EXTENDS EchoBuffer

VARIABLES
    epoll_event,    \* the mask registered with epoll
    ev,             \* the events being handled
    pc              \* where the thread is

connVars == <<epoll_event, ev, pc>>

ConnTypeOK ==
    /\ SockTypeOK
    /\ BufTypeOK
    /\ epoll_event \subseteq {EPOLLIN, EPOLLOUT}
    /\ ev \subseteq {EPOLLIN, EPOLLOUT, EPOLLERR}

Open == pc \notin {"deleted", "killed"}

\* The handshake is done; the Acceptor has not been dispatched yet.
ConnInit ==
    /\ SockInit
    /\ BufInit
    /\ epoll_event = {}
    /\ ev = {}
    /\ pc = "accept"

\* Acceptor::handle: the Connection registers its socket with a first mask.
Accept(mask) ==
    /\ pc = "accept"
    /\ epoll_event' = mask
    /\ pc' = "epoll_wait"
    /\ UNCHANGED <<sockVars, bufVars, ev>>

\* handle() returned -1: EventLoop::run deletes the handler, which closes fd.
Delete ==
    /\ pc' = "deleted"
    /\ UNCHANGED <<sockVars, bufVars, epoll_event, ev>>

(***************************************************************************)
(* A send on a connection the peer has reset fails, and handle() returns   *)
(* -1.  If the peer's FIN came before the RST the errno is EPIPE and the   *)
(* kernel raises SIGPIPE, which these programs do not ignore.              *)
(***************************************************************************)
SendError ==
    /\ pc' = IF fin THEN "killed" ELSE "deleted"
    /\ UNCHANGED <<sockVars, bufVars, epoll_event, ev>>

\* EventLoop::run and the dispatch in handle(): EPOLLOUT goes first.
Dispatch(revents, write, read) ==
    /\ pc = "epoll_wait"
    /\ revents # {}
    /\ IF revents \ {EPOLLIN, EPOLLOUT} # {}
       THEN Delete
       ELSE /\ ev' = revents
            /\ pc' = IF EPOLLOUT \in revents THEN write ELSE read
            /\ UNCHANGED <<sockVars, bufVars, epoll_event>>

\* A step of the client.
Peer(A) == Open /\ A /\ UNCHANGED <<bufVars, connVars>>

Client ==
    \/ Peer(ClientSend)
    \/ Peer(ClientRead)
    \/ Peer(ClientShutdown)
    \/ Peer(ClientReset)

-----------------------------------------------------------------------------
(***************************************************************************)
(* outline.txt on level-triggered write flow control: "EPOLLOUT is enabled *)
(* exactly when the buffer is not empty", and on read flow control:        *)
(* "EPOLLIN is enabled exactly when the buffer is not full".               *)
(***************************************************************************)
OutRule == EPOLLOUT \in epoll_event <=> taken > Len(out)
InRule  == EPOLLIN \in epoll_event <=> taken - Len(out) < max_pkt_size - 1

(***************************************************************************)
(* The server ends a connection only because the client shut down or reset *)
(* it: no full ring, no full send queue and no EAGAIN at whatever moment   *)
(* makes handle() return -1 for a client that is still there.              *)
(***************************************************************************)
NeverDropsClient == Open \/ fin \/ rst

(***************************************************************************)
(* No busy loop: once the client is quiet the thread blocks in epoll_wait  *)
(* for good, even if the client never reads what it was sent.              *)
(***************************************************************************)
Quiesces == <>[](pc \in {"accept", "epoll_wait", "deleted", "killed"})

\* The client keeps reading: it never stops for good with bytes unread.
KeepsReading == []<>(acked = Len(out) \/ rst \/ ~Open)

(***************************************************************************)
(* Every byte that arrives is echoed, as long as the client reads what it  *)
(* is sent and neither shuts down nor resets the connection.               *)
(***************************************************************************)
EveryByteEchoed ==
    KeepsReading =>
        \A k \in 1 .. MaxBytes : arrived >= k ~> Len(out) >= k \/ fin \/ rst

(***************************************************************************)
(* A client that shuts down is noticed and its Connection deleted, as long *)
(* as it reads what it is sent: no fd is leaked, whatever was in transit   *)
(* when the FIN came.                                                      *)
(***************************************************************************)
ShutdownCloses == KeepsReading => (fin ~> ~Open)

(***************************************************************************)
(* The connection implements the abstract echo service with room for       *)
(* max_pkt_size - 1 bytes: nothing is lost, repeated or reordered between  *)
(* recvmsg and sendmsg.                                                    *)
(***************************************************************************)
Service == INSTANCE EchoService WITH
               Capacity <- max_pkt_size - 1, held <- Held, open <- Open

ServiceSpec == Service!Spec
=============================================================================
