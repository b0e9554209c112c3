--------------------------- MODULE ResponseServers ---------------------------
(***************************************************************************)
(* The servers of tcp_echo that answer a request, or the connection itself,*)
(* with a fixed response larger than a socket buffer.  rp is the program:  *)
(*   simple   server_epollet_simple: edge-triggered, answers the connection*)
(*   ref_et   server_epollet_ref,  ref_lt  server_epollout_ref             *)
(*   resp_lt  server_epollout_response: level-triggered, EPOLLOUT on demand*)
(*   resp_et  server_epollet_epollout_response: edge-triggered             *)
(* Connections share the descriptors and the end of the process and nothing*)
(* else.  So there is one here, which may find no descriptor left; the     *)
(* others end the process the same ways as it does.  Every recv and send is*)
(* a step of its own: the client sends, reads, finishes and resets between *)
(* any two.  Lengths are in units: a request has ReqLen of them, the       *)
(* response RespLen.                                                       *)
(***************************************************************************)
EXTENDS Integers, Sequences, FiniteSets, FiniteSetsExt

CONSTANTS
    ReqLen,         \* units of a request
    RespLen,        \* response_size, reponse_size, httpRes.length()
    MaxPkt,         \* max_pkt_size: what a ring buffer allocates
    Window,         \* units the kernel keeps for a client that does not read
    MaxSent         \* bound: units the client sends

ASSUME ResponseAssumption ==
    /\ ReqLen \in Nat \ {0} /\ RespLen \in Nat \ {0} /\ Window \in Nat \ {0}
    /\ MaxPkt \in Nat /\ MaxPkt > ReqLen /\ MaxSent \in Nat

RespPrograms == {"simple", "ref_et", "ref_lt", "resp_lt", "resp_et"}
CoPrograms == {"co", "co1"}         \* module CoroutineServers
EdgeTriggered == {"simple", "ref_et", "resp_et"} \cup CoPrograms

VARIABLES
    rp,         \* the program
    rk,         \* the connection in the kernel, with its client
    rs,         \* the connection in the server
    rproc       \* "up", or what ended the process

respVars == <<rp, rk, rs, rproc>>

NoConnection(pos) ==
    [pc |-> "none", ev |-> {}, f |-> 0, len |-> 0, cnt |-> 0, pos |-> pos, out |-> FALSE]

\* A Connection of simple starts with the response, one of ref_* without.
simple_main == rp = "simple" /\ rs = NoConnection(0)
ref_et_main == rp = "ref_et" /\ rs = NoConnection(0)
ref_lt_main == rp = "ref_lt" /\ rs = NoConnection(0)

\* One of resp_* has no response under way: send_pos is at its end.
resp_lt_main == rp = "resp_lt" /\ rs = NoConnection(RespLen)
resp_et_main == rp = "resp_et" /\ rs = NoConnection(RespLen)

\* A coroutine has nothing in its hands.
CoMain == rp \in CoPrograms /\ rs = NoConnection(0)

\* got: units sent to the client, lost: those of them that a reset has dropped;
\* edge: on epoll's ready list; nospace: the kernel owes a wake-up for space;
\* fds: the other connections leave a descriptor for this one.
RespInit ==
    /\ \/ simple_main \/ ref_et_main \/ ref_lt_main
       \/ resp_lt_main \/ resp_et_main \/ CoMain
    /\ rk = [peer |-> "idle", sent |-> 0, inq |-> 0, err |-> "none", unread |-> 0,
             got |-> 0, lost |-> 0, edge |-> FALSE, nospace |-> FALSE, fds |-> TRUE]
    /\ rproc = "up"

\* Types.  peer is "aborted" when the server's end has reset the connection; len
\* is what the ring buffer, or readed, holds.
RespTypeOK ==
    /\ rp \in RespPrograms \cup CoPrograms /\ rproc \in {"up", "sigpipe", "exit", "abort"}
    /\ rk.peer \in {"idle", "open", "fin", "rst", "aborted"} /\ rk.fds \in BOOLEAN
    /\ rk.unread \in 0 .. Window
    /\ rk.err \in {"none", "ECONNRESET", "EPIPE", "shut"} /\ rk.inq \in 0 .. MaxSent
    /\ rs.pc \in {"none", "ctor", "wait", "recv", "recv2", "write", "closed"}
    /\ rs.ev \subseteq {"IN", "OUT", "HUP"} /\ (rp \in RespPrograms => rs.pos \in 0 .. RespLen)
    /\ rp \in {"resp_lt", "resp_et"} => rs.len \in 0 .. MaxPkt - 1 /\ rs.f \in 0 .. MaxPkt - 1

-----------------------------------------------------------------------------
(* The client and the kernel *)

RespConnect ==
    /\ rk.peer = "idle" /\ rk' = [rk EXCEPT !.peer = "open"]
    /\ UNCHANGED <<rs, rproc>>

\* While the connection waits to be accepted, the others take the last
\* descriptor and give it back.
OtherConnections ==
    /\ rproc = "up" /\ rs.pc = "none" /\ rk' = [rk EXCEPT !.fds = ~@]
    /\ UNCHANGED <<rs, rproc>>

\* The server's end resets the connection: what has not reached the client
\* yet, the last units, is dropped.
Aborted(lost) ==
    [rk EXCEPT !.peer = "aborted", !.unread = @ - lost, !.lost = lost]

\* n units in one segment; to a closed socket they are answered with a reset.
RespClientSend(n) ==
    /\ rk.peer = "open" /\ rk.sent + n <= MaxSent
    /\ \E k \in IF rs.pc = "closed" THEN {Aborted(lost) : lost \in 0 .. rk.unread} ELSE {rk} :
          rk' = [k EXCEPT !.sent = @ + n, !.inq = @ + n, !.edge = TRUE]
    /\ UNCHANGED <<rs, rproc>>

RespClientRead ==
    /\ rk.unread > 0 /\ rk.peer # "rst"
    /\ rk' = [rk EXCEPT !.unread = 0, !.edge = @ \/ rk.nospace, !.nospace = FALSE]
    /\ UNCHANGED <<rs, rproc>>

RespClientFin ==
    /\ rk.peer = "open" /\ rk' = [rk EXCEPT !.peer = "fin", !.edge = TRUE]
    /\ UNCHANGED <<rs, rproc>>

RespClientReset ==
    /\ rk.peer \in {"open", "fin"}
    /\ rk' = [rk EXCEPT !.peer = "rst", !.edge = TRUE,
                        !.err = IF rk.peer = "fin" THEN "EPIPE" ELSE "ECONNRESET"]
    /\ UNCHANGED <<rs, rproc>>

ReadyEvents ==
    (IF rk.inq > 0 \/ rk.peer \in {"fin", "rst"} THEN {"IN"} ELSE {})
      \cup (IF rk.peer = "rst" THEN {"HUP"} ELSE {})
      \cup (IF (rk.unread < Window \/ rk.peer = "rst") /\ (rp \in EdgeTriggered \/ rs.out)
            THEN {"OUT"} ELSE {})

\* recv into room for n units: a count, 0 at the end, -1 an error, -2 EAGAIN.
RespRecvRet(n) ==
    IF rk.inq > 0 THEN Min({n, rk.inq})
    ELSE IF rk.peer = "fin" \/ rk.err \in {"EPIPE", "shut"} THEN 0
    ELSE IF rk.err = "ECONNRESET" THEN -1 ELSE -2

RkAfterRecv(ret) ==
    [rk EXCEPT !.inq = @ - Max({ret, 0}), !.err = IF ret = -1 THEN "shut" ELSE @]

\* send of n units: a count, -1 an error, -2 EAGAIN.
RespSendRet(n) ==
    IF rk.err # "none" THEN -1
    ELSE IF rk.unread = Window THEN -2 ELSE Min({n, Window - rk.unread})

RkAfterSend(ret) ==
    [rk EXCEPT !.unread = @ + Max({ret, 0}), !.got = @ + Max({ret, 0}),
               !.nospace = @ \/ ret = -2, !.err = IF ret = -1 THEN "shut" ELSE @]

\* The ref servers ignore SIGPIPE.
RespSendKills == rk.err \in {"EPIPE", "shut"} /\ rp \notin {"ref_et", "ref_lt"}

-----------------------------------------------------------------------------
(* The event loop: epoll_wait, then the handler of the connection. *)

\* Mutant: unexpected events are not looked at.
simple_handle_NoHup(ev) == IF "OUT" \in ev THEN "write" ELSE "recv"

\* An unexpected event closes, EPOLLOUT comes before EPOLLIN.
simple_handle(ev) ==
    IF "HUP" \in ev THEN "closed" ELSE IF "OUT" \in ev THEN "write" ELSE "recv"

\* With EPOLLIN, EPOLLOUT is not looked at.
loop_once_handler(ev) == IF "IN" \in ev THEN "recv" ELSE "write"

resp_Connection_handle(ev) ==
    IF "HUP" \in ev THEN "closed" ELSE IF "OUT" \in ev THEN "write" ELSE "recv"

\* epoll_wait returned the connection, and pc is what its handler begins with;
\* in: EPOLLIN is still to be handled after EPOLLOUT.
LoopTurn(pc, in) ==
    /\ rproc = "up" /\ rs.pc = "wait" /\ ReadyEvents # {}
    /\ rp \in EdgeTriggered => rk.edge
    /\ rk' = [rk EXCEPT !.edge = FALSE, !.nospace = @ \/ rk.unread = Window]
    /\ rs' = [rs EXCEPT !.pc = pc,
                        !.ev = IF pc = "write" THEN ReadyEvents \cap in ELSE {}]
    /\ UNCHANGED rproc

simple_loop == rp = "simple" /\ LoopTurn(simple_handle(ReadyEvents), {"IN"})
ref_et_loop_once == rp = "ref_et" /\ LoopTurn(loop_once_handler(ReadyEvents), {})
ref_lt_loop_once == rp = "ref_lt" /\ LoopTurn(loop_once_handler(ReadyEvents), {})
resp_lt_run == rp = "resp_lt" /\ LoopTurn(resp_Connection_handle(ReadyEvents), {"IN"})
resp_et_run == rp = "resp_et" /\ LoopTurn(resp_Connection_handle(ReadyEvents), {"IN"})

\* After the EPOLLOUT half comes the EPOLLIN half, then the next wait.
HandledWrite(s) == [s EXCEPT !.pc = IF "IN" \in s.ev THEN "recv" ELSE "wait", !.ev = {}]

Send(n, s(_)) ==
    /\ rproc = "up"
    /\ IF RespSendKills THEN rproc' = "sigpipe" /\ UNCHANGED <<rk, rs>>
       ELSE /\ rk' = RkAfterSend(RespSendRet(n)) /\ rs' = s(RespSendRet(n))
            /\ UNCHANGED rproc

Recv(n, s(_)) ==
    /\ rproc = "up" /\ rk' = RkAfterRecv(RespRecvRet(n)) /\ rs' = s(RespRecvRet(n))
    /\ UNCHANGED rproc

ShutDown == [rs EXCEPT !.pc = "closed", !.ev = {}]

\* accept, then EPOLL_CTL_ADD, which reports what is ready already, and space
\* always is.
Established(pc) ==
    /\ rproc = "up" /\ rs.pc = "none" /\ rk.peer # "idle" /\ rk.fds
    /\ rk' = [rk EXCEPT !.edge = TRUE] /\ rs' = [rs EXCEPT !.pc = pc]
    /\ UNCHANGED rproc

-----------------------------------------------------------------------------
(* server_epollet_simple.cpp *)

\* The constructor starts the response after EPOLL_CTL_ADD.  When accept4
\* fails, the client stays in the queue.
simple_handle_accept == rp = "simple" /\ Established("ctor")

\* close_conn with the response sent, before EPOLLIN is looked at: with input
\* unread, close resets the connection.
simple_close_sent ==
    /\ rproc = "up" /\ rs' = ShutDown
    /\ rk' \in IF rk.inq > 0 /\ rk.peer # "rst"
               THEN {Aborted(lost) : lost \in 0 .. rk.unread} ELSE {rk}
    /\ UNCHANGED rproc

\* Called by the constructor, which ignores the result, and for EPOLLOUT,
\* where a finished response and an error both close.
simple_send_buf ==
    LET ctor == rs.pc = "ctor"
    IN  /\ rp = "simple" /\ rs.pc \in {"ctor", "write"}
        /\ IF rs.pos = RespLen
           THEN IF ctor
                THEN rproc = "up" /\ rs' = HandledWrite(rs) /\ UNCHANGED <<rk, rproc>>
                ELSE simple_close_sent
           ELSE Send(RespLen - rs.pos,
                     LAMBDA ret : IF ret > 0 THEN [rs EXCEPT !.pos = @ + ret]
                                  ELSE IF ret = -2 \/ ctor THEN HandledWrite(rs) ELSE ShutDown)

simple_handle_recv ==
    /\ rp = "simple" /\ rs.pc = "recv"
    /\ Recv(MaxPkt, LAMBDA ret : IF ret > 0 THEN rs
                                 ELSE IF ret = -2 THEN [rs EXCEPT !.pc = "wait"] ELSE ShutDown)

-----------------------------------------------------------------------------
(* server_epollet_ref.cpp and server_epollout_ref.cpp *)

\* accept fails without a descriptor, getpeername for a connection that was
\* reset in the queue, and exit_if ends the process.
ref_handleAccept ==
    /\ rp \in {"ref_et", "ref_lt"}
    /\ IF rk.peer = "rst" \/ (rk.peer # "idle" /\ ~rk.fds)
       THEN rproc = "up" /\ rs.pc = "none" /\ rproc' = "exit" /\ UNCHANGED <<rk, rs>>
       ELSE Established("wait")

\* Until the socket is full or the response is out; cons.erase then forgets
\* the request, and whatever else was read.  asks: EPOLLOUT has to be asked for.
SendRes(asks) ==
    IF rs.pos = RespLen
    THEN /\ rproc = "up"
         /\ rs' = HandledWrite([rs EXCEPT !.len = 0, !.pos = 0, !.out = FALSE])
         /\ UNCHANGED <<rk, rproc>>
    ELSE Send(RespLen - rs.pos,
              LAMBDA ret : IF ret > 0 THEN [rs EXCEPT !.pos = @ + ret]
                           ELSE IF ret = -2 THEN HandledWrite([rs EXCEPT !.out = asks])
                           ELSE ShutDown)

\* Nothing to do without a request.
ref_et_sendRes ==
    /\ rp = "ref_et" /\ rs.pc = "write"
    /\ IF rs.len = 0
       THEN rproc = "up" /\ rs' = HandledWrite(rs) /\ UNCHANGED <<rk, rproc>>
       ELSE SendRes(FALSE)

ref_lt_sendRes == rp = "ref_lt" /\ rs.pc = "write" /\ SendRes(TRUE)

\* ref_et: a request is whatever is longer than four bytes; ref_lt: it ends
\* with an empty line.
CompleteRequest(ret) ==
    IF rp = "ref_et" THEN rs.len + ret >= ReqLen
    ELSE (rk.sent - rk.inq + ret) % ReqLen = 0

\* Mutant: nothing is read after a request.
HandleRead_Stops ==
    /\ rs.pc = "recv"
    /\ Recv(MaxPkt, LAMBDA ret :
          IF ret > 0
          THEN [rs EXCEPT !.len = Min({@ + ret, ReqLen}),
                          !.pc = IF CompleteRequest(ret) THEN "write" ELSE "recv"]
          ELSE IF ret = -2 THEN [rs EXCEPT !.pc = "wait"] ELSE ShutDown)

\* Until EAGAIN: a complete request is answered in between.
HandleRead ==
    /\ rs.pc = "recv"
    /\ Recv(MaxPkt, LAMBDA ret :
          IF ret > 0
          THEN [rs EXCEPT !.len = Min({@ + ret, ReqLen}),
                          !.pc = IF CompleteRequest(ret) THEN "write" ELSE "recv",
                          !.ev = IF CompleteRequest(ret) THEN {"IN"} ELSE {}]
          ELSE IF ret = -2 THEN [rs EXCEPT !.pc = "wait"] ELSE ShutDown)

ref_et_handleRead == rp = "ref_et" /\ HandleRead

ref_lt_handleRead == rp = "ref_lt" /\ HandleRead

-----------------------------------------------------------------------------
(* server_epollout_response.cpp and server_epollet_epollout_response.cpp *)

\* accept4 fails without a descriptor, and may always fail with EINVAL, since
\* addr_len is not initialized.  The loop then deletes the acceptor, which lives
\* on main's stack: free ends the process, or it goes on without a listener and
\* the queued client is reset.
AcceptFails ==
    /\ rproc = "up" /\ rs.pc = "none" /\ rk.peer # "idle"
    /\ \/ rproc' = "abort" /\ UNCHANGED <<rk, rs>>
       \/ /\ rk' = IF rk.peer = "rst" THEN rk ELSE Aborted(0)
          /\ rs' = ShutDown /\ UNCHANGED rproc

resp_Acceptor_handle == rp \in {"resp_lt", "resp_et"} /\ (Established("wait") \/ AcceptFails)

get_blank_size == MaxPkt - 1 - rs.len

\* Lengths of the free pieces of the ring.
get_blank_iovec ==
    LET mf == rs.f
        mp == (rs.f + rs.len) % MaxPkt
    IN  IF mp < mf THEN <<mf - mp - 1>>
        ELSE IF mf = 0 THEN <<MaxPkt - mp - 1>>
        ELSE IF mf = 1 THEN <<MaxPkt - mp>>
        ELSE <<MaxPkt - mp, mf - 1>>

\* recv_request: whole requests are counted and leave the ring, then comes
\* send_response.
Counted(s) ==
    [s EXCEPT !.cnt = @ + s.len \div ReqLen, !.len = s.len % ReqLen,
              !.f = (@ + ReqLen * (s.len \div ReqLen)) % MaxPkt, !.pc = "write", !.ev = {}]

\* One recv per free piece, as long as they are filled.
recv_buf_native ==
    /\ rp = "resp_lt"
    /\ \/ /\ rs.pc = "recv"
          /\ LET iov == get_blank_iovec
             IN  Recv(iov[1], LAMBDA ret :
                    IF ret \in {0, -1} THEN ShutDown
                    ELSE IF ret = iov[1] /\ DOMAIN iov = {1, 2}
                    THEN [rs EXCEPT !.len = @ + ret, !.pc = "recv2"]
                    ELSE Counted([rs EXCEPT !.len = @ + Max({ret, 0})]))
       \/ /\ rs.pc = "recv2"
          /\ Recv(get_blank_size, LAMBDA ret :
                IF ret \in {0, -1} THEN ShutDown
                ELSE Counted([rs EXCEPT !.len = @ + Max({ret, 0})]))

\* One recvmsg per event, whatever it returns.
resp_et_recv_buf ==
    /\ rp = "resp_et" /\ rs.pc = "recv"
    /\ Recv(get_blank_size, LAMBDA ret :
          IF ret <= 0 THEN ShutDown ELSE Counted([rs EXCEPT !.len = @ + ret]))

\* One turn of the loop of send_response; asks: EPOLLOUT has to be asked for.
SendResponse(asks) ==
    LET starts == rs.pos = RespLen
        cnt == IF starts THEN rs.cnt - 1 ELSE rs.cnt
        pos == IF starts THEN 0 ELSE rs.pos
    IN  /\ rs.pc = "write"
        /\ IF rs.cnt = 0 /\ rs.pos = RespLen
           THEN rproc = "up" /\ rs' = HandledWrite(rs) /\ UNCHANGED <<rk, rproc>>
           ELSE Send(RespLen - pos, LAMBDA ret :
                   LET s == [rs EXCEPT !.cnt = cnt, !.pos = pos + Max({ret, 0})]
                   IN  IF ret = -1 THEN ShutDown
                       ELSE IF cnt = 0 /\ s.pos = RespLen THEN [s EXCEPT !.out = FALSE]
                       ELSE IF ret = -2 THEN HandledWrite([s EXCEPT !.out = asks])
                       ELSE s)

\* Mutant: EPOLLOUT is dropped with the last byte of a response although
\* others are waiting.
resp_lt_send_response_EarlyOff ==
    /\ rp = "resp_lt" /\ rs.pc = "write"
    /\ IF rs.cnt = 0 /\ rs.pos = RespLen
       THEN rproc = "up" /\ rs' = HandledWrite(rs) /\ UNCHANGED <<rk, rproc>>
       ELSE LET pos == IF rs.pos = RespLen THEN 0 ELSE rs.pos
            IN  Send(RespLen - pos, LAMBDA ret :
                   LET s == [rs EXCEPT !.cnt = IF rs.pos = RespLen THEN @ - 1 ELSE @,
                                       !.pos = pos + Max({ret, 0})]
                   IN  IF ret = -1 THEN ShutDown
                       ELSE IF s.pos = RespLen THEN HandledWrite([s EXCEPT !.out = FALSE])
                       ELSE IF ret = -2 THEN HandledWrite([s EXCEPT !.out = TRUE])
                       ELSE s)

resp_lt_send_response == rp = "resp_lt" /\ SendResponse(TRUE)

resp_et_send_response == rp = "resp_et" /\ SendResponse(FALSE)

-----------------------------------------------------------------------------
RespServer ==
    \/ simple_loop \/ ref_et_loop_once \/ ref_lt_loop_once \/ resp_lt_run \/ resp_et_run
    \/ simple_handle_accept \/ simple_send_buf \/ simple_handle_recv
    \/ ref_handleAccept \/ ref_et_sendRes \/ ref_lt_sendRes
    \/ ref_et_handleRead \/ ref_lt_handleRead
    \/ resp_Acceptor_handle \/ recv_buf_native \/ resp_et_recv_buf
    \/ resp_lt_send_response \/ resp_et_send_response

RespClient ==
    \/ RespConnect \/ OtherConnections \/ \E n \in 1 .. MaxSent : RespClientSend(n)
    \/ RespClientRead \/ RespClientFin \/ RespClientReset

RespNext == (RespServer \/ RespClient) /\ UNCHANGED rp

\* The loop is scheduled and a client that has something to read reads it;
\* clients need not send, finish or reset.
RespFair ==
    /\ WF_respVars(RespServer /\ UNCHANGED rp)
    /\ WF_respVars(RespClientRead /\ UNCHANGED rp)

-----------------------------------------------------------------------------
(* Properties *)

Responding == {"resp_lt", "resp_et"}

\* No response without a request, and none twice: what the client got is
\* covered by the requests it had sent, through partial sends, retries on
\* EPOLLOUT and requests that arrive meanwhile.  server_epollet_ref answers
\* also the first part of a request, when EPOLLOUT comes before the rest.
NoExtraResponses ==
    IF rp \in CoPrograms THEN TRUE
    ELSE IF rp = "simple" THEN rk.got <= RespLen
    ELSE IF rp = "ref_et" THEN rk.got <= RespLen * rk.sent
    ELSE rk.got <= RespLen * (rk.sent \div ReqLen)

\* Whenever a level-triggered server waits, it waits for EPOLLOUT exactly if a
\* response is unfinished: with too little the client starves, with too much
\* the loop spins.
WriteInterestExact ==
    rs.pc = "wait" =>
        /\ rp = "resp_lt" => rs.out = (rs.cnt > 0 \/ rs.pos < RespLen)
        /\ rp = "ref_lt" => (rs.pos > 0 => rs.out) /\ (rs.out => rs.len > 0)

\* What ends the process, on account of a connection: SIGPIPE after a FIN and a
\* reset (the coroutine servers send again after an error and die of any reset);
\* exit_if of the ref servers when the client has reset in the accept queue or
\* no descriptor is left for it; the acceptor that is deleted on main's stack.
RespDeathCauses ==
    /\ rproc = "sigpipe" => \/ rp \notin {"ref_et", "ref_lt"} /\ rk.err = "EPIPE"
                            \/ rp \in CoPrograms
    /\ rproc = "exit" => /\ rp \in {"ref_et", "ref_lt"} /\ rs.pc = "none"
                         /\ rk.peer = "rst" \/ ~rk.fds
    /\ rproc = "abort" => rp \in Responding \cup CoPrograms /\ rs.pc = "none"

\* The client has finished or reset, the server's end has reset the connection,
\* or the process has ended.
Gone == rk.peer \in {"fin", "rst", "aborted"} \/ rproc # "up"

\* The server's end resets a connection only by closing with input unread,
\* which only simple does, with its response sent, or in front of a client that
\* sends to a socket already closed; or by closing the listener.
AbortsHaveCauses ==
    rk.peer = "aborted" =>
        /\ rs.pc = "closed"
        /\ \/ rk.inq > 0 /\ rp = "simple" /\ rs.pos = RespLen
           \/ rk.got = 0 /\ rp \in Responding \cup CoPrograms

\* What the client has read.
ReadByClient == rk.got - rk.lost - rk.unread

\* Every whole request is answered in full, and the client reads the answer (the
\* coroutine servers: every byte comes back), or the client is gone or not
\* accepted for want of a descriptor.  The ref servers forget what was read
\* together with a request, so only the first counts there, and
\* server_epollout_ref waits for the end of the last one; the edge-triggered
\* server reads once per event, and only what fits its buffer ("just assume
\* the read buf is enough").
RequestsAnswered ==
    \A q \in 0 .. MaxSent :
        (rk.peer = "open" /\ rk.sent = q /\ (rp = "resp_et" => q < MaxPkt))
            ~> \/ Gone \/ rk.sent > q \/ (rs.pc = "none" /\ ~rk.fds)
               \/ ReadByClient >=
                     IF rp \in CoPrograms THEN q
                     ELSE IF rp \in Responding THEN RespLen * (q \div ReqLen)
                     ELSE IF \/ rp = "simple" \/ (rp = "ref_et" /\ q >= ReqLen)
                             \/ rp = "ref_lt" /\ q > 0 /\ q % ReqLen = 0
                     THEN RespLen ELSE 0

\* No response stays half sent while the client reads.
ResponsesWhole == []<>(Gone \/ rp \in CoPrograms \/ ReadByClient % RespLen = 0)

\* A reset connection is closed.  A finished one too, except where the FIN may
\* hide behind bytes of the one recv per event.
RespClientsClosed ==
    (rs.pc \notin {"none", "closed"} /\ rp \in RespPrograms /\ (rk.peer = "rst" \/ (rk.peer = "fin" /\ rp # "resp_et")))
        ~> (rs.pc = "closed" \/ rproc # "up")

=============================================================================
