-------------------------- MODULE CoroutineServers --------------------------
(***************************************************************************)
(* server_epoll_et_ucontext.cpp (co) and server_epoll_et_ucontext1.cpp     *)
(* (co1): an edge-triggered echo server with a ucontext coroutine per      *)
(* connection.  rs.pc is "recv" or "write" while the coroutine runs, rs.len*)
(* what it holds and rs.pos what it has sent of it.                        *)
(***************************************************************************)
EXTENDS ResponseServers

CONSTANT BufUnits       \* Connection::buf_size

ASSUME CoAssumption == BufUnits \in Nat \ {0}

VARIABLE co     \* status: wait_status of co; rsem, ssem: the semaphores'
                \* waiting of co1; by: who switched to the coroutine

coVars == <<respVars, co>>

CoInit == co = [status |-> "running", rsem |-> FALSE, ssem |-> FALSE, exited |-> FALSE, by |-> "none"]

WaitsRecv == IF rp = "co" THEN co.status = "recv" ELSE co.rsem
WaitsSend == IF rp = "co" THEN co.status = "send" ELSE co.ssem

\* The wait of co: a status, set before the switch and reset after it.
co_wait(what) == [co EXCEPT !.status = what]

\* CoroutineSemaphore::wait and post of co1.
sem_wait(what) ==
    [co EXCEPT !.rsem = @ \/ what = "recv", !.ssem = @ \/ what = "send"]
sem_post(what) ==
    [co EXCEPT !.rsem = @ /\ what # "recv", !.ssem = @ /\ what # "send"]

Resumed(what, by) ==
    [IF rp = "co" THEN co_wait("running") ELSE sem_post(what) EXCEPT !.by = by]

\* swapcontext back to the loop, from a wait or at the end of run.  start looks
\* at nothing; handle closes after run has exited and goes on with EPOLLIN.
Yield(c) ==
    IF c.exited /\ c.by # "start" THEN rs' = ShutDown /\ co' = c
    ELSE LET waits == IF rp = "co" THEN c.status = "recv" ELSE c.rsem
         IN  IF c.by = "OUT" /\ "IN" \in rs.ev /\ waits
             THEN /\ rs' = [rs EXCEPT !.pc = "recv", !.ev = {}]
                  /\ co' = [c EXCEPT !.by = "IN", !.status = "running", !.rsem = FALSE]
             ELSE rs' = [rs EXCEPT !.pc = "wait", !.ev = {}] /\ co' = c

\* Accept, then Connection::start runs the coroutine up to its first wait.
Started ==
    \/ Established("recv") /\ co' = [co EXCEPT !.by = "start"]
    \/ AcceptFails /\ UNCHANGED co

co_Acceptor_handle == rp = "co" /\ Started
co1_Acceptor_handle == rp = "co1" /\ Started

\* EPOLLOUT resumes a coroutine that waits to send, then EPOLLIN one that
\* waits to receive; nobody else is told.
co_handle(ev) ==
    IF "HUP" \in ev THEN rs' = ShutDown /\ UNCHANGED co
    ELSE IF "OUT" \in ev /\ WaitsSend
    THEN rs' = [rs EXCEPT !.pc = "write", !.ev = ev] /\ co' = Resumed("send", "OUT")
    ELSE IF "IN" \in ev /\ WaitsRecv
    THEN rs' = [rs EXCEPT !.pc = "recv"] /\ co' = Resumed("recv", "IN")
    ELSE UNCHANGED <<rs, co>>

CoLoopTurn ==
    /\ rproc = "up" /\ rs.pc = "wait" /\ rk.edge /\ ReadyEvents # {}
    /\ rk' = [rk EXCEPT !.edge = FALSE, !.nospace = @ \/ rk.unread = Window]
    /\ co_handle(ReadyEvents) /\ UNCHANGED rproc

co_EventLoop_run == rp = "co" /\ CoLoopTurn
co1_EventLoop_run == rp = "co1" /\ CoLoopTurn

Waiting(what) == IF rp = "co" THEN co_wait(what) ELSE sem_wait(what)

\* await_recv waits on EAGAIN; the end or an error lets run exit.
AwaitRecv ==
    LET ret == RespRecvRet(BufUnits)
    IN  /\ rproc = "up" /\ rs.pc = "recv"
        /\ rk' = RkAfterRecv(ret)
        /\ IF ret > 0
           THEN rs' = [rs EXCEPT !.len = ret, !.pos = 0, !.pc = "write"] /\ UNCHANGED co
           ELSE IF ret = -2 THEN Yield(Waiting("recv"))
           ELSE Yield([co EXCEPT !.exited = TRUE])
        /\ UNCHANGED rproc

\* Mutant: what one send did not take is dropped.
AwaitSend_Once ==
    LET ret == RespSendRet(rs.len - rs.pos)
    IN  /\ rproc = "up" /\ rs.pc = "write"
        /\ IF RespSendKills THEN rproc' = "sigpipe" /\ UNCHANGED <<rk, rs, co>>
           ELSE /\ rk' = RkAfterSend(ret) /\ UNCHANGED rproc
                /\ IF ret = -2 THEN Yield(Waiting("send"))
                   ELSE rs' = [rs EXCEPT !.pos = 0, !.len = 0, !.pc = "recv"] /\ UNCHANGED co

\* await_send goes on after an error other than EAGAIN, and the second send on
\* a reset connection raises SIGPIPE.
AwaitSend ==
    LET ret == RespSendRet(rs.len - rs.pos)
    IN  /\ rproc = "up" /\ rs.pc = "write"
        /\ IF RespSendKills THEN rproc' = "sigpipe" /\ UNCHANGED <<rk, rs, co>>
           ELSE /\ rk' = RkAfterSend(ret) /\ UNCHANGED rproc
                /\ IF ret = -2 THEN Yield(Waiting("send"))
                   ELSE /\ rs' = IF rs.pos + ret = rs.len
                                 THEN [rs EXCEPT !.pos = 0, !.len = 0, !.pc = "recv"]
                                 ELSE [rs EXCEPT !.pos = @ + Max({ret, 0})]
                        /\ UNCHANGED co

co_await_recv == rp = "co" /\ AwaitRecv
co_await_send == rp = "co" /\ AwaitSend
co1_await_recv == rp = "co1" /\ AwaitRecv
co1_await_send == rp = "co1" /\ AwaitSend

CoServer ==
    \/ co_Acceptor_handle \/ co_EventLoop_run \/ co_await_recv \/ co_await_send
    \/ co1_Acceptor_handle \/ co1_EventLoop_run \/ co1_await_recv \/ co1_await_send

CoFair == WF_coVars(CoServer /\ UNCHANGED rp)

-----------------------------------------------------------------------------
(* Properties *)

\* Types; the coroutine waits for one thing at a time.
CoTypeOK ==
    /\ co.status \in {"running", "recv", "send"} /\ co.by \in {"none", "start", "OUT", "IN"}
    /\ rp = "co1" => ~(co.rsem /\ co.ssem) /\ co.status = "running"
    /\ rp \in CoPrograms => rs.len \in 0 .. BufUnits /\ rs.pos \in 0 .. rs.len

\* The loop and the coroutine agree: while the loop runs, the coroutine waits
\* for just one event or has exited; while the coroutine runs, it waits for
\* none.  So no post resumes a coroutine at the wrong await.
LoopAndCoroutineAgree ==
    rp \in CoPrograms =>
        /\ rs.pc = "wait" => co.exited # (WaitsRecv # WaitsSend)
        /\ rs.pc \in {"recv", "write"} => ~WaitsRecv /\ ~WaitsSend /\ ~co.exited

\* Every byte is with the client, in the coroutine's hands or still unread.
CoLossless ==
    rp \in CoPrograms /\ rk.err = "none" /\ rs.pc # "closed"
        => rk.got + (rs.len - rs.pos) + rk.inq = rk.sent

\* A connection is closed after its client has gone, or its coroutine has
\* exited before the first wait: start does not look at exited, and only a
\* reset closes such a connection.
CoClosed ==
    /\ (rp \in CoPrograms /\ rs.pc \notin {"none", "closed"} /\ rk.peer = "rst")
          ~> (rs.pc = "closed" \/ rproc # "up")
    /\ (rp \in CoPrograms /\ rs.pc \notin {"none", "closed"} /\ rk.peer = "fin")
          ~> (rs.pc = "closed" \/ rproc # "up" \/ (co.exited /\ co.by = "start"))

\* The client gets what it asked for and no more: no response without its
\* request and none twice, no byte lost or repeated between recv and send.
AnswersExact == RespTypeOK /\ CoTypeOK /\ NoExtraResponses /\ CoLossless

\* While the loop waits, it waits for what the connection needs: EPOLLOUT for
\* an unfinished response, the event a coroutine is suspended on.
InterestExact == WriteInterestExact /\ LoopAndCoroutineAgree

\* Requests are answered, responses finished, and connections closed after
\* their clients have gone, and reset for the named causes only.
AnsweredAndClosed ==
    RequestsAnswered /\ ResponsesWhole /\ []AbortsHaveCauses /\ RespClientsClosed /\ CoClosed

=============================================================================
