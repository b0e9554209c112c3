-------------------------- MODULE MCResponseServers --------------------------
(* The response servers and the coroutine servers (rp says which of them     *)
(* runs), and the client programs, in behaviours of their own.               *)
EXTENDS CoroutineServers, EchoClients

VARIABLE part

ClientPart == part = "clients"

MCInit ==
    /\ part \in {"servers", "clients"}
    /\ RespInit /\ CoInit /\ ClientInit
    /\ ClientPart => rp = "simple"
    /\ ~ClientPart => client = "sync" /\ ~lossy /\ \A n \in SyncSizes : pkt <= n

MCNext ==
    /\ UNCHANGED part
    /\ \/ ~ClientPart /\ RespNext /\ UNCHANGED <<co, ecVars>>
       \/ ~ClientPart /\ CoServer /\ UNCHANGED <<rp, ecVars>>
       \/ ClientPart /\ ClientNext /\ UNCHANGED coVars

mcVars == <<part, coVars, ecVars>>

\* The client's threads run, the timer goes off, and the server echoes.
ClientFair ==
    /\ WF_ecVars(ClientPart /\ EventLoop_run) /\ WF_ecVars(ClientPart /\ main_loop)
    /\ WF_ecVars(ClientPart /\ main_join) /\ WF_ecVars(ClientPart /\ SyncStep)
    /\ \A c \in 1 .. NConn :
          WF_ecVars(ClientPart /\ c \in Conns /\ ServerStep /\ EchoWords(c))

MCSpec == MCInit /\ [][MCNext]_mcVars /\ RespFair /\ CoFair /\ ClientFair

\* Requests are answered, connections closed, and the clients end.
ServedAndEnded == AnsweredAndClosed /\ (ClientPart => ClientsEnd)

=============================================================================
