----------------------------- MODULE IoContext -----------------------------
(***************************************************************************)
(* The event loop of tcp_echo1/common (and, with the same code, the        *)
(* EventLoop and Acceptor classes of the tcp_echo servers): one thread, an *)
(* Acceptor that lives on main's stack, one heap-allocated Connection per  *)
(* client, and an events array that holds raw handler pointers while the   *)
(* handlers it was filled for are deleted and new ones are allocated.      *)
(*                                                                         *)
(* What a Connection does with its bytes is the subject of the Connection  *)
(* modules; here handle() returns -1 exactly if the client is gone.        *)
(***************************************************************************)
EXTENDS Integers, Sequences, FiniteSets, SequencesExt

CONSTANTS
    Fds,        \* the file descriptors the process has for connections
    Addrs,      \* the heap addresses a Connection can have
    NoPtr,      \* no address
    MaxClients  \* bound: clients that connect in all

NoFd     == 0               \* no Connection here
acceptor == "acceptor"      \* the address of the Acceptor
listenfd == 4               \* its descriptor, the second the program opens

ASSUME IoAssumption ==
    /\ Fds \subseteq Nat \ {NoFd, listenfd} /\ IsFiniteSet(Fds)
    /\ IsFiniteSet(Addrs) /\ Cardinality(Addrs) >= Cardinality(Fds)
    /\ NoPtr \notin Addrs /\ acceptor \notin Addrs
    /\ MaxClients \in Nat

VARIABLES
    heap,       \* the Connection at each address, as its fd
    interest,   \* kernel: the data.ptr registered for each fd
    listening,  \* the Acceptor exists
    events,     \* entries of the events array still to be handled
    connects,   \* clients that have connected
    backlog,    \* how many of them wait for accept4
    readable,   \* descriptors with bytes to read
    gone,       \* descriptors whose client has closed
    alive     \* FALSE: the process has been aborted

peerVars == <<connects, backlog, readable, gone>>
vars == <<heap, interest, listening, events, connects, backlog, readable,
          gone, alive>>

Events == [ptr : Addrs \cup {acceptor}, fd : Fds \cup {listenfd}]

\* Types.
TypeOK ==
    /\ heap \in [Addrs -> Fds \cup {NoFd}]
    /\ interest \in [Fds -> Addrs \cup {NoPtr}]
    /\ listening \in BOOLEAN /\ alive \in BOOLEAN
    /\ events \in Seq(Events)
    /\ connects \in 0 .. MaxClients /\ backlog \in 0 .. connects
    /\ readable \subseteq Fds /\ gone \subseteq Fds

Init ==
    /\ heap = [a \in Addrs |-> NoFd]
    /\ interest = [d \in Fds |-> NoPtr]
    /\ listening = TRUE
    /\ events = << >>
    /\ connects = 0 /\ backlog = 0
    /\ readable = {} /\ gone = {}
    /\ alive = TRUE

-----------------------------------------------------------------------------
\* epoll_wait fills the array, in any order, with all that is ready; the
\* array's 1024 entries are taken to be enough.
Ready ==
    {[ptr |-> interest[d], fd |-> d] :
         d \in {x \in readable \cup gone : interest[x] # NoPtr}}
    \cup (IF listening /\ backlog > 0
          THEN {[ptr |-> acceptor, fd |-> listenfd]} ELSE {})

\* Mutant: the loop over the array stops one entry early.
epoll_wait_StopsEarly ==
    /\ alive /\ events = << >>
    /\ Ready # {}
    /\ \E order \in SetToSeqs(Ready) :
          events' = SubSeq(order, 1, Len(order) - 1)
    /\ UNCHANGED <<heap, interest, listening, peerVars, alive>>

epoll_wait ==
    /\ alive /\ events = << >>
    /\ Ready # {}
    /\ events' \in SetToSeqs(Ready)
    /\ UNCHANGED <<heap, interest, listening, peerVars, alive>>

\* The loop of IOContext::run takes the next entry.
Take(ptr) ==
    /\ alive /\ events # << >>
    /\ Head(events).ptr = ptr
    /\ events' = Tail(events)

\* Connection::Connection.
make_connection(a, d) ==
    /\ heap' = [heap EXCEPT ![a] = d]
    /\ interest' = [interest EXCEPT ![d] = a]

FreeFds   == {d \in Fds : interest[d] = NoPtr}
FreeAddrs == {a \in Addrs : heap[a] = NoFd}

(***************************************************************************)
(* accept4 takes the lowest free descriptor.  It fails when there is none, *)
(* and also, after taking the client from the backlog, when the addr_len   *)
(* it is given, which handle() never initialises, is negative.             *)
(***************************************************************************)
Acceptor_handle ==
    /\ Take(acceptor)
    /\ FreeFds # {}
    /\ \E a \in FreeAddrs, d \in FreeFds :
          /\ \A x \in FreeFds : d <= x
          /\ make_connection(a, d)
    /\ backlog' = backlog - 1
    /\ UNCHANGED <<listening, connects, readable, gone, alive>>

(***************************************************************************)
(* handle() returned -1: run() deletes the Acceptor, whose destructor ends *)
(* the listening, and frees an address that malloc never returned.         *)
(***************************************************************************)
Acceptor_error ==
    /\ Take(acceptor)
    /\ backlog' = IF FreeFds = {} THEN backlog ELSE backlog - 1
    /\ listening' = FALSE
    /\ alive' \in BOOLEAN
    /\ UNCHANGED <<heap, interest, connects, readable, gone>>

\* Mutant: the destructor forgets EPOLL_CTL_DEL and close.
Connection_delete_KeepsFd(a) ==
    /\ heap' = [heap EXCEPT ![a] = NoFd]
    /\ UNCHANGED <<interest, readable, gone>>

\* Connection::~Connection: EPOLL_CTL_DEL, close, and the memory is free.
Connection_delete(a) ==
    /\ heap' = [heap EXCEPT ![a] = NoFd]
    /\ interest' = [interest EXCEPT ![heap[a]] = NoPtr]
    /\ readable' = readable \ {heap[a]}
    /\ gone' = gone \ {heap[a]}

Connection_handle(a) ==
    /\ Take(a)
    /\ heap[a] # NoFd
    /\ IF heap[a] \in gone
       THEN Connection_delete(a)
       ELSE /\ readable' = readable \ {heap[a]}
            /\ UNCHANGED <<heap, interest, gone>>
    /\ UNCHANGED <<listening, connects, backlog, alive>>

Loop ==
    \/ epoll_wait
    \/ Acceptor_handle
    \/ Acceptor_error
    \/ \E a \in Addrs : Connection_handle(a)

-----------------------------------------------------------------------------
\* The clients.
Connect ==
    /\ listening /\ connects < MaxClients
    /\ connects' = connects + 1
    /\ backlog' = backlog + 1
    /\ UNCHANGED <<heap, interest, listening, events, readable, gone, alive>>

Sends(d) ==
    /\ interest[d] # NoPtr /\ d \notin gone
    /\ readable' = readable \cup {d}
    /\ UNCHANGED <<heap, interest, listening, events, connects, backlog, gone,
                   alive>>

Closes(d) ==
    /\ interest[d] # NoPtr
    /\ gone' = gone \cup {d}
    /\ UNCHANGED <<heap, interest, listening, events, connects, backlog,
                   readable, alive>>

Clients == Connect \/ \E d \in Fds : Sends(d) \/ Closes(d)

Next == Loop \/ (alive /\ Clients)

Spec == Init /\ [][Next]_vars

FairSpec == Spec /\ WF_vars(Loop)

-----------------------------------------------------------------------------
(***************************************************************************)
(* A pointer in the events array is never stale: while it waits to be      *)
(* handled, its Connection is neither deleted nor replaced by a new one at *)
(* the same address, although entries before it delete Connections and     *)
(* accept new ones that reuse descriptors and addresses.                   *)
(***************************************************************************)
EventsLive ==
    \A i \in 1 .. Len(events) :
        LET e == events[i]
        IN  IF e.ptr = acceptor THEN e.fd = listenfd /\ listening
            ELSE heap[e.ptr] = e.fd

(***************************************************************************)
(* The kernel's interest list and the heap agree: no descriptor is         *)
(* registered for freed memory and no Connection is leaked.                *)
(***************************************************************************)
InterestIsHeap ==
    \A a \in Addrs, d \in Fds : interest[d] = a <=> heap[a] = d

(***************************************************************************)
(* Every client that connects is accepted although handle() accepts one    *)
(* per event, unless an accept4 error has ended the Acceptor.              *)
(***************************************************************************)
AcceptsEveryone ==
    \A k \in 1 .. MaxClients :
        connects >= k ~> connects - backlog >= k \/ ~listening

(***************************************************************************)
(* The Connection of a client that closes is deleted and its descriptor    *)
(* closed, whatever else is ready and however often.                       *)
(***************************************************************************)
CleansUp == \A d \in Fds : d \in gone ~> d \notin gone \/ ~alive

(***************************************************************************)
(* Every client is accepted, one per event of the Acceptor, and every      *)
(* Connection whose client has gone is deleted, whatever else is ready.    *)
(***************************************************************************)
ClientsTended == AcceptsEveryone /\ CleansUp

=============================================================================
