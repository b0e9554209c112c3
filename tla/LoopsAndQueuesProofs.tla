------------------------ MODULE LoopsAndQueuesProofs ------------------------
(***************************************************************************)
(* Three components that share nothing but the shape of their argument.    *)
(* The event loop, for every number of descriptors, addresses and clients: *)
(* the pointers in the events array are live, and registrations and heap   *)
(* agree.  The producer/consumer programs, for any number of threads,      *)
(* items and slots: what is put is taken, in order, and no queue holds     *)
(* more than it may.  The servers that answer with a response, and the     *)
(* coroutine servers, for any length of requests, responses, buffers and   *)
(* windows.                                                                *)
(***************************************************************************)
EXTENDS IoContext, BlockingQueues, MCResponseServers, FiniteSetTheorems, SequenceTheorems, TLAPS

-----------------------------------------------------------------------------
(* The event loop *)

(***************************************************************************)
(* EventsLive is not inductive by itself: handling one entry keeps the     *)
(* other ones live because the kernel reports a descriptor once.           *)
(***************************************************************************)
OnePerFd ==
    \A i, j \in 1 .. Len(events) : i # j => events[i].fd # events[j].fd

\* The Acceptor is reported only while somebody waits to be accepted.
AcceptPending ==
    \A i \in 1 .. Len(events) : events[i].ptr = acceptor => backlog > 0

Inv == TypeOK /\ InterestIsHeap /\ EventsLive /\ OnePerFd /\ AcceptPending

\* What the provers need to know of the constants.
LEMMA Constants ==
  /\ NoFd \notin Fds /\ listenfd \notin Fds
  /\ NoPtr \notin Addrs /\ acceptor \notin Addrs
BY IoAssumption

\* The events array is filled from finitely many descriptors.
LEMMA ReadyFinite == ASSUME TypeOK PROVE IsFiniteSet(Ready)
<1> DEFINE D == {x \in readable \cup gone : interest[x] # NoPtr}
           E(d) == [ptr |-> interest[d], fd |-> d]
           A == IF listening /\ backlog > 0
                THEN {[ptr |-> acceptor, fd |-> listenfd]} ELSE {}
<1>1. IsFiniteSet(D)
  <2>1. D \subseteq Fds BY DEF TypeOK
  <2>2. IsFiniteSet(Fds) BY IoAssumption
  <2> QED BY <2>1, <2>2, FS_Subset
<1> HIDE DEF D
<1>2. IsFiniteSet({E(d) : d \in D})
  <2> DEFINE T == {E(d) : d \in D}
             h == [d \in D |-> E(d)]
  <2>1. h \in [D -> T] /\ \A t \in T : \E d \in D : h[d] = t
    <3> HIDE DEF E
    <3> QED OBVIOUS
  <2>2. h \in Surjection(D, T) BY <2>1 DEF Surjection
  <2> HIDE DEF T, h
  <2>3. IsFiniteSet(T) BY <1>1, <2>2, FS_Surjection
  <2> QED BY <2>3 DEF T
<1>3. IsFiniteSet(A) BY FS_EmptySet, FS_Singleton
<1>4. Ready = {E(d) : d \in D} \cup A BY DEF Ready, D
<1> HIDE DEF E, A
<1> QED BY <1>2, <1>3, <1>4, FS_Union

\* Taking an entry leaves the later ones, in their places less one.
LEMMA TakeEffect ==
  ASSUME TypeOK, NEW a, Take(a)
  PROVE  /\ events' \in Seq(Events)
         /\ Len(events) >= 1 /\ events[1].ptr = a
         /\ Len(events') = Len(events) - 1
         /\ \A i \in 1 .. Len(events') : events'[i] = events[i + 1]
BY DEF TypeOK, Take

\* What remains of the array is live if it was and nothing it names changed.
LEMMA RestLive ==
  ASSUME Inv, NEW a, Take(a), listening' = listening \/ a = acceptor,
         \A x \in Addrs : heap[x] \in Fds /\ heap[x] # events[1].fd
                             => heap'[x] = heap[x],
         backlog' = backlog \/ a = acceptor
  PROVE  EventsLive' /\ OnePerFd' /\ AcceptPending'
<1>0. TypeOK BY DEF Inv
<1>1. /\ Len(events) \in Nat /\ Len(events) >= 1 /\ events[1].ptr = a
      /\ Len(events') = Len(events) - 1
      /\ \A i \in 1 .. Len(events') : events'[i] = events[i + 1]
      /\ \A i \in 1 .. Len(events) : events[i] \in Events
  BY <1>0, TakeEffect DEF TypeOK
<1>2. OnePerFd' BY <1>1 DEF Inv, OnePerFd
<1>3. ASSUME NEW i \in 1 .. Len(events')
      PROVE  IF events'[i].ptr = acceptor
             THEN events'[i].fd = listenfd /\ listening'
             ELSE heap'[events'[i].ptr] = events'[i].fd
  <2> DEFINE e == events[i + 1]
  <2>1. /\ i + 1 \in 1 .. Len(events) /\ i + 1 # 1 /\ 1 \in 1 .. Len(events)
        /\ events'[i] = e /\ e \in Events
    BY <1>1
  <2>2. e.fd # events[1].fd BY <2>1 DEF Inv, OnePerFd
  <2>3. IF e.ptr = acceptor THEN e.fd = listenfd /\ listening ELSE heap[e.ptr] = e.fd
    BY <2>1 DEF Inv, EventsLive
  <2>4. CASE e.ptr = acceptor
    <3>1. events[1].ptr = acceptor => events[1].fd = listenfd
      BY <2>1 DEF Inv, EventsLive
    <3>2. a # acceptor BY <1>1, <2>2, <2>3, <2>4, <3>1
    <3>3. listening' = listening BY <3>2
    <3> QED BY <2>1, <2>3, <2>4, <3>3
  <2>5. CASE e.ptr # acceptor
    <3>1. e.ptr \in Addrs /\ e.fd \in Fds \cup {listenfd}
      BY <2>1, <2>5 DEF Events
    <3>2. heap[e.ptr] \in Fds
      BY <1>0, <2>3, <2>5, <3>1 DEF TypeOK, NoFd, listenfd
    <3> QED BY <2>1, <2>2, <2>3, <2>5, <3>1, <3>2
  <2> QED BY <2>4, <2>5
<1>4. AcceptPending'
  <2> SUFFICES ASSUME NEW i \in 1 .. Len(events'), events'[i].ptr = acceptor
               PROVE  backlog' > 0
    BY DEF AcceptPending
  <2>1. i + 1 \in 1 .. Len(events) /\ 1 \in 1 .. Len(events) /\ i + 1 # 1
        /\ events[i + 1].ptr = acceptor
    BY <1>1
  <2>2. backlog > 0 BY <2>1 DEF Inv, AcceptPending
  <2>3. events[i + 1].fd # events[1].fd BY <2>1 DEF Inv, OnePerFd
  <2>4. a # acceptor BY <1>1, <2>1, <2>3 DEF Inv, EventsLive
  <2> QED BY <2>2, <2>4
<1> QED BY <1>2, <1>3, <1>4 DEF EventsLive

-----------------------------------------------------------------------------
\* Nothing is registered, allocated or reported at the start.
LEMMA InitInv == Init => Inv
<1> SUFFICES ASSUME Init PROVE Inv OBVIOUS
<1>1. TypeOK BY IoAssumption DEF Init, TypeOK
<1>2. Len(events) = 0 BY DEF Init
<1>3. EventsLive /\ OnePerFd /\ AcceptPending
  BY <1>2 DEF EventsLive, OnePerFd, AcceptPending
<1>4. InterestIsHeap BY Constants DEF Init, InterestIsHeap
<1> QED BY <1>1, <1>3, <1>4 DEF Inv

\* epoll_wait reports each ready descriptor once, with its registered pointer.
LEMMA WaitInv == Inv /\ epoll_wait => Inv'
<1> SUFFICES ASSUME Inv, epoll_wait PROVE Inv' OBVIOUS
<1>0. TypeOK /\ InterestIsHeap BY DEF Inv
<1> DEFINE n == Cardinality(Ready)
<1>1. n \in Nat BY <1>0, ReadyFinite, FS_CardinalityType
<1>2. /\ events' \in [1 .. n -> Ready]
      /\ \A i, j \in 1 .. n : i # j => events'[i] # events'[j]
  BY DEF epoll_wait, SetToSeqs
<1> HIDE DEF n
<1>3. Ready \subseteq Events
  <2>1. ASSUME NEW d \in Fds, interest[d] # NoPtr
        PROVE  [ptr |-> interest[d], fd |-> d] \in Events
    BY <1>0, <2>1 DEF TypeOK, Events
  <2>2. [ptr |-> acceptor, fd |-> listenfd] \in Events BY DEF Events
  <2> QED BY <1>0, <2>1, <2>2 DEF Ready, TypeOK
<1>4. events' \in Seq(Events) /\ Len(events') = n BY <1>1, <1>2, <1>3
<1>5. TypeOK' BY <1>0, <1>4 DEF TypeOK, epoll_wait, peerVars
<1>6. InterestIsHeap' BY <1>0 DEF InterestIsHeap, epoll_wait
<1>7. ASSUME NEW e \in Ready
      PROVE  /\ IF e.ptr = acceptor THEN e.fd = listenfd /\ listening
                ELSE heap[e.ptr] = e.fd
             /\ e.fd # listenfd => e = [ptr |-> interest[e.fd], fd |-> e.fd]
             /\ e.fd = listenfd => e = [ptr |-> acceptor, fd |-> listenfd]
             /\ e.ptr = acceptor => backlog > 0
  <2>1. CASE \E d \in readable \cup gone :
                interest[d] # NoPtr /\ e = [ptr |-> interest[d], fd |-> d]
    <3>1. PICK d \in readable \cup gone :
             interest[d] # NoPtr /\ e = [ptr |-> interest[d], fd |-> d]
      BY <2>1
    <3>2. d \in Fds /\ interest[d] \in Addrs BY <1>0, <3>1 DEF TypeOK
    <3>3. heap[interest[d]] = d BY <1>0, <3>2 DEF InterestIsHeap
    <3> QED BY <3>1, <3>2, <3>3, Constants
  <2>2. CASE listening /\ backlog > 0 /\ e = [ptr |-> acceptor, fd |-> listenfd]
    BY <2>2
  <2> QED BY <2>1, <2>2 DEF Ready
<1>8. EventsLive' BY <1>2, <1>4, <1>7 DEF EventsLive, epoll_wait
<1>9. OnePerFd'
  <2> SUFFICES ASSUME NEW i \in 1 .. n, NEW j \in 1 .. n, i # j,
                      events'[i].fd = events'[j].fd
               PROVE  FALSE
    BY <1>4 DEF OnePerFd
  <2>1. events'[i] \in Ready /\ events'[j] \in Ready /\ events'[i] # events'[j]
    BY <1>2
  <2> QED BY <1>7, <2>1
<1>10. AcceptPending'
  BY <1>2, <1>4, <1>7 DEF AcceptPending, epoll_wait, peerVars
<1> QED BY <1>5, <1>6, <1>8, <1>9, <1>10 DEF Inv

\* Accepting into a free descriptor and a free address disturbs no other.
LEMMA AcceptInv == Inv /\ Acceptor_handle => Inv'
<1> SUFFICES ASSUME Inv, Acceptor_handle PROVE Inv' OBVIOUS
<1>0. TypeOK /\ InterestIsHeap /\ Take(acceptor) BY DEF Inv, Acceptor_handle
<1>1. PICK a \in FreeAddrs, d \in FreeFds : make_connection(a, d)
  BY DEF Acceptor_handle
<1>2. a \in Addrs /\ heap[a] = NoFd /\ d \in Fds /\ interest[d] = NoPtr
  BY DEF FreeAddrs, FreeFds
<1>3. /\ heap' = [heap EXCEPT ![a] = d]
      /\ interest' = [interest EXCEPT ![d] = a]
      /\ UNCHANGED <<listening, connects, readable, gone, alive>>
      /\ backlog' = backlog - 1
  BY <1>1 DEF make_connection, Acceptor_handle
<1>4. InterestIsHeap'
  BY <1>0, <1>2, <1>3, Constants DEF TypeOK, InterestIsHeap
<1>5. EventsLive' /\ OnePerFd' /\ AcceptPending'
  <2>1. \A x \in Addrs : heap[x] \in Fds => heap'[x] = heap[x]
    BY <1>0, <1>2, <1>3, Constants DEF TypeOK
  <2> QED BY <1>0, <1>3, <2>1, RestLive
<1>6. backlog > 0
  <2>1. 1 \in 1 .. Len(events) /\ events[1].ptr = acceptor
    BY <1>0, TakeEffect DEF TypeOK
  <2> QED BY <2>1 DEF Inv, AcceptPending
<1>7. TypeOK'
  BY <1>0, <1>2, <1>3, <1>6, TakeEffect DEF TypeOK
<1> QED BY <1>4, <1>5, <1>7 DEF Inv

\* After an accept4 error the array names the Acceptor no more.
LEMMA ErrorInv == Inv /\ Acceptor_error => Inv'
<1> SUFFICES ASSUME Inv, Acceptor_error PROVE Inv' OBVIOUS
<1>0. TypeOK /\ InterestIsHeap /\ Take(acceptor) BY DEF Inv, Acceptor_error
<1>1. 1 \in 1 .. Len(events) /\ events[1].ptr = acceptor
  BY <1>0, TakeEffect DEF TypeOK
<1>2. backlog > 0 BY <1>1 DEF Inv, AcceptPending
<1>3. TypeOK'
  <2>1. backlog' \in 0 .. connects /\ listening' = FALSE /\ alive' \in BOOLEAN
        /\ UNCHANGED <<heap, interest, connects, readable, gone>>
    BY <1>0, <1>2 DEF TypeOK, Acceptor_error
  <2>2. events' \in Seq(Events) BY <1>0, TakeEffect
  <2>3. listening' \in BOOLEAN BY <2>1
  <2> HIDE DEF Events
  <2> QED BY <1>0, <2>1, <2>2, <2>3 DEF TypeOK
<1>4. InterestIsHeap' BY <1>0 DEF InterestIsHeap, Acceptor_error
<1>5. EventsLive' /\ OnePerFd' /\ AcceptPending'
  BY <1>0, RestLive DEF Acceptor_error
<1> QED BY <1>3, <1>4, <1>5 DEF Inv

\* Deleting a Connection touches its own descriptor and address only.
LEMMA HandleInv == Inv /\ (\E a \in Addrs : Connection_handle(a)) => Inv'
<1> SUFFICES ASSUME Inv, NEW a \in Addrs, Connection_handle(a) PROVE Inv'
  OBVIOUS
<1>0. TypeOK /\ InterestIsHeap /\ Take(a)
      /\ UNCHANGED <<listening, connects, backlog, alive>>
  BY DEF Inv, Connection_handle
<1>1. heap[a] \in Fds /\ heap[a] # NoFd
  BY <1>0 DEF Connection_handle, TypeOK
<1>2. events[1].fd = heap[a]
  <2>1. 1 \in 1 .. Len(events) /\ events[1].ptr = a
    BY <1>0, TakeEffect DEF TypeOK
  <2> QED BY <2>1, Constants DEF Inv, EventsLive
<1>3. CASE UNCHANGED <<heap, interest, gone>>
           /\ readable' = readable \ {heap[a]}
  <2>1. TypeOK' BY <1>0, <1>3, TakeEffect DEF TypeOK
  <2>2. InterestIsHeap' BY <1>0, <1>3 DEF InterestIsHeap
  <2>3. EventsLive' /\ OnePerFd' /\ AcceptPending' BY <1>0, <1>3, RestLive
  <2> QED BY <2>1, <2>2, <2>3 DEF Inv
<1>4. CASE Connection_delete(a)
  <2>1. TypeOK'
    BY <1>0, <1>1, <1>4, TakeEffect DEF TypeOK, Connection_delete
  <2>2. InterestIsHeap'
    BY <1>0, <1>1, <1>4, Constants DEF TypeOK, InterestIsHeap, Connection_delete
  <2>3. \A x \in Addrs : heap[x] # heap[a] => heap'[x] = heap[x]
    BY <1>0, <1>4 DEF Connection_delete, TypeOK
  <2>4. EventsLive' /\ OnePerFd' /\ AcceptPending'
    BY <1>0, <1>2, <2>3, RestLive
  <2> QED BY <2>1, <2>2, <2>4 DEF Inv
<1> QED BY <1>3, <1>4 DEF Connection_handle

\* The clients change neither the heap nor the registrations nor the array.
LEMMA ClientsInv == Inv /\ Clients => Inv'
<1> SUFFICES ASSUME Inv, Clients PROVE Inv' OBVIOUS
<1>1. UNCHANGED <<heap, interest, listening, events, alive>>
  BY DEF Clients, Connect, Sends, Closes
<1>2. TypeOK'
  <2>1. TypeOK BY DEF Inv
  <2>2. MaxClients \in Nat BY IoAssumption
  <2>3. CASE Connect BY <2>1, <2>2, <2>3 DEF TypeOK, Connect
  <2>4. CASE \E d \in Fds : Sends(d) \/ Closes(d)
    BY <2>1, <2>4 DEF TypeOK, Sends, Closes
  <2> QED BY <2>3, <2>4 DEF Clients
<1>3. backlog \in Nat /\ backlog' >= backlog
  BY DEF Inv, TypeOK, Clients, Connect, Sends, Closes
<1>4. InterestIsHeap' /\ EventsLive' /\ OnePerFd'
  BY <1>1 DEF Inv, InterestIsHeap, EventsLive, OnePerFd
<1>5. AcceptPending'
  BY <1>1, <1>2, <1>3 DEF Inv, AcceptPending, TypeOK
<1> QED BY <1>2, <1>4, <1>5 DEF Inv

\* The invariant is inductive.
LEMMA NextInv == Inv /\ [Next]_vars => Inv'
<1> SUFFICES ASSUME Inv, [Next]_vars PROVE Inv' OBVIOUS
<1>1. CASE UNCHANGED vars
  BY <1>1 DEF Inv, TypeOK, InterestIsHeap, EventsLive, OnePerFd,
              AcceptPending, vars
<1> QED BY <1>1, WaitInv, AcceptInv, ErrorInv, HandleInv, ClientsInv
        DEF Next, Loop

(***************************************************************************)
(* IOContext::run never calls handle() through a pointer whose Connection  *)
(* was deleted, or replaced, since epoll_wait reported it.                 *)
(***************************************************************************)
THEOREM NoStaleEvent == Spec => []EventsLive
<1>1. Inv => EventsLive BY DEF Inv
<1> QED BY <1>1, InitInv, NextInv, PTL DEF Spec

(***************************************************************************)
(* The interest list names exactly the Connections that exist: deleting    *)
(* one leaves neither a descriptor nor a registration behind.              *)
(***************************************************************************)
THEOREM NoLeak == Spec => []InterestIsHeap
<1>1. Inv => InterestIsHeap BY DEF Inv
<1> QED BY <1>1, InitInv, NextInv, PTL DEF Spec

-----------------------------------------------------------------------------
(* The producer/consumer programs *)

PCs == {"start", "lock", "in", "asleep", "relock", "second", "after", "done"}
Nexts == {"start", "done"}
Nodes == Nat \X Nat

ThreadStates == [pc : PCs, n : Nat, next : Nexts]
QueueFields == {"mutex", "empty", "full", "que", "fifo", "p", "f", "count",
                "running", "spurious", "life"}

\* The queue's state: a record with these fields.
QueueTypes ==
    /\ DOMAIN bq = QueueFields
    /\ bq.mutex \in {0} \cup Threads
    /\ bq.empty \in Nat /\ bq.full \in Nat /\ bq.p \in Nat /\ bq.f \in Nat
    /\ DOMAIN bq.que = 0 .. QSize - 1
    /\ bq.fifo \in Seq(Nodes)

QTypes ==
    /\ bp \in QueuePrograms
    /\ QueueTypes
    /\ bt \in [Threads -> ThreadStates]

\* Who is at a place where the mutex is held holds it; the std program
\* notifies before it unlocks.
Holds(pc) == pc \in {"in", "second"} \/ (bp = "std" /\ pc = "after")
QMutex == \A t \in Threads : Holds(bt[t].pc) => bq.mutex = t

-----------------------------------------------------------------------------
(* The inductive invariant *)

\* How many threads of a side are at one of the places X.
PlacedAt(threads, side, X) == {u \in side : threads[u].pc \in X}
N(threads, side, X) == Cardinality(PlacedAt(threads, side, X))

\* Nobody waits for an empty slot of a queue without slots.
NoSlots == bp \notin Rings => bq.empty = QSize

\* An item is counted by full, or a producer has put it and not posted yet, or
\* a consumer has waited for it and not taken it yet.
ItemsAccounted ==
    bp \in Rings \cup {"sem"} =>
        Size = bq.full + N(bt, Producers, {"after"}) + N(bt, Consumers, {"lock", "in"})

\* So is a slot by empty, the other way round.
SlotsAccounted ==
    bp \in Rings =>
        QSize = Size + bq.empty + N(bt, Producers, {"lock", "in"}) + N(bt, Consumers, {"after"})

\* The slots from f to p hold the items.
SlotsExact ==
    bp \in Rings =>
        /\ bq.p = bq.f + Size
        /\ \A i \in 1 .. Size : bq.que[(bq.f + i - 1) % QSize] = bq.fifo[i]

Bounded == bp = "bounded" => Size <= QSize

QueueInv == QTypes /\ QMutex /\ NoSlots /\ ItemsAccounted /\ SlotsAccounted /\ SlotsExact /\ Bounded

\* The two sides are disjoint, and no thread is 0, the free mutex.
LEMMA ThreadsAreNumbers ==
  /\ Threads \subseteq Nat \ {0}
  /\ Producers \subseteq Threads /\ Consumers \subseteq Threads
  /\ Producers \cap Consumers = {}
BY QueueAssumption DEF Threads, Producers, Consumers

-----------------------------------------------------------------------------
(* What a step can do to the state, whatever the program *)

\* t goes from a to b; of the others, some who sleep may be woken.
Moves(t, a, b) ==
    /\ bt[t].pc = a /\ bt'[t].pc = b
    /\ bt' \in [Threads -> ThreadStates]
    /\ \A u \in Threads \ {t} :
          bt'[u].pc = bt[u].pc \/ (bt[u].pc = "asleep" /\ bt'[u].pc = "relock")

SameItems == bq'.fifo = bq.fifo /\ bq'.p = bq.p /\ bq'.f = bq.f /\ bq'.que = bq.que
SameSems == bq'.empty = bq.empty /\ bq'.full = bq.full

\* The mutex is taken, or let go by its holder, or left alone.
MutexStep(t, a, b) ==
    \/ bq.mutex = 0 /\ bq'.mutex = t
    \/ bq'.mutex = bq.mutex /\ (Holds(b) => Holds(a))
    \/ bq'.mutex = 0 /\ Holds(a) /\ ~Holds(b)

Waits(t) ==
    /\ Moves(t, "start", "lock") /\ SameItems /\ bq'.mutex = bq.mutex
    /\ \/ /\ t \in Producers /\ bp \in Rings /\ bq.empty > 0
          /\ bq'.empty = bq.empty - 1 /\ bq'.full = bq.full
       \/ /\ t \in Consumers /\ bp \in Rings \cup {"sem"} /\ bq.full > 0
          /\ bq'.full = bq.full - 1 /\ bq'.empty = bq.empty

Posts(t) ==
    /\ \E b \in Nexts : Moves(t, "after", b)
    /\ SameItems /\ bq'.mutex = bq.mutex
    /\ \/ /\ t \in Producers /\ bp \in Rings \cup {"sem"}
          /\ bq'.full = bq.full + 1 /\ bq'.empty = bq.empty
       \/ /\ t \in Consumers /\ bp \in Rings
          /\ bq'.empty = bq.empty + 1 /\ bq'.full = bq.full

Puts(t) ==
    /\ t \in Producers /\ Moves(t, "in", "after") /\ SameSems
    /\ bq'.mutex = IF bp = "std" THEN t ELSE 0
    /\ bq'.f = bq.f /\ bq'.p = bq.p + 1
    /\ \E x \in Nodes :
          /\ bq'.fifo = Append(bq.fifo, x)
          /\ bp \in Rings => bq'.que = [bq.que EXCEPT ![bq.p % QSize] = x]
    /\ bp = "bounded" => Size < QSize

Takes(t) ==
    /\ t \in Consumers /\ SameSems /\ bq'.mutex = 0
    /\ \E a \in {"in", "second"}, b \in Nexts \cup {"after"} :
          /\ Moves(t, a, b)
          /\ bp \in Rings => a = "in" /\ b = "after"
          /\ bp = "sem" => a = "in" /\ b \in Nexts
          /\ bp = "std" => b \in Nexts
    /\ bq'.f = bq.f + 1 /\ bq'.p = bq.p
    /\ Size > 0 /\ bq'.fifo = Tail(bq.fifo) /\ bq'.que = bq.que

\* Locks, sleeps, wakes, begins or ends a round: nothing that is counted.
Others(t) ==
    /\ SameItems /\ SameSems
    /\ \E a \in PCs, b \in PCs :
          /\ Moves(t, a, b) /\ MutexStep(t, a, b)
          /\ bp \in Rings \/ (bp = "sem" /\ t \in Consumers)
                => (a \in {"lock", "in"} <=> b \in {"lock", "in"})
          /\ bp \in Rings \cup {"sem"} => (a = "after" <=> b = "after")

Effect(t) ==
    /\ QueueTypes' /\ bp' = bp
    /\ Waits(t) \/ Posts(t) \/ Puts(t) \/ Takes(t) \/ Others(t)

-----------------------------------------------------------------------------
(* What the operations of the model change *)

\* What Goes changes.
LEMMA GoesTo ==
  ASSUME QTypes, NEW t \in Threads, NEW pc \in PCs, bt' = Goes(t, pc)
  PROVE  /\ bt' \in [Threads -> ThreadStates] /\ bt'[t].pc = pc
         /\ bt'[t].n = bt[t].n
         /\ \A u \in Threads \ {t} : bt'[u] = bt[u]
<1>1. bt[t] \in ThreadStates BY DEF QTypes
<1>2. bt' = [bt EXCEPT ![t] = [bt[t] EXCEPT !.pc = pc]] BY DEF Goes
<1>3. [bt[t] EXCEPT !.pc = pc] \in ThreadStates BY <1>1 DEF ThreadStates
<1>4. [bt[t] EXCEPT !.pc = pc].pc = pc /\ [bt[t] EXCEPT !.pc = pc].n = bt[t].n
  BY <1>1 DEF ThreadStates
<1>5. bt'[t] = [bt[t] EXCEPT !.pc = pc] BY <1>2 DEF QTypes
<1>6. \A u \in Threads \ {t} : bt'[u] = bt[u] BY <1>2 DEF QTypes
<1>7. bt' \in [Threads -> ThreadStates] BY <1>2, <1>3 DEF QTypes
<1> QED BY <1>4, <1>5, <1>6, <1>7

\* What a signal changes.
LEMMA WokenTo ==
  ASSUME QTypes, NEW t \in Threads, NEW pc \in PCs, NEW W,
         \A u \in W : bt[u].pc = "asleep", Woken(W, t, pc)
  PROVE  /\ bt' \in [Threads -> ThreadStates] /\ bt'[t].pc = pc
         /\ \A u \in Threads \ {t} :
               bt'[u] = bt[u] \/ (bt[u].pc = "asleep" /\ bt'[u].pc = "relock")
<1>1. \A u \in Threads : /\ bt[u] \in ThreadStates
                         /\ [bt[u] EXCEPT !.pc = pc] \in ThreadStates
                         /\ [bt[u] EXCEPT !.pc = pc].pc = pc
                         /\ [bt[u] EXCEPT !.pc = "relock"] \in ThreadStates
                         /\ [bt[u] EXCEPT !.pc = "relock"].pc = "relock"
  BY DEF QTypes, ThreadStates, PCs
<1> QED BY <1>1 DEF Woken

\* What the producer does under the mutex.
LEMMA PushTo ==
  ASSUME QTypes, NEW t \in Threads, NEW mutex \in {0, t}, NEW next \in Nexts,
         Push(t, mutex, next)
  PROVE  /\ bt[t].pc = "in" /\ bt'[t].pc = "after"
         /\ bt' \in [Threads -> ThreadStates]
         /\ \A u \in Threads \ {t} : bt'[u] = bt[u]
         /\ QueueTypes' /\ bq'.mutex = mutex
         /\ bq'.empty = bq.empty /\ bq'.full = bq.full
         /\ bq'.f = bq.f /\ bq'.p = bq.p + 1
         /\ bq'.fifo = Append(bq.fifo, Item(t)) /\ Item(t) \in Nodes
         /\ bp \in Rings => bq'.que = [bq.que EXCEPT ![bq.p % QSize] = Item(t)]
<1>1. bt[t] \in ThreadStates /\ bt[t].n \in Nat BY DEF QTypes, ThreadStates
<1>2. Item(t) \in Nodes
  <2>1. t \in Nat BY ThreadsAreNumbers
  <2>2. <<t, bt[t].n>> \in Nodes /\ Stop \in Nodes BY <1>1, <2>1 DEF Nodes, Stop
  <2> QED BY <2>2 DEF Item
<1>3. PICK m \in Nat : m = bt[t].n + 1 BY <1>1
<1>4. PICK s : s = [[[bt[t] EXCEPT !.pc = "after"] EXCEPT !.n = m] EXCEPT !.next = next]
  OBVIOUS
<1>5. s \in ThreadStates /\ s.pc = "after" BY <1>1, <1>4 DEF ThreadStates, PCs
<1>6. bt' = [bt EXCEPT ![t] = s]
  BY <1>1, <1>3, <1>4 DEF Push, QTypes, ThreadStates
<1>7. /\ bt' \in [Threads -> ThreadStates] /\ bt'[t].pc = "after"
      /\ \A u \in Threads \ {t} : bt'[u] = bt[u]
  BY <1>5, <1>6 DEF QTypes
<1>8. PICK que : que = IF bp \in Rings THEN [bq.que EXCEPT ![Slot] = Item(t)] ELSE bq.que
  OBVIOUS
<1>9. QueueTypes /\ DOMAIN que = 0 .. QSize - 1 BY <1>8 DEF QTypes, QueueTypes
<1>10. Append(bq.fifo, Item(t)) \in Seq(Nodes) BY <1>2, <1>9 DEF QueueTypes
<1>11. bq' = [bq EXCEPT !.mutex = mutex, !.fifo = Append(@, Item(t)), !.p = @ + 1,
                        !.que = que]
  BY <1>8 DEF Push
<1>12. /\ bq'.mutex = mutex /\ bq'.fifo = Append(bq.fifo, Item(t))
       /\ bq'.p = bq.p + 1 /\ bq'.que = que /\ DOMAIN bq' = QueueFields
       /\ bq'.empty = bq.empty /\ bq'.full = bq.full /\ bq'.f = bq.f
  BY <1>9, <1>11 DEF QueueTypes, QueueFields
<1>13. QueueTypes' BY <1>9, <1>10, <1>12 DEF QueueTypes
<1>14. bp \in Rings => que = [bq.que EXCEPT ![bq.p % QSize] = Item(t)]
  BY <1>8 DEF Slot
<1> QED BY <1>2, <1>7, <1>12, <1>13, <1>14 DEF Push, At

\* What the consumer does under the mutex.
LEMMA PopTo ==
  ASSUME QTypes, NEW t \in Threads, NEW pc \in PCs, NEW next \in Nexts,
         Len(bq.fifo) > 0, Pop(t, pc, next)
  PROVE  /\ bt'[t].pc = pc
         /\ bt' \in [Threads -> ThreadStates]
         /\ \A u \in Threads \ {t} : bt'[u] = bt[u]
         /\ QueueTypes' /\ bq'.mutex = 0
         /\ bq'.empty = bq.empty /\ bq'.full = bq.full
         /\ bq'.f = bq.f + 1 /\ bq'.p = bq.p
         /\ bq'.fifo = Tail(bq.fifo) /\ bq'.que = bq.que
<1>1. bt[t] \in ThreadStates /\ bt[t].n \in Nat BY DEF QTypes, ThreadStates
<1>2. PICK m \in Nat :
        m = IF bp \in {"demand", "demand_p"} THEN bt[t].n + 1 ELSE bt[t].n
  BY <1>1
<1>3. PICK s : s = [[[bt[t] EXCEPT !.pc = pc] EXCEPT !.next = next] EXCEPT !.n = m]
  OBVIOUS
<1>4. s \in ThreadStates /\ s.pc = pc BY <1>1, <1>3 DEF ThreadStates
<1>5. bt' = [bt EXCEPT ![t] = s]
  BY <1>1, <1>2, <1>3 DEF Pop, QTypes, ThreadStates
<1>6. /\ bt' \in [Threads -> ThreadStates] /\ bt'[t].pc = pc
      /\ \A u \in Threads \ {t} : bt'[u] = bt[u]
  BY <1>4, <1>5 DEF QTypes
<1>7. QueueTypes BY DEF QTypes
<1>8. Tail(bq.fifo) \in Seq(Nodes)
  <2>1. bq.fifo \in Seq(Nodes) BY <1>7 DEF QueueTypes
  <2> QED BY <2>1
<1>9. bq' = [bq EXCEPT !.mutex = 0, !.fifo = Tail(@), !.f = @ + 1] BY DEF Pop
<1>10. /\ bq'.mutex = 0 /\ bq'.fifo = Tail(bq.fifo) /\ bq'.f = bq.f + 1
       /\ bq'.p = bq.p /\ bq'.que = bq.que /\ DOMAIN bq' = QueueFields
       /\ bq'.empty = bq.empty /\ bq'.full = bq.full
  BY <1>7, <1>9 DEF QueueTypes, QueueFields
<1>11. QueueTypes' BY <1>7, <1>8, <1>10 DEF QueueTypes
<1> QED BY <1>6, <1>10, <1>11

-----------------------------------------------------------------------------
(* Counting the threads at a place *)

\* When only t changes place, a count changes by at most one.
LEMMA CountMoves ==
  ASSUME NEW g, NEW h, NEW side, IsFiniteSet(side), NEW X, NEW t,
         \A u \in side \ {t} : g[u].pc \in X <=> h[u].pc \in X
  PROVE  /\ N(g, side, X) \in Nat /\ N(h, side, X) \in Nat
         /\ t \notin side \/ (g[t].pc \in X <=> h[t].pc \in X)
               => N(h, side, X) = N(g, side, X)
         /\ t \in side /\ g[t].pc \in X => N(g, side, X) >= 1
         /\ t \in side /\ g[t].pc \in X /\ h[t].pc \notin X
               => N(h, side, X) = N(g, side, X) - 1
         /\ t \in side /\ g[t].pc \notin X /\ h[t].pc \in X
               => N(h, side, X) = N(g, side, X) + 1
<1>1. PICK G : G = PlacedAt(g, side, X) OBVIOUS
<1>2. PICK H : H = PlacedAt(h, side, X) OBVIOUS
<1>3. /\ \A u : u \in G <=> u \in side /\ g[u].pc \in X
      /\ \A u : u \in H <=> u \in side /\ h[u].pc \in X
  BY <1>1, <1>2 DEF PlacedAt
<1>4. IsFiniteSet(G) /\ IsFiniteSet(H) BY <1>3, FS_Subset
<1>5. Cardinality(G) \in Nat /\ Cardinality(H) \in Nat BY <1>4, FS_CardinalityType
<1>6. N(g, side, X) = Cardinality(G) /\ N(h, side, X) = Cardinality(H)
  BY <1>1, <1>2 DEF N
<1>7. t \notin side \/ (g[t].pc \in X <=> h[t].pc \in X) => G = H
  BY <1>3
<1>8. t \in side /\ g[t].pc \in X => Cardinality(G) >= 1
  <2>1. t \in side /\ g[t].pc \in X => G # {} BY <1>3
  <2>2. Cardinality(G) = 0 => G = {} BY <1>4, FS_EmptySet
  <2> QED BY <2>1, <2>2, <1>5
<1>9. t \in side /\ g[t].pc \in X /\ h[t].pc \notin X => H = G \ {t} /\ t \in G
  BY <1>3
<1>10. t \in side /\ g[t].pc \notin X /\ h[t].pc \in X => H = G \cup {t} /\ t \notin G
  BY <1>3
<1>11. t \in G => Cardinality(G \ {t}) = Cardinality(G) - 1 BY <1>4, FS_RemoveElement
<1>12. t \notin G => Cardinality(G \cup {t}) = Cardinality(G) + 1 BY <1>4, FS_AddElement
<1> QED BY <1>5, <1>6, <1>7, <1>8, <1>9, <1>10, <1>11, <1>12

PlacePairs == {{"lock", "in"}, {"after"}}

\* There are finitely many threads to count.
LEMMA SidesFinite ==
  IsFiniteSet(Producers) /\ IsFiniteSet(Consumers)
<1>1. NProd \in Int /\ NProd + 1 \in Int /\ NProd + NCons \in Int BY QueueAssumption
<1> QED BY <1>1, FS_Interval DEF Producers, Consumers

\* Those who are woken are not counted, asleep or awake.
LEMMA MovesCount ==
  ASSUME NEW t \in Threads, NEW a, NEW b, Moves(t, a, b),
         NEW side \in {Producers, Consumers}, NEW X \in PlacePairs
  PROVE  /\ N(bt, side, X) \in Nat /\ N(bt', side, X) \in Nat
         /\ t \notin side \/ (a \in X <=> b \in X)
               => N(bt', side, X) = N(bt, side, X)
         /\ t \in side /\ a \in X => N(bt, side, X) >= 1
         /\ t \in side /\ a \in X /\ b \notin X
               => N(bt', side, X) = N(bt, side, X) - 1
         /\ t \in side /\ a \notin X /\ b \in X
               => N(bt', side, X) = N(bt, side, X) + 1
<1>1. IsFiniteSet(side) BY SidesFinite
<1>2. "asleep" \notin X /\ "relock" \notin X BY DEF PlacePairs
<1>3. \A u \in side \ {t} : bt[u].pc \in X <=> bt'[u].pc \in X
  BY <1>2, ThreadsAreNumbers DEF Moves
<1>4. bt[t].pc = a /\ bt'[t].pc = b BY DEF Moves
<1>a. PICK g : g = bt OBVIOUS
<1>b. PICK h : h = bt' OBVIOUS
<1>c. \A u \in side \ {t} : g[u].pc \in X <=> h[u].pc \in X BY <1>3, <1>a, <1>b
<1> HIDE DEF N
<1>d. /\ N(g, side, X) \in Nat /\ N(h, side, X) \in Nat
      /\ t \notin side \/ (g[t].pc \in X <=> h[t].pc \in X)
            => N(h, side, X) = N(g, side, X)
      /\ t \in side /\ g[t].pc \in X => N(g, side, X) >= 1
      /\ t \in side /\ g[t].pc \in X /\ h[t].pc \notin X
            => N(h, side, X) = N(g, side, X) - 1
      /\ t \in side /\ g[t].pc \notin X /\ h[t].pc \in X
            => N(h, side, X) = N(g, side, X) + 1
  BY ONLY <1>1, <1>c, CountMoves
<1>5. N(bt, side, X) = N(g, side, X) /\ N(bt', side, X) = N(h, side, X)
  BY <1>a, <1>b
<1>6. g[t].pc = a /\ h[t].pc = b BY <1>4, <1>a, <1>b
<1> QED BY <1>5, <1>6, <1>d, Zenon

-----------------------------------------------------------------------------
(* Slots of the ring *)

\* Quotient and remainder, as % and \div define them.
LEMMA DivMod ==
  ASSUME NEW a \in Int, NEW d \in Nat, d > 0
  PROVE  /\ a \div d \in Int /\ a % d \in 0 .. d - 1
         /\ a = d * (a \div d) + (a % d)
OBVIOUS

\* A positive multiple of d is at least d.
LEMMA MulPos ==
  ASSUME NEW d \in Nat, NEW x \in Int, x >= 1, d > 0
  PROVE  d * x >= d
OBVIOUS

\* Two positions less than a ring apart have different slots.
LEMMA SlotsDiffer ==
  ASSUME NEW d \in Nat, d > 0, NEW a \in Nat, NEW b \in Nat, a < b, b - a < d
  PROVE  a % d # b % d
<1>0. a \in Int /\ b \in Int OBVIOUS
<1>1. PICK x \in Int, r \in 0 .. d - 1 : a = d * x + r /\ r = a % d
  BY <1>0, DivMod
<1>2. PICK y \in Int, s \in 0 .. d - 1 : b = d * y + s /\ s = b % d
  BY ONLY <1>0, d \in Nat, d > 0, DivMod
<1>3. SUFFICES ASSUME r = s PROVE FALSE BY <1>1, <1>2
<1>4. b - a = d * (y - x) BY <1>1, <1>2, <1>3
<1>5. y - x \in Int OBVIOUS
<1>6. CASE y - x >= 1 BY <1>4, <1>5, <1>6, MulPos
<1>7. CASE y - x <= 0
  <2>1. d * (y - x) <= 0 BY <1>7
  <2> QED BY <1>4, <2>1
<1> QED BY <1>5, <1>6, <1>7


-----------------------------------------------------------------------------
(* Every effect keeps the invariant *)

\* Every effect moves one thread.
LEMMA EffectMoves ==
  ASSUME NEW t \in Threads, Effect(t)
  PROVE  \E a, b : Moves(t, a, b)
BY DEF Effect, Waits, Posts, Puts, Takes, Others

\* No step leaves the types.
LEMMA KeepsTypes ==
  ASSUME QTypes, NEW t \in Threads, Effect(t)
  PROVE  QTypes'
BY EffectMoves DEF QTypes, Effect, Moves

\* The mutex excludes: no second thread gets to where it is held.
LEMMA KeepsMutex ==
  ASSUME QTypes, QMutex, NEW t \in Threads, Effect(t)
  PROVE  QMutex'
<1>0. bp' = bp BY DEF Effect
<1>1. ASSUME NEW a, NEW b, Moves(t, a, b), MutexStep(t, a, b)
      PROVE  QMutex'
  <2>2. ~Holds("relock") /\ 0 \notin Threads BY ThreadsAreNumbers DEF Holds
  <2>3. SUFFICES ASSUME NEW u \in Threads, Holds(bt'[u].pc)
                 PROVE  bq'.mutex = u
    BY <1>0 DEF QMutex, Holds
  <2>4. bt[t].pc = a /\ bt'[t].pc = b BY <1>1 DEF Moves
  <2>5. Holds(a) => bq.mutex = t BY <2>4 DEF QMutex
  <2>6. CASE u = t BY <1>1, <2>3, <2>4, <2>5, <2>6 DEF MutexStep
  <2>7. CASE u # t
    <3>1. Holds(bt[u].pc) BY <1>1, <2>2, <2>3, <2>7 DEF Moves
    <3>2. bq.mutex = u BY <3>1 DEF QMutex
    <3> QED BY <1>1, <2>2, <2>5, <2>7, <3>2 DEF MutexStep
  <2> QED BY <2>6, <2>7
<1>2. CASE Waits(t)
  <2>1. Moves(t, "start", "lock") /\ MutexStep(t, "start", "lock")
    BY <1>2 DEF Waits, MutexStep, Holds
  <2> QED BY <1>1, <2>1
<1>3. CASE Posts(t)
  <2>1. PICK b \in Nexts : Moves(t, "after", b) BY <1>3 DEF Posts
  <2>2. MutexStep(t, "after", b) BY <1>3 DEF Posts, MutexStep, Holds, Nexts
  <2> QED BY <1>1, <2>1, <2>2
<1>4. CASE Puts(t)
  <2>1. Moves(t, "in", "after") /\ bq.mutex = t BY <1>4 DEF Puts, Moves, QMutex, Holds
  <2>2. MutexStep(t, "in", "after") BY <1>4, <2>1 DEF Puts, MutexStep, Holds
  <2> QED BY <1>1, <2>1, <2>2
<1>5. CASE Takes(t)
  <2>1. PICK a \in {"in", "second"}, b \in Nexts \cup {"after"} :
          Moves(t, a, b) /\ (bp = "std" => b \in Nexts)
    BY <1>5 DEF Takes
  <2>2. MutexStep(t, a, b) BY <1>5, <2>1 DEF Takes, MutexStep, Holds, Nexts
  <2> QED BY <1>1, <2>1, <2>2
<1>6. CASE Others(t) BY <1>1, <1>6 DEF Others
<1> QED BY <1>2, <1>3, <1>4, <1>5, <1>6 DEF Effect

\* The queue has a length.
LEMMA SizeIsNat ==
  ASSUME QTypes
  PROVE  Size \in Nat /\ bq.fifo \in Seq(Nodes)
BY DEF QTypes, QueueTypes, Size

\* A put adds an item.
LEMMA PutSize ==
  ASSUME QTypes, NEW t, Puts(t)
  PROVE  Size' = Size + 1
BY SizeIsNat DEF Puts, Size

\* A take removes one.
LEMMA TakeSize ==
  ASSUME QTypes, NEW t, Takes(t)
  PROVE  Size' = Size - 1 /\ Size > 0
BY SizeIsNat DEF Takes, Size


\* The four counts of a step from a to b.
Counts4(t, a, b) ==
    \A side \in {Producers, Consumers}, X \in PlacePairs :
        /\ N(bt, side, X) \in Nat /\ N(bt', side, X) \in Nat
        /\ t \notin side \/ (a \in X <=> b \in X) => N(bt', side, X) = N(bt, side, X)
        /\ t \in side /\ a \in X => N(bt, side, X) >= 1
        /\ t \in side /\ a \in X /\ b \notin X => N(bt', side, X) = N(bt, side, X) - 1
        /\ t \in side /\ a \notin X /\ b \in X => N(bt', side, X) = N(bt, side, X) + 1

\* full, the producers that have not posted and the consumers let in
\* account for the items.
LEMMA KeepsItems ==
  ASSUME QTypes, ItemsAccounted, NEW t \in Threads, Effect(t)
  PROVE  ItemsAccounted'
<1>0. SUFFICES ASSUME bp \in Rings \cup {"sem"}
               PROVE  Size' = bq'.full + N(bt', Producers, {"after"})
                                       + N(bt', Consumers, {"lock", "in"})
  BY DEF ItemsAccounted, Effect
<1>1. Size = bq.full + N(bt, Producers, {"after"}) + N(bt, Consumers, {"lock", "in"})
  BY <1>0 DEF ItemsAccounted
<1>2. bq.full \in Nat /\ Size \in Nat BY SizeIsNat DEF QTypes, QueueTypes
<1>3. {"after"} \in PlacePairs /\ {"lock", "in"} \in PlacePairs BY DEF PlacePairs
<1>4. t \in Producers => t \notin Consumers BY ThreadsAreNumbers
<1>5. ASSUME NEW a, NEW b, Moves(t, a, b) PROVE Counts4(t, a, b)
  BY <1>5, MovesCount DEF Counts4
<1>6. CASE Waits(t)
  <2>1. Counts4(t, "start", "lock") BY <1>5, <1>6 DEF Waits
  <2>2. Size' = Size BY <1>6 DEF Waits, SameItems, Size
  <2> QED BY <1>1, <1>2, <1>3, <1>4, <1>6, <2>1, <2>2 DEF Waits, Counts4
<1>7. CASE Posts(t)
  <2>1. PICK b \in Nexts : Counts4(t, "after", b) BY <1>5, <1>7 DEF Posts
  <2>2. Size' = Size BY <1>7 DEF Posts, SameItems, Size
  <2>3. b \notin {"after"} /\ b \notin {"lock", "in"} BY DEF Nexts
  <2> QED BY <1>1, <1>2, <1>3, <1>4, <1>7, <2>1, <2>2, <2>3 DEF Posts, Counts4
<1>8. CASE Puts(t)
  <2>1. Counts4(t, "in", "after") BY <1>5, <1>8 DEF Puts
  <2>2. Size' = Size + 1 BY <1>8, PutSize
  <2>3. t \in Producers /\ t \notin Consumers /\ bq'.full = bq.full
    BY <1>4, <1>8 DEF Puts, SameSems
  <2>4. N(bt', Producers, {"after"}) = N(bt, Producers, {"after"}) + 1
    BY <1>3, <2>1, <2>3 DEF Counts4
  <2>5. N(bt', Consumers, {"lock", "in"}) = N(bt, Consumers, {"lock", "in"})
    BY <1>3, <2>1, <2>3 DEF Counts4
  <2>6. N(bt, Producers, {"after"}) \in Nat /\ N(bt, Consumers, {"lock", "in"}) \in Nat
    BY <1>3, <2>1 DEF Counts4
  <2> QED BY <1>1, <1>2, <2>2, <2>3, <2>4, <2>5, <2>6
<1>9. CASE Takes(t)
  <2>1. PICK b \in Nexts \cup {"after"} : Counts4(t, "in", b)
    BY <1>0, <1>5, <1>9 DEF Takes
  <2>2. Size' = Size - 1 BY <1>9, TakeSize
  <2>3. b \notin {"lock", "in"} BY DEF Nexts
  <2> QED BY <1>1, <1>2, <1>3, <1>4, <1>9, <2>1, <2>2, <2>3 DEF Takes, Counts4, SameSems
<1>10. CASE Others(t)
  <2>1. PICK a \in PCs, b \in PCs :
          /\ Counts4(t, a, b) /\ (a = "after" <=> b = "after")
          /\ t \in Consumers => (a \in {"lock", "in"} <=> b \in {"lock", "in"})
    BY <1>0, <1>5, <1>10 DEF Others
  <2>2. Size' = Size BY <1>10 DEF Others, SameItems, Size
  <2> QED BY <1>1, <1>2, <1>3, <1>4, <1>10, <2>1, <2>2 DEF Others, Counts4, SameSems
<1> QED BY <1>6, <1>7, <1>8, <1>9, <1>10 DEF Effect

\* empty, the producers let in and the consumers that have not posted
\* account for the free slots.
LEMMA KeepsSlots ==
  ASSUME QTypes, SlotsAccounted, NEW t \in Threads, Effect(t)
  PROVE  SlotsAccounted'
<1>0. SUFFICES ASSUME bp \in Rings
               PROVE  QSize = Size' + bq'.empty + N(bt', Producers, {"lock", "in"})
                                                + N(bt', Consumers, {"after"})
  BY DEF SlotsAccounted, Effect
<1>1. QSize = Size + bq.empty + N(bt, Producers, {"lock", "in"}) + N(bt, Consumers, {"after"})
  BY <1>0 DEF SlotsAccounted
<1>2. bq.empty \in Nat /\ Size \in Nat BY SizeIsNat DEF QTypes, QueueTypes
<1>3. {"after"} \in PlacePairs /\ {"lock", "in"} \in PlacePairs BY DEF PlacePairs
<1>4. t \in Producers => t \notin Consumers BY ThreadsAreNumbers
<1>5. ASSUME NEW a, NEW b, Moves(t, a, b) PROVE Counts4(t, a, b)
  BY <1>5, MovesCount DEF Counts4
<1>6. CASE Waits(t)
  <2>1. Counts4(t, "start", "lock") BY <1>5, <1>6 DEF Waits
  <2>2. Size' = Size BY <1>6 DEF Waits, SameItems, Size
  <2> QED BY <1>1, <1>2, <1>3, <1>4, <1>6, <2>1, <2>2 DEF Waits, Counts4
<1>7. CASE Posts(t)
  <2>1. PICK b \in Nexts : Counts4(t, "after", b) BY <1>5, <1>7 DEF Posts
  <2>2. Size' = Size BY <1>7 DEF Posts, SameItems, Size
  <2>3. b \notin {"after"} /\ b \notin {"lock", "in"} BY DEF Nexts
  <2> QED BY <1>1, <1>2, <1>3, <1>4, <1>7, <2>1, <2>2, <2>3 DEF Posts, Counts4
<1>8. CASE Puts(t)
  <2>1. Counts4(t, "in", "after") BY <1>5, <1>8 DEF Puts
  <2>2. Size' = Size + 1 BY <1>8, PutSize
  <2>3. t \in Producers /\ t \notin Consumers /\ bq'.empty = bq.empty
    BY <1>4, <1>8 DEF Puts, SameSems
  <2>4. N(bt', Producers, {"lock", "in"}) = N(bt, Producers, {"lock", "in"}) - 1
    BY <1>3, <2>1, <2>3 DEF Counts4
  <2>5. N(bt', Consumers, {"after"}) = N(bt, Consumers, {"after"})
    BY <1>3, <2>1, <2>3 DEF Counts4
  <2>6. N(bt, Producers, {"lock", "in"}) \in Nat /\ N(bt, Consumers, {"after"}) \in Nat
    BY <1>3, <2>1 DEF Counts4
  <2> QED BY <1>1, <1>2, <2>2, <2>3, <2>4, <2>5, <2>6
<1>9. CASE Takes(t)
  <2>1. Counts4(t, "in", "after") BY <1>0, <1>5, <1>9 DEF Takes
  <2>2. Size' = Size - 1 BY <1>9, TakeSize
  <2> QED BY <1>1, <1>2, <1>3, <1>4, <1>9, <2>1, <2>2 DEF Takes, Counts4, SameSems
<1>10. CASE Others(t)
  <2>1. PICK a \in PCs, b \in PCs :
          /\ Counts4(t, a, b) /\ (a = "after" <=> b = "after")
          /\ a \in {"lock", "in"} <=> b \in {"lock", "in"}
    BY <1>0, <1>5, <1>10 DEF Others
  <2>2. Size' = Size BY <1>10 DEF Others, SameItems, Size
  <2> QED BY <1>1, <1>2, <1>3, <1>4, <1>10, <2>1, <2>2 DEF Others, Counts4, SameSems
<1> QED BY <1>6, <1>7, <1>8, <1>9, <1>10 DEF Effect

\* A producer that holds the mutex of a ring has a free slot.
LEMMA RoomToPut ==
  ASSUME QTypes, SlotsAccounted, bp \in Rings, NEW t \in Threads, Puts(t)
  PROVE  Size < QSize
<1>1. N(bt, Producers, {"lock", "in"}) >= 1
  BY MovesCount DEF Puts, PlacePairs
<1>2. N(bt, Consumers, {"after"}) \in Nat /\ N(bt, Producers, {"lock", "in"}) \in Nat
  BY MovesCount DEF Puts, PlacePairs
<1>3. bq.empty \in Nat /\ Size \in Nat BY SizeIsNat DEF QTypes, QueueTypes
<1> QED BY <1>1, <1>2, <1>3, QueueAssumption DEF SlotsAccounted

\* A put writes a slot that holds no item, and p and f stay apart by the size.
LEMMA KeepsRing ==
  ASSUME QTypes, SlotsAccounted, SlotsExact, NEW t \in Threads, Effect(t)
  PROVE  SlotsExact'
<1>0. SUFFICES ASSUME bp \in Rings
               PROVE  /\ bq'.p = bq'.f + Size'
                      /\ \A i \in 1 .. Size' : bq'.que[(bq'.f + i - 1) % QSize] = bq'.fifo[i]
  BY DEF SlotsExact, Effect
<1>1. /\ bq.p = bq.f + Size
      /\ \A i \in 1 .. Size : bq.que[(bq.f + i - 1) % QSize] = bq.fifo[i]
  BY <1>0 DEF SlotsExact
<1>2. /\ bq.f \in Nat /\ bq.p \in Nat /\ Size \in Nat /\ bq.fifo \in Seq(Nodes)
      /\ DOMAIN bq.que = 0 .. QSize - 1 /\ QSize \in Nat /\ QSize > 0
  BY SizeIsNat, QueueAssumption DEF QTypes, QueueTypes
<1>3. CASE SameItems BY <1>1, <1>3 DEF SameItems, Size
<1>4. CASE Puts(t)
  <2>1. PICK x \in Nodes : /\ bq'.fifo = Append(bq.fifo, x)
                           /\ bq'.que = [bq.que EXCEPT ![bq.p % QSize] = x]
    BY <1>0, <1>4 DEF Puts
  <2>2. bq'.f = bq.f /\ bq'.p = bq.p + 1 /\ Size' = Size + 1 BY <1>4, PutSize DEF Puts
  <2>3. Size < QSize BY <1>0, <1>4, RoomToPut
  <2>4. bq.p % QSize \in 0 .. QSize - 1 BY <1>2, DivMod
  <2>5. bq'.que[bq.p % QSize] = x BY <1>2, <2>1, <2>4
  <2>6. ASSUME NEW i \in 1 .. Size
        PROVE  bq'.que[(bq.f + i - 1) % QSize] = bq.fifo[i]
    <3>0. /\ i \in Nat /\ i >= 1 /\ i <= Size /\ bq.p = bq.f + Size
          /\ bq.f \in Nat /\ Size \in Nat /\ QSize \in Nat
      BY <1>1, <1>2
    <3>1. bq.f + i - 1 \in Nat /\ bq.f + i - 1 < bq.p /\ bq.p - (bq.f + i - 1) < QSize
      BY ONLY <2>3, <3>0
    <3>2. (bq.f + i - 1) % QSize # bq.p % QSize BY <1>2, <3>1, SlotsDiffer
    <3>3. (bq.f + i - 1) % QSize \in 0 .. QSize - 1 BY <1>2, <3>1, DivMod
    <3>4. bq'.que[(bq.f + i - 1) % QSize] = bq.que[(bq.f + i - 1) % QSize]
      BY <1>2, <2>1, <3>2, <3>3
    <3> QED BY <1>1, <3>4
  <2>7. /\ \A i \in 1 .. Size : bq'.fifo[i] = bq.fifo[i]
        /\ bq'.fifo[Size + 1] = x
    BY <1>2, <2>1 DEF Size
  <2>8. bq.f + (Size + 1) - 1 = bq.p BY <1>1, <1>2
  <2>9. ASSUME NEW i \in 1 .. Size + 1
        PROVE  bq'.que[(bq.f + i - 1) % QSize] = bq'.fifo[i]
    <3>1. CASE i = Size + 1 BY <2>5, <2>7, <2>8, <3>1
    <3>2. CASE i \in 1 .. Size BY <2>6, <2>7, <3>2
    <3> QED BY <1>2, <3>1, <3>2
  <2> QED BY <1>1, <1>2, <2>2, <2>9
<1>5. CASE Takes(t)
  <2>1. bq'.f = bq.f + 1 /\ bq'.p = bq.p /\ bq'.que = bq.que /\ bq'.fifo = Tail(bq.fifo)
    BY <1>5 DEF Takes
  <2>2. Size' = Size - 1 /\ Size > 0 BY <1>5, TakeSize
  <2>3. \A i \in 1 .. Size - 1 : bq'.fifo[i] = bq.fifo[i + 1]
    BY <1>2, <2>1, <2>2 DEF Size
  <2>4. ASSUME NEW i \in 1 .. Size - 1
        PROVE  bq'.que[(bq'.f + i - 1) % QSize] = bq'.fifo[i]
    <3>1. i + 1 \in 1 .. Size /\ bq.f + (i + 1) - 1 = bq'.f + i - 1 BY <1>2, <2>1
    <3>2. bq.que[(bq.f + (i + 1) - 1) % QSize] = bq.fifo[i + 1] BY <1>1, <3>1
    <3> QED BY <2>1, <2>3, <3>1, <3>2
  <2>5. bq'.p = bq'.f + Size' BY <1>1, <1>2, <2>1, <2>2
  <2>6. 1 .. Size' = 1 .. Size - 1 BY <2>2
  <2> QED BY <2>4, <2>5, <2>6
<1> QED BY <1>3, <1>4, <1>5 DEF Effect, Waits, Posts, Others

\* The bounded queue does not outgrow its size.
LEMMA KeepsBounded ==
  ASSUME QTypes, Bounded, NEW t \in Threads, Effect(t)
  PROVE  Bounded'
<1>0. SUFFICES ASSUME bp = "bounded" PROVE Size' <= QSize BY DEF Bounded, Effect
<1>1. Size \in Nat /\ Size <= QSize /\ QSize \in Nat
  BY <1>0, SizeIsNat, QueueAssumption DEF Bounded
<1>2. CASE SameItems BY <1>1, <1>2 DEF SameItems, Size
<1>3. CASE Puts(t) BY <1>0, <1>1, <1>3, PutSize DEF Puts
<1>4. CASE Takes(t) BY <1>1, <1>4, TakeSize
<1> QED BY <1>2, <1>3, <1>4 DEF Effect, Waits, Posts, Others

\* The invariant is inductive for every effect.
LEMMA EffectKeeps ==
  ASSUME QueueInv, NEW t \in Threads, Effect(t)
  PROVE  QueueInv'
<1>1. NoSlots'
  BY DEF QueueInv, NoSlots, Effect, Waits, Posts, Puts, Takes, Others, SameSems, Rings
<1> QED
  BY <1>1, KeepsTypes, KeepsMutex, KeepsItems, KeepsSlots, KeepsRing, KeepsBounded
  DEF QueueInv


-----------------------------------------------------------------------------
(* The operations of the programs have these effects *)

Plain == bp \notin Rings \cup {"sem"}

\* Only the mutex changes.
LEMMA MutexTo ==
  ASSUME QTypes, NEW m \in {0} \cup Threads, bq' = [bq EXCEPT !.mutex = m]
  PROVE  QueueTypes' /\ SameItems /\ SameSems /\ bq'.mutex = m
<1>1. QueueTypes BY DEF QTypes
<1>2. SameItems /\ SameSems /\ bq'.mutex = m /\ DOMAIN bq' = QueueFields
  BY <1>1 DEF QueueTypes, QueueFields, SameItems, SameSems
<1>3. QueueTypes' BY <1>1, <1>2 DEF QueueTypes, SameItems, SameSems
<1> QED BY <1>2, <1>3

\* Only full changes.
LEMMA FullTo ==
  ASSUME QTypes, NEW k \in Nat, bq' = [bq EXCEPT !["full"] = k]
  PROVE  /\ QueueTypes' /\ SameItems /\ bq'.mutex = bq.mutex
         /\ bq'.full = k /\ bq'.empty = bq.empty
<1>1. QueueTypes BY DEF QTypes
<1>2. /\ SameItems /\ bq'.mutex = bq.mutex /\ DOMAIN bq' = QueueFields
      /\ bq'.full = k /\ bq'.empty = bq.empty
  BY <1>1 DEF QueueTypes, QueueFields, SameItems
<1>3. QueueTypes' BY <1>1, <1>2 DEF QueueTypes, SameItems
<1> QED BY <1>2, <1>3

\* Only empty changes.
LEMMA EmptyTo ==
  ASSUME QTypes, NEW k \in Nat, bq' = [bq EXCEPT !["empty"] = k]
  PROVE  /\ QueueTypes' /\ SameItems /\ bq'.mutex = bq.mutex
         /\ bq'.empty = k /\ bq'.full = bq.full
<1>1. QueueTypes BY DEF QTypes
<1>2. /\ SameItems /\ bq'.mutex = bq.mutex /\ DOMAIN bq' = QueueFields
      /\ bq'.empty = k /\ bq'.full = bq.full
  BY <1>1 DEF QueueTypes, QueueFields, SameItems
<1>3. QueueTypes' BY <1>1, <1>2 DEF QueueTypes, SameItems
<1> QED BY <1>2, <1>3

\* Where a thread goes after its post or signal.
LEMMA NextIsOne ==
  ASSUME QTypes, NEW t \in Threads
  PROVE  bt[t].next \in Nexts /\ bt[t].pc \in PCs
BY DEF QTypes, ThreadStates

\* The ends of a round are places.
LEMMA NextsArePlaces == Nexts \subseteq PCs
BY DEF Nexts, PCs

\* Goes moves one thread.
LEMMA GoesMoves ==
  ASSUME QTypes, NEW t \in Threads, NEW pc \in PCs, bt' = Goes(t, pc)
  PROVE  Moves(t, bt[t].pc, pc)
BY GoesTo DEF Moves

\* sem_wait, on the semaphore of the side.
LEMMA WaitEffect ==
  ASSUME QTypes, NEW t \in Threads, bp' = bp,
         \/ t \in Producers /\ bp \in Rings /\ SemWait(t, "empty", "lock")
         \/ t \in Consumers /\ bp \in Rings \cup {"sem"} /\ SemWait(t, "full", "lock")
  PROVE  Effect(t)
<1>1. Moves(t, "start", "lock")
  <2>1. "lock" \in PCs BY DEF PCs
  <2>2. bt[t].pc = "start" /\ bt' = Goes(t, "lock") BY DEF SemWait, At
  <2> QED BY <2>1, <2>2, GoesMoves
<1>2. bq.empty \in Nat /\ bq.full \in Nat BY DEF QTypes, QueueTypes
<1>3. CASE t \in Producers /\ bp \in Rings /\ SemWait(t, "empty", "lock")
  <2>1. bq.empty > 0 /\ bq' = [bq EXCEPT !["empty"] = bq.empty - 1] BY <1>3 DEF SemWait
  <2>2. bq.empty - 1 \in Nat BY <1>2, <2>1
  <2> QED BY <1>1, <1>3, <2>1, <2>2, EmptyTo DEF Effect, Waits
<1>4. CASE t \in Consumers /\ bp \in Rings \cup {"sem"} /\ SemWait(t, "full", "lock")
  <2>1. bq.full > 0 /\ bq' = [bq EXCEPT !["full"] = bq.full - 1] BY <1>4 DEF SemWait
  <2>2. bq.full - 1 \in Nat BY <1>2, <2>1
  <2> QED BY <1>1, <1>4, <2>1, <2>2, FullTo DEF Effect, Waits
<1> QED BY <1>3, <1>4

\* sem_post, on the other side's.
LEMMA PostEffect ==
  ASSUME QTypes, NEW t \in Threads, bp' = bp,
         \/ t \in Producers /\ bp \in Rings \cup {"sem"} /\ SemPost(t, "full", bt[t].next)
         \/ t \in Consumers /\ bp \in Rings /\ SemPost(t, "empty", bt[t].next)
  PROVE  Effect(t)
<1>1. \E b \in Nexts : Moves(t, "after", b)
  <2>1. bt[t].next \in Nexts /\ bt[t].next \in PCs BY NextIsOne, NextsArePlaces
  <2>2. bt[t].pc = "after" /\ bt' = Goes(t, bt[t].next) BY DEF SemPost, At
  <2> QED BY <2>1, <2>2, GoesMoves
<1>2. bq.empty \in Nat /\ bq.full \in Nat BY DEF QTypes, QueueTypes
<1>3. CASE t \in Producers /\ bp \in Rings \cup {"sem"} /\ SemPost(t, "full", bt[t].next)
  <2>1. bq' = [bq EXCEPT !["full"] = bq.full + 1] BY <1>3 DEF SemPost
  <2>2. bq.full + 1 \in Nat BY <1>2
  <2> QED BY <1>1, <1>3, <2>1, <2>2, FullTo DEF Effect, Posts
<1>4. CASE t \in Consumers /\ bp \in Rings /\ SemPost(t, "empty", bt[t].next)
  <2>1. bq' = [bq EXCEPT !["empty"] = bq.empty + 1] BY <1>4 DEF SemPost
  <2>2. bq.empty + 1 \in Nat BY <1>2
  <2> QED BY <1>1, <1>4, <2>1, <2>2, EmptyTo DEF Effect, Posts
<1> QED BY <1>3, <1>4

\* Taking the mutex.
LEMMA LockEffect ==
  ASSUME QTypes, NEW t \in Threads, bp' = bp, NEW from \in {"start", "lock", "relock"},
         bp \in Rings \/ (bp = "sem" /\ t \in Consumers) => from = "lock",
         Lock(t, from)
  PROVE  Effect(t)
<1>1. Moves(t, from, "in")
  <2>1. "in" \in PCs BY DEF PCs
  <2>2. bt[t].pc = from /\ bt' = Goes(t, "in") BY DEF Lock, At
  <2> QED BY <2>1, <2>2, GoesMoves
<1>2. QueueTypes' /\ SameItems /\ SameSems /\ bq'.mutex = t
  BY MutexTo DEF Lock
<1>3. MutexStep(t, from, "in") BY <1>2 DEF Lock, MutexStep
<1>4. from \in PCs /\ "in" \in PCs BY DEF PCs
<1>5. Others(t) BY <1>1, <1>2, <1>3, <1>4 DEF Others
<1> QED BY <1>2, <1>5 DEF Effect

\* A put, at whatever the program calls it.
LEMMA PushEffect ==
  ASSUME QTypes, NEW t \in Producers, bp' = bp, NEW m, m = IF bp = "std" THEN t ELSE 0,
         NEW next \in Nexts, bp = "bounded" => Size < QSize, Push(t, m, next)
  PROVE  Effect(t)
<1>1. t \in Threads /\ m \in {0, t} BY ThreadsAreNumbers
<1>2. Moves(t, "in", "after") BY <1>1, PushTo DEF Moves
<1>3. QueueTypes' /\ SameSems /\ bq'.mutex = m /\ bq'.f = bq.f /\ bq'.p = bq.p + 1
  BY <1>1, PushTo DEF SameSems
<1>4. /\ Item(t) \in Nodes /\ bq'.fifo = Append(bq.fifo, Item(t))
      /\ bp \in Rings => bq'.que = [bq.que EXCEPT ![bq.p % QSize] = Item(t)]
  BY <1>1, PushTo
<1>5. Puts(t) BY <1>2, <1>3, <1>4 DEF Puts
<1> QED BY <1>3, <1>5 DEF Effect

\* A take of an item that is there.
LEMMA PopEffect ==
  ASSUME QTypes, NEW t \in Consumers, bp' = bp, NEW a \in {"in", "second"}, At(t, a),
         NEW b \in Nexts \cup {"after"}, NEW next \in Nexts,
         bp \in Rings => a = "in" /\ b = "after",
         bp = "sem" => a = "in" /\ b \in Nexts,
         bp = "std" => b \in Nexts,
         Size > 0, Pop(t, b, next)
  PROVE  Effect(t)
<1>1. t \in Threads /\ b \in PCs /\ Len(bq.fifo) > 0
  BY ThreadsAreNumbers, NextsArePlaces DEF PCs, Size
<1>2. Moves(t, a, b) BY <1>1, PopTo DEF Moves, At
<1>3. /\ QueueTypes' /\ SameSems /\ bq'.mutex = 0 /\ bq'.f = bq.f + 1 /\ bq'.p = bq.p
      /\ bq'.fifo = Tail(bq.fifo) /\ bq'.que = bq.que
  BY <1>1, PopTo DEF SameSems
<1>4. Takes(t) BY <1>2, <1>3 DEF Takes
<1> QED BY <1>3, <1>4 DEF Effect

\* Steps that move no item, in the programs without semaphores.
LEMMA PlainEffect ==
  ASSUME QTypes, Plain, NEW t \in Threads, bp' = bp, NEW b \in PCs,
         Moves(t, bt[t].pc, b), MutexStep(t, bt[t].pc, b),
         QueueTypes', SameItems, SameSems
  PROVE  Effect(t)
<1>1. bt[t].pc \in PCs BY NextIsOne
<1>2. Others(t) BY <1>1 DEF Others, Plain
<1> QED BY <1>2 DEF Effect

\* Sleeping on a condition variable.
LEMMA CondWaitEffect ==
  ASSUME QTypes, Plain, NEW t \in Threads, bp' = bp, At(t, "in"), CondWait(t)
  PROVE  Effect(t)
<1>1. "asleep" \in PCs BY DEF PCs
<1>2. Moves(t, bt[t].pc, "asleep") BY <1>1, GoesMoves DEF CondWait
<1>3. QueueTypes' /\ SameItems /\ SameSems /\ bq'.mutex = 0 BY MutexTo DEF CondWait
<1>4. MutexStep(t, bt[t].pc, "asleep") BY <1>3 DEF MutexStep, Holds, At
<1> QED BY <1>1, <1>2, <1>3, <1>4, PlainEffect

\* The queue is left alone.
LEMMA SameQueue ==
  ASSUME QTypes, bq' = bq
  PROVE  QueueTypes' /\ SameItems /\ SameSems /\ bq'.mutex = bq.mutex
BY DEF QTypes, QueueTypes, SameItems, SameSems

\* A wake-up moves t and takes sleepers to the lock.
LEMMA WokenMoves ==
  ASSUME QTypes, NEW t \in Threads, NEW pc \in PCs, NEW W,
         \A u \in W : bt[u].pc = "asleep", Woken(W, t, pc)
  PROVE  Moves(t, bt[t].pc, pc)
BY WokenTo DEF Moves

\* So do one signal and the signal to all.
LEMMA SignalMoves ==
  ASSUME QTypes, NEW t \in Threads, NEW pc \in PCs, NEW side,
         Signal(side, t, pc) \/ NotifyAll(side, t, pc)
  PROVE  Moves(t, bt[t].pc, pc)
<1>1. \E W : (\A u \in W : bt[u].pc = "asleep") /\ Woken(W, t, pc)
  BY DEF Signal, NotifyAll, Asleep, At
<1> QED BY <1>1, WokenMoves

\* The signal after the unlock, or before it in std.
LEMMA SignalsEffect ==
  ASSUME QTypes, Plain, NEW t \in Threads, bp' = bp, NEW side, At(t, "after"),
         \/ bp # "std" /\ bq' = bq
         \/ bp = "std" /\ bq' = [bq EXCEPT !.mutex = 0],
         Signal(side, t, bt[t].next) \/ NotifyAll(side, t, bt[t].next)
  PROVE  Effect(t)
<1>1. bt[t].next \in Nexts /\ bt[t].next \in PCs BY NextIsOne, NextsArePlaces
<1>2. Moves(t, bt[t].pc, bt[t].next) BY <1>1, SignalMoves
<1>3. QueueTypes' /\ SameItems /\ SameSems
  BY SameQueue, MutexTo
<1>4. bq'.mutex = IF bp = "std" THEN 0 ELSE bq.mutex BY SameQueue, MutexTo
<1>5. ~Holds(bt[t].next) /\ (bp = "std" => Holds(bt[t].pc))
  BY <1>1 DEF Holds, Nexts, At
<1>6. MutexStep(t, bt[t].pc, bt[t].next) BY <1>4, <1>5 DEF MutexStep
<1> QED BY <1>1, <1>2, <1>3, <1>6, PlainEffect


\* A consumer whom the semaphore let in finds an item.
LEMMA ItemToTake ==
  ASSUME QTypes, ItemsAccounted, bp \in Rings \cup {"sem"},
         NEW t \in Consumers, At(t, "in")
  PROVE  Size > 0
<1>1. \A X : N(bt, Producers, X) \in Nat BY SidesFinite, CountMoves
<1>2. /\ N(bt, Consumers, {"lock", "in"}) \in Nat
      /\ bt[t].pc \in {"lock", "in"} => N(bt, Consumers, {"lock", "in"}) >= 1
  BY SidesFinite, CountMoves
<1>3. bq.full \in Nat BY DEF QTypes, QueueTypes
<1> QED BY <1>1, <1>2, <1>3 DEF ItemsAccounted, At

\* The wait in a loop, then the take.
LEMMA WaitsAndPopsEffect ==
  ASSUME QTypes, Plain, NEW t \in Consumers, bp' = bp, NEW b \in Nexts \cup {"after"},
         bp = "std" => b \in Nexts, NEW next \in Nexts, WaitsAndPops(t, b, next)
  PROVE  Effect(t)
<1>0. t \in Threads /\ Size \in Nat BY ThreadsAreNumbers, SizeIsNat
<1>1. CASE Lock(t, "relock") BY <1>0, <1>1, LockEffect DEF Plain
<1>2. CASE At(t, "in") /\ Size = 0 /\ CondWait(t) BY <1>0, <1>2, CondWaitEffect
<1>3. CASE At(t, "in") /\ Size # 0 /\ Pop(t, b, next)
  BY <1>0, <1>3, PopEffect DEF Plain
<1> QED BY <1>1, <1>2, <1>3 DEF WaitsAndPops

\* The conditions that end a loop lead to its start or out of it.
LEMMA StopsAreNexts ==
  /\ TakeStops \in Nexts
  /\ \A t : PutStops(t) \in Nexts /\ InRange(t) \in Nexts /\ Demanded(t) \in Nexts
  /\ "start" \in Nexts
BY DEF TakeStops, PutStops, InRange, Demanded, Nexts

\* Producers of the three programs with semaphores.
LEMMA SemProducerEffect ==
  ASSUME QueueInv, NEW t \in Producers, bp' = bp,
         \/ bp = "mmap0" /\ mmap0_producer_proc(t)
         \/ bp = "mmap1" /\ bbq_put(t)
         \/ bp = "sem" /\ sem_put(t)
  PROVE  Effect(t)
<1>0. QTypes /\ t \in Threads /\ t \notin Consumers BY ThreadsAreNumbers DEF QueueInv
<1>1. bp \in Rings \cup {"sem"} /\ bp # "std" /\ bp # "bounded" BY DEF Rings
<1>2. CASE bp \in Rings /\ SemWait(t, "empty", "lock") BY <1>0, <1>2, WaitEffect
<1>3. CASE bp \in Rings /\ Lock(t, "lock") BY <1>0, <1>3, LockEffect
<1>4. CASE bp = "sem" /\ Lock(t, "start")
  BY <1>0, <1>4, LockEffect DEF Rings
<1>5. CASE \E next \in Nexts : Push(t, 0, next) BY <1>0, <1>1, <1>5, PushEffect
<1>6. CASE SemPost(t, "full", bt[t].next) BY <1>0, <1>1, <1>6, PostEffect
<1>7. PutStops(t) \in Nexts BY StopsAreNexts
<1>8. (IF bq.p + 1 > TotalLen THEN "done" ELSE "start") \in Nexts BY DEF Nexts
<1> QED
  BY <1>2, <1>3, <1>4, <1>5, <1>6, <1>7, <1>8
  DEF mmap0_producer_proc, bbq_put, sem_put, Rings

\* Their consumers: the item is there without a test.
LEMMA SemConsumerEffect ==
  ASSUME QueueInv, NEW t \in Consumers, bp' = bp,
         \/ bp = "mmap0" /\ mmap0_consumer_proc(t)
         \/ bp = "mmap1" /\ bbq_take(t)
         \/ bp = "sem" /\ sem_take(t)
  PROVE  Effect(t)
<1>0. QTypes /\ ItemsAccounted /\ t \in Threads BY ThreadsAreNumbers DEF QueueInv
<1>1. bp \in Rings \cup {"sem"} /\ bp # "std" BY DEF Rings
<1>2. CASE SemWait(t, "full", "lock") BY <1>0, <1>1, <1>2, WaitEffect
<1>3. CASE Lock(t, "lock") BY <1>0, <1>3, LockEffect
<1>4. CASE bp \in Rings /\ At(t, "in") /\ \E next \in Nexts : Pop(t, "after", next)
  <2>1. Size > 0 /\ bp # "sem" BY <1>0, <1>1, <1>4, ItemToTake DEF Rings
  <2> QED BY <1>0, <1>1, <1>4, <2>1, PopEffect
<1>5. CASE bp = "sem" /\ At(t, "in") /\ Pop(t, TakeStops, "start")
  <2>1. Size > 0 /\ bp \notin Rings BY <1>0, <1>1, <1>5, ItemToTake DEF Rings
  <2> QED BY <1>0, <1>1, <1>5, <2>1, StopsAreNexts, PopEffect
<1>6. CASE bp \in Rings /\ SemPost(t, "empty", bt[t].next) BY <1>0, <1>6, PostEffect
<1>7. TakeStops \in Nexts BY StopsAreNexts
<1>8. (IF bq.f + 1 > TotalLen THEN "done" ELSE "start") \in Nexts BY DEF Nexts
<1> QED
  BY <1>2, <1>3, <1>4, <1>5, <1>6, <1>7, <1>8
  DEF mmap0_consumer_proc, bbq_take, sem_take, Rings

\* Producers of the programs with condition variables.
LEMMA CondProducerEffect ==
  ASSUME QueueInv, NEW t \in Producers, bp' = bp,
         \/ bp = "condvar" /\ condvar_put(t)
         \/ bp = "std" /\ std_put(t)
         \/ bp = "demand" /\ demand_producer(t)
         \/ bp = "demand_p" /\ demand_p_producer(t)
  PROVE  Effect(t)
<1>0. QTypes /\ t \in Threads BY ThreadsAreNumbers DEF QueueInv
<1>1. Plain /\ bp # "bounded" BY DEF Plain, Rings
<1>2. CASE Lock(t, "start") BY <1>0, <1>1, <1>2, LockEffect DEF Plain
<1>3. CASE bp # "std" /\ \E next \in Nexts : Push(t, 0, next)
  BY <1>0, <1>1, <1>3, PushEffect
<1>4. CASE bp = "std" /\ Push(t, t, PutStops(t))
  BY <1>0, <1>1, <1>4, StopsAreNexts, PushEffect
<1>5. CASE /\ At(t, "after") /\ bp # "std" /\ bq' = bq
           /\ Signal(Consumers, t, bt[t].next) \/ NotifyAll(Consumers, t, bt[t].next)
  BY <1>0, <1>1, <1>5, SignalsEffect
<1>6. CASE /\ At(t, "after") /\ bp = "std" /\ bq' = [bq EXCEPT !.mutex = 0]
           /\ Signal(Consumers, t, bt[t].next)
  BY <1>0, <1>1, <1>6, SignalsEffect
<1> QED
  BY <1>2, <1>3, <1>4, <1>5, <1>6, StopsAreNexts
  DEF condvar_put, std_put, demand_producer, demand_p_producer, Signals

\* Their consumers, the one without a loop around its wait included.
LEMMA CondConsumerEffect ==
  ASSUME QueueInv, NEW t \in Consumers, bp' = bp,
         \/ bp = "condvar" /\ condvar_take(t)
         \/ bp = "std" /\ std_take(t)
         \/ bp = "demand" /\ demand_consumer(t)
         \/ bp = "demand_p" /\ demand_p_consumer(t)
  PROVE  Effect(t)
<1>0. QTypes /\ t \in Threads /\ Size \in Nat BY ThreadsAreNumbers, SizeIsNat DEF QueueInv
<1>1. Plain BY DEF Plain, Rings
<1>2. CASE Lock(t, "start") BY <1>0, <1>1, <1>2, LockEffect DEF Plain
<1>3. CASE \E b \in Nexts : WaitsAndPops(t, b, "start")
  BY <1>0, <1>1, <1>3, StopsAreNexts, WaitsAndPopsEffect
<1>4. CASE bp = "demand_p" /\ demand_p_consumer(t)
  <2>1. CASE /\ At(t, "relock") /\ bq.mutex = 0
             /\ bq' = [bq EXCEPT !.mutex = t] /\ bt' = Goes(t, "second")
    <3>1. "second" \in PCs BY DEF PCs
    <3>2. Moves(t, bt[t].pc, "second") BY <1>0, <2>1, <3>1, GoesMoves
    <3>3. QueueTypes' /\ SameItems /\ SameSems /\ bq'.mutex = t
      BY <1>0, <2>1, MutexTo
    <3>4. MutexStep(t, bt[t].pc, "second") BY <2>1, <3>3 DEF MutexStep
    <3> QED BY <1>0, <1>1, <3>1, <3>2, <3>3, <3>4, PlainEffect
  <2>2. CASE At(t, "in") /\ Size = 0 /\ CondWait(t)
    BY <1>0, <1>1, <2>2, CondWaitEffect
  <2>3. CASE At(t, "second") /\ Size = 0 /\ bq' = [bq EXCEPT !.mutex = 0]
             /\ bt' = Goes(t, "start")
    <3>1. "start" \in PCs BY DEF PCs
    <3>2. Moves(t, bt[t].pc, "start") BY <1>0, <2>3, <3>1, GoesMoves
    <3>3. QueueTypes' /\ SameItems /\ SameSems /\ bq'.mutex = 0
      BY <1>0, <2>3, MutexTo
    <3>4. MutexStep(t, bt[t].pc, "start") BY <2>3, <3>3 DEF MutexStep, Holds, At
    <3> QED BY <1>0, <1>1, <3>1, <3>2, <3>3, <3>4, PlainEffect
  <2>4. CASE (At(t, "in") \/ At(t, "second")) /\ Size # 0 /\ Pop(t, Demanded(t), "start")
    BY <1>0, <1>1, <2>4, StopsAreNexts, PopEffect DEF Plain
  <2> QED BY <1>2, <1>4, <2>1, <2>2, <2>3, <2>4 DEF demand_p_consumer
<1> QED
  BY <1>2, <1>3, <1>4, StopsAreNexts DEF condvar_take, std_take, demand_consumer

\* Both sides of the bounded queue.
LEMMA BoundedEffect ==
  ASSUME QueueInv, bp = "bounded", NEW t \in Threads, bp' = bp,
         \/ t \in Producers /\ bounded_producer(t)
         \/ t \in Consumers /\ bounded_consumer(t)
  PROVE  Effect(t)
<1>0. QTypes /\ Plain BY DEF QueueInv, Plain, Rings
<1>1. CASE WhileRunning(t)
  <2>1. PICK b \in {"lock", "done"} : bt' = Goes(t, b) BY <1>1 DEF WhileRunning
  <2>2. b \in PCs /\ ~Holds(b) BY DEF PCs, Holds
  <2>3. Moves(t, bt[t].pc, b) BY <1>0, <2>1, <2>2, GoesMoves
  <2>4. QueueTypes' /\ SameItems /\ SameSems /\ bq'.mutex = bq.mutex
    BY <1>0, <1>1, SameQueue DEF WhileRunning
  <2>5. MutexStep(t, bt[t].pc, b) BY <2>2, <2>4 DEF MutexStep
  <2> QED BY <1>0, <2>2, <2>3, <2>4, <2>5, PlainEffect
<1>2. CASE Lock(t, "lock") \/ Lock(t, "relock") BY <1>0, <1>2, LockEffect DEF Plain
<1>3. CASE At(t, "in") /\ CondWait(t) BY <1>0, <1>3, CondWaitEffect
<1>4. CASE t \in Producers /\ Size < QSize /\ Push(t, 0, "start")
  BY <1>0, <1>4, StopsAreNexts, PushEffect
<1>5. CASE t \in Consumers /\ WaitsAndPops(t, "after", "start")
  BY <1>0, <1>5, StopsAreNexts, WaitsAndPopsEffect
<1>6. CASE \E side : Signals(t, side)
  BY <1>0, <1>6, SignalsEffect DEF Signals
<1> QED
  BY <1>1, <1>2, <1>3, <1>4, <1>5, <1>6 DEF bounded_producer, bounded_consumer


\* Only the mutex and the count change.
LEMMA CountTo ==
  ASSUME QTypes, NEW k, bq' = [bq EXCEPT !.mutex = 0, !.count = k]
  PROVE  QueueTypes' /\ SameItems /\ SameSems /\ bq'.mutex = 0
<1>1. QueueTypes BY DEF QTypes
<1>2. SameItems /\ SameSems /\ bq'.mutex = 0 /\ DOMAIN bq' = QueueFields
  BY <1>1 DEF QueueTypes, QueueFields, SameItems, SameSems
<1>3. QueueTypes' BY <1>1, <1>2 DEF QueueTypes, SameItems, SameSems
<1> QED BY <1>2, <1>3

\* inc_count moves its thread, and wakes the watcher at the limit.
LEMMA CountsMoves ==
  ASSUME QTypes, NEW t \in Threads, At(t, "in"), NEW k, NEW W \in SUBSET Threads,
         \A u \in W : bt[u].pc = "asleep", Counts(t, k, W)
  PROVE  Moves(t, "in", InRange(t))
<1>1. \A u \in Threads : bt[u] \in ThreadStates BY DEF QTypes
<1>2. InRange(t) \in PCs BY StopsAreNexts, NextsArePlaces
<1>3. PICK m \in Nat : m = bt[t].n + 1 BY <1>1 DEF ThreadStates
<1>4. PICK s : s = [[bt[t] EXCEPT !.n = m] EXCEPT !.pc = InRange(t)] OBVIOUS
<1>5. s \in ThreadStates /\ s.pc = InRange(t) BY <1>1, <1>2, <1>4 DEF ThreadStates
<1>6. PICK g : g = [bt EXCEPT ![t] = s] OBVIOUS
<1>7. g = [bt EXCEPT ![t].n = @ + 1, ![t].pc = InRange(t)]
  BY <1>1, <1>3, <1>4, <1>6 DEF QTypes, ThreadStates
<1>8. bt' = [u \in Threads |-> IF u \in W THEN [g[u] EXCEPT !.pc = "relock"] ELSE g[u]]
  BY <1>7 DEF Counts
<1>9. t \notin W BY DEF At
<1>10. g[t] = s /\ \A u \in Threads \ {t} : g[u] = bt[u] BY <1>6 DEF QTypes
<1>11. \A u \in Threads : /\ [bt[u] EXCEPT !.pc = "relock"] \in ThreadStates
                          /\ [bt[u] EXCEPT !.pc = "relock"].pc = "relock"
  BY <1>1 DEF ThreadStates, PCs
<1>12. bt'[t] = s BY <1>8, <1>9, <1>10
<1>13. \A u \in Threads \ {t} : /\ bt'[u] \in ThreadStates
                                /\ \/ bt'[u].pc = bt[u].pc
                                   \/ (bt[u].pc = "asleep" /\ bt'[u].pc = "relock")
  BY <1>1, <1>8, <1>10, <1>11
<1>14. bt' \in [Threads -> ThreadStates] BY <1>5, <1>8, <1>12, <1>13
<1> QED BY <1>5, <1>12, <1>13, <1>14 DEF Moves, At

\* inc_count and watch_count.
LEMMA CountEffect ==
  ASSUME QueueInv, bp = "count", NEW t \in Threads, bp' = bp,
         \/ t \in Producers /\ inc_count(t)
         \/ t \in Consumers /\ watch_count(t)
  PROVE  Effect(t)
<1>0. QTypes /\ Plain BY DEF QueueInv, Plain, Rings
<1>1. CASE Lock(t, "start") \/ Lock(t, "relock") BY <1>0, <1>1, LockEffect DEF Plain
<1>2. ASSUME At(t, "in"), NEW b \in Nexts, Moves(t, "in", b),
             QueueTypes', SameItems, SameSems, bq'.mutex = 0
      PROVE  Effect(t)
  <2>1. b \in PCs /\ bt[t].pc = "in" BY <1>2, NextsArePlaces DEF At
  <2>2. MutexStep(t, bt[t].pc, b) BY <1>2, <2>1 DEF MutexStep, Holds, Nexts
  <2> QED BY <1>0, <1>2, <2>1, <2>2, PlainEffect
<1>3. ASSUME At(t, "in"), NEW W, W \in {Asleep({Watcher}), {}}, Counts(t, bq.count + 1, W)
      PROVE  Effect(t)
  <2>1. Watcher \in Threads BY QueueAssumption DEF Watcher, Threads, Consumers, Producers
  <2>2. W \in SUBSET Threads /\ \A u \in W : bt[u].pc = "asleep"
    BY <1>3, <2>1 DEF Asleep, At
  <2>3. Moves(t, "in", InRange(t)) BY <1>0, <1>3, <2>2, CountsMoves
  <2>4. QueueTypes' /\ SameItems /\ SameSems /\ bq'.mutex = 0
    BY <1>0, <1>3, CountTo DEF Counts
  <2> QED BY <1>2, <1>3, <2>3, <2>4, StopsAreNexts
<1>4. CASE At(t, "in") /\ CondWait(t) BY <1>0, <1>4, CondWaitEffect
<1>5. CASE /\ At(t, "in") /\ bt' = Goes(t, "done")
           /\ bq' = [bq EXCEPT !.mutex = 0, !.count = @ + Bonus]
  <2>1. "done" \in Nexts /\ "done" \in PCs BY DEF Nexts, PCs
  <2>2. Moves(t, "in", "done") BY <1>0, <1>5, <2>1, GoesMoves DEF At
  <2>3. QueueTypes' /\ SameItems /\ SameSems /\ bq'.mutex = 0
    BY <1>0, <1>5, CountTo
  <2> QED BY <1>2, <1>5, <2>1, <2>2, <2>3
<1> QED BY <1>1, <1>3, <1>4, <1>5 DEF inc_count, watch_count

\* A wait that returns by itself.
LEMMA SpuriousEffect ==
  ASSUME QueueInv, NEW t \in Threads, SpuriousWakeup(t)
  PROVE  Effect(t)
<1>0. QTypes /\ QueueTypes BY DEF QueueInv, QTypes
<1>1. "asleep" \in PCs /\ "relock" \in PCs BY DEF PCs
<1>2. Moves(t, "asleep", "relock") BY <1>0, <1>1, GoesMoves DEF SpuriousWakeup, At
<1>3. /\ SameItems /\ SameSems /\ bq'.mutex = bq.mutex /\ DOMAIN bq' = QueueFields
  BY <1>0 DEF SpuriousWakeup, QueueTypes, QueueFields, SameItems, SameSems
<1>4. QueueTypes' BY <1>0, <1>3 DEF QueueTypes, SameItems, SameSems
<1>5. MutexStep(t, "asleep", "relock") BY <1>3 DEF MutexStep, Holds
<1>6. Others(t) BY <1>1, <1>2, <1>3, <1>5 DEF Others
<1> QED BY <1>4, <1>6 DEF Effect, SpuriousWakeup

-----------------------------------------------------------------------------
\* The invariant holds at the start.
LEMMA InitKeeps ==
  ASSUME QueueInit
  PROVE  QueueInv
<1>1. bq = [mutex |-> 0, empty |-> QSize, full |-> 0, que |-> [i \in 0 .. QSize - 1 |-> Stop],
            fifo |-> <<>>, p |-> 0, f |-> 0, count |-> 0, running |-> TRUE, spurious |-> 0,
            life |-> "alive"]
  BY DEF QueueInit
<1>2. /\ bq.mutex = 0 /\ bq.empty = QSize /\ bq.full = 0 /\ bq.fifo = <<>>
      /\ bq.p = 0 /\ bq.f = 0 /\ DOMAIN bq.que = 0 .. QSize - 1 /\ DOMAIN bq = QueueFields
  BY <1>1 DEF QueueFields
<1>3. QueueTypes BY <1>2, QueueAssumption DEF QueueTypes
<1>4. \A t \in Threads : bt[t] \in ThreadStates /\ bt[t].pc \in Nexts
  BY DEF QueueInit, ThreadStates, PCs, Nexts
<1>5. bt \in [Threads -> ThreadStates] BY <1>4 DEF QueueInit
<1>6. QTypes BY <1>3, <1>5 DEF QTypes, QueueInit
<1>7. QMutex BY <1>4 DEF QMutex, Holds, Nexts
<1>8. Size = 0 BY <1>2 DEF Size
<1>9. ASSUME NEW side \in {Producers, Consumers}, NEW X \in PlacePairs
      PROVE  N(bt, side, X) = 0
  <2>1. PlacedAt(bt, side, X) = {}
    BY <1>4, ThreadsAreNumbers DEF PlacedAt, PlacePairs, Nexts
  <2> QED BY <2>1, FS_EmptySet DEF N
<1>10. /\ N(bt, Producers, {"lock", "in"}) = 0 /\ N(bt, Producers, {"after"}) = 0
       /\ N(bt, Consumers, {"lock", "in"}) = 0 /\ N(bt, Consumers, {"after"}) = 0
  BY <1>9 DEF PlacePairs
<1>11. NoSlots /\ ItemsAccounted /\ SlotsAccounted
  BY <1>2, <1>8, <1>10, QueueAssumption DEF NoSlots, ItemsAccounted, SlotsAccounted
<1>12. SlotsExact /\ Bounded BY <1>2, <1>8, QueueAssumption DEF SlotsExact, Bounded
<1> QED BY <1>6, <1>7, <1>11, <1>12 DEF QueueInv

\* What main does, and the end of the std program, is not counted.
LEMMA UncountedKeeps ==
  ASSUME QueueInv, bp' = bp, bt' = bt, SameItems, SameSems, bq'.mutex = bq.mutex,
         DOMAIN bq' = QueueFields
  PROVE  QueueInv'
<1>1. QTypes /\ QueueTypes BY DEF QueueInv, QTypes
<1>2. QueueTypes' BY <1>1 DEF QueueTypes, SameItems, SameSems
<1>3. QTypes' BY <1>1, <1>2 DEF QTypes
<1>4. Size' = Size BY DEF SameItems, Size
<1>5. QMutex' /\ NoSlots' /\ Bounded'
  BY <1>4 DEF QueueInv, QMutex, Holds, NoSlots, Bounded, SameSems
<1>6. ItemsAccounted' /\ SlotsAccounted' /\ SlotsExact'
  BY <1>4 DEF QueueInv, SameItems, SameSems, N, PlacedAt,
              ItemsAccounted, SlotsAccounted, SlotsExact
<1> QED BY <1>3, <1>5, <1>6 DEF QueueInv

\* The invariant is inductive.
LEMMA NextKeeps ==
  ASSUME QueueInv, [QueueNext]_bqVars
  PROVE  QueueInv'
<1>0. DOMAIN bq = QueueFields BY DEF QueueInv, QTypes, QueueTypes
<1>1. ASSUME bounded_test2 \/ std_main \/ (\E t \in Threads : std_uses_destroyed(t) /\ bp' = bp)
      PROVE  QueueInv'
  <2>1. bp' = bp /\ bt' = bt BY <1>1 DEF bounded_test2, std_main, std_uses_destroyed
  <2>2. /\ SameItems /\ SameSems /\ bq'.mutex = bq.mutex /\ DOMAIN bq' = QueueFields
    BY <1>0, <1>1 DEF bounded_test2, std_main, std_uses_destroyed, QueueFields, SameItems, SameSems
  <2> QED BY <2>1, <2>2, UncountedKeeps
<1>2. ASSUME NEW t \in Threads, ThreadStep(t) PROVE QueueInv'
  <2>0. bp' = bp BY <1>2 DEF ThreadStep
  <2>1. CASE t \in Producers /\ ProducerStep(t)
    BY <2>0, <2>1, SemProducerEffect, CondProducerEffect, BoundedEffect, CountEffect,
       EffectKeeps DEF ProducerStep
  <2>2. CASE t \in Consumers /\ ConsumerStep(t)
    BY <2>0, <2>2, SemConsumerEffect, CondConsumerEffect, BoundedEffect, CountEffect,
       EffectKeeps DEF ConsumerStep
  <2>3. CASE std_uses_destroyed(t) BY <1>1, <2>0, <2>3
  <2> QED BY <1>2, <2>1, <2>2, <2>3 DEF ThreadStep
<1>3. ASSUME NEW t \in Threads, SpuriousWakeup(t) PROVE QueueInv'
  BY <1>3, SpuriousEffect, EffectKeeps
<1>4. CASE UNCHANGED bqVars
  <2>1. bp' = bp /\ bq' = bq /\ bt' = bt BY <1>4 DEF bqVars
  <2> QED
    BY <2>1 DEF QueueInv, QTypes, QueueTypes, QMutex, Holds, NoSlots, ItemsAccounted,
                SlotsAccounted, SlotsExact, Bounded, Size, N, PlacedAt
<1> QED BY <1>1, <1>2, <1>3, <1>4 DEF QueueNext

\* Disjoint sets are counted one after the other.
LEMMA DisjointSum ==
  ASSUME NEW S, NEW T, IsFiniteSet(S), IsFiniteSet(T), S \cap T = {}
  PROVE  /\ IsFiniteSet(S \cup T)
         /\ Cardinality(S \cup T) = Cardinality(S) + Cardinality(T)
<1>1. Cardinality(S) \in Nat /\ Cardinality(T) \in Nat BY FS_CardinalityType
<1>2. /\ IsFiniteSet(S \cup T)
      /\ Cardinality(S \cup T) = Cardinality(S) + Cardinality(T) - Cardinality(S \cap T)
  BY FS_Union
<1>3. Cardinality(S \cap T) = 0 BY FS_EmptySet
<1> QED BY <1>1, <1>2, <1>3

\* Between is what the two accounts count, at four disjoint places.
LEMMA BetweenIsCounted ==
  ASSUME QTypes
  PROVE  Between(Threads) =
            N(bt, Producers, {"lock", "in"}) + N(bt, Producers, {"after"})
          + N(bt, Consumers, {"lock", "in"}) + N(bt, Consumers, {"after"})
<1>1. PICK A, B, C, D :
        /\ A = PlacedAt(bt, Producers, {"lock", "in"})
        /\ B = PlacedAt(bt, Producers, {"after"})
        /\ C = PlacedAt(bt, Consumers, {"lock", "in"})
        /\ D = PlacedAt(bt, Consumers, {"after"})
  OBVIOUS
<1>2. IsFiniteSet(A) /\ IsFiniteSet(B) /\ IsFiniteSet(C) /\ IsFiniteSet(D)
  BY <1>1, SidesFinite, FS_Subset DEF PlacedAt
<1>3. /\ Cardinality(A) \in Nat /\ Cardinality(B) \in Nat
      /\ Cardinality(C) \in Nat /\ Cardinality(D) \in Nat
  BY <1>2, FS_CardinalityType
<1>4. A \cap B = {} /\ C \cap D = {} /\ (A \cup B) \cap (C \cup D) = {}
  BY <1>1, ThreadsAreNumbers DEF PlacedAt
<1>5. {t \in Threads : bt[t].pc \in {"lock", "in", "after"}} = (A \cup B) \cup (C \cup D)
  BY <1>1 DEF PlacedAt, Threads
<1>6. IsFiniteSet(A \cup B) /\ Cardinality(A \cup B) = Cardinality(A) + Cardinality(B)
  BY <1>2, <1>4, DisjointSum
<1>7. IsFiniteSet(C \cup D) /\ Cardinality(C \cup D) = Cardinality(C) + Cardinality(D)
  BY <1>2, <1>4, DisjointSum
<1>8. Cardinality((A \cup B) \cup (C \cup D)) = Cardinality(A \cup B) + Cardinality(C \cup D)
  BY <1>4, <1>6, <1>7, DisjointSum
<1>9. Between(Threads) = Cardinality(A \cup B) + Cardinality(C \cup D)
  BY <1>5, <1>8 DEF Between
<1>10. /\ N(bt, Producers, {"lock", "in"}) = Cardinality(A)
       /\ N(bt, Producers, {"after"}) = Cardinality(B)
       /\ N(bt, Consumers, {"lock", "in"}) = Cardinality(C)
       /\ N(bt, Consumers, {"after"}) = Cardinality(D)
  BY <1>1 DEF N
<1> QED BY <1>3, <1>6, <1>7, <1>9, <1>10

\* The invariant implies the property.
LEMMA InvIsExact ==
  ASSUME QueueInv
  PROVE  QueueExact
<1>0. QTypes /\ QueueTypes BY DEF QueueInv, QTypes
<1>1. /\ N(bt, Producers, {"lock", "in"}) \in Nat /\ N(bt, Producers, {"after"}) \in Nat
      /\ N(bt, Consumers, {"lock", "in"}) \in Nat /\ N(bt, Consumers, {"after"}) \in Nat
  BY SidesFinite, CountMoves
<1>2. bq.empty \in Nat /\ bq.full \in Nat /\ Size \in Nat /\ QSize \in Nat
  BY <1>0, SizeIsNat, QueueAssumption DEF QueueTypes
<1>3. QueueTypeOK
  <2>1. bp \in QueuePrograms /\ bq.mutex \in {0} \cup Threads BY <1>0 DEF QTypes, QueueTypes
  <2>2. bq.empty <= QSize
    BY <1>1, <1>2 DEF QueueInv, NoSlots, SlotsAccounted
  <2>3. \A t \in Threads : bt[t].pc \in PCs BY <1>0, NextIsOne
  <2>4. \A t \in Threads : bt[t].pc \in {"in", "second"} => bq.mutex = t
    BY DEF QueueInv, QMutex, Holds
  <2> QED BY <1>2, <2>1, <2>2, <2>3, <2>4 DEF QueueTypeOK, PCs
<1>4. TakenInOrder BY <1>0, ItemToTake DEF TakenInOrder, QueueInv, SlotsExact
<1>5. CapacityKept
  <2>1. bp \in Rings => bq.empty + bq.full + Between(Threads) = QSize
    BY <1>0, <1>1, <1>2, BetweenIsCounted
    DEF QueueInv, ItemsAccounted, SlotsAccounted
  <2> QED BY <2>1 DEF CapacityKept, QueueInv, Bounded
<1> QED BY <1>3, <1>4, <1>5 DEF QueueExact

\* In every producer/consumer program, with any number of threads, items and
\* slots: what is put is taken once and in order, the ring's slots from f to p
\* hold it, a consumer whom a semaphore let in finds an item, the semaphores
\* account for every slot, and the bounded queue stays within its size.
THEOREM QueuesAreExact == QueueSpec => []QueueExact
<1>1. QueueInit => QueueInv BY InitKeeps
<1>2. QueueInv /\ [QueueNext]_bqVars => QueueInv' BY NextKeeps
<1>3. QueueInv => QueueExact BY InvIsExact
<1> QED BY <1>1, <1>2, <1>3, PTL DEF QueueSpec

-----------------------------------------------------------------------------
(* The response and coroutine servers *)

Refs == {"ref_et", "ref_lt"}

RespKernels ==
    [peer : {"idle", "open", "fin", "rst", "aborted"}, sent : 0 .. MaxSent, inq : Nat,
     err : {"none", "ECONNRESET", "EPIPE", "shut"}, unread : 0 .. Window,
     got : Nat, lost : Nat, edge : BOOLEAN, nospace : BOOLEAN, fds : BOOLEAN]

RespConns ==
    [pc : {"none", "ctor", "wait", "recv", "recv2", "write", "closed"},
     ev : SUBSET {"IN", "OUT", "HUP"}, f : Nat, len : Nat, cnt : Nat, pos : Nat, out : BOOLEAN]

RespTypes ==
    /\ rp \in RespPrograms \cup CoPrograms /\ rproc \in {"up", "sigpipe", "exit", "abort"}
    /\ rk \in RespKernels /\ rs \in RespConns /\ rk.inq <= rk.sent
    /\ rk.err = "none" <=> rk.peer # "rst"

\* A connection whose error was reported is closed, or will be with the next
\* event.
ShutSeen ==
    rk.err = "shut" /\ rproc = "up" /\ rp \in RespPrograms \ Refs => rs.pc \in {"wait", "closed"}

RespCommon == RespTypes /\ ShutSeen /\ RespDeathCauses

\* simple: what the client got is the part of the response that was sent.
SimpleResponse == rp = "simple" => rk.got = rs.pos /\ rs.pos <= RespLen /\ (rs.pc \in {"none", "ctor"} => rs.ev = {})

\* r responses were sent in full, and pos units of another one.
Answered(r) == r \in Nat /\ rk.got = r * RespLen + rs.pos /\ rs.pos <= RespLen

\* ref_et: each of them for a unit read at least.
RefEtAnswers ==
    rp = "ref_et" =>
        /\ rs.pos > 0 => rs.len > 0
        /\ \E r \in Nat : Answered(r) /\ r + (IF rs.len > 0 THEN 1 ELSE 0) <= rk.sent - rk.inq

\* ref_lt has a response under way, so EPOLLOUT is asked for or sendRes runs.
UnderWay == rs.pc = "write" \/ rs.pos > 0 \/ rs.out

\* ref_lt: each of them for a whole request that was read.
RefLtAnswers ==
    rp = "ref_lt" =>
        /\ rs.out \/ rs.pc = "write" => rs.len > 0
        /\ rs.pc \in {"none", "wait", "recv"} => (rs.pos > 0 => rs.out)
        /\ \E r \in Nat : /\ Answered(r)
                          /\ (r + (IF UnderWay THEN 1 ELSE 0)) * ReqLen <= rk.sent - rk.inq

\* resp_*: q requests were taken from the ring, and what the client lacks of
\* as many responses is counted, or the rest of the one being sent.
Requested(q) ==
    /\ q \in Nat /\ rk.sent - rk.inq = q * ReqLen + rs.len
    /\ rk.got + rs.cnt * RespLen + (RespLen - rs.pos) = q * RespLen

Busy == rs.cnt > 0 \/ rs.pos < RespLen

RespAnswers ==
    rp \in Responding =>
        /\ rs.pos <= RespLen /\ rs.len <= MaxPkt - 1 /\ rs.f <= MaxPkt - 1
        /\ \E q \in Nat : Requested(q)

\* EPOLLOUT is asked for when there is something to send; while send_response
\* runs it may be late.
RespInterest ==
    rp = "resp_lt" =>
        /\ rs.pc \in {"none", "wait", "recv", "recv2"} => (rs.out <=> Busy)
        /\ rs.pc = "write" => (~Busy => ~rs.out)

\* The coroutine's hands: full while it sends, otherwise empty.
CoHands ==
    rp \in CoPrograms =>
        /\ rs.len <= BufUnits /\ rs.pos <= rs.len
        /\ rs.pc \in {"none", "recv"} => rs.pos = rs.len
        /\ rs.pc = "write" => rs.pos < rs.len
        /\ rs.pc = "wait" => IF WaitsSend THEN rs.pos < rs.len ELSE rs.pos = rs.len

CoStates ==
    [status : {"running", "recv", "send"}, rsem : BOOLEAN, ssem : BOOLEAN, exited : BOOLEAN,
     by : {"none", "start", "OUT", "IN"}]

CoWaits ==
    /\ co \in CoStates
    /\ rp = "co" => ~co.rsem /\ ~co.ssem
    /\ rp = "co1" => ~(co.rsem /\ co.ssem) /\ co.status = "running"
    /\ rp \in CoPrograms /\ rs.pc = "none" => ~WaitsRecv /\ ~WaitsSend /\ ~co.exited
    /\ rp \in CoPrograms => rs.pc \in {"none", "wait", "recv", "write", "closed"}

RespInv ==
    /\ RespCommon /\ SimpleResponse /\ RefEtAnswers /\ RefLtAnswers /\ RespAnswers
    /\ RespInterest /\ CoHands /\ CoWaits /\ LoopAndCoroutineAgree /\ CoLossless

-----------------------------------------------------------------------------
(* What recv and send do to the connection *)

\* Min of two numbers.
LEMMA MinOfTwo ==
    ASSUME NEW a \in Int, NEW b \in Int
    PROVE  Min({a, b}) = IF a <= b THEN a ELSE b
<1>1. \A x \in {a, b} : (\A y \in {a, b} : x <= y) => x = IF a <= b THEN a ELSE b
  OBVIOUS
<1>2. \A y \in {a, b} : (IF a <= b THEN a ELSE b) <= y
  OBVIOUS
<1> QED
  BY <1>1, <1>2 DEF Min

\* Max of a number and 0.
LEMMA MaxWithZero ==
    ASSUME NEW a \in Int
    PROVE  Max({a, 0}) = IF a >= 0 THEN a ELSE 0
<1>1. \A x \in {a, 0} : (\A y \in {a, 0} : x >= y) => x = IF a >= 0 THEN a ELSE 0
  OBVIOUS
<1>2. \A y \in {a, 0} : (IF a >= 0 THEN a ELSE 0) >= y
  OBVIOUS
<1> QED
  BY <1>1, <1>2 DEF Max

\* k is the kernel's side after d units were received.
Received(k, d) ==
    /\ k \in RespKernels /\ d \in Nat /\ d <= rk.inq
    /\ k.sent = rk.sent /\ k.inq = rk.inq - d /\ k.got = rk.got /\ k.peer = rk.peer
    /\ \/ k.err = rk.err
       \/ rk.err = "ECONNRESET" /\ k.err = "shut"

\* k is the kernel's side after d units were sent.
Transmitted(k, d) ==
    /\ k \in RespKernels /\ d \in Nat
    /\ k.sent = rk.sent /\ k.inq = rk.inq /\ k.got = rk.got + d /\ k.peer = rk.peer
    /\ \/ k.err = rk.err
       \/ rk.err # "none" /\ k.err = "shut" /\ d = 0

\* recv returns what there is, within the room it was given.
LEMMA RecvEffect ==
    ASSUME RespTypes, NEW n \in Nat, NEW ret, ret = RespRecvRet(n)
    PROVE  /\ ret \in Int /\ ret >= -2 /\ ret <= n
           /\ ret = -1 => rk.err = "ECONNRESET"
           /\ ret > 0 => Received(RkAfterRecv(ret), ret)
           /\ ret <= 0 => Received(RkAfterRecv(ret), 0)
           /\ ret # -1 => RkAfterRecv(ret).err = rk.err
<1>1. PICK q \in Nat, t \in Nat : q = rk.inq /\ t = rk.sent /\ q <= t
  BY DEF RespTypes, RespKernels
<1>2. ret = IF q > 0 THEN (IF n <= q THEN n ELSE q)
            ELSE IF rk.peer = "fin" \/ rk.err \in {"EPIPE", "shut"} THEN 0
            ELSE IF rk.err = "ECONNRESET" THEN -1 ELSE -2
  BY <1>1, MinOfTwo DEF RespRecvRet
<1>3. /\ ret \in Int /\ ret >= -2 /\ ret <= n /\ ret <= q
      /\ ret = -1 => rk.err = "ECONNRESET"
  BY <1>2
<1>4. PICK d \in Nat : d = Max({ret, 0}) /\ d = IF ret > 0 THEN ret ELSE 0
  BY <1>3, MaxWithZero
<1>5. RkAfterRecv(ret) = [rk EXCEPT !.inq = q - d, !.err = IF ret = -1 THEN "shut" ELSE rk.err]
  BY <1>1, <1>4 DEF RkAfterRecv, RespTypes, RespKernels
<1>6. d <= q /\ q - d \in Nat
  BY <1>3, <1>4
<1>7. Received(RkAfterRecv(ret), d) /\ (ret # -1 => RkAfterRecv(ret).err = rk.err)
  BY <1>1, <1>3, <1>5, <1>6 DEF Received, RespTypes, RespKernels
<1> QED
  BY <1>3, <1>4, <1>7

\* send takes what the window has room for.
LEMMA SendEffect ==
    ASSUME RespTypes, NEW n \in Nat, n > 0, NEW ret, ret = RespSendRet(n)
    PROVE  /\ ret \in Int /\ (ret = -1 \/ ret = -2 \/ ret > 0) /\ ret <= n
           /\ ret = -1 <=> rk.err # "none"
           /\ ret > 0 => Transmitted(RkAfterSend(ret), ret)
           /\ ret <= 0 => Transmitted(RkAfterSend(ret), 0)
           /\ ret # -1 => RkAfterSend(ret).err = rk.err
<1>1. PICK u \in Nat, g \in Nat, w \in Nat : u = rk.unread /\ g = rk.got /\ w = Window /\ u <= w
  BY ResponseAssumption DEF RespTypes, RespKernels
<1>2. ret = IF rk.err # "none" THEN -1
            ELSE IF u = w THEN -2 ELSE (IF n <= w - u THEN n ELSE w - u)
  BY <1>1, MinOfTwo DEF RespSendRet
<1>3. /\ ret \in Int /\ (ret = -1 \/ ret = -2 \/ ret > 0) /\ ret <= n
      /\ ret > 0 => ret <= w - u
      /\ ret = -1 <=> rk.err # "none"
  BY <1>1, <1>2
<1>4. PICK d \in Nat : d = Max({ret, 0}) /\ d = IF ret > 0 THEN ret ELSE 0
  BY <1>3, MaxWithZero
<1>5. RkAfterSend(ret) = [rk EXCEPT !.unread = u + d, !.got = g + d,
                                    !.nospace = rk.nospace \/ ret = -2,
                                    !.err = IF ret = -1 THEN "shut" ELSE rk.err]
  BY <1>1, <1>4 DEF RkAfterSend, RespTypes, RespKernels
<1>6. u + d \in 0 .. Window /\ g + d \in Nat
  BY <1>1, <1>3, <1>4
<1>7. PICK k : k = RkAfterSend(ret)
  OBVIOUS
<1>8. rk \in RespKernels
  BY DEF RespTypes
<1>9. /\ k \in RespKernels /\ k.got = g + d /\ k.err = (IF ret = -1 THEN "shut" ELSE rk.err)
      /\ k.sent = rk.sent /\ k.inq = rk.inq /\ k.peer = rk.peer
  BY ONLY <1>5, <1>6, <1>7, <1>8 DEF RespKernels
<1>10. Transmitted(k, d) /\ (ret # -1 => k.err = rk.err)
  BY ONLY <1>1, <1>3, <1>4, <1>9 DEF Transmitted
<1> QED
  BY <1>3, <1>4, <1>7, <1>10

-----------------------------------------------------------------------------
(* The end of the process *)

\* A step of a server whose process goes on.
LEMMA CommonStep ==
    ASSUME RespCommon, NEW d, Received(rk', d) \/ Transmitted(rk', d),
           rs' \in RespConns, rproc = "up", rproc' = "up", rp' = rp,
           rk'.err = "shut" /\ rp \in RespPrograms \ Refs => rs'.pc \in {"wait", "closed"}
    PROVE  RespCommon'
<1>1. /\ rk' \in RespKernels /\ rk'.peer = rk.peer /\ rk'.inq <= rk'.sent
      /\ rk'.err = "none" <=> rk.err = "none"
  <2>1. rk \in RespKernels /\ rk.inq <= rk.sent
    BY DEF RespCommon, RespTypes
  <2>2. PICK q \in Nat, t \in Nat : q = rk.inq /\ t = rk.sent
    BY <2>1 DEF RespKernels
  <2>3. /\ rk' \in RespKernels /\ rk'.sent = t /\ rk'.peer = rk.peer
        /\ rk'.inq = q \/ (d \in Nat /\ rk'.inq = q - d)
        /\ rk'.err = "none" <=> rk.err = "none"
    BY <2>2 DEF Received, Transmitted
  <2>4. PICK z : z = rk'.inq
    OBVIOUS
  <2>5. z <= t
    BY ONLY <2>1, <2>2, <2>3, <2>4
  <2> QED
    BY <2>3, <2>4, <2>5
<1>2. RespTypes'
  BY <1>1 DEF RespCommon, RespTypes
<1> QED
  BY <1>2 DEF RespCommon, ShutSeen, RespDeathCauses

\* recv does not end it.
LEMMA CommonRecv ==
    ASSUME RespCommon, NEW n \in Nat, NEW ret, ret = RespRecvRet(n), rk' = RkAfterRecv(ret),
           rproc = "up", rproc' = "up", rp' = rp, rs' \in RespConns, rs.pc \notin {"wait", "closed"},
           ret = -1 => rs'.pc = "closed"
    PROVE  RespCommon' /\ (ret > 0 => Received(rk', ret)) /\ (ret <= 0 => Received(rk', 0))
           /\ ret \in Int /\ ret <= n
<1>1. /\ ret \in Int /\ ret <= n
      /\ ret > 0 => Received(rk', ret)
      /\ ret <= 0 => Received(rk', 0)
      /\ ret # -1 => rk'.err = rk.err
  BY RecvEffect DEF RespCommon
<1>2. PICK d : Received(rk', d)
  BY <1>1
<1>3. rk'.err = "shut" /\ rp \in RespPrograms \ Refs => rs'.pc \in {"wait", "closed"}
  BY <1>1 DEF RespCommon, ShutSeen
<1>4. RespCommon'
  BY <1>2, <1>3, CommonStep
<1> QED
  BY <1>1, <1>4

\* send ends it by SIGPIPE, or not.
LEMMA CommonSend ==
    ASSUME RespCommon, NEW n \in Nat, n > 0, NEW ret, ret = RespSendRet(n), rk' = RkAfterSend(ret),
           rproc = "up", rproc' = "up", rp' = rp, rs' \in RespConns, rs.pc \notin {"wait", "closed"},
           ret = -1 /\ rp \in RespPrograms => rs'.pc \in {"wait", "closed"}
    PROVE  RespCommon' /\ (ret > 0 => Transmitted(rk', ret)) /\ (ret <= 0 => Transmitted(rk', 0))
           /\ ret \in Int /\ ret <= n /\ (ret = -1 \/ ret = -2 \/ ret > 0) /\ (ret = -1 <=> rk.err # "none")
<1>1. /\ ret \in Int /\ ret <= n /\ (ret = -1 \/ ret = -2 \/ ret > 0)
      /\ ret = -1 <=> rk.err # "none"
      /\ ret > 0 => Transmitted(rk', ret)
      /\ ret <= 0 => Transmitted(rk', 0)
      /\ ret # -1 => rk'.err = rk.err
  BY SendEffect DEF RespCommon
<1>2. PICK d : Transmitted(rk', d)
  BY <1>1
<1>3. rk'.err = "shut" /\ rp \in RespPrograms \ Refs => rs'.pc \in {"wait", "closed"}
  BY <1>1 DEF RespCommon, ShutSeen
<1>4. RespCommon'
  BY <1>2, <1>3, CommonStep
<1> QED
  BY <1>1, <1>4

\* SIGPIPE comes from a send after FIN and reset: after other errors the
\* connection was closed.
LEMMA CommonKilled ==
    ASSUME RespCommon, RespSendKills, rproc = "up", rproc' = "sigpipe", UNCHANGED <<rp, rk, rs>>,
           rs.pc \notin {"wait", "closed"}
    PROVE  RespCommon'
<1>1. rp \in CoPrograms \/ (rp \notin Refs /\ rk.err = "EPIPE")
  BY DEF RespCommon, RespTypes, ShutSeen, RespSendKills, Refs
<1> QED
  BY <1>1 DEF RespCommon, RespTypes, ShutSeen, RespDeathCauses, Refs

\* What the rest of the server's steps leaves alone of the connection.
SameStream ==
    /\ rk' \in RespKernels /\ rk'.sent = rk.sent /\ rk'.inq = rk.inq /\ rk'.got = rk.got
    /\ rk'.err = rk.err /\ (rk'.peer = "rst" <=> rk.peer = "rst")

\* Steps without a system call that moves bytes.
LEMMA CommonQuiet ==
    ASSUME RespCommon, SameStream, rs' \in RespConns, rproc = "up", rproc' = "up", rp' = rp,
           rk.err = "shut" /\ rp \in RespPrograms \ Refs => rs'.pc \in {"wait", "closed"}
    PROVE  RespCommon'
  BY DEF RespCommon, RespTypes, ShutSeen, RespDeathCauses, SameStream

\* An epoll_wait forgets the edge, and only that.
LEMMA LoopTurnSame ==
    ASSUME RespTypes, NEW pc, NEW in, LoopTurn(pc, in)
    PROVE  /\ SameStream /\ rproc = "up" /\ rproc' = "up" /\ rs.pc = "wait"
           /\ rs'.pc = pc /\ rs'.f = rs.f /\ rs'.len = rs.len /\ rs'.cnt = rs.cnt
           /\ rs'.pos = rs.pos /\ rs'.out = rs.out
           /\ pc \in {"wait", "recv", "write", "closed"} => rs' \in RespConns
           /\ ReadyEvents # {}
<1>1. rk \in RespKernels /\ rs \in RespConns
  BY DEF RespTypes
<1>2. SameStream
  BY <1>1 DEF LoopTurn, SameStream, RespKernels
<1>3. (IF pc = "write" THEN ReadyEvents \cap in ELSE {}) \in SUBSET {"IN", "OUT", "HUP"}
  BY DEF ReadyEvents
<1>4. rs' = [rs EXCEPT !.pc = pc, !.ev = IF pc = "write" THEN ReadyEvents \cap in ELSE {}]
  BY DEF LoopTurn
<1>5. /\ rs'.pc = pc /\ rs'.f = rs.f /\ rs'.len = rs.len /\ rs'.cnt = rs.cnt
      /\ rs'.pos = rs.pos /\ rs'.out = rs.out
      /\ pc \in {"wait", "recv", "write", "closed"} => rs' \in RespConns
  BY ONLY <1>1, <1>3, <1>4 DEF RespConns
<1> QED
  BY <1>2, <1>5 DEF LoopTurn

\* A reset by the server's end moves no byte.
LEMMA AbortedSame ==
    ASSUME RespTypes, NEW lost \in 0 .. rk.unread, rk' = Aborted(lost), rk.peer # "rst"
    PROVE  SameStream
<1>1. PICK u \in Nat, w \in Nat : u = rk.unread /\ w = Window /\ u <= w
  BY ResponseAssumption DEF RespTypes, RespKernels
<1>2. lost \in Nat /\ u - lost \in 0 .. w
  BY <1>1
<1>3. rk' = [rk EXCEPT !.peer = "aborted", !.unread = u - lost, !.lost = lost]
  BY <1>1 DEF Aborted
<1>4. rk \in RespKernels
  BY DEF RespTypes
<1>5. u - lost \in 0 .. Window
  BY <1>1, <1>2
<1>6. /\ rk' \in RespKernels /\ rk'.sent = rk.sent /\ rk'.inq = rk.inq /\ rk'.got = rk.got
      /\ rk'.err = rk.err /\ rk'.peer = "aborted"
  BY ONLY <1>2, <1>3, <1>4, <1>5 DEF RespKernels
<1> QED
  BY <1>6 DEF SameStream

\* The same for the new connection, whose edge is set.
LEMMA EstablishedSame ==
    ASSUME RespTypes, NEW pc, Established(pc)
    PROVE  /\ SameStream /\ rproc = "up" /\ rproc' = "up" /\ rs.pc = "none"
           /\ rs' = [rs EXCEPT !.pc = pc]
           /\ pc \in {"ctor", "wait", "recv"} =>
                 /\ rs' \in RespConns /\ rs'.pc = pc /\ rs'.f = rs.f /\ rs'.len = rs.len
                 /\ rs'.cnt = rs.cnt /\ rs'.pos = rs.pos /\ rs'.out = rs.out /\ rs'.ev = rs.ev
<1>1. rk \in RespKernels /\ rs \in RespConns
  BY DEF RespTypes
<1>2. SameStream
  BY <1>1 DEF Established, SameStream, RespKernels
<1> QED
  BY <1>1, <1>2 DEF Established, RespConns

\* The acceptor has failed and the process goes on.
LEMMA FailedSame ==
    ASSUME RespTypes, rs.pc = "none", AcceptFails, rs' = ShutDown
    PROVE  SameStream /\ rproc = "up" /\ rproc' = "up"
<1>1. rs' # rs
  BY DEF ShutDown, RespTypes, RespConns
<1>2. /\ rk' = IF rk.peer = "rst" THEN rk ELSE Aborted(0)
      /\ rproc = "up" /\ rproc' = "up"
  BY <1>1 DEF AcceptFails
<1>3. 0 \in 0 .. rk.unread
  BY ResponseAssumption DEF RespTypes, RespKernels
<1> QED
  BY <1>2, <1>3, AbortedSame DEF SameStream, RespTypes

-----------------------------------------------------------------------------
(* Clients *)

\* What a client can do to its connection: what was sent and is not read yet
\* grows by m, and an error comes with the reset, once.
ClientEffect(m) ==
    /\ m \in Nat /\ rk' \in RespKernels
    /\ rk'.sent = rk.sent + m /\ rk'.inq = rk.inq + m /\ rk'.got = rk.got
    /\ rk'.err = "none" <=> rk'.peer # "rst"
    /\ \/ rk'.err = rk.err /\ (rk.peer = "rst" => rk'.peer = "rst")
       \/ rk.err = "none" /\ rk'.err \in {"EPIPE", "ECONNRESET"}
    /\ rproc # "up" => rk'.fds = rk.fds

\* The actions that send nothing.
LEMMA NothingSent ==
    ASSUME RespTypes, rk' \in RespKernels, rk'.sent = rk.sent, rk'.inq = rk.inq, rk'.got = rk.got,
           rk'.err = "none" <=> rk'.peer # "rst",
           \/ rk'.err = rk.err /\ (rk.peer = "rst" => rk'.peer = "rst")
           \/ rk.err = "none" /\ rk'.err \in {"EPIPE", "ECONNRESET"},
           rproc # "up" => rk'.fds = rk.fds
    PROVE  ClientEffect(0)
<1>1. rk.sent \in Int /\ rk.inq \in Int
  BY DEF RespTypes, RespKernels
<1>2. rk.sent = rk.sent + 0 /\ rk.inq = rk.inq + 0
  BY ONLY <1>1
<1> QED
  BY <1>2 DEF ClientEffect

\* Every action of a client is one.
LEMMA ClientSteps ==
    ASSUME RespTypes, RespClient
    PROVE  /\ \E m : ClientEffect(m)
           /\ UNCHANGED <<rs, rproc>>
<1>1. rk \in RespKernels /\ (rk.err = "none" <=> rk.peer # "rst")
  BY DEF RespTypes
<1>2. CASE RespConnect
  <2>1. ClientEffect(0)
    BY <1>1, <1>2 DEF RespConnect, ClientEffect, RespKernels
  <2> QED
    BY <1>2, <2>1 DEF RespConnect
<1>3. ASSUME NEW n \in 1 .. MaxSent, RespClientSend(n)
      PROVE  ClientEffect(n) /\ UNCHANGED <<rs, rproc>>
  <2>1. PICK t \in Nat, q \in Nat, M \in Nat :
           t = rk.sent /\ q = rk.inq /\ M = MaxSent /\ t + n \in 0 .. M
    BY <1>1, <1>3, ResponseAssumption DEF RespClientSend, RespKernels
  <2>2. PICK k : /\ k = rk \/ (\E lost \in 0 .. rk.unread : k = Aborted(lost))
                 /\ rk' = [k EXCEPT !.sent = t + n, !.inq = q + n, !.edge = TRUE]
    <3>1. PICK k : /\ k = rk \/ (\E lost \in 0 .. rk.unread : k = Aborted(lost))
                   /\ rk' = [k EXCEPT !.sent = @ + n, !.inq = @ + n, !.edge = TRUE]
      BY <1>3 DEF RespClientSend
    <3>2. k.sent = t /\ k.inq = q
      BY <1>1, <2>1, <3>1 DEF Aborted, RespKernels
    <3> QED
      BY <3>1, <3>2
  <2>3. /\ k \in RespKernels /\ k.got = rk.got /\ k.err = rk.err /\ k.fds = rk.fds
        /\ k.peer \in {"open", "aborted"} /\ rk.peer = "open"
    <3>0. rk.peer = "open"
      BY <1>3 DEF RespClientSend
    <3>1. CASE k = rk
      BY <1>1, <3>0, <3>1
    <3>2. ASSUME NEW lost \in 0 .. rk.unread, k = Aborted(lost)
          PROVE  /\ k \in RespKernels /\ k.got = rk.got /\ k.err = rk.err /\ k.fds = rk.fds
                 /\ k.peer = "aborted"
      <4>1. PICK u \in Nat, w \in Nat : u = rk.unread /\ w = Window /\ u <= w
        BY <1>1, ResponseAssumption DEF RespKernels
      <4>2. lost \in Nat /\ u - lost \in 0 .. w
        BY <3>2, <4>1
      <4>3. k = [rk EXCEPT !.peer = "aborted", !.unread = u - lost, !.lost = lost]
        BY <3>2, <4>1 DEF Aborted
      <4>4. u - lost \in 0 .. Window
        BY <4>1, <4>2
      <4> QED
        BY ONLY <1>1, <4>2, <4>3, <4>4 DEF RespKernels
    <3> QED
      BY <2>2, <3>0, <3>1, <3>2
  <2>4. /\ rk' \in RespKernels /\ rk'.sent = t + n /\ rk'.inq = q + n
        /\ rk'.got = k.got /\ rk'.err = k.err /\ rk'.peer = k.peer /\ rk'.fds = k.fds
    <3>1. t + n \in 0 .. MaxSent /\ q + n \in Nat
      BY ONLY <2>1, n \in 1 .. MaxSent
    <3> QED
      BY ONLY <2>2, <2>3, <3>1 DEF RespKernels
  <2>5. rk'.err = "none" <=> rk'.peer # "rst"
    BY <1>1, <2>3, <2>4
  <2> QED
    BY <1>3, <2>1, <2>3, <2>4, <2>5 DEF ClientEffect, RespClientSend
<1>4. CASE RespClientRead
  <2>1. 0 \in 0 .. Window
    BY ResponseAssumption
  <2>2. ClientEffect(0)
    BY <1>1, <1>4, <2>1, NothingSent DEF RespClientRead, RespKernels
  <2> QED
    BY <1>4, <2>2 DEF RespClientRead
<1>5. CASE RespClientFin
  <2>1. ClientEffect(0)
    BY <1>1, <1>5, NothingSent DEF RespClientFin, RespKernels
  <2> QED
    BY <1>5, <2>1 DEF RespClientFin
<1>6. CASE RespClientReset
  <2>1. ClientEffect(0)
    BY <1>1, <1>6, NothingSent DEF RespClientReset, RespKernels
  <2> QED
    BY <1>6, <2>1 DEF RespClientReset
<1>7. CASE OtherConnections
  <2>1. ClientEffect(0)
    BY <1>1, <1>7, NothingSent DEF OtherConnections, RespKernels
  <2> QED
    BY <1>7, <2>1 DEF OtherConnections
<1> QED
  BY <1>2, <1>3, <1>4, <1>5, <1>6, <1>7 DEF RespClient

\* What was read of the stream.
Consumed == rk.sent - rk.inq

\* They cannot disturb a server's account of what it read and sent.
LEMMA ClientsKeep ==
    ASSUME RespInv, RespClient, rp' = rp, co' = co
    PROVE  RespInv'
<1>1. RespTypes
  BY DEF RespInv, RespCommon
<1>2. PICK m : ClientEffect(m)
  BY <1>1, ClientSteps
<1>3. rs' = rs /\ rproc' = rproc
  BY <1>1, ClientSteps
<1>4. PICK t \in Nat, q \in Nat : t = rk.sent /\ q = rk.inq /\ q <= t
  BY <1>1 DEF RespTypes, RespKernels
<1>5. m \in Nat /\ rk'.sent = t + m /\ rk'.inq = q + m /\ rk'.got = rk.got
  BY <1>2, <1>4 DEF ClientEffect
<1>6. Consumed' = Consumed /\ rk'.inq <= rk'.sent
  BY ONLY <1>4, <1>5 DEF Consumed
<1>7. RespTypes'
  BY <1>1, <1>2, <1>3, <1>6 DEF RespTypes, ClientEffect
<1>8. RespCommon'
  BY <1>1, <1>2, <1>3, <1>7 DEF RespInv, RespCommon, ShutSeen, RespDeathCauses, ClientEffect, RespTypes
<1>9. SimpleResponse' /\ RespInterest' /\ CoHands'
  BY <1>3, <1>5 DEF RespInv, SimpleResponse, RespInterest, CoHands, Busy, WaitsSend
<1>10. RefEtAnswers'
  BY <1>3, <1>5, <1>6 DEF RespInv, RefEtAnswers, Answered, Consumed
<1>11. RefLtAnswers'
  BY <1>3, <1>5, <1>6 DEF RespInv, RefLtAnswers, Answered, Consumed, UnderWay
<1>12. RespAnswers'
  BY <1>3, <1>5, <1>6 DEF RespInv, RespAnswers, Requested, Consumed
<1>13. CoWaits' /\ LoopAndCoroutineAgree'
  BY <1>3 DEF RespInv, CoWaits, LoopAndCoroutineAgree, WaitsRecv, WaitsSend
<1>14. CoLossless'
  <2> SUFFICES ASSUME rp \in CoPrograms, rk'.err = "none", rs.pc # "closed"
               PROVE  rk.got + (rs.len - rs.pos) + (q + m) = t + m
    BY <1>3, <1>5 DEF CoLossless
  <2>1. rk.got + (rs.len - rs.pos) + q = t
    BY <1>2, <1>4 DEF RespInv, CoLossless, ClientEffect
  <2>2. rk.got \in Int /\ rs.len \in Int /\ rs.pos \in Int
    BY <1>1 DEF RespTypes, RespKernels, RespConns
  <2> QED
    BY <1>4, <1>5, <2>1, <2>2
<1> QED
  BY <1>8, <1>9, <1>10, <1>11, <1>12, <1>13, <1>14 DEF RespInv

-----------------------------------------------------------------------------
(* server_epollet_simple *)

\* A reset is reported with EPOLLHUP.
LEMMA HupSeen ==
    ASSUME RespTypes, rk.err # "none"
    PROVE  "HUP" \in ReadyEvents /\ "IN" \in ReadyEvents
  BY DEF RespTypes, ReadyEvents

\* The accounts of other programs are not concerned by a step of one.
LEMMA OwnAccount ==
    ASSUME RespInv, rp' = rp, rp \in RespPrograms, co' = co, RespCommon', SimpleResponse',
           RefEtAnswers', RefLtAnswers', RespAnswers', RespInterest'
    PROVE  RespInv'
<1>1. rp \notin CoPrograms
  BY DEF RespPrograms, CoPrograms
<1> QED
  BY <1>1 DEF RespInv, CoHands, CoWaits, LoopAndCoroutineAgree, CoLossless, CoPrograms

\* The connection when a handler is done.
LEMMA HandledFields ==
    ASSUME NEW v \in RespConns
    PROVE  /\ HandledWrite(v) \in RespConns /\ HandledWrite(v).ev = {}
           /\ HandledWrite(v).pc = (IF "IN" \in v.ev THEN "recv" ELSE "wait")
           /\ HandledWrite(v).f = v.f /\ HandledWrite(v).len = v.len /\ HandledWrite(v).cnt = v.cnt
           /\ HandledWrite(v).pos = v.pos /\ HandledWrite(v).out = v.out
  BY DEF HandledWrite, RespConns

\* The same for a connection that is closed.
LEMMA ShutFields ==
    ASSUME rs \in RespConns
    PROVE  /\ ShutDown \in RespConns /\ ShutDown.pc = "closed" /\ ShutDown.ev = {}
           /\ ShutDown.f = rs.f /\ ShutDown.len = rs.len /\ ShutDown.cnt = rs.cnt
           /\ ShutDown.pos = rs.pos /\ ShutDown.out = rs.out
  BY DEF ShutDown, RespConns

\* The same when only the place changes.
LEMMA PlaceFields ==
    ASSUME NEW v \in RespConns,
           NEW place \in {"none", "ctor", "wait", "recv", "recv2", "write", "closed"}
    PROVE  /\ [v EXCEPT !.pc = place] \in RespConns /\ [v EXCEPT !.pc = place].pc = place
           /\ [v EXCEPT !.pc = place].f = v.f /\ [v EXCEPT !.pc = place].len = v.len
           /\ [v EXCEPT !.pc = place].cnt = v.cnt /\ [v EXCEPT !.pc = place].pos = v.pos
           /\ [v EXCEPT !.pc = place].out = v.out /\ [v EXCEPT !.pc = place].ev = v.ev
  BY DEF RespConns

\* What a step of server_epollet_simple has to keep.
LEMMA SimpleAccount ==
    ASSUME RespInv, rp' = rp, rp = "simple", co' = co, RespCommon', SimpleResponse'
    PROVE  RespInv'
  BY OwnAccount DEF RefEtAnswers, RefLtAnswers, RespAnswers, RespInterest, RespPrograms, Responding

\* Every unit sent is one of the response, each once.
LEMMA SimpleKeeps ==
    ASSUME RespInv, rp' = rp, rp = "simple", co' = co,
           simple_loop \/ simple_handle_accept \/ simple_send_buf \/ simple_handle_recv
    PROVE  RespInv'
<1>1. /\ RespCommon /\ RespTypes /\ rk.got = rs.pos /\ rs.pos <= RespLen
      /\ rs.pc \in {"none", "ctor"} => rs.ev = {}
      /\ rs \in RespConns /\ rk \in RespKernels
  BY DEF RespInv, RespCommon, SimpleResponse, RespTypes
<1>2. RespCommon' /\ SimpleResponse' => RespInv'
  BY SimpleAccount
<1>3. CASE simple_loop
  <2>1. PICK pc : pc = simple_handle(ReadyEvents)
    OBVIOUS
  <2>2. LoopTurn(pc, {"IN"}) /\ pc \in {"closed", "write", "recv"}
    BY <1>3, <2>1 DEF simple_loop, simple_handle
  <2>3. /\ SameStream /\ rproc = "up" /\ rproc' = "up" /\ rs'.pc = pc /\ rs'.pos = rs.pos
        /\ rs' \in RespConns
    BY <1>1, <2>2, LoopTurnSame
  <2>4. rk.err = "shut" => pc = "closed"
    BY <1>1, <2>1, HupSeen DEF simple_handle
  <2>5. RespCommon'
    BY <1>1, <2>3, <2>4, CommonQuiet
  <2>6. SimpleResponse'
    BY <1>1, <2>2, <2>3 DEF SimpleResponse, SameStream
  <2> QED
    BY <1>2, <2>5, <2>6
<1>4. CASE simple_handle_accept
  <2>1. Established("ctor")
    BY <1>4 DEF simple_handle_accept
  <2>2. /\ SameStream /\ rproc = "up" /\ rproc' = "up" /\ rs.pc = "none" /\ rs'.pc = "ctor"
        /\ rs' \in RespConns /\ rs'.pos = rs.pos /\ rs'.ev = rs.ev
    BY <1>1, <2>1, EstablishedSame
  <2>3. RespCommon'
    BY <1>1, <2>2, CommonQuiet DEF RespCommon, ShutSeen
  <2>4. SimpleResponse'
    BY <1>1, <2>2 DEF SimpleResponse, SameStream
  <2> QED
    BY <1>2, <2>3, <2>4
<1>5. CASE simple_send_buf
  <2>1. rs.pc \in {"ctor", "write"} /\ rs.pos \in Nat
    BY <1>1, <1>5 DEF simple_send_buf, RespConns
  <2>2. CASE rs.pos = RespLen
    <3>0. /\ rproc = "up" /\ rproc' = "up"
          /\ rk' = rk \/ (rk.peer # "rst" /\ \E lost \in 0 .. rk.unread : rk' = Aborted(lost))
          /\ rs' = IF rs.pc = "ctor" THEN HandledWrite(rs) ELSE ShutDown
      BY <1>5, <2>2 DEF simple_send_buf, simple_close_sent
    <3>1. /\ rproc = "up" /\ rproc' = "up" /\ SameStream
          /\ rs' = IF rs.pc = "ctor" THEN HandledWrite(rs) ELSE ShutDown
      BY <1>1, <3>0, AbortedSame DEF SameStream
    <3>2. rs' \in RespConns /\ rs'.pos = rs.pos /\ rs'.pc \notin {"none", "ctor"}
      BY <1>1, <3>1 DEF HandledWrite, ShutDown, RespConns
    <3>3. rk.err # "shut"
      BY <1>1, <2>1, <3>1 DEF RespCommon, ShutSeen, Refs, RespPrograms
    <3>4. RespCommon'
      BY <1>1, <3>1, <3>2, <3>3, CommonQuiet
    <3>5. SimpleResponse'
      BY <1>1, <3>1, <3>2 DEF SimpleResponse, SameStream
    <3> QED
      BY <1>2, <3>4, <3>5
  <2>3. CASE rs.pos # RespLen /\ RespSendKills
    <3>1. rproc = "up" /\ rproc' = "sigpipe" /\ UNCHANGED <<rk, rs>>
      BY <1>5, <2>3 DEF simple_send_buf, Send
    <3>2. RespCommon'
      BY <1>1, <2>1, <2>3, <3>1, CommonKilled
    <3>3. SimpleResponse'
      BY <1>1, <3>1 DEF SimpleResponse
    <3> QED
      BY <1>2, <3>2, <3>3
  <2>4. CASE rs.pos # RespLen /\ ~RespSendKills
    <3>1. PICK n \in Nat : n = RespLen - rs.pos /\ n > 0
      BY <1>1, <2>1, <2>4, ResponseAssumption
    <3>2. PICK ret : ret = RespSendRet(n)
      OBVIOUS
    <3>3. /\ rproc = "up" /\ rproc' = "up" /\ rk' = RkAfterSend(ret)
          /\ rs' = IF ret > 0 THEN [rs EXCEPT !.pos = @ + ret]
                   ELSE IF ret = -2 \/ rs.pc = "ctor" THEN HandledWrite(rs) ELSE ShutDown
      BY <1>5, <2>4, <3>1, <3>2 DEF simple_send_buf, Send
    <3>4. ret \in Int /\ (ret = -1 \/ ret = -2 \/ ret > 0) /\ ret <= n
      BY <1>1, <3>1, <3>2, SendEffect
    <3>5. /\ rs' \in RespConns
          /\ rs'.pos = rs.pos + (IF ret > 0 THEN ret ELSE 0)
          /\ rs'.pc \in {"none", "ctor"} => rs'.ev = {}
          /\ ret = -1 => rs'.pc \in {"wait", "closed"}
      <4>1. CASE ret > 0
        <5>1. rs.pos + ret \in Nat
          BY <2>1, <3>4, <4>1
        <5> QED
          BY <1>1, <3>3, <4>1, <5>1 DEF RespConns
      <4>2. CASE ret <= 0
        <5>0. ~(ret > 0)
          BY <3>4, <4>2
        <5>1. rs' = HandledWrite(rs) \/ rs' = ShutDown
          BY <3>3, <5>0
        <5>2. rs' \in RespConns /\ rs'.pos = rs.pos /\ rs'.ev = {} /\ rs'.pc \in {"wait", "closed", "recv"}
          BY <1>1, <5>1, HandledFields, ShutFields
        <5>3. ret = -1 => rs'.pc \in {"wait", "closed"}
          BY <1>1, <2>1, <3>3, <4>2, HandledFields, ShutFields
        <5>4. rs'.pos = rs.pos + 0
          BY <2>1, <5>2
        <5> QED
          BY <5>0, <5>2, <5>3, <5>4
      <4> QED
        BY <3>4, <4>1, <4>2
    <3>6. /\ RespCommon'
          /\ ret > 0 => Transmitted(rk', ret)
          /\ ret <= 0 => Transmitted(rk', 0)
      BY <1>1, <2>1, <3>1, <3>2, <3>3, <3>5, CommonSend
    <3>7. rk'.got = rk.got + (IF ret > 0 THEN ret ELSE 0)
      BY <3>4, <3>6 DEF Transmitted
    <3>8. rs'.pos <= RespLen
      BY <1>1, <2>1, <3>1, <3>4, <3>5, ResponseAssumption
    <3> QED
      BY <1>1, <1>2, <3>5, <3>6, <3>7, <3>8 DEF SimpleResponse
  <2> QED
    BY <2>2, <2>3, <2>4
<1>6. CASE simple_handle_recv
  <2>1. PICK ret : ret = RespRecvRet(MaxPkt)
    OBVIOUS
  <2>2. /\ rproc = "up" /\ rproc' = "up" /\ rk' = RkAfterRecv(ret) /\ rs.pc = "recv"
        /\ rs' = IF ret > 0 THEN rs
                 ELSE IF ret = -2 THEN [rs EXCEPT !.pc = "wait"] ELSE ShutDown
    BY <1>6, <2>1 DEF simple_handle_recv, Recv
  <2>3. ret \in Int /\ ret >= -2 /\ ret <= MaxPkt
    BY <1>1, <2>1, RecvEffect, ResponseAssumption
  <2>4. /\ rs' \in RespConns /\ rs'.pos = rs.pos /\ rs'.pc \notin {"none", "ctor"}
        /\ ret = -1 => rs'.pc = "closed"
    <3>1. CASE ret > 0
      BY <1>1, <2>2, <3>1
    <3>2. CASE ret = -2
      <4>1. rs' = [rs EXCEPT !.pc = "wait"]
        BY <2>2, <3>2
      <4> QED
        BY ONLY <1>1, <3>2, <4>1 DEF RespConns
    <3>3. CASE ret \in {0, -1}
      BY <1>1, <2>2, <3>3, ShutFields
    <3> QED
      BY <2>3, <3>1, <3>2, <3>3
  <2>5. /\ RespCommon'
        /\ ret > 0 => Received(rk', ret)
        /\ ret <= 0 => Received(rk', 0)
    BY <1>1, <2>1, <2>2, <2>4, CommonRecv, ResponseAssumption
  <2>6. rk'.got = rk.got
    BY <2>3, <2>5 DEF Received
  <2> QED
    BY <1>1, <1>2, <2>4, <2>5, <2>6 DEF SimpleResponse
<1> QED
  BY <1>3, <1>4, <1>5, <1>6

-----------------------------------------------------------------------------
(* server_epollet_ref and server_epollout_ref *)

\* One more time a number.
LEMMA OneMore ==
    ASSUME NEW r \in Nat, NEW n \in Nat
    PROVE  r * n \in Nat /\ (r + 1) * n = r * n + n
OBVIOUS

\* Sending goes on with the same response.
LEMMA AnswerGoesOn ==
    ASSUME RespTypes, NEW r, Answered(r), NEW d, Transmitted(rk', d),
           rs'.pos = rs.pos + d, rs'.pos <= RespLen
    PROVE  Answered(r)'
<1>1. PICK g \in Nat, p \in Nat, z \in Nat : g = rk.got /\ p = rs.pos /\ z = r * RespLen
  BY OneMore, ResponseAssumption DEF Answered, RespTypes, RespKernels, RespConns
<1>2. d \in Nat /\ rk'.got = g + d /\ g = z + p /\ rs'.pos = p + d
  BY <1>1 DEF Answered, Transmitted
<1>3. rk'.got = z + rs'.pos
  BY ONLY <1>1, <1>2
<1> QED
  BY <1>1, <1>3 DEF Answered

\* A response that is out counts as one.
LEMMA AnswerIsOut ==
    ASSUME RespTypes, NEW r, Answered(r), rs.pos = RespLen, rk'.got = rk.got, rs'.pos = 0
    PROVE  Answered(r + 1)'
<1>1. PICK l \in Nat : l = RespLen /\ r \in Nat /\ rk.got = r * l + l
  BY ResponseAssumption DEF Answered
<1>2. (r + 1) * l = rk.got + 0 /\ r + 1 \in Nat
  BY <1>1, OneMore
<1>3. (r + 1) * RespLen + rs'.pos = rk.got
  BY <1>1, <1>2
<1> QED
  BY <1>1, <1>2, <1>3 DEF Answered

\* A step that sends nothing.
LEMMA AnswerStays ==
    ASSUME NEW r, Answered(r), rk'.got = rk.got, rs'.pos = rs.pos
    PROVE  Answered(r)'
  BY DEF Answered

\* What one turn of sendRes does.
ResOut == /\ rs.pos = RespLen /\ rk'.got = rk.got /\ rs'.pos = 0 /\ rs'.len = 0 /\ ~rs'.out
          /\ rs'.pc \in {"recv", "wait"}
ResMore(d) == /\ Transmitted(rk', d) /\ d > 0 /\ rs'.pos = rs.pos + d /\ rs'.pos <= RespLen
              /\ rs'.len = rs.len /\ rs'.out = rs.out /\ rs'.pc = "write"
ResFull(asks) == /\ rk'.got = rk.got /\ rs'.pos = rs.pos /\ rs'.len = rs.len /\ rs'.out = asks
                 /\ rs'.pc \in {"recv", "wait"}
ResFailed == /\ rk'.got = rk.got /\ rs'.pos = rs.pos /\ rs'.len = rs.len /\ rs'.out = rs.out
             /\ rs'.pc = "closed"

\* sendRes ends the response, sends some of it, finds the socket full, or
\* closes after an error.
LEMMA SendResEffect ==
    ASSUME RespCommon, rp \in Refs, rp' = rp, rs.pc = "write", rs.pos <= RespLen,
           NEW asks \in BOOLEAN, SendRes(asks)
    PROVE  /\ RespCommon' /\ rk'.sent = rk.sent /\ rk'.inq = rk.inq
           /\ ResOut \/ (\E d \in Nat : ResMore(d)) \/ ResFull(asks) \/ ResFailed
<1>1. rs \in RespConns /\ rk \in RespKernels /\ RespTypes /\ rs.pos \in Nat
  BY DEF RespCommon, RespTypes, RespConns
<1>2. CASE rs.pos = RespLen
  <2>1. PICK v : v = [rs EXCEPT !.len = 0, !.pos = 0, !.out = FALSE]
    OBVIOUS
  <2>2. v \in RespConns /\ v.len = 0 /\ v.pos = 0 /\ v.out = FALSE
    BY <1>1, <2>1 DEF RespConns
  <2>3. rproc = "up" /\ rproc' = "up" /\ rk' = rk /\ rs' = HandledWrite(v)
    BY <1>2, <2>1 DEF SendRes
  <2>4. /\ rs' \in RespConns /\ rs'.pos = 0 /\ rs'.len = 0 /\ rs'.out = FALSE
        /\ rs'.pc \in {"recv", "wait"}
    BY <2>2, <2>3, HandledFields
  <2>5. RespCommon'
    BY <1>1, <2>3, <2>4, CommonQuiet DEF SameStream
  <2> QED
    BY <1>2, <2>3, <2>4, <2>5 DEF ResOut
<1>3. CASE rs.pos # RespLen
  <2>1. PICK n \in Nat : n = RespLen - rs.pos /\ n > 0
    BY <1>1, <1>3, ResponseAssumption
  <2>2. PICK ret : ret = RespSendRet(n)
    OBVIOUS
  <2>3. ~RespSendKills
    BY DEF RespSendKills, Refs
  <2>4. /\ rproc = "up" /\ rproc' = "up" /\ rk' = RkAfterSend(ret)
        /\ rs' = IF ret > 0 THEN [rs EXCEPT !.pos = @ + ret]
                 ELSE IF ret = -2 THEN HandledWrite([rs EXCEPT !.out = asks]) ELSE ShutDown
    BY <1>3, <2>1, <2>2, <2>3 DEF SendRes, Send
  <2>5. ret \in Int /\ (ret = -1 \/ ret = -2 \/ ret > 0) /\ ret <= n
    BY <1>1, <2>1, <2>2, SendEffect
  <2>6. CASE ret > 0
    <3>1. rs.pos + ret \in Nat /\ rs.pos + ret <= RespLen /\ ret \in Nat
      BY <1>1, <2>1, <2>5, <2>6, ResponseAssumption
    <3>2. rs' = [rs EXCEPT !.pos = rs.pos + ret]
      BY <2>4, <2>6
    <3>3. /\ rs' \in RespConns /\ rs'.pos = rs.pos + ret /\ rs'.len = rs.len
          /\ rs'.out = rs.out /\ rs'.pc = "write"
      BY ONLY <1>1, rs.pc = "write", <3>1, <3>2 DEF RespConns
    <3>4. RespCommon' /\ Transmitted(rk', ret)
      BY <2>1, <2>2, <2>4, <2>6, <3>3, CommonSend
    <3>5. ResMore(ret)
      BY <2>6, <3>1, <3>3, <3>4 DEF ResMore
    <3> QED
      BY <3>1, <3>4, <3>5 DEF Transmitted
  <2>7. CASE ret = -2
    <3>1. PICK v : v = [rs EXCEPT !.out = asks]
      OBVIOUS
    <3>2. v \in RespConns /\ v.len = rs.len /\ v.pos = rs.pos /\ v.out = asks
      BY <1>1, <3>1 DEF RespConns
    <3>3. rs' = HandledWrite(v)
      BY <2>4, <2>7, <3>1
    <3>4. /\ rs' \in RespConns /\ rs'.pos = rs.pos /\ rs'.len = rs.len
          /\ rs'.out = asks /\ rs'.pc \in {"recv", "wait"}
      BY <3>2, <3>3, HandledFields
    <3>5. RespCommon' /\ Transmitted(rk', 0)
      BY <2>1, <2>2, <2>4, <2>7, <3>4, CommonSend
    <3>6. rk'.sent = rk.sent /\ rk'.inq = rk.inq /\ rk'.got = rk.got
      BY <1>1, <3>5 DEF Transmitted, RespKernels
    <3> QED
      BY <3>4, <3>5, <3>6 DEF ResFull
  <2>8. CASE ret = -1
    <3>1. rs' = ShutDown
      BY <2>4, <2>8
    <3>2. /\ rs' \in RespConns /\ rs'.pos = rs.pos /\ rs'.len = rs.len
          /\ rs'.out = rs.out /\ rs'.pc = "closed"
      BY <1>1, <3>1, ShutFields
    <3>3. RespCommon' /\ Transmitted(rk', 0)
      BY <2>1, <2>2, <2>4, <2>8, <3>2, CommonSend
    <3>4. rk'.sent = rk.sent /\ rk'.inq = rk.inq /\ rk'.got = rk.got
      BY <1>1, <3>3 DEF Transmitted, RespKernels
    <3> QED
      BY <3>2, <3>3, <3>4 DEF ResFailed
  <2> QED
    BY <2>5, <2>6, <2>7, <2>8
<1> QED
  BY <1>2, <1>3

\* What handleRead does: it has d units more, a complete request or not, or
\* nothing.
ReadSome(d) == /\ Received(rk', d) /\ d > 0 /\ rs.pc = "recv" /\ rs'.pos = rs.pos /\ rs'.out = rs.out
               /\ rs'.len > 0 /\ rs'.pc = (IF CompleteRequest(d) THEN "write" ELSE "recv")
ReadNothing == /\ rk'.got = rk.got /\ rk'.sent = rk.sent /\ rk'.inq = rk.inq /\ rs.pc = "recv"
               /\ rs'.pos = rs.pos /\ rs'.len = rs.len /\ rs'.out = rs.out
               /\ rs'.pc \in {"wait", "closed"}

\* handleRead changes neither what was sent nor what is asked for.
LEMMA HandleReadEffect ==
    ASSUME RespCommon, rp \in Refs, rp' = rp, HandleRead
    PROVE  RespCommon' /\ ((\E d \in Nat : ReadSome(d)) \/ ReadNothing)
<1>1. rs \in RespConns /\ rk \in RespKernels /\ RespTypes /\ rs.len \in Nat /\ rs.pc = "recv"
  BY DEF RespCommon, RespTypes, RespConns, HandleRead
<1>2. PICK ret : ret = RespRecvRet(MaxPkt)
  OBVIOUS
<1>3. ret \in Int /\ ret >= -2 /\ ret <= MaxPkt
  BY <1>1, <1>2, RecvEffect, ResponseAssumption
<1>4. /\ rproc = "up" /\ rproc' = "up" /\ rk' = RkAfterRecv(ret)
      /\ rs' = IF ret > 0
               THEN [rs EXCEPT !.len = Min({@ + ret, ReqLen}),
                               !.pc = IF CompleteRequest(ret) THEN "write" ELSE "recv",
                               !.ev = IF CompleteRequest(ret) THEN {"IN"} ELSE {}]
               ELSE IF ret = -2 THEN [rs EXCEPT !.pc = "wait"] ELSE ShutDown
  BY <1>2 DEF HandleRead, Recv
<1>5. CASE ret > 0
  <2>1. PICK l \in Nat : l = Min({rs.len + ret, ReqLen}) /\ l > 0
    BY <1>1, <1>3, <1>5, MinOfTwo, ResponseAssumption
  <2>2. PICK p \in {"write", "recv"} : p = IF CompleteRequest(ret) THEN "write" ELSE "recv"
    OBVIOUS
  <2>3. PICK v \in SUBSET {"IN", "OUT", "HUP"} : v = IF CompleteRequest(ret) THEN {"IN"} ELSE {}
    OBVIOUS
  <2>4. rs' = [rs EXCEPT !.len = l, !.pc = p, !.ev = v]
    BY <1>4, <1>5, <2>1, <2>2, <2>3
  <2>5. /\ rs' \in RespConns /\ rs'.len = l /\ rs'.pc = p /\ rs'.pos = rs.pos /\ rs'.out = rs.out
    BY ONLY <1>1, <2>4, l \in Nat, p \in {"write", "recv"}, v \in SUBSET {"IN", "OUT", "HUP"}
       DEF RespConns
  <2>6. RespCommon' /\ Received(rk', ret)
    BY <1>1, <1>2, <1>4, <1>5, <2>5, CommonRecv, ResponseAssumption
  <2> QED
    BY <1>1, <1>3, <1>5, <2>1, <2>2, <2>5, <2>6 DEF ReadSome
<1>6. CASE ret <= 0
  <2>1. rs' = [rs EXCEPT !.pc = "wait"] \/ (ret # -2 /\ rs' = ShutDown)
    BY <1>3, <1>4, <1>6
  <2>2. /\ rs' \in RespConns /\ rs'.pos = rs.pos /\ rs'.len = rs.len /\ rs'.out = rs.out
        /\ rs'.pc \in {"wait", "closed"} /\ (ret = -1 => rs'.pc = "closed")
    <3>1. CASE rs' = [rs EXCEPT !.pc = "wait"]
      <4>1. ret = -2 \/ rs' = ShutDown
        BY <1>3, <1>4, <1>6
      <4>2. CASE rs' = ShutDown
        BY <1>1, <4>2, ShutFields
      <4>3. CASE ret = -2
        BY ONLY <1>1, <3>1, <4>3 DEF RespConns
      <4> QED
        BY <4>1, <4>2, <4>3
    <3>2. CASE rs' = ShutDown
      BY <1>1, <3>2, ShutFields
    <3> QED
      BY <2>1, <3>1, <3>2
  <2>3. RespCommon' /\ Received(rk', 0)
    BY <1>1, <1>2, <1>4, <1>6, <2>2, CommonRecv, ResponseAssumption
  <2>4. rk'.inq = rk.inq /\ rk'.sent = rk.sent /\ rk'.got = rk.got
    BY <1>1, <2>3 DEF Received, RespKernels
  <2> QED
    BY <1>1, <2>2, <2>3, <2>4 DEF ReadNothing
<1> QED
  BY <1>3, <1>5, <1>6

\* exit_if, or a connection without a request yet.
LEMMA RefAccepts ==
    ASSUME RespCommon, rp' = rp, ref_handleAccept
    PROVE  /\ RespCommon' /\ rk'.got = rk.got /\ rk'.sent = rk.sent /\ rk'.inq = rk.inq
           /\ rs'.pos = rs.pos /\ rs'.len = rs.len /\ rs'.out = rs.out
           /\ rs.pc = "none" /\ rs'.pc \in {"none", "wait"}
<1>1. RespTypes /\ rs \in RespConns /\ rk \in RespKernels /\ rp \in Refs
  BY DEF RespCommon, RespTypes, ref_handleAccept, Refs
<1>2. CASE rk.peer = "rst" \/ (rk.peer # "idle" /\ ~rk.fds)
  BY <1>1, <1>2 DEF ref_handleAccept, RespCommon, RespTypes, ShutSeen, RespDeathCauses, Refs
<1>3. CASE ~(rk.peer = "rst" \/ (rk.peer # "idle" /\ ~rk.fds))
  <2>1. Established("wait")
    BY <1>3 DEF ref_handleAccept
  <2>2. /\ SameStream /\ rproc = "up" /\ rproc' = "up" /\ rs.pc = "none" /\ rs'.pc = "wait"
        /\ rs' \in RespConns /\ rs'.pos = rs.pos /\ rs'.len = rs.len /\ rs'.out = rs.out
    BY <1>1, <2>1, EstablishedSame
  <2>3. RespCommon'
    BY <1>1, <2>2, CommonQuiet
  <2> QED
    BY <2>2, <2>3 DEF SameStream
<1> QED
  BY <1>2, <1>3

\* With EPOLLIN EPOLLOUT is not looked at.
LEMMA RefTurns ==
    ASSUME RespCommon, rp \in Refs, rp' = rp, LoopTurn(loop_once_handler(ReadyEvents), {})
    PROVE  /\ RespCommon' /\ rk'.got = rk.got /\ rk'.sent = rk.sent /\ rk'.inq = rk.inq
           /\ rs'.pos = rs.pos /\ rs'.len = rs.len /\ rs'.out = rs.out
           /\ rs.pc = "wait" /\ rs'.pc \in {"recv", "write"}
           /\ rs'.pc = "write" => "OUT" \in ReadyEvents
<1>1. RespTypes
  BY DEF RespCommon
<1>2. PICK pc \in {"recv", "write"} : pc = loop_once_handler(ReadyEvents)
  BY DEF loop_once_handler
<1>3. /\ SameStream /\ rproc = "up" /\ rproc' = "up" /\ rs.pc = "wait" /\ rs'.pc = pc
      /\ rs' \in RespConns /\ rs'.pos = rs.pos /\ rs'.len = rs.len /\ rs'.out = rs.out
      /\ ReadyEvents # {}
  BY <1>1, <1>2, LoopTurnSame
<1>4. pc = "write" => "IN" \notin ReadyEvents
  BY <1>2 DEF loop_once_handler
<1>5. "IN" \notin ReadyEvents => "OUT" \in ReadyEvents
  BY <1>3 DEF ReadyEvents
<1>6. RespCommon'
  BY <1>1, <1>3, CommonQuiet
<1> QED
  BY <1>3, <1>4, <1>5, <1>6 DEF SameStream

\* What was read of the stream only grows, by what recv returned.
LEMMA ConsumedGrows ==
    ASSUME RespTypes, NEW d, Received(rk', d)
    PROVE  Consumed \in Nat /\ Consumed' = Consumed + d /\ d \in Nat /\ rk'.got = rk.got
<1>1. PICK t \in Nat, q \in Nat : t = rk.sent /\ q = rk.inq /\ q <= t
  BY DEF RespTypes, RespKernels
<1>2. d \in Nat /\ d <= q /\ rk'.sent = t /\ rk'.inq = q - d /\ rk'.got = rk.got
  BY <1>1 DEF Received
<1> QED
  BY ONLY <1>1, <1>2 DEF Consumed

\* Without a recv nothing more was read.
LEMMA ConsumedStays ==
    ASSUME RespTypes, rk'.sent = rk.sent, rk'.inq = rk.inq
    PROVE  Consumed \in Nat /\ Consumed' = Consumed
  BY DEF RespTypes, RespKernels, Consumed

\* What a step of server_epollet_ref has to keep.
LEMMA RefEtAccount ==
    ASSUME RespInv, rp' = rp, rp = "ref_et", co' = co, RespCommon', RefEtAnswers'
    PROVE  RespInv'
  BY OwnAccount DEF SimpleResponse, RefLtAnswers, RespAnswers, RespInterest, RespPrograms, Responding

\* ref_et: a response needs one unit read since the last.
EtCount(r) ==
    /\ Answered(r) /\ (rs.pos > 0 => rs.len > 0)
    /\ r + (IF rs.len > 0 THEN 1 ELSE 0) <= Consumed

\* It is what RefEtAnswers says.
LEMMA EtCounted ==
    ASSUME rp = "ref_et"
    PROVE  RefEtAnswers <=> \E r \in Nat : EtCount(r)
  BY DEF RefEtAnswers, EtCount, Consumed

\* A response is sent for something that was read after the one before.
LEMMA RefEtKeeps ==
    ASSUME RespInv, rp' = rp, rp = "ref_et", co' = co,
           ref_handleAccept \/ ref_et_loop_once \/ ref_et_sendRes \/ ref_et_handleRead
    PROVE  RespInv'
<1>1. RespCommon /\ RespTypes /\ rp \in Refs /\ rs \in RespConns
  BY DEF RespInv, RespCommon, RespTypes, Refs
<1>2. PICK r \in Nat : EtCount(r)
  BY EtCounted DEF RespInv
<1>3. Answered(r) /\ (rs.pos > 0 => rs.len > 0) /\ rs.pos <= RespLen /\ rs.len \in Nat /\ rs.pos \in Nat
      /\ r + (IF rs.len > 0 THEN 1 ELSE 0) <= Consumed
  BY <1>1, <1>2 DEF EtCount, Answered, RespConns
<1>4. ASSUME RespCommon', NEW w \in Nat, EtCount(w)'
      PROVE  RespInv'
  BY <1>4, RefEtAccount DEF RefEtAnswers, EtCount, Consumed
<1>5. ASSUME RespCommon', rk'.got = rk.got, rk'.sent = rk.sent, rk'.inq = rk.inq,
             rs'.pos = rs.pos, rs'.len = rs.len
      PROVE  RespInv'
  <2>1. EtCount(r)'
    BY <1>1, <1>3, <1>5, AnswerStays, ConsumedStays DEF EtCount
  <2> QED
    BY <1>4, <1>5, <2>1
<1>6. CASE ref_handleAccept
  BY <1>1, <1>5, <1>6, RefAccepts
<1>7. CASE ref_et_loop_once
  BY <1>1, <1>5, <1>7, RefTurns DEF ref_et_loop_once
<1>8. CASE ref_et_sendRes
  <2>1. CASE rs.len = 0
    <3>1. rproc = "up" /\ rproc' = "up" /\ rs' = HandledWrite(rs) /\ rk' = rk
      BY <1>8, <2>1 DEF ref_et_sendRes
    <3>2. RespCommon'
      BY <1>1, <3>1, HandledFields, CommonQuiet DEF SameStream, RespTypes
    <3> QED
      BY <1>1, <1>5, <3>1, <3>2, HandledFields
  <2>2. CASE rs.len # 0
    <3>1. SendRes(FALSE) /\ rs.pc = "write"
      BY <1>8, <2>2 DEF ref_et_sendRes
    <3>2. /\ RespCommon' /\ rk'.sent = rk.sent /\ rk'.inq = rk.inq
          /\ ResOut \/ (\E d \in Nat : ResMore(d)) \/ ResFull(FALSE) \/ ResFailed
      BY <1>1, <1>3, <3>1, SendResEffect
    <3>3. Consumed \in Nat /\ Consumed' = Consumed
      BY <1>1, <3>2, ConsumedStays
    <3>4. CASE ResOut
      <4>1. Answered(r + 1)' /\ rs'.pos = 0 /\ rs'.len = 0
        BY <1>1, <1>3, <3>4, AnswerIsOut DEF ResOut
      <4>2. r + 1 <= Consumed
        BY <1>3, <2>2, <3>3
      <4>3. EtCount(r + 1)'
        BY <3>3, <4>1, <4>2 DEF EtCount
      <4> QED
        BY <1>4, <3>2, <4>3
    <3>5. ASSUME NEW d \in Nat, ResMore(d)
          PROVE  RespInv'
      <4>1. Answered(r)' /\ rs'.len = rs.len
        BY <1>1, <1>3, <3>5, AnswerGoesOn DEF ResMore
      <4>2. EtCount(r)'
        BY <1>3, <2>2, <3>3, <4>1 DEF EtCount
      <4> QED
        BY <1>4, <3>2, <4>2
    <3>6. CASE ResFull(FALSE) \/ ResFailed
      BY <1>5, <3>2, <3>6 DEF ResFull, ResFailed
    <3> QED
      BY <3>2, <3>4, <3>5, <3>6
  <2> QED
    BY <2>1, <2>2
<1>9. CASE ref_et_handleRead
  <2>1. RespCommon' /\ ((\E d \in Nat : ReadSome(d)) \/ ReadNothing)
    BY <1>1, <1>9, HandleReadEffect DEF ref_et_handleRead
  <2>2. ASSUME NEW d \in Nat, ReadSome(d)
        PROVE  RespInv'
    <3>1. Received(rk', d) /\ d > 0 /\ rs'.pos = rs.pos /\ rs'.len > 0
      BY <2>2 DEF ReadSome
    <3>2. Consumed \in Nat /\ Consumed' = Consumed + d /\ rk'.got = rk.got
      BY <1>1, <3>1, ConsumedGrows
    <3>3. Answered(r)'
      BY <1>3, <3>1, <3>2, AnswerStays
    <3>4. r + 1 <= Consumed'
      BY <1>3, <3>1, <3>2
    <3>5. EtCount(r)'
      BY <3>1, <3>3, <3>4 DEF EtCount
    <3> QED
      BY <1>4, <2>1, <3>5
  <2>3. CASE ReadNothing
    BY <1>5, <2>1, <2>3 DEF ReadNothing
  <2> QED
    BY <2>1, <2>2, <2>3
<1> QED
  BY <1>6, <1>7, <1>8, <1>9

\* ref_lt: a response needs a request read since the last.
LtCount(r) ==
    /\ Answered(r)
    /\ rs.out \/ rs.pc = "write" => rs.len > 0
    /\ rs.pc \in {"none", "wait", "recv"} => (rs.pos > 0 => rs.out)
    /\ (r + (IF UnderWay THEN 1 ELSE 0)) * ReqLen <= Consumed

\* It is what RefLtAnswers says.
LEMMA LtCounted ==
    ASSUME rp = "ref_lt"
    PROVE  RefLtAnswers <=> \E r \in Nat : LtCount(r)
  BY DEF RefLtAnswers, LtCount, Consumed

\* What a step of server_epollout_ref has to keep.
LEMMA RefLtAccount ==
    ASSUME RespInv, rp' = rp, rp = "ref_lt", co' = co, RespCommon', NEW w \in Nat, LtCount(w)'
    PROVE  RespInv'
<1>1. RefLtAnswers'
  BY DEF RefLtAnswers, LtCount, Consumed
<1> QED
  BY <1>1, OwnAccount DEF SimpleResponse, RefEtAnswers, RespAnswers, RespInterest, RespPrograms, Responding

\* More times a number is no less.
LEMMA MoreTimes ==
    ASSUME NEW a \in Nat, NEW b \in Nat, a <= b, NEW l \in Nat
    PROVE  a * l <= b * l /\ a * l \in Nat /\ b * l \in Nat
<1>1. PICK k \in Nat : b = a + k
  <2>1. b - a \in Nat /\ b = a + (b - a)
    OBVIOUS
  <2> QED
    BY <2>1
<1>2. k * l \in Nat /\ a * l \in Nat
  OBVIOUS
<1>3. (a + k) * l = a * l + k * l
  OBVIOUS
<1> QED
  BY <1>1, <1>2, <1>3

\* A multiple above a number is above the next multiple.
LEMMA NextMultiple ==
    ASSUME NEW r \in Nat, NEW l \in Nat \ {0}, NEW c \in Nat, NEW e \in Nat,
           r * l <= c, c < e, e % l = 0
    PROVE  (r + 1) * l <= e
<1>1. PICK q \in Nat : e = q * l
  <2>1. e \div l \in Nat /\ e = l * (e \div l)
    OBVIOUS
  <2>2. e = (e \div l) * l
    BY <2>1
  <2> QED
    BY <2>1, <2>2
<1>2. ~(q <= r)
  <2> SUFFICES ASSUME q <= r PROVE FALSE
    OBVIOUS
  <2>1. q * l <= r * l /\ q * l \in Nat /\ r * l \in Nat
    BY MoreTimes
  <2> QED
    BY <1>1, <2>1
<1>3. r + 1 <= q
  BY <1>2
<1> QED
  BY <1>1, <1>3, MoreTimes

\* A step after which as much is under way as before.
LEMMA LtSame ==
    ASSUME RespTypes, NEW r \in Nat, LtCount(r), rk'.got = rk.got, rk'.sent = rk.sent, rk'.inq = rk.inq,
           rs'.pos = rs.pos, rs'.len = rs.len, rs'.out = rs.out,
           rs'.pc = "write" => UnderWay /\ rs.len > 0,
           rs'.pc \in {"none", "wait", "recv"} => (rs.pos > 0 => rs.out)
    PROVE  LtCount(r)'
<1>1. Answered(r)'
  BY AnswerStays DEF LtCount
<1>2. Consumed \in Nat /\ Consumed' = Consumed
  BY ConsumedStays
<1>3. PICK l \in Nat : l = ReqLen
  BY ResponseAssumption
<1>4. r * l <= (r + 1) * l /\ r * l \in Nat /\ (r + 1) * l \in Nat /\ r + 0 = r
  BY MoreTimes
<1>5. (r + (IF UnderWay THEN 1 ELSE 0)) * l <= Consumed
  BY <1>3 DEF LtCount
<1>6. UnderWay' => UnderWay
  BY DEF UnderWay
<1>7. (r + (IF UnderWay' THEN 1 ELSE 0)) * l <= Consumed
  BY ONLY <1>2, <1>4, <1>5, <1>6
<1> QED
  BY <1>1, <1>2, <1>3, <1>7 DEF LtCount

\* A response is sent for a request that ended after the one before.
LEMMA RefLtKeeps ==
    ASSUME RespInv, rp' = rp, rp = "ref_lt", co' = co,
           ref_handleAccept \/ ref_lt_loop_once \/ ref_lt_sendRes \/ ref_lt_handleRead
    PROVE  RespInv'
<1>1. RespCommon /\ RespTypes /\ rp \in Refs /\ rs \in RespConns
  BY DEF RespInv, RespCommon, RespTypes, Refs
<1>2. PICK r \in Nat : LtCount(r)
  BY LtCounted DEF RespInv
<1>3. PICK l \in Nat \ {0} : l = ReqLen
  BY ResponseAssumption
<1>4. /\ Answered(r) /\ rs.pos <= RespLen /\ rs.len \in Nat /\ rs.pos \in Nat /\ Consumed \in Nat
      /\ rs.out \/ rs.pc = "write" => rs.len > 0
      /\ rs.pc \in {"none", "wait", "recv"} => (rs.pos > 0 => rs.out)
      /\ (r + (IF UnderWay THEN 1 ELSE 0)) * l <= Consumed
  BY <1>1, <1>2, <1>3 DEF LtCount, Answered, RespConns, RespTypes, RespKernels, Consumed
<1>5. r * l <= (r + 1) * l /\ r * l \in Nat /\ (r + 1) * l \in Nat /\ r + 0 = r
  BY MoreTimes
<1>6. r * l <= Consumed /\ (UnderWay => (r + 1) * l <= Consumed)
  BY ONLY <1>4, <1>5
<1>7. ASSUME NEW w \in Nat, Answered(w)', rs'.out \/ rs'.pc = "write" => rs'.len > 0,
             rs'.pc \in {"none", "wait", "recv"} => (rs'.pos > 0 => rs'.out),
             IF UnderWay' THEN (w + 1) * l <= Consumed' ELSE w * l <= Consumed'
      PROVE  LtCount(w)'
  <2>1. w + 0 = w
    BY <1>7
  <2>2. (w + (IF UnderWay' THEN 1 ELSE 0)) * l <= Consumed'
    BY ONLY <1>7, <2>1
  <2> QED
    BY <1>3, <1>7, <2>2 DEF LtCount
<1>8. CASE ref_handleAccept
  <2>1. LtCount(r)'
    BY <1>1, <1>2, <1>4, <1>8, RefAccepts, LtSame
  <2> QED
    BY <1>1, <1>8, <2>1, RefAccepts, RefLtAccount
<1>9. CASE ref_lt_loop_once
  <2>1. /\ RespCommon' /\ rk'.got = rk.got /\ rk'.sent = rk.sent /\ rk'.inq = rk.inq
        /\ rs'.pos = rs.pos /\ rs'.len = rs.len /\ rs'.out = rs.out
        /\ rs.pc = "wait" /\ rs'.pc \in {"recv", "write"}
        /\ rs'.pc = "write" => "OUT" \in ReadyEvents
    BY <1>1, <1>9, RefTurns DEF ref_lt_loop_once
  <2>2. "OUT" \in ReadyEvents => rs.out
    BY DEF ReadyEvents, EdgeTriggered, CoPrograms
  <2>3. LtCount(r)'
    BY <1>1, <1>2, <1>4, <2>1, <2>2, LtSame DEF UnderWay
  <2> QED
    BY <2>1, <2>3, RefLtAccount
<1>10. CASE ref_lt_sendRes
  <2>1. SendRes(TRUE) /\ rs.pc = "write" /\ rs.len > 0 /\ UnderWay
    BY <1>4, <1>10 DEF ref_lt_sendRes, UnderWay
  <2>2. /\ RespCommon' /\ rk'.sent = rk.sent /\ rk'.inq = rk.inq
        /\ ResOut \/ (\E d \in Nat : ResMore(d)) \/ ResFull(TRUE) \/ ResFailed
    BY <1>1, <1>4, <2>1, SendResEffect
  <2>3. Consumed' = Consumed /\ (r + 1) * l <= Consumed
    BY <1>1, <1>6, <2>1, <2>2, ConsumedStays
  <2>4. CASE ResOut
    <3>1. Answered(r + 1)' /\ rs'.pos = 0 /\ rs'.len = 0 /\ rs'.pc \in {"recv", "wait"} /\ ~rs'.out
      BY <1>1, <1>4, <2>4, AnswerIsOut DEF ResOut
    <3>2. ~UnderWay'
      BY <3>1 DEF UnderWay
    <3>3. LtCount(r + 1)'
      BY <1>7, <2>3, <3>1, <3>2
    <3> QED
      BY <2>2, <3>3, RefLtAccount
  <2>5. ASSUME NEW d \in Nat, ResMore(d)
        PROVE  RespInv'
    <3>1. Answered(r)' /\ rs'.len = rs.len /\ rs'.pc = "write"
      BY <1>1, <1>4, <2>5, AnswerGoesOn DEF ResMore
    <3>2. UnderWay'
      BY <3>1 DEF UnderWay
    <3>3. LtCount(r)'
      BY <1>7, <2>1, <2>3, <3>1, <3>2
    <3> QED
      BY <2>2, <3>3, RefLtAccount
  <2>6. CASE ResFull(TRUE)
    <3>1. Answered(r)' /\ rs'.len = rs.len /\ rs'.out /\ rs'.pc \in {"recv", "wait"}
      BY <1>4, <2>6, AnswerStays DEF ResFull
    <3>2. UnderWay'
      BY <3>1 DEF UnderWay
    <3>3. LtCount(r)'
      BY <1>7, <2>1, <2>3, <3>1, <3>2
    <3> QED
      BY <2>2, <3>3, RefLtAccount
  <2>7. CASE ResFailed
    <3>1. LtCount(r)'
      BY <1>1, <1>2, <2>2, <2>7, LtSame DEF ResFailed
    <3> QED
      BY <2>2, <3>1, RefLtAccount
  <2> QED
    BY <2>2, <2>4, <2>5, <2>6, <2>7
<1>11. CASE ref_lt_handleRead
  <2>1. RespCommon' /\ ((\E d \in Nat : ReadSome(d)) \/ ReadNothing)
    BY <1>1, <1>11, HandleReadEffect DEF ref_lt_handleRead
  <2>2. ASSUME NEW d \in Nat, ReadSome(d)
        PROVE  RespInv'
    <3>1. /\ Received(rk', d) /\ d > 0 /\ rs'.pos = rs.pos /\ rs'.out = rs.out /\ rs'.len > 0
          /\ rs.pc = "recv" /\ rs'.pc = (IF CompleteRequest(d) THEN "write" ELSE "recv")
      BY <2>2 DEF ReadSome
    <3>2. Consumed' = Consumed + d /\ rk'.got = rk.got /\ Consumed < Consumed' /\ Consumed' \in Nat
      BY <1>1, <1>4, <3>1, ConsumedGrows
    <3>3. Answered(r)'
      BY <1>4, <3>1, <3>2, AnswerStays
    <3>4. CompleteRequest(d) => (r + 1) * l <= Consumed'
      <4> SUFFICES ASSUME CompleteRequest(d) PROVE (r + 1) * l <= Consumed'
        OBVIOUS
      <4>1. Consumed' % l = 0
        BY <1>3, <3>2 DEF CompleteRequest, Consumed
      <4> QED
        BY ONLY <1>4, <1>6, <3>2, <4>1, NextMultiple, r \in Nat, l \in Nat \ {0}
    <3>5. ~CompleteRequest(d) => (UnderWay' => UnderWay)
      BY <3>1 DEF UnderWay
    <3>6. IF UnderWay' THEN (r + 1) * l <= Consumed' ELSE r * l <= Consumed'
      BY ONLY <1>4, <1>5, <1>6, <3>2, <3>4, <3>5
    <3>7. LtCount(r)'
      BY <1>4, <1>7, <3>1, <3>3, <3>6
    <3> QED
      BY <2>1, <3>7, RefLtAccount
  <2>3. CASE ReadNothing
    <3>1. LtCount(r)'
      BY <1>1, <1>2, <1>4, <2>3, LtSame DEF ReadNothing
    <3> QED
      BY <2>1, <2>3, <3>1, RefLtAccount
  <2> QED
    BY <2>1, <2>2, <2>3
<1> QED
  BY <1>8, <1>9, <1>10, <1>11

-----------------------------------------------------------------------------
(* server_epollout_response and server_epollet_epollout_response *)

\* The account of q requests.
AskCount(q) ==
    /\ q \in Nat /\ rs.pos <= RespLen /\ rs.len <= MaxPkt - 1 /\ rs.f <= MaxPkt - 1
    /\ Consumed = q * ReqLen + rs.len
    /\ rk.got + rs.cnt * RespLen + (RespLen - rs.pos) = q * RespLen

\* It is what RespAnswers says.
LEMMA AskCounted ==
    ASSUME rp \in Responding
    PROVE  RespAnswers <=> \E q : AskCount(q)
  BY DEF RespAnswers, AskCount, Requested, Consumed

\* What a step of one of these servers has to keep.
LEMMA AskAccount ==
    ASSUME RespInv, rp' = rp, rp \in Responding, co' = co, RespCommon', NEW w, AskCount(w)', RespInterest'
    PROVE  RespInv'
<1>1. RespAnswers'
  BY DEF RespAnswers, AskCount, Requested, Consumed
<1> QED
  BY <1>1, OwnAccount DEF SimpleResponse, RefEtAnswers, RefLtAnswers, RespPrograms, Responding

\* A step that moves no bytes.
LEMMA AskSame ==
    ASSUME RespTypes, NEW q, AskCount(q), rk'.got = rk.got, rk'.sent = rk.sent, rk'.inq = rk.inq,
           rs'.pos = rs.pos, rs'.len = rs.len, rs'.cnt = rs.cnt, rs'.f = rs.f
    PROVE  AskCount(q)'
  BY ConsumedStays DEF AskCount

\* Quotient and remainder, as the language defines them.
LEMMA QuotientAndRest ==
    ASSUME NEW n \in Int, NEW l \in Nat, l > 0
    PROVE  n \div l \in Int /\ n % l \in 0 .. l - 1 /\ n = l * (n \div l) + (n % l)
OBVIOUS

\* A division with rest.
LEMMA WholeAndRest ==
    ASSUME NEW n \in Nat, NEW l \in Nat \ {0}
    PROVE  /\ n \div l \in Nat /\ n % l \in Nat /\ n % l < l /\ n % l <= n
           /\ n = (n \div l) * l + (n % l)
<1>1. n \div l \in Int /\ n % l \in 0 .. l - 1 /\ n = l * (n \div l) + (n % l)
  BY QuotientAndRest
<1>2. ~(n \div l <= -1)
  <2> SUFFICES ASSUME n \div l <= -1 PROVE FALSE
    OBVIOUS
  <2>1. l * (n \div l) <= -l
    BY <1>1
  <2> QED
    BY <1>1, <2>1
<1>3. (n \div l) * l = l * (n \div l) /\ n \div l \in Nat
  BY <1>1, <1>2
<1>4. PICK q \in Nat, r \in Nat : q = n \div l /\ r = n % l /\ r < l /\ n = q * l + r
  BY <1>1, <1>3
<1>5. q * l \in Nat /\ r <= n
  BY <1>4
<1> QED
  BY <1>4, <1>5

\* recv_request takes the whole requests from the ring and counts them.
LEMMA CountedFields ==
    ASSUME NEW v \in RespConns
    PROVE  \E k \in Nat :
              /\ Counted(v) \in RespConns /\ Counted(v).pc = "write" /\ Counted(v).ev = {}
              /\ Counted(v).pos = v.pos /\ Counted(v).out = v.out
              /\ Counted(v).cnt = v.cnt + k /\ Counted(v).f <= MaxPkt - 1
              /\ Counted(v).len <= v.len /\ v.len = k * ReqLen + Counted(v).len
<1>1. PICK l \in Nat \ {0}, m \in Nat \ {0} : l = ReqLen /\ m = MaxPkt
  BY ResponseAssumption
<1>2. PICK n \in Nat, c \in Nat, f \in Nat : n = v.len /\ c = v.cnt /\ f = v.f
  BY DEF RespConns
<1>3. PICK k \in Nat, r \in Nat : k = n \div l /\ r = n % l /\ r <= n /\ n = k * l + r
  BY WholeAndRest
<1>4. l * k \in Nat
  OBVIOUS
<1>5. PICK g \in Nat : g = (f + l * k) % m /\ g < m
  BY <1>4, WholeAndRest
<1>6. Counted(v) = [v EXCEPT !.cnt = c + k, !.len = r, !.f = g, !.pc = "write", !.ev = {}]
  BY <1>1, <1>2, <1>3, <1>5 DEF Counted
<1>7. c + k \in Nat /\ g <= m - 1
  BY <1>5
<1>8. /\ Counted(v) \in RespConns /\ Counted(v).pc = "write" /\ Counted(v).ev = {}
      /\ Counted(v).pos = v.pos /\ Counted(v).out = v.out
      /\ Counted(v).cnt = c + k /\ Counted(v).f = g /\ Counted(v).len = r
  BY ONLY v \in RespConns, <1>6, <1>7, r \in Nat, g \in Nat DEF RespConns
<1> QED
  BY <1>1, <1>2, <1>3, <1>7, <1>8

\* The first free piece is no more than what is free.
LEMMA FirstPiece ==
    ASSUME rs \in RespConns, rs.len <= MaxPkt - 1, rs.f <= MaxPkt - 1
    PROVE  /\ get_blank_iovec[1] \in Nat /\ rs.len + get_blank_iovec[1] <= MaxPkt - 1
           /\ get_blank_size \in Nat /\ rs.len + get_blank_size = MaxPkt - 1
<1>1. PICK m \in Nat \ {0}, n \in Nat, f \in Nat :
         m = MaxPkt /\ n = rs.len /\ f = rs.f /\ n <= m - 1 /\ f <= m - 1
  BY ResponseAssumption DEF RespConns
<1>2. PICK p \in Nat : p = (f + n) % m /\ p = IF f + n < m THEN f + n ELSE f + n - m
  <2>1. CASE f + n < m
    <3>1. (f + n) % m = f + n
      BY <2>1
    <3> QED
      BY <2>1, <3>1
  <2>2. CASE f + n >= m
    <3>1. PICK x \in Nat : x = f + n - m /\ x < m /\ f + n = x + m
      BY <1>1, <2>2
    <3>2. (x + m) % m = x % m /\ x % m = x
      BY <3>1
    <3> QED
      BY <2>2, <3>1, <3>2
  <2> QED
    BY <2>1, <2>2
<1>3. get_blank_iovec[1] = IF p < f THEN f - p - 1
                           ELSE IF f = 0 THEN m - p - 1
                           ELSE m - p
  BY <1>1, <1>2 DEF get_blank_iovec
<1>4. get_blank_iovec[1] \in Nat /\ n + get_blank_iovec[1] <= m - 1
  BY ONLY <1>1, <1>2, <1>3
<1> QED
  BY <1>1, <1>4 DEF get_blank_size

\* What a recv brought is in the ring, or counted.
LEMMA AskReads ==
    ASSUME RespTypes, NEW q, AskCount(q), NEW d \in Nat, Received(rk', d), NEW v \in RespConns,
           v.pos = rs.pos, v.cnt = rs.cnt, v.f = rs.f, v.out = rs.out,
           v.len = rs.len + d, v.len <= MaxPkt - 1, rs' = v \/ rs' = Counted(v)
    PROVE  /\ \E w : AskCount(w)'
           /\ rs' \in RespConns /\ rs'.out = rs.out /\ rs'.pos = rs.pos /\ rs'.cnt >= rs.cnt
           /\ rs' = Counted(v) => rs'.pc = "write"
<1>1. Consumed \in Nat /\ Consumed' = Consumed + d /\ rk'.got = rk.got
  BY ConsumedGrows
<1>2. PICK l \in Nat, m \in Nat, z \in Nat, n \in Nat, c \in Nat, p \in Nat, g \in Nat, y \in Nat, x \in Nat :
         /\ l = ReqLen /\ m = MaxPkt /\ z = RespLen /\ n = rs.len /\ c = rs.cnt /\ p = rs.pos /\ g = rk.got
         /\ y = q * ReqLen /\ x = q * RespLen
  <2>1. q \in Nat
    BY DEF AskCount
  <2>2. q * ReqLen \in Nat /\ q * RespLen \in Nat
    BY <2>1, OneMore, ResponseAssumption
  <2> QED
    BY <2>2, ResponseAssumption DEF RespTypes, RespKernels, RespConns
<1>3. /\ q \in Nat /\ p <= z /\ n <= m - 1 /\ rs.f <= m - 1
      /\ Consumed = y + n /\ g + c * z + (z - p) = x
  BY <1>2 DEF AskCount
<1>4. CASE rs' = v
  <2>1. rs'.len = n + d /\ Consumed' = y + (n + d)
    BY <1>1, <1>2, <1>3, <1>4
  <2>2. AskCount(q)'
    BY <1>1, <1>2, <1>3, <1>4, <2>1 DEF AskCount
  <2>3. Counted(v).pc = "write"
    BY CountedFields
  <2> QED
    BY <1>2, <1>4, <2>2, <2>3
<1>5. CASE rs' = Counted(v)
  <2>1. PICK k \in Nat :
           /\ rs' \in RespConns /\ rs'.pc = "write" /\ rs'.pos = p /\ rs'.out = rs.out
           /\ rs'.cnt = c + k /\ rs'.f <= m - 1
           /\ rs'.len <= v.len /\ v.len = k * l + rs'.len
    BY <1>2, <1>5, CountedFields
  <2>2. PICK e \in Nat : e = rs'.len /\ n + d = k * l + e /\ e <= m - 1
    BY <1>2, <2>1 DEF RespConns
  <2>3. (q + k) * l = q * l + k * l /\ (q + k) * z = q * z + k * z /\ (c + k) * z = c * z + k * z
        /\ k * l \in Nat /\ k * z \in Nat /\ c * z \in Nat /\ q + k \in Nat
    BY <1>3
  <2>4. Consumed' = (q + k) * l + e
    BY <1>1, <1>2, <1>3, <2>2, <2>3
  <2>5. g + (c + k) * z + (z - p) = (q + k) * z
    BY <1>2, <1>3, <2>3
  <2>6. AskCount(q + k)'
    BY <1>1, <1>2, <1>3, <2>1, <2>2, <2>3, <2>4, <2>5 DEF AskCount
  <2> QED
    BY <1>2, <2>1, <2>6
<1> QED
  BY <1>4, <1>5

\* accept4 fails, or a connection without a request.
LEMMA AskAccepts ==
    ASSUME RespInv, rp' = rp, rp \in Responding, co' = co, resp_Acceptor_handle
    PROVE  RespInv'
<1>1. RespCommon /\ RespTypes /\ rs \in RespConns /\ rk \in RespKernels
  BY DEF RespInv, RespCommon, RespTypes
<1>2. PICK q : AskCount(q)
  BY AskCounted DEF RespInv
<1>3. CASE Established("wait")
  <2>1. /\ SameStream /\ rproc = "up" /\ rproc' = "up" /\ rs.pc = "none"
        /\ rs' \in RespConns /\ rs'.pc = "wait" /\ rs'.f = rs.f /\ rs'.len = rs.len
        /\ rs'.cnt = rs.cnt /\ rs'.pos = rs.pos /\ rs'.out = rs.out
    BY <1>1, <1>3, EstablishedSame
  <2>2. RespCommon'
    BY <1>1, <2>1, CommonQuiet
  <2>3. AskCount(q)'
    BY <1>1, <1>2, <2>1, AskSame DEF SameStream
  <2>4. RespInterest'
    BY <2>1 DEF RespInv, RespInterest, Busy
  <2> QED
    BY <2>2, <2>3, <2>4, AskAccount
<1>4. CASE AcceptFails /\ rs' = ShutDown
  <2>1. /\ SameStream /\ rproc = "up" /\ rproc' = "up" /\ rs' = ShutDown
    BY <1>1, <1>4, FailedSame DEF AcceptFails
  <2>2. /\ rs' \in RespConns /\ rs'.pc = "closed" /\ rs'.f = rs.f /\ rs'.len = rs.len
        /\ rs'.cnt = rs.cnt /\ rs'.pos = rs.pos /\ rs'.out = rs.out
    BY <1>1, <2>1, ShutFields
  <2>3. RespCommon'
    BY <1>1, <2>1, <2>2, CommonQuiet
  <2>4. AskCount(q)'
    BY <1>1, <1>2, <2>2, <2>1, AskSame DEF SameStream
  <2>5. RespInterest'
    BY <2>2 DEF RespInterest
  <2> QED
    BY <2>3, <2>4, <2>5, AskAccount
<1>5. CASE AcceptFails /\ rs' # ShutDown
  <2>1. rproc' = "abort" /\ rproc = "up" /\ rs.pc = "none" /\ UNCHANGED <<rk, rs>>
    BY <1>5 DEF AcceptFails
  <2>2. RespCommon'
    BY <1>1, <2>1 DEF RespCommon, RespTypes, ShutSeen, RespDeathCauses
  <2>3. AskCount(q)'
    BY <1>1, <1>2, <2>1, AskSame
  <2>4. RespInterest'
    BY <2>1 DEF RespInv, RespInterest, Busy
  <2> QED
    BY <2>2, <2>3, <2>4, AskAccount
<1> QED
  BY <1>3, <1>4, <1>5 DEF resp_Acceptor_handle

\* EPOLLOUT before EPOLLIN; an unexpected event closes.
LEMMA AskTurns ==
    ASSUME RespInv, rp' = rp, rp \in Responding, co' = co, resp_lt_run \/ resp_et_run
    PROVE  RespInv'
<1>1. RespCommon /\ RespTypes
  BY DEF RespInv, RespCommon
<1>2. PICK q : AskCount(q)
  BY AskCounted DEF RespInv
<1>3. PICK pc : pc = resp_Connection_handle(ReadyEvents)
  OBVIOUS
<1>4. LoopTurn(pc, {"IN"}) /\ pc \in {"closed", "write", "recv"}
  BY <1>3 DEF resp_lt_run, resp_et_run, resp_Connection_handle
<1>5. /\ SameStream /\ rproc = "up" /\ rproc' = "up" /\ rs.pc = "wait" /\ rs'.pc = pc
      /\ rs'.f = rs.f /\ rs'.len = rs.len /\ rs'.cnt = rs.cnt /\ rs'.pos = rs.pos /\ rs'.out = rs.out
      /\ rs' \in RespConns
  BY <1>1, <1>4, LoopTurnSame
<1>6. rk.err = "shut" => pc = "closed"
  BY <1>1, <1>3, HupSeen DEF resp_Connection_handle
<1>7. RespCommon'
  BY <1>1, <1>5, <1>6, CommonQuiet
<1>8. AskCount(q)'
  BY <1>1, <1>2, <1>5, AskSame DEF SameStream
<1>9. RespInterest'
  BY <1>5 DEF RespInv, RespInterest, Busy
<1> QED
  BY <1>7, <1>8, <1>9, AskAccount

\* One recv: what it brought stays in the ring or is counted, and after the
\* end or an error the connection is closed.
AskRecv(n, ret) ==
    /\ ret = RespRecvRet(n) /\ rproc = "up" /\ rproc' = "up" /\ rk' = RkAfterRecv(ret)
    /\ rs.pc \in {"recv", "recv2"}
    /\ \/ rs' = ShutDown /\ ret <= 0
       \/ /\ ret # -1
          /\ LET v == [rs EXCEPT !.len = @ + Max({ret, 0})]
             IN  rs' = [v EXCEPT !.pc = "recv2"] \/ rs' = Counted(v)

\* Whatever recv returns, the account goes on.
LEMMA AskRecvKeeps ==
    ASSUME RespInv, rp' = rp, rp \in Responding, co' = co, NEW n \in Nat, rs.len + n <= MaxPkt - 1,
           NEW ret, AskRecv(n, ret)
    PROVE  RespInv'
<1>1. RespCommon /\ RespTypes /\ rs \in RespConns /\ rk \in RespKernels /\ rs.len \in Nat /\ rs.cnt \in Nat
  BY DEF RespInv, RespCommon, RespTypes, RespConns
<1>2. PICK q : AskCount(q)
  BY AskCounted DEF RespInv
<1>3. ret \in Int /\ ret <= n /\ ret = RespRecvRet(n) /\ rs.pc \in {"recv", "recv2"}
  BY <1>1, RecvEffect DEF AskRecv
<1>4. CASE rs' = ShutDown /\ ret <= 0
  <2>1. /\ rs' \in RespConns /\ rs'.pc = "closed" /\ rs'.f = rs.f /\ rs'.len = rs.len
        /\ rs'.cnt = rs.cnt /\ rs'.pos = rs.pos /\ rs'.out = rs.out
    BY <1>1, <1>4, ShutFields
  <2>2. RespCommon' /\ Received(rk', 0)
    BY <1>1, <1>3, <1>4, <2>1, CommonRecv DEF AskRecv
  <2>3. rk'.inq = rk.inq /\ rk'.sent = rk.sent /\ rk'.got = rk.got
    BY <1>1, <2>2 DEF Received, RespKernels
  <2>4. AskCount(q)'
    BY <1>1, <1>2, <2>1, <2>3, AskSame
  <2>5. RespInterest'
    BY <2>1 DEF RespInterest
  <2> QED
    BY <2>2, <2>4, <2>5, AskAccount
<1>5. CASE ~(rs' = ShutDown /\ ret <= 0)
  <2>1. PICK d \in Nat : d = Max({ret, 0}) /\ d = IF ret > 0 THEN ret ELSE 0
    BY <1>3, MaxWithZero
  <2>2. PICK e \in Nat : e = rs.len + d /\ e <= MaxPkt - 1
    <3>1. rs.len + d \in Nat /\ rs.len + d <= MaxPkt - 1
      BY <1>1, <1>3, <2>1, ResponseAssumption, AskCounted, <1>2 DEF AskCount
    <3> QED
      BY <3>1
  <2>3. PICK v : v = [rs EXCEPT !.len = e]
    OBVIOUS
  <2>4. /\ v \in RespConns /\ v.len = e /\ v.pos = rs.pos /\ v.cnt = rs.cnt /\ v.f = rs.f
        /\ v.out = rs.out
    BY ONLY <1>1, <2>3, e \in Nat DEF RespConns
  <2>5. ret # -1 /\ (rs' = [v EXCEPT !.pc = "recv2"] \/ rs' = Counted(v))
    BY <1>5, <2>1, <2>2, <2>3 DEF AskRecv
  <2>6. PICK z : z = [v EXCEPT !.pc = "recv2"]
    OBVIOUS
  <2>7. /\ z \in RespConns /\ z.len = e /\ z.pos = rs.pos /\ z.cnt = rs.cnt /\ z.f = rs.f
        /\ z.out = rs.out /\ z.pc = "recv2"
    BY <2>4, <2>6, PlaceFields
  <2>8. PICK k \in Nat : /\ Counted(v) \in RespConns /\ Counted(v).pc = "write"
                         /\ Counted(v).pos = v.pos /\ Counted(v).out = v.out
                         /\ Counted(v).cnt = v.cnt + k
    BY <2>4, CountedFields
  <2>9. rs' \in RespConns /\ rs'.pc \in {"recv2", "write"}
    BY <2>5, <2>6, <2>7, <2>8
  <2>10. RespCommon' /\ Received(rk', d)
    BY <1>1, <1>3, <2>1, <2>5, <2>9, CommonRecv DEF AskRecv
  <2>11. CASE rs' = z
    <3>1. \E w : AskCount(w)'
      BY <1>1, <1>2, <2>2, <2>7, <2>10, <2>11, AskReads
    <3>2. RespInterest'
      BY <1>3, <2>7, <2>11 DEF RespInv, RespInterest, Busy
    <3> QED
      BY <2>10, <3>1, <3>2, AskAccount
  <2>12. CASE rs' = Counted(v)
    <3>1. /\ \E w : AskCount(w)'
          /\ rs'.out = rs.out /\ rs'.pos = rs.pos /\ rs'.cnt >= rs.cnt /\ rs'.pc = "write"
          /\ rs' \in RespConns
      BY <1>1, <1>2, <2>2, <2>4, <2>10, <2>12, AskReads
    <3>2. rs'.cnt \in Nat
      BY <3>1 DEF RespConns
    <3>3. Busy => Busy'
      BY <1>1, <3>1, <3>2 DEF Busy
    <3>4. RespInterest'
      BY <1>3, <3>1, <3>3 DEF RespInv, RespInterest
    <3> QED
      BY <2>10, <3>1, <3>4, AskAccount
  <2> QED
    BY <2>5, <2>6, <2>11, <2>12
<1> QED
  BY <1>4, <1>5

\* Both servers receive into what is free.
LEMMA AskReceives ==
    ASSUME RespInv, rp' = rp, rp \in Responding, co' = co, recv_buf_native \/ resp_et_recv_buf
    PROVE  RespInv'
<1>1. RespCommon /\ RespTypes /\ rs \in RespConns /\ rs.len \in Nat
  BY DEF RespInv, RespCommon, RespTypes, RespConns
<1>2. PICK q : AskCount(q)
  BY AskCounted DEF RespInv
<1>3. PICK n \in Nat, s \in Nat : /\ n = get_blank_iovec[1] /\ rs.len + n <= MaxPkt - 1
                                  /\ s = get_blank_size /\ rs.len + s <= MaxPkt - 1
  BY <1>1, <1>2, FirstPiece DEF AskCount
<1>4. \A ret : ret = RespRecvRet(n) \/ ret = RespRecvRet(s) => ret \in Int /\ ret >= -2
  BY <1>1, RecvEffect
<1>5. ASSUME NEW ret \in Int, ret > 0
      PROVE  Max({ret, 0}) = ret
  BY <1>5, MaxWithZero
<1>6. CASE recv_buf_native /\ rs.pc = "recv"
  <2>1. PICK ret \in Int : ret = RespRecvRet(n) /\ ret >= -2
    BY <1>4
  <2>2. PICK v : v = [rs EXCEPT !.len = @ + Max({ret, 0})]
    OBVIOUS
  <2>3. ret = n /\ DOMAIN get_blank_iovec = {1, 2} => n > 0
    <3>1. PICK m \in Nat, p \in Nat, f \in Nat : m = MaxPkt /\ p = (rs.f + rs.len) % m /\ f = rs.f /\ p < m
      <4>1. rs.f \in Nat /\ rs.f + rs.len \in Nat
        BY <1>1 DEF RespConns
      <4> QED
        BY <4>1, ResponseAssumption, WholeAndRest
    <3>2. DOMAIN get_blank_iovec = {1, 2} => get_blank_iovec = <<m - p, f - 1>>
      BY <3>1 DEF get_blank_iovec
    <3>3. DOMAIN get_blank_iovec = {1, 2} => n = m - p
      BY <1>3, <3>2
    <3> QED
      BY <3>1, <3>3
  <2>4. /\ rproc = "up" /\ rproc' = "up" /\ rk' = RkAfterRecv(ret)
        /\ rs' = IF ret \in {0, -1} THEN ShutDown
                 ELSE IF ret = n /\ DOMAIN get_blank_iovec = {1, 2}
                 THEN [rs EXCEPT !.len = @ + ret, !.pc = "recv2"]
                 ELSE Counted(v)
    BY <1>3, <1>6, <2>1, <2>2 DEF recv_buf_native, Recv
  <2>5. CASE ret \in {0, -1}
    <3>1. rs' = ShutDown /\ ret <= 0
      BY <2>4, <2>5
    <3>2. AskRecv(n, ret)
      BY <1>6, <2>1, <2>4, <3>1 DEF AskRecv
    <3> QED
      BY <1>3, <3>2, AskRecvKeeps
  <2>6. CASE ret \notin {0, -1} /\ ret = n /\ DOMAIN get_blank_iovec = {1, 2}
    <3>1. Max({ret, 0}) = ret
      BY <1>5, <2>3, <2>6
    <3>2. rs' = [v EXCEPT !.pc = "recv2"]
      BY <1>1, <2>2, <2>4, <2>6, <3>1 DEF RespConns
    <3> QED
      BY <1>3, <1>6, <2>1, <2>2, <2>4, <2>6, <3>2, AskRecvKeeps DEF AskRecv
  <2>7. CASE ret \notin {0, -1} /\ ~(ret = n /\ DOMAIN get_blank_iovec = {1, 2})
    <3>1. rs' = Counted(v)
      BY <2>4, <2>7
    <3> QED
      BY <1>3, <1>6, <2>1, <2>2, <2>4, <2>7, <3>1, AskRecvKeeps DEF AskRecv
  <2> QED
    BY <2>5, <2>6, <2>7
<1>7. CASE recv_buf_native /\ rs.pc # "recv"
  <2>1. PICK ret \in Int : ret = RespRecvRet(s) /\ ret >= -2
    BY <1>4
  <2>2. /\ rproc = "up" /\ rproc' = "up" /\ rk' = RkAfterRecv(ret) /\ rs.pc = "recv2"
        /\ rs' = IF ret \in {0, -1} THEN ShutDown
                 ELSE Counted([rs EXCEPT !.len = @ + Max({ret, 0})])
    BY <1>3, <1>7, <2>1 DEF recv_buf_native, Recv
  <2>3. AskRecv(s, ret)
    BY <2>1, <2>2 DEF AskRecv
  <2> QED
    BY <1>3, <2>3, AskRecvKeeps
<1>8. CASE resp_et_recv_buf
  <2>1. PICK ret \in Int : ret = RespRecvRet(s) /\ ret >= -2
    BY <1>4
  <2>2. /\ rproc = "up" /\ rproc' = "up" /\ rk' = RkAfterRecv(ret) /\ rs.pc = "recv"
        /\ rs' = IF ret <= 0 THEN ShutDown ELSE Counted([rs EXCEPT !.len = @ + ret])
    BY <1>3, <1>8, <2>1 DEF resp_et_recv_buf, Recv
  <2>3. CASE ret <= 0
    <3>1. rs' = ShutDown
      BY <2>2, <2>3
    <3> QED
      BY <1>3, <2>1, <2>2, <2>3, <3>1, AskRecvKeeps DEF AskRecv
  <2>4. CASE ret > 0
    <3>1. ~(ret <= 0) /\ ret # -1
      BY <2>4
    <3>2. rs' = Counted([rs EXCEPT !.len = @ + Max({ret, 0})])
      BY <1>5, <2>2, <2>4, <3>1
    <3> QED
      BY <1>3, <2>1, <2>2, <3>1, <3>2, AskRecvKeeps DEF AskRecv
  <2> QED
    BY <2>1, <2>3, <2>4
<1> QED
  BY <1>6, <1>7, <1>8

\* A turn of send_response: the response that starts leaves the count.
LEMMA AskSends ==
    ASSUME RespInv, rp' = rp, rp \in Responding, co' = co, SendResponse(rp = "resp_lt")
    PROVE  RespInv'
<1>1. /\ RespCommon /\ RespTypes /\ rs \in RespConns /\ rk \in RespKernels /\ rs.pc = "write"
      /\ rp \in RespPrograms \ Refs
  BY DEF RespInv, RespCommon, RespTypes, SendResponse, Responding, RespPrograms, Refs
<1>2. PICK q : AskCount(q)
  BY AskCounted DEF RespInv
<1>3. PICK c \in Nat, p \in Nat, z \in Nat \ {0}, g \in Nat, x \in Nat :
         c = rs.cnt /\ p = rs.pos /\ z = RespLen /\ g = rk.got /\ x = q * RespLen
  <2>1. q \in Nat
    BY <1>2 DEF AskCount
  <2>2. q * RespLen \in Nat
    BY <2>1, OneMore, ResponseAssumption
  <2> QED
    BY <1>1, <2>2, ResponseAssumption DEF RespKernels, RespConns
<1>4. p <= z /\ g + c * z + (z - p) = x /\ rs.len <= MaxPkt - 1 /\ rs.f <= MaxPkt - 1 /\ Consumed = q * ReqLen + rs.len
  BY <1>2, <1>3 DEF AskCount
<1>5. RespInterest /\ (c = 0 /\ p = z /\ rp = "resp_lt" => ~rs.out)
  BY <1>1, <1>3 DEF RespInv, RespInterest, Busy
<1>6. CASE c = 0 /\ p = z
  <2>1. rproc = "up" /\ rproc' = "up" /\ rs' = HandledWrite(rs) /\ rk' = rk
    BY <1>3, <1>6 DEF SendResponse
  <2>2. /\ rs' \in RespConns /\ rs'.pc \in {"recv", "wait"} /\ rs'.f = rs.f /\ rs'.len = rs.len
        /\ rs'.cnt = rs.cnt /\ rs'.pos = rs.pos /\ rs'.out = rs.out
    BY <1>1, <2>1, HandledFields
  <2>3. rk.err # "shut"
    BY <1>1, <2>1 DEF RespCommon, ShutSeen
  <2>4. RespCommon'
    BY <1>1, <2>1, <2>2, <2>3, CommonQuiet DEF SameStream
  <2>5. AskCount(q)'
    BY <1>1, <1>2, <2>1, <2>2, AskSame
  <2>6. RespInterest'
    <3>1. ~Busy'
      <4>1. rs'.cnt = 0 /\ rs'.pos = z /\ RespLen = z
        BY <1>3, <1>6, <2>2
      <4> QED
        BY ONLY <4>1, z \in Nat \ {0} DEF Busy
    <3>2. rp = "resp_lt" => ~rs'.out
      BY <1>5, <1>6, <2>2
    <3> QED
      BY <2>2, <3>1, <3>2 DEF RespInterest
  <2> QED
    BY <2>4, <2>5, <2>6, AskAccount
<1>7. CASE ~(c = 0 /\ p = z)
  <2>1. PICK b \in Nat, o \in Nat : /\ b = (IF p = z THEN c - 1 ELSE c) /\ o = (IF p = z THEN 0 ELSE p)
                                    /\ o < z /\ g + b * z + (z - o) = x
    <3>1. CASE p = z
      <4>1. c - 1 \in Nat /\ (c - 1) * z = c * z - z /\ c * z \in Nat
        BY <1>7, <3>1
      <4>2. g + (c - 1) * z + (z - 0) = x
        BY <1>4, <3>1, <4>1
      <4> QED
        BY <3>1, <4>1, <4>2
    <3>2. CASE p # z
      BY <1>4, <3>2
    <3> QED
      BY <3>1, <3>2
  <2>2. PICK n \in Nat : n = RespLen - o /\ n > 0
    BY <1>3, <2>1
  <2>3. PICK ret : ret = RespSendRet(n)
    OBVIOUS
  <2>4. /\ ret \in Int /\ (ret = -1 \/ ret = -2 \/ ret > 0) /\ ret <= n
    BY <1>1, <2>2, <2>3, SendEffect
  <2>5. CASE RespSendKills
    <3>1. rproc = "up" /\ rproc' = "sigpipe" /\ UNCHANGED <<rk, rs>>
      BY <1>3, <1>7, <2>5 DEF SendResponse, Send
    <3>2. RespCommon'
      BY <1>1, <2>5, <3>1, CommonKilled
    <3>3. AskCount(q)'
      BY <1>1, <1>2, <3>1, AskSame
    <3>4. RespInterest'
      BY <1>5, <3>1 DEF RespInterest, Busy
    <3> QED
      BY <3>2, <3>3, <3>4, AskAccount
  <2>6. CASE ~RespSendKills
    <3>1. PICK d \in Nat : d = Max({ret, 0}) /\ d = IF ret > 0 THEN ret ELSE 0
      BY <2>4, MaxWithZero
    <3>2. o + d \in Nat /\ o + d <= z
      BY <1>3, <2>1, <2>2, <2>4, <3>1
    <3>3. PICK v : v = [rs EXCEPT !.cnt = b, !.pos = o + d]
      OBVIOUS
    <3>4. /\ v \in RespConns /\ v.cnt = b /\ v.pos = o + d /\ v.f = rs.f /\ v.len = rs.len
          /\ v.out = rs.out /\ v.pc = "write"
      BY ONLY <1>1, <3>2, <3>3, b \in Nat DEF RespConns
    <3>5. /\ rproc = "up" /\ rproc' = "up" /\ rk' = RkAfterSend(ret)
          /\ rs' = IF ret = -1 THEN ShutDown
                   ELSE IF b = 0 /\ v.pos = RespLen THEN [v EXCEPT !.out = FALSE]
                   ELSE IF ret = -2 THEN HandledWrite([v EXCEPT !.out = (rp = "resp_lt")])
                   ELSE v
      <4>1. /\ (IF rs.pos = RespLen THEN rs.cnt - 1 ELSE rs.cnt) = b
            /\ (IF rs.pos = RespLen THEN 0 ELSE rs.pos) = o
        BY <1>3, <2>1
      <4> QED
        BY <1>3, <1>7, <2>2, <2>3, <2>6, <3>1, <3>3, <4>1 DEF SendResponse, Send
    <3>6. PICK y, u : y = [v EXCEPT !.out = FALSE] /\ u = [v EXCEPT !.out = (rp = "resp_lt")]
      OBVIOUS
    <3>7. /\ y \in RespConns /\ y.cnt = b /\ y.pos = o + d /\ y.f = rs.f /\ y.len = rs.len
          /\ ~y.out /\ y.pc = "write"
      BY ONLY <3>4, <3>6 DEF RespConns
    <3>8. /\ u \in RespConns /\ u.cnt = b /\ u.pos = o + d /\ u.f = rs.f /\ u.len = rs.len
          /\ u.out = (rp = "resp_lt")
      BY ONLY <3>4, <3>6 DEF RespConns
    <3>9. ASSUME rs' \in RespConns, rs'.pos = o + d, rs'.cnt = b, rs'.f = rs.f, rs'.len = rs.len,
                 Transmitted(rk', d)
          PROVE  AskCount(q)'
      <4>1. rk'.sent = rk.sent /\ rk'.inq = rk.inq /\ rk'.got = g + d
        BY <1>3, <3>9 DEF Transmitted
      <4>2. Consumed' = Consumed
        BY <4>1 DEF Consumed
      <4>3. b * z \in Nat
        BY OneMore
      <4>4. (g + d) + b * z + (z - (o + d)) = x
        BY <2>1, <4>3
      <4> QED
        BY <1>2, <1>3, <1>4, <3>2, <3>9, <4>1, <4>2, <4>4 DEF AskCount
    <3>10. ASSUME rs' \in RespConns, ret = -1 => rs'.pc = "closed"
           PROVE  RespCommon' /\ Transmitted(rk', d)
      <4>1. rs.pc \notin {"wait", "closed"} /\ (ret = -1 /\ rp \in RespPrograms => rs'.pc \in {"wait", "closed"})
        BY <1>1, <3>10
      <4>2. RespCommon' /\ (ret > 0 => Transmitted(rk', ret)) /\ (ret <= 0 => Transmitted(rk', 0))
        BY <1>1, <2>2, <2>3, <3>5, <3>10, <4>1, CommonSend
      <4>3. CASE ret > 0
        BY <3>1, <4>2, <4>3
      <4>4. CASE ret <= 0
        <5>1. d = 0
          BY <2>4, <3>1, <4>4
        <5> QED
          BY <4>2, <4>4, <5>1
      <4> QED
        BY <2>4, <4>3, <4>4
    <3>11. CASE ret = -1
      <4>1. rs' = ShutDown
        BY <3>5, <3>11
      <4>2. /\ rs' \in RespConns /\ rs'.pc = "closed" /\ rs'.f = rs.f /\ rs'.len = rs.len
            /\ rs'.cnt = rs.cnt /\ rs'.pos = rs.pos /\ rs'.out = rs.out
        BY <1>1, <4>1, ShutFields
      <4>3. RespCommon' /\ Transmitted(rk', 0)
        BY <3>1, <3>10, <3>11, <4>2
      <4>4. rk'.sent = rk.sent /\ rk'.inq = rk.inq /\ rk'.got = rk.got
        BY <1>1, <4>3 DEF Transmitted, RespKernels
      <4>5. AskCount(q)'
        BY <1>1, <1>2, <4>2, <4>4, AskSame
      <4>6. RespInterest'
        BY <4>2 DEF RespInterest
      <4> QED
        BY <4>3, <4>5, <4>6, AskAccount
    <3>12. CASE ret # -1 /\ b = 0 /\ v.pos = RespLen
      <4>1. rs' = y
        BY <3>5, <3>6, <3>12
      <4>2. RespCommon' /\ AskCount(q)'
        BY <3>7, <3>9, <3>10, <3>12, <4>1
      <4>3. RespInterest'
        BY <3>7, <4>1 DEF RespInterest
      <4> QED
        BY <4>2, <4>3, AskAccount
    <3>13. CASE ret = -2 /\ ~(b = 0 /\ v.pos = RespLen)
      <4>1. rs' = HandledWrite(u)
        BY <3>5, <3>6, <3>13
      <4>2. /\ rs' \in RespConns /\ rs'.pc \in {"recv", "wait"} /\ rs'.f = rs.f /\ rs'.len = rs.len
            /\ rs'.cnt = b /\ rs'.pos = o + d /\ rs'.out = (rp = "resp_lt")
        BY <3>8, <4>1, HandledFields
      <4>3. RespCommon' /\ AskCount(q)'
        BY <3>9, <3>10, <3>13, <4>2
      <4>4. Busy'
        BY <1>3, <3>2, <3>4, <3>13, <4>2 DEF Busy
      <4>5. RespInterest'
        BY <4>2, <4>4 DEF RespInterest
      <4> QED
        BY <4>3, <4>5, AskAccount
    <3>14. CASE ret # -1 /\ ret # -2 /\ ~(b = 0 /\ v.pos = RespLen)
      <4>1. rs' = v
        BY <3>5, <3>14
      <4>2. RespCommon' /\ AskCount(q)'
        BY <3>4, <3>9, <3>10, <3>14, <4>1
      <4>3. Busy'
        BY <1>3, <3>2, <3>4, <3>14, <4>1 DEF Busy
      <4>4. RespInterest'
        BY <3>4, <4>1, <4>3 DEF RespInterest
      <4> QED
        BY <4>2, <4>4, AskAccount
    <3> QED
      BY <2>4, <3>11, <3>12, <3>13, <3>14
  <2> QED
    BY <2>5, <2>6
<1> QED
  BY <1>6, <1>7

\* Every step of the two servers.
LEMMA AskKeeps ==
    ASSUME RespInv, rp' = rp, rp \in Responding, co' = co, RespServer
    PROVE  RespInv'
<1>1. \/ resp_lt_run \/ resp_et_run \/ resp_Acceptor_handle \/ recv_buf_native \/ resp_et_recv_buf
      \/ SendResponse(rp = "resp_lt")
  BY DEF RespServer, Responding, simple_loop, ref_et_loop_once, ref_lt_loop_once, simple_handle_accept,
         simple_send_buf, simple_handle_recv, ref_handleAccept, ref_et_sendRes, ref_lt_sendRes,
         ref_et_handleRead, ref_lt_handleRead, resp_lt_send_response, resp_et_send_response
<1> QED
  BY <1>1, AskAccepts, AskTurns, AskReceives, AskSends

-----------------------------------------------------------------------------
(* The coroutine servers *)

\* What the two programs keep in co.
CoShape ==
    /\ co \in CoStates
    /\ rp = "co" => ~co.rsem /\ ~co.ssem
    /\ rp = "co1" => ~(co.rsem /\ co.ssem) /\ co.status = "running"

\* The coroutine waits for what, or for nothing.
SuspendedOn(what) ==
    /\ WaitsRecv = (what = "recv") /\ WaitsSend = (what = "send") /\ co.exited = FALSE

\* What a step of one of these servers has to keep.
LEMMA CoAccount ==
    ASSUME RespInv, rp' = rp, rp \in CoPrograms, RespCommon', CoHands', CoShape',
           LoopAndCoroutineAgree', CoLossless', rs'.pc \in {"wait", "recv", "write", "closed"}
    PROVE  RespInv'
<1>1. CoWaits'
  BY DEF CoWaits, CoShape
<1> QED
  BY <1>1 DEF RespInv, SimpleResponse, RefEtAnswers, RefLtAnswers, RespAnswers, RespInterest, CoPrograms, Responding

\* The waits of both programs are recorded for what they are.
LEMMA WaitingShape ==
    ASSUME rp \in CoPrograms, CoShape, SuspendedOn("none"), NEW what \in {"recv", "send"}
    PROVE  /\ Waiting(what) \in CoStates /\ Waiting(what).exited = FALSE /\ Waiting(what).by = co.by
           /\ co' = Waiting(what) /\ rp' = rp => CoShape' /\ SuspendedOn(what)'
           /\ (IF rp = "co" THEN Waiting(what).status = "recv" ELSE Waiting(what).rsem) = (what = "recv")
<1>1. CASE rp = "co"
  <2>1. Waiting(what) = [co EXCEPT !.status = what]
    BY <1>1 DEF Waiting, co_wait
  <2> QED
    BY <1>1, <2>1 DEF CoShape, CoStates, SuspendedOn, WaitsRecv, WaitsSend
<1>2. CASE rp = "co1"
  <2>1. co.rsem = FALSE /\ co.ssem = FALSE /\ co.status = "running"
    BY <1>2 DEF SuspendedOn, WaitsRecv, WaitsSend, CoShape
  <2>2. Waiting(what) = [co EXCEPT !.rsem = (what = "recv"), !.ssem = (what = "send")]
    BY <1>2, <2>1 DEF Waiting, sem_wait, CoShape, CoStates
  <2>3. PICK c : c = Waiting(what)
    OBVIOUS
  <2>4. /\ c \in CoStates /\ c.status = "running" /\ c.exited = FALSE /\ c.by = co.by
        /\ c.rsem = (what = "recv") /\ c.ssem = (what = "send")
    BY <2>1, <2>2, <2>3 DEF CoShape, CoStates, SuspendedOn
  <2>5. ASSUME co' = c, rp' = rp
        PROVE  CoShape' /\ SuspendedOn(what)'
    <3>1. ~(c.rsem /\ c.ssem)
      BY <2>4
    <3>2. CoShape'
      BY <1>2, <2>4, <2>5, <3>1 DEF CoShape
    <3>3. SuspendedOn(what)'
      BY <1>2, <2>4, <2>5 DEF SuspendedOn, WaitsRecv, WaitsSend
    <3> QED
      BY <3>2, <3>3
  <2> QED
    BY <1>2, <2>3, <2>4, <2>5
<1> QED
  BY <1>1, <1>2 DEF CoPrograms

\* A wait gives the loop the connection back, or takes the EPOLLIN that came
\* with the EPOLLOUT at once.
LEMMA YieldWaits ==
    ASSUME rp \in CoPrograms, rp' = rp, CoShape, SuspendedOn("none"), rs \in RespConns,
           NEW what \in {"recv", "send"}, Yield(Waiting(what))
    PROVE  /\ CoShape' /\ rs' \in RespConns /\ rs'.len = rs.len /\ rs'.pos = rs.pos
           /\ \/ rs'.pc = "wait" /\ SuspendedOn(what)'
              \/ rs'.pc = "recv" /\ SuspendedOn("none")' /\ what = "recv"
<1>1. PICK c : c = Waiting(what)
  OBVIOUS
<1>2. /\ c \in CoStates /\ c.exited = FALSE
      /\ co' = c => CoShape' /\ SuspendedOn(what)'
      /\ (IF rp = "co" THEN c.status = "recv" ELSE c.rsem) = (what = "recv")
  BY <1>1, WaitingShape
<1>3. \/ /\ rs' = [rs EXCEPT !.pc = "recv", !.ev = {}] /\ what = "recv"
         /\ co' = [c EXCEPT !.by = "IN", !.status = "running", !.rsem = FALSE]
      \/ rs' = [rs EXCEPT !.pc = "wait", !.ev = {}] /\ co' = c
  BY <1>1, <1>2 DEF Yield
<1>4. rs' \in RespConns /\ rs'.len = rs.len /\ rs'.pos = rs.pos /\ rs'.pc \in {"wait", "recv"}
  BY <1>3 DEF RespConns
<1>5. CASE rs' = [rs EXCEPT !.pc = "wait", !.ev = {}] /\ co' = c
  BY <1>2, <1>4, <1>5 DEF RespConns
<1>6. CASE /\ rs' = [rs EXCEPT !.pc = "recv", !.ev = {}] /\ what = "recv"
           /\ co' = [c EXCEPT !.by = "IN", !.status = "running", !.rsem = FALSE]
  <2>1. co' \in CoStates /\ co'.status = "running" /\ co'.rsem = FALSE /\ co'.exited = FALSE /\ co'.ssem = c.ssem
    BY <1>2, <1>6 DEF CoStates
  <2>2. c.ssem = FALSE
    <3>1. CASE rp = "co"
      BY <1>1, <3>1 DEF Waiting, co_wait, CoShape, CoStates
    <3>2. CASE rp = "co1"
      <4>1. co.ssem = FALSE /\ co \in CoStates
        BY <3>2 DEF SuspendedOn, WaitsSend, CoShape
      <4> QED
        BY <1>1, <1>6, <3>2, <4>1 DEF Waiting, sem_wait, CoStates
    <3> QED
      BY <3>1, <3>2 DEF CoPrograms
  <2>3. CoShape' /\ SuspendedOn("none")'
    BY <2>1, <2>2 DEF CoShape, SuspendedOn, WaitsRecv, WaitsSend
  <2>4. rs'.pc = "recv"
    BY <1>6 DEF RespConns
  <2> QED
    BY <1>4, <1>6, <2>3, <2>4
<1> QED
  BY <1>3, <1>5, <1>6

\* The end of run: handle closes, start does not look.
LEMMA YieldExits ==
    ASSUME rp \in CoPrograms, rp' = rp, CoShape, SuspendedOn("none"), rs \in RespConns,
           Yield([co EXCEPT !.exited = TRUE])
    PROVE  /\ CoShape' /\ rs' \in RespConns /\ rs'.len = rs.len /\ rs'.pos = rs.pos
           /\ rs'.pc \in {"wait", "closed"} /\ LoopAndCoroutineAgree' /\ ~WaitsSend'
<1>1. PICK c : c = [co EXCEPT !.exited = TRUE]
  OBVIOUS
<1>2. /\ c \in CoStates /\ c.exited = TRUE /\ c.status = co.status /\ c.rsem = co.rsem /\ c.ssem = co.ssem
      /\ c.by = co.by
  BY <1>1 DEF CoShape, CoStates
<1>3. (rs' = ShutDown \/ rs' = [rs EXCEPT !.pc = "wait", !.ev = {}]) /\ co' = c
  BY <1>1, <1>2 DEF Yield
<1>4. CoShape' /\ WaitsRecv' = FALSE /\ WaitsSend' = FALSE /\ co'.exited = TRUE
  BY <1>2, <1>3 DEF CoShape, SuspendedOn, WaitsRecv, WaitsSend
<1>5. rs' \in RespConns /\ rs'.len = rs.len /\ rs'.pos = rs.pos /\ rs'.pc \in {"wait", "closed"}
  BY <1>3, ShutFields DEF RespConns
<1>6. LoopAndCoroutineAgree'
  BY <1>4, <1>5 DEF LoopAndCoroutineAgree
<1> QED
  BY <1>4, <1>5, <1>6

\* What the invariant says of a coroutine that runs.
LEMMA CoRuns ==
    ASSUME RespInv, rp \in CoPrograms
    PROVE  /\ RespCommon /\ RespTypes /\ rs \in RespConns /\ rk \in RespKernels /\ CoShape
           /\ rs.pc \in {"none", "recv", "write"} => SuspendedOn("none")
           /\ rs.len \in Nat /\ rs.pos \in Nat /\ rs.pos <= rs.len /\ rs.len <= BufUnits
<1>1. CoShape /\ (rs.pc = "none" => ~WaitsRecv /\ ~WaitsSend /\ ~co.exited)
  BY DEF RespInv, CoWaits, CoShape
<1>2. rs.pc \in {"recv", "write"} => ~WaitsRecv /\ ~WaitsSend /\ ~co.exited
  BY DEF RespInv, LoopAndCoroutineAgree
<1>3. co.exited \in BOOLEAN /\ WaitsRecv \in BOOLEAN /\ WaitsSend \in BOOLEAN
  BY <1>1 DEF CoShape, CoStates, WaitsRecv, WaitsSend
<1>4. rs.pc \in {"none", "recv", "write"} => SuspendedOn("none")
  BY <1>1, <1>2, <1>3 DEF SuspendedOn
<1> QED
  BY <1>1, <1>4 DEF RespInv, RespCommon, RespTypes, RespConns, CoHands

\* Accept, with or without the coroutine's first steps.
LEMMA CoStarts ==
    ASSUME RespInv, rp' = rp, rp \in CoPrograms, Started
    PROVE  RespInv'
<1>1. RespCommon /\ RespTypes /\ rs \in RespConns /\ CoShape /\ rs.pc = "none" /\ SuspendedOn("none")
  BY CoRuns DEF Started, Established, AcceptFails
<1>2. rs.pos = rs.len /\ rs.len <= BufUnits /\ rs.pos <= rs.len
  BY <1>1 DEF RespInv, CoHands
<1>3. CASE Established("recv") /\ co' = [co EXCEPT !.by = "start"]
  <2>1. /\ SameStream /\ rproc = "up" /\ rproc' = "up" /\ rs' \in RespConns /\ rs'.pc = "recv"
        /\ rs'.len = rs.len /\ rs'.pos = rs.pos
    BY <1>1, <1>3, EstablishedSame
  <2>2. RespCommon'
    BY <1>1, <2>1, CommonQuiet DEF RespPrograms, CoPrograms
  <2>3. CoShape' /\ SuspendedOn("none")'
    <3>1. /\ co' \in CoStates /\ co'.status = co.status /\ co'.rsem = co.rsem /\ co'.ssem = co.ssem
          /\ co'.exited = co.exited
      BY <1>1, <1>3 DEF CoShape, CoStates
    <3> QED
      BY <1>1, <3>1 DEF CoShape, SuspendedOn, WaitsRecv, WaitsSend
  <2>4. LoopAndCoroutineAgree'
    BY <2>1, <2>3 DEF LoopAndCoroutineAgree, SuspendedOn
  <2>5. CoHands'
    BY <1>2, <2>1 DEF CoHands
  <2>6. CoLossless'
    BY <1>1, <2>1 DEF RespInv, CoLossless, SameStream
  <2> QED
    BY <2>1, <2>2, <2>3, <2>4, <2>5, <2>6, CoAccount
<1>4. CASE AcceptFails /\ co' = co /\ rs' # ShutDown
  <2>0. rproc' = "abort" /\ rproc = "up" /\ UNCHANGED <<rk, rs, co>>
    BY <1>4 DEF AcceptFails
  <2>1. RespCommon'
    BY <1>1, <2>0 DEF RespCommon, RespTypes, ShutSeen, RespDeathCauses
  <2> QED
    BY <2>0, <2>1 DEF RespInv, SimpleResponse, RefEtAnswers, RefLtAnswers, RespAnswers, RespInterest,
       CoHands, CoWaits, LoopAndCoroutineAgree, CoLossless, CoPrograms, Responding, WaitsRecv, WaitsSend,
       Answered, Requested, UnderWay, Busy
<1>5. CASE AcceptFails /\ co' = co /\ rs' = ShutDown
  <2>1. SameStream /\ rproc = "up" /\ rproc' = "up"
    BY <1>1, <1>5, FailedSame
  <2>2. /\ rs' \in RespConns /\ rs'.pc = "closed" /\ rs'.len = rs.len /\ rs'.pos = rs.pos
    BY <1>1, <1>5, ShutFields
  <2>3. RespCommon'
    BY <1>1, <2>1, <2>2, CommonQuiet
  <2>4. CoShape' /\ LoopAndCoroutineAgree'
    BY <1>1, <1>5, <2>2 DEF CoShape, LoopAndCoroutineAgree
  <2>5. CoHands' /\ CoLossless'
    BY <1>2, <2>2 DEF CoHands, CoLossless
  <2> QED
    BY <2>2, <2>3, <2>4, <2>5, CoAccount
<1> QED
  BY <1>3, <1>4, <1>5 DEF Started

\* A switch to the coroutine ends the wait it is for, and no other.
LEMMA ResumedShape ==
    ASSUME rp \in CoPrograms, rp' = rp, CoShape, NEW what \in {"recv", "send"}, SuspendedOn(what),
           NEW by \in {"OUT", "IN"}, co' = Resumed(what, by)
    PROVE  CoShape' /\ SuspendedOn("none")'
<1>1. CASE rp = "co"
  <2>1. co' = [[co EXCEPT !.status = "running"] EXCEPT !.by = by]
    BY <1>1 DEF Resumed, co_wait
  <2>2. /\ co' \in CoStates /\ co'.status = "running" /\ co'.rsem = co.rsem /\ co'.ssem = co.ssem
        /\ co'.exited = co.exited
    BY <2>1 DEF CoShape, CoStates
  <2> QED
    BY <1>1, <2>2 DEF CoShape, SuspendedOn, WaitsRecv, WaitsSend
<1>2. CASE rp = "co1"
  <2>1. PICK a, b : a = (co.rsem /\ what # "recv") /\ b = (co.ssem /\ what # "send")
    OBVIOUS
  <2>2. co.rsem = (what = "recv") /\ co.ssem = (what = "send") /\ co.status = "running" /\ co \in CoStates
    BY <1>2 DEF SuspendedOn, WaitsRecv, WaitsSend, CoShape
  <2>3. co' = [[co EXCEPT !.rsem = FALSE, !.ssem = FALSE] EXCEPT !.by = by]
    BY <1>2, <2>2 DEF Resumed, sem_post, CoStates
  <2>4. /\ co' \in CoStates /\ co'.status = co.status /\ co'.rsem = FALSE /\ co'.ssem = FALSE
        /\ co'.exited = co.exited
    BY <2>2, <2>3 DEF CoStates
  <2> QED
    BY <1>2, <2>2, <2>4 DEF CoShape, SuspendedOn, WaitsRecv, WaitsSend
<1> QED
  BY <1>1, <1>2 DEF CoPrograms

\* The loop switches to a coroutine that waits for what happened.
LEMMA CoTurns ==
    ASSUME RespInv, rp' = rp, rp \in CoPrograms, CoLoopTurn
    PROVE  RespInv'
<1>1. RespCommon /\ RespTypes /\ rs \in RespConns /\ rk \in RespKernels /\ CoShape /\ rs.pc = "wait"
  BY CoRuns DEF CoLoopTurn
<1>2. /\ LoopAndCoroutineAgree /\ CoHands /\ CoLossless
      /\ rs.len <= BufUnits /\ rs.pos <= rs.len
      /\ IF WaitsSend THEN rs.pos < rs.len ELSE rs.pos = rs.len
  BY <1>1 DEF RespInv, CoHands
<1>3. /\ co.exited \in BOOLEAN /\ WaitsRecv \in BOOLEAN /\ WaitsSend \in BOOLEAN
      /\ co.exited # (WaitsRecv # WaitsSend) /\ ~(WaitsRecv /\ WaitsSend)
  BY <1>1, <1>2 DEF CoShape, CoStates, WaitsRecv, WaitsSend, LoopAndCoroutineAgree, CoPrograms
<1>4. WaitsSend => SuspendedOn("send")
  BY <1>3 DEF SuspendedOn
<1>5. WaitsRecv => SuspendedOn("recv")
  BY <1>3 DEF SuspendedOn
<1>6. SameStream /\ rproc = "up" /\ rproc' = "up"
  BY <1>1 DEF CoLoopTurn, SameStream, RespKernels
<1>7. rs' \in RespConns => RespCommon'
  BY <1>1, <1>6, CommonQuiet DEF RespPrograms, CoPrograms
<1>8. ASSUME rs'.len = rs.len, rs'.pos = rs.pos
      PROVE  CoLossless'
  BY <1>1, <1>2, <1>6, <1>8 DEF CoLossless, SameStream
<1>9. CASE "HUP" \in ReadyEvents
  <2>1. rs' = ShutDown /\ co' = co
    BY <1>9 DEF CoLoopTurn, co_handle
  <2>2. rs' \in RespConns /\ rs'.pc = "closed" /\ rs'.len = rs.len /\ rs'.pos = rs.pos
    BY <1>1, <2>1, ShutFields
  <2>3. CoHands' /\ LoopAndCoroutineAgree' /\ CoShape'
    BY <1>1, <1>2, <2>1, <2>2 DEF CoHands, LoopAndCoroutineAgree, CoShape
  <2> QED
    BY <1>7, <1>8, <2>2, <2>3, CoAccount
<1>10. CASE "HUP" \notin ReadyEvents /\ "OUT" \in ReadyEvents /\ WaitsSend
  <2>1. rs' = [rs EXCEPT !.pc = "write", !.ev = ReadyEvents] /\ co' = Resumed("send", "OUT")
    BY <1>10 DEF CoLoopTurn, co_handle
  <2>2. ReadyEvents \subseteq {"IN", "OUT", "HUP"}
    BY DEF ReadyEvents
  <2>3. rs' \in RespConns /\ rs'.pc = "write" /\ rs'.len = rs.len /\ rs'.pos = rs.pos
    BY ONLY <1>1, <2>1, <2>2 DEF RespConns
  <2>4. CoShape' /\ SuspendedOn("none")'
    BY <1>1, <1>4, <1>10, <2>1, ResumedShape
  <2>5. CoHands' /\ LoopAndCoroutineAgree'
    BY <1>2, <1>10, <2>3, <2>4 DEF CoHands, LoopAndCoroutineAgree, SuspendedOn
  <2> QED
    BY <1>7, <1>8, <2>3, <2>4, <2>5, CoAccount
<1>11. CASE "HUP" \notin ReadyEvents /\ ~("OUT" \in ReadyEvents /\ WaitsSend) /\ "IN" \in ReadyEvents /\ WaitsRecv
  <2>1. rs' = [rs EXCEPT !.pc = "recv"] /\ co' = Resumed("recv", "IN")
    BY <1>11 DEF CoLoopTurn, co_handle
  <2>2. rs' \in RespConns /\ rs'.pc = "recv" /\ rs'.len = rs.len /\ rs'.pos = rs.pos
    BY <1>1, <2>1, PlaceFields
  <2>3. CoShape' /\ SuspendedOn("none")'
    BY <1>1, <1>5, <1>11, <2>1, ResumedShape
  <2>4. CoHands' /\ LoopAndCoroutineAgree'
    BY <1>2, <1>3, <1>11, <2>2, <2>3 DEF CoHands, LoopAndCoroutineAgree, SuspendedOn
  <2> QED
    BY <1>7, <1>8, <2>2, <2>3, <2>4, CoAccount
<1>12. CASE /\ "HUP" \notin ReadyEvents /\ ~("OUT" \in ReadyEvents /\ WaitsSend)
            /\ ~("IN" \in ReadyEvents /\ WaitsRecv)
  <2>1. rs' = rs /\ co' = co
    BY <1>12 DEF CoLoopTurn, co_handle
  <2>2. CoHands' /\ LoopAndCoroutineAgree' /\ CoShape'
    BY <1>1, <1>2, <2>1 DEF CoHands, LoopAndCoroutineAgree, CoShape, WaitsRecv, WaitsSend
  <2> QED
    BY <1>1, <1>7, <1>8, <2>1, <2>2, CoAccount
<1> QED
  BY <1>9, <1>10, <1>11, <1>12

\* After a wait or a switch the hands are as before.
LEMMA CoAfterWait ==
    ASSUME RespInv, rp' = rp, rp \in CoPrograms, rs.pc \in {"recv", "write"}, RespCommon', CoShape', rs' \in RespConns,
           rs'.len = rs.len, rs'.pos = rs.pos, NEW what \in {"recv", "send"},
           IF what = "send" THEN rs.pos < rs.len ELSE rs.pos = rs.len,
           \/ rs'.pc = "wait" /\ SuspendedOn(what)'
           \/ rs'.pc = "recv" /\ SuspendedOn("none")' /\ what = "recv",
           CoLossless'
    PROVE  RespInv'
<1>1. rs.pos <= rs.len /\ rs.len <= BufUnits
  BY CoRuns
<1>2. CoHands'
  BY <1>1 DEF CoHands, SuspendedOn
<1>3. LoopAndCoroutineAgree'
  BY DEF LoopAndCoroutineAgree, SuspendedOn
<1> QED
  BY <1>2, <1>3, CoAccount

\* await_recv fills the hands, waits, or ends the coroutine.
LEMMA CoReceives ==
    ASSUME RespInv, rp' = rp, rp \in CoPrograms, AwaitRecv
    PROVE  RespInv'
<1>1. /\ RespCommon /\ RespTypes /\ rs \in RespConns /\ rk \in RespKernels /\ CoShape /\ SuspendedOn("none")
      /\ rs.pc = "recv" /\ rproc = "up" /\ rproc' = "up" /\ BufUnits \in Nat
  BY CoRuns, CoAssumption DEF AwaitRecv
<1>2. PICK n \in Nat, p \in Nat, g \in Nat, i \in Nat, t \in Nat :
         n = rs.len /\ p = rs.pos /\ g = rk.got /\ i = rk.inq /\ t = rk.sent
  BY <1>1 DEF RespKernels, RespConns
<1>3. p = n /\ n <= BufUnits /\ (rk.err = "none" => g + (n - p) + i = t)
  BY <1>1, <1>2 DEF RespInv, CoHands, CoLossless
<1>4. PICK ret : ret = RespRecvRet(BufUnits)
  OBVIOUS
<1>5. ret \in Int /\ ret >= -2 /\ ret <= BufUnits
  BY <1>1, <1>4, RecvEffect
<1>6. /\ rk' = RkAfterRecv(ret)
      /\ IF ret > 0
         THEN rs' = [rs EXCEPT !.len = ret, !.pos = 0, !.pc = "write"] /\ UNCHANGED co
         ELSE IF ret = -2 THEN Yield(Waiting("recv"))
         ELSE Yield([co EXCEPT !.exited = TRUE])
  BY <1>4 DEF AwaitRecv
<1>7. ASSUME rs' \in RespConns
      PROVE  RespCommon' /\ (ret > 0 => Received(rk', ret)) /\ (ret <= 0 => Received(rk', 0))
  <2>1. PICK d : Received(rk', d) /\ (ret > 0 => d = ret) /\ (ret <= 0 => d = 0)
    BY <1>1, <1>4, <1>5, <1>6, RecvEffect
  <2>2. rp \notin RespPrograms \ Refs
    BY DEF RespPrograms, CoPrograms
  <2>3. RespCommon'
    BY <1>1, <1>7, <2>1, <2>2, CommonStep
  <2> QED
    BY <1>5, <2>1, <2>3
<1>8. CASE ret > 0
  <2>1. rs' = [rs EXCEPT !.len = ret, !.pos = 0, !.pc = "write"] /\ co' = co /\ ret \in Nat
    BY <1>5, <1>6, <1>8
  <2>2. rs' \in RespConns /\ rs'.len = ret /\ rs'.pos = 0 /\ rs'.pc = "write"
    BY ONLY <1>1, <2>1 DEF RespConns
  <2>3. RespCommon' /\ Received(rk', ret)
    BY <1>7, <1>8, <2>2
  <2>4. CoShape' /\ LoopAndCoroutineAgree'
    BY <1>1, <2>1, <2>2 DEF CoShape, SuspendedOn, LoopAndCoroutineAgree, WaitsRecv, WaitsSend
  <2>5. CoHands'
    BY <1>5, <1>8, <2>2 DEF CoHands
  <2>6. CoLossless'
    <3> SUFFICES ASSUME rk'.err = "none" PROVE rk'.got + (rs'.len - rs'.pos) + rk'.inq = rk'.sent
      BY DEF CoLossless
    <3>1. rk.err = "none" /\ rk'.got = g /\ rk'.inq = i - ret /\ rk'.sent = t
      BY <1>2, <2>3 DEF Received
    <3>2. g + (ret - 0) + (i - ret) = t
      BY <1>2, <1>3, <2>1, <3>1
    <3> QED
      BY <2>2, <3>1, <3>2
  <2> QED
    BY <2>2, <2>3, <2>4, <2>5, <2>6, CoAccount
<1>9. ASSUME Received(rk', 0), rs'.len = rs.len, rs'.pos = rs.pos
      PROVE  CoLossless'
  <2>1. rk'.got = g /\ rk'.inq = i /\ rk'.sent = t /\ (rk'.err = "none" => rk.err = "none")
    BY <1>2, <1>9 DEF Received
  <2> QED
    BY <1>2, <1>3, <1>9, <2>1 DEF CoLossless
<1>10. CASE ret = -2
  <2>1. Yield(Waiting("recv")) /\ ~(ret > 0)
    BY <1>6, <1>10
  <2>2. /\ CoShape' /\ rs' \in RespConns /\ rs'.len = rs.len /\ rs'.pos = rs.pos
        /\ \/ rs'.pc = "wait" /\ SuspendedOn("recv")'
           \/ rs'.pc = "recv" /\ SuspendedOn("none")'
    BY <1>1, <2>1, YieldWaits
  <2>3. RespCommon' /\ CoLossless'
    BY <1>7, <1>9, <1>10, <2>2
  <2> QED
    BY <1>1, <1>2, <1>3, <2>2, <2>3, CoAfterWait
<1>11. CASE ret \in {0, -1}
  <2>1. Yield([co EXCEPT !.exited = TRUE]) /\ ret <= 0
    BY <1>6, <1>11
  <2>2. /\ CoShape' /\ rs' \in RespConns /\ rs'.len = rs.len /\ rs'.pos = rs.pos
        /\ rs'.pc \in {"wait", "closed"} /\ LoopAndCoroutineAgree' /\ ~WaitsSend'
    BY <1>1, <2>1, YieldExits
  <2>3. RespCommon' /\ CoLossless'
    BY <1>7, <1>9, <2>1, <2>2
  <2>4. rs'.pos = rs'.len /\ rs'.len <= BufUnits /\ rs'.pos <= rs'.len
    <3>1. rs'.pos = n /\ rs'.len = n
      BY <1>2, <1>3, <2>2
    <3> QED
      BY ONLY <1>3, <3>1, n \in Nat
  <2>5. CoHands'
    BY <2>2, <2>4 DEF CoHands
  <2> QED
    BY <2>2, <2>3, <2>5, CoAccount
<1> QED
  BY <1>5, <1>8, <1>10, <1>11

\* await_send empties them, waits for the rest, or dies.
LEMMA CoSends ==
    ASSUME RespInv, rp' = rp, rp \in CoPrograms, AwaitSend
    PROVE  RespInv'
<1>1. /\ RespCommon /\ RespTypes /\ rs \in RespConns /\ rk \in RespKernels /\ CoShape /\ SuspendedOn("none")
      /\ rs.pc = "write" /\ rproc = "up"
  BY CoRuns DEF AwaitSend
<1>2. PICK n \in Nat, p \in Nat, g \in Nat, i \in Nat, t \in Nat :
         n = rs.len /\ p = rs.pos /\ g = rk.got /\ i = rk.inq /\ t = rk.sent
  BY <1>1 DEF RespKernels, RespConns
<1>3. p < n /\ n <= BufUnits /\ (rk.err = "none" => g + (n - p) + i = t) /\ BufUnits \in Nat
  BY <1>1, <1>2, CoAssumption DEF RespInv, CoHands, CoLossless
<1>4. CASE RespSendKills
  <2>1. rproc' = "sigpipe" /\ UNCHANGED <<rk, rs, co>>
    BY <1>4 DEF AwaitSend
  <2>2. RespCommon'
    BY <1>1, <1>4, <2>1, CommonKilled
  <2> QED
    BY <2>1, <2>2 DEF RespInv, SimpleResponse, RefEtAnswers, RefLtAnswers, RespAnswers, RespInterest,
       CoHands, CoWaits, LoopAndCoroutineAgree, CoLossless, CoPrograms, Responding, WaitsRecv, WaitsSend,
       Answered, Requested, UnderWay, Busy
<1>5. CASE ~RespSendKills
  <2>1. PICK m \in Nat : m = rs.len - rs.pos /\ m > 0 /\ m = n - p
    BY <1>2, <1>3
  <2>2. PICK ret : ret = RespSendRet(m)
    OBVIOUS
  <2>3. /\ ret \in Int /\ (ret = -1 \/ ret = -2 \/ ret > 0) /\ ret <= m
        /\ ret = -1 <=> rk.err # "none"
    BY <1>1, <2>1, <2>2, SendEffect
  <2>4. /\ rproc' = "up" /\ rk' = RkAfterSend(ret)
        /\ IF ret = -2 THEN Yield(Waiting("send"))
           ELSE /\ rs' = IF rs.pos + ret = rs.len
                         THEN [rs EXCEPT !.pos = 0, !.len = 0, !.pc = "recv"]
                         ELSE [rs EXCEPT !.pos = @ + Max({ret, 0})]
                /\ UNCHANGED co
    BY <1>1, <1>5, <2>1, <2>2 DEF AwaitSend
  <2>5. ASSUME rs' \in RespConns
        PROVE  RespCommon' /\ (ret > 0 => Transmitted(rk', ret)) /\ (ret <= 0 => Transmitted(rk', 0))
    <3>1. rp \notin RespPrograms
      BY DEF RespPrograms, CoPrograms
    <3> QED
      BY <1>1, <2>1, <2>2, <2>4, <2>5, <3>1, CommonSend
  <2>6. CASE ret = -2
    <3>1. /\ CoShape' /\ rs' \in RespConns /\ rs'.len = rs.len /\ rs'.pos = rs.pos
          /\ rs'.pc = "wait" /\ SuspendedOn("send")'
      BY <1>1, <2>4, <2>6, YieldWaits
    <3>2. RespCommon' /\ Transmitted(rk', 0)
      BY <2>5, <2>6, <3>1
    <3>3. CoLossless'
      <4>1. rk'.got = g /\ rk'.inq = i /\ rk'.sent = t /\ (rk'.err = "none" => rk.err = "none")
        BY <1>2, <3>2 DEF Transmitted
      <4> QED
        BY <1>2, <1>3, <3>1, <4>1 DEF CoLossless
    <3> QED
      BY <1>1, <1>2, <1>3, <3>1, <3>2, <3>3, CoAfterWait
  <2>7. CASE ret > 0
    <3>1. PICK d \in Nat : d = ret /\ d = Max({ret, 0}) /\ d > 0 /\ d <= m /\ p + d \in Nat
      BY <2>3, <2>7, MaxWithZero
    <3>2. co' = co /\ ret # -2
      BY <2>4, <2>7
    <3>3. /\ rs' \in RespConns /\ rs'.pc \in {"recv", "write"} /\ rs'.len \in Nat /\ rs'.pos \in Nat
          /\ rs'.pc = "recv" => rs'.pos = 0 /\ rs'.len = 0 /\ p + d = n
          /\ rs'.pc = "write" => rs'.len = n /\ rs'.pos = p + d /\ p + d # n
      <4>1. CASE p + d = n
        <5>1. rs' = [rs EXCEPT !.pos = 0, !.len = 0, !.pc = "recv"]
          BY <1>2, <2>4, <3>1, <3>2, <4>1
        <5> QED
          BY ONLY <1>1, <4>1, <5>1 DEF RespConns
      <4>2. CASE p + d # n
        <5>1. rs' = [rs EXCEPT !.pos = p + d]
          BY <1>2, <2>4, <3>1, <3>2, <4>2
        <5> QED
          BY ONLY <1>1, <1>2, <3>1, <4>2, <5>1 DEF RespConns
      <4> QED
        BY <4>1, <4>2
    <3>4. RespCommon' /\ Transmitted(rk', d)
      BY <2>5, <2>7, <3>1, <3>3
    <3>5. CoShape' /\ LoopAndCoroutineAgree'
      BY <1>1, <3>2, <3>3 DEF CoShape, SuspendedOn, LoopAndCoroutineAgree, WaitsRecv, WaitsSend
    <3>6. CoHands'
      <4>1. CASE rs'.pc = "recv"
        BY <1>3, <3>3, <4>1 DEF CoHands
      <4>2. CASE rs'.pc = "write"
        <5>1. p + d < n
          BY <1>2, <2>1, <3>1, <3>3, <4>2
        <5> QED
          BY <1>3, <3>1, <3>3, <4>2, <5>1 DEF CoHands
      <4> QED
        BY <3>3, <4>1, <4>2
    <3>7. CoLossless'
      <4> SUFFICES ASSUME rk'.err = "none" PROVE rk'.got + (rs'.len - rs'.pos) + rk'.inq = rk'.sent
        BY DEF CoLossless
      <4>1. rk.err = "none" /\ rk'.got = g + d /\ rk'.inq = i /\ rk'.sent = t
        BY <1>2, <3>1, <3>4 DEF Transmitted
      <4>2. rs'.len - rs'.pos = n - (p + d)
        BY <3>1, <3>3
      <4>3. (g + d) + (n - (p + d)) + i = t
        BY <1>3, <3>1, <4>1
      <4> QED
        BY <4>1, <4>2, <4>3
    <3> QED
      BY <3>3, <3>4, <3>5, <3>6, <3>7, CoAccount
  <2>8. CASE ret = -1
    <3>1. rs.pos + ret # rs.len /\ Max({ret, 0}) = 0 /\ ret # -2 /\ rs.pos + 0 = rs.pos
      BY <1>2, <1>3, <2>8, MaxWithZero
    <3>2. rs' = [rs EXCEPT !.pos = rs.pos] /\ co' = co
      BY <2>4, <3>1
    <3>3. rs' = rs
      BY ONLY <1>1, <3>2 DEF RespConns
    <3>4. RespCommon' /\ Transmitted(rk', 0)
      BY <1>1, <2>5, <2>8, <3>3
    <3>5. CoShape' /\ LoopAndCoroutineAgree' /\ CoHands'
      BY <1>1, <3>2, <3>3 DEF RespInv, CoShape, LoopAndCoroutineAgree, WaitsRecv, WaitsSend, CoHands
    <3>6. rk'.err # "none"
      BY <2>3, <2>8, <3>4 DEF Transmitted
    <3> QED
      BY <1>1, <3>3, <3>4, <3>5, <3>6, CoAccount DEF CoLossless
  <2> QED
    BY <2>3, <2>6, <2>7, <2>8
<1> QED
  BY <1>4, <1>5

\* Every step of a coroutine server.
LEMMA CoKeeps ==
    ASSUME RespInv, rp' = rp, CoServer
    PROVE  RespInv'
<1>1. rp \in CoPrograms /\ (Started \/ CoLoopTurn \/ AwaitRecv \/ AwaitSend)
  BY DEF CoServer, CoPrograms, co_Acceptor_handle, co1_Acceptor_handle, co_EventLoop_run, co1_EventLoop_run,
         co_await_recv, co_await_send, co1_await_recv, co1_await_send
<1> QED
  BY <1>1, CoStarts, CoTurns, CoReceives, CoSends

-----------------------------------------------------------------------------
(* The invariant, and what follows from it *)

\* At the start nothing was sent, and the hands and the ring are empty.
LEMMA RespInitInv == MCInit => RespInv
<1> SUFFICES ASSUME MCInit PROVE RespInv
  OBVIOUS
<1>1. RespInit /\ CoInit
  BY DEF MCInit
<1>2. PICK pos \in {0, RespLen} :
         /\ rs = NoConnection(pos) /\ rp \in RespPrograms \cup CoPrograms
         /\ rp \in Responding => pos = RespLen
         /\ rp \notin Responding => pos = 0
  BY <1>1 DEF RespInit, simple_main, ref_et_main, ref_lt_main, resp_lt_main, resp_et_main, CoMain,
              RespPrograms, CoPrograms, Responding
<1>3. pos \in Nat /\ pos <= RespLen /\ RespLen \in Nat \ {0} /\ ReqLen \in Nat /\ MaxPkt \in Nat \ {0} /\ BufUnits \in Nat
  BY <1>2, ResponseAssumption, CoAssumption
<1>4. /\ rs \in RespConns /\ rs.pc = "none" /\ rs.ev = {} /\ rs.f = 0 /\ rs.len = 0 /\ rs.cnt = 0
      /\ rs.pos = pos /\ rs.out = FALSE
  BY ONLY <1>2, <1>3 DEF NoConnection, RespConns
<1>5. /\ rk \in RespKernels /\ rk.peer = "idle" /\ rk.sent = 0 /\ rk.inq = 0 /\ rk.err = "none" /\ rk.got = 0
  BY <1>1, ResponseAssumption DEF RespInit, RespKernels
<1>6. rproc = "up"
  BY <1>1 DEF RespInit
<1>7. RespCommon
  BY <1>2, <1>4, <1>5, <1>6 DEF RespCommon, RespTypes, ShutSeen, RespDeathCauses
<1>8. SimpleResponse
  BY <1>2, <1>3, <1>4, <1>5 DEF SimpleResponse, Responding
<1>9. 0 * RespLen = 0 /\ 0 * ReqLen = 0
  BY <1>3
<1>10. rp \in Refs => Answered(0)
  BY <1>2, <1>3, <1>4, <1>5, <1>9 DEF Answered, Refs, Responding
<1>11. RefEtAnswers
  BY <1>2, <1>4, <1>5, <1>10 DEF RefEtAnswers, Refs, Responding
<1>12. RefLtAnswers
  <2> SUFFICES ASSUME rp = "ref_lt" PROVE RefLtAnswers
    BY DEF RefLtAnswers
  <2>1. pos = 0
    BY <1>2 DEF Responding
  <2>2. ~UnderWay
    BY <1>4, <2>1 DEF UnderWay
  <2>3. (0 + (IF UnderWay THEN 1 ELSE 0)) * ReqLen <= rk.sent - rk.inq
    BY <1>5, <1>9, <2>2
  <2> QED
    BY <1>4, <1>10, <2>1, <2>3 DEF RefLtAnswers, Refs
<1>13. RespAnswers
  <2> SUFFICES ASSUME rp \in Responding PROVE RespAnswers
    BY DEF RespAnswers
  <2>1. pos = RespLen
    BY <1>2
  <2>2. Requested(0)
    BY <1>3, <1>4, <1>5, <1>9, <2>1 DEF Requested
  <2> QED
    BY <1>3, <1>4, <2>1, <2>2 DEF RespAnswers
<1>14. RespInterest
  BY <1>2, <1>4 DEF RespInterest, Busy, Responding
<1>15. CoHands
  BY <1>2, <1>3, <1>4 DEF CoHands, Responding, CoPrograms
<1>16. CoWaits /\ LoopAndCoroutineAgree
  BY <1>1, <1>4 DEF CoInit, CoWaits, CoStates, LoopAndCoroutineAgree, WaitsRecv, WaitsSend, CoPrograms
<1>17. CoLossless
  BY <1>2, <1>4, <1>5 DEF CoLossless, Responding, CoPrograms
<1> QED
  BY <1>7, <1>8, <1>11, <1>12, <1>13, <1>14, <1>15, <1>16, <1>17 DEF RespInv

\* The steps of the servers, of their clients, and of the client programs.
LEMMA RespNextInv == RespInv /\ [MCNext]_mcVars => RespInv'
<1> SUFFICES ASSUME RespInv, [MCNext]_mcVars PROVE RespInv'
  OBVIOUS
<1>1. ASSUME UNCHANGED coVars
      PROVE  RespInv'
  <2>1. rp' = rp /\ rk' = rk /\ rs' = rs /\ rproc' = rproc /\ co' = co
    BY <1>1 DEF coVars, respVars
  <2> QED
    BY <2>1 DEF RespInv, RespCommon, RespTypes, ShutSeen, RespDeathCauses, SimpleResponse, RefEtAnswers, RefLtAnswers,
       RespAnswers, RespInterest, CoHands, CoWaits, LoopAndCoroutineAgree, CoLossless, WaitsRecv, WaitsSend,
       Answered, Requested, UnderWay, Busy
<1>2. ASSUME RespNext, UNCHANGED co
      PROVE  RespInv'
  <2>1. rp' = rp /\ co' = co
    BY <1>2 DEF RespNext
  <2>2. CASE RespClient
    BY <2>1, <2>2, ClientsKeep
  <2>3. CASE RespServer
    <3>1. rp \in {"simple", "ref_et", "ref_lt"} \cup Responding
      BY <2>3 DEF RespServer, Responding, simple_loop, ref_et_loop_once, ref_lt_loop_once, simple_handle_accept,
         simple_send_buf, simple_handle_recv, ref_handleAccept, ref_et_sendRes, ref_lt_sendRes,
         ref_et_handleRead, ref_lt_handleRead, resp_lt_send_response, resp_et_send_response,
         resp_lt_run, resp_et_run, resp_Acceptor_handle, recv_buf_native, resp_et_recv_buf
    <3>2. CASE rp = "simple"
      <4>1. simple_loop \/ simple_handle_accept \/ simple_send_buf \/ simple_handle_recv
        BY <2>3, <3>2 DEF RespServer, ref_et_loop_once, ref_lt_loop_once, ref_handleAccept, ref_et_sendRes, ref_lt_sendRes,
           ref_et_handleRead, ref_lt_handleRead, resp_lt_send_response, resp_et_send_response,
           resp_lt_run, resp_et_run, resp_Acceptor_handle, recv_buf_native, resp_et_recv_buf
      <4> QED
        BY <2>1, <3>2, <4>1, SimpleKeeps
    <3>3. CASE rp = "ref_et"
      <4>1. ref_handleAccept \/ ref_et_loop_once \/ ref_et_sendRes \/ ref_et_handleRead
        BY <2>3, <3>3 DEF RespServer, simple_loop, ref_lt_loop_once, simple_handle_accept,
           simple_send_buf, simple_handle_recv, ref_lt_sendRes,
           ref_lt_handleRead, resp_lt_send_response, resp_et_send_response,
           resp_lt_run, resp_et_run, resp_Acceptor_handle, recv_buf_native, resp_et_recv_buf
      <4> QED
        BY <2>1, <3>3, <4>1, RefEtKeeps
    <3>4. CASE rp = "ref_lt"
      <4>1. ref_handleAccept \/ ref_lt_loop_once \/ ref_lt_sendRes \/ ref_lt_handleRead
        BY <2>3, <3>4 DEF RespServer, simple_loop, ref_et_loop_once, simple_handle_accept,
           simple_send_buf, simple_handle_recv, ref_et_sendRes,
           ref_et_handleRead, resp_lt_send_response, resp_et_send_response,
           resp_lt_run, resp_et_run, resp_Acceptor_handle, recv_buf_native, resp_et_recv_buf
      <4> QED
        BY <2>1, <3>4, <4>1, RefLtKeeps
    <3>5. CASE rp \in Responding
      BY <2>1, <2>3, <3>5, AskKeeps
    <3> QED
      BY <3>1, <3>2, <3>3, <3>4, <3>5
  <2> QED
    BY <1>2, <2>2, <2>3 DEF RespNext
<1>3. ASSUME CoServer, rp' = rp
      PROVE  RespInv'
  BY <1>3, CoKeeps
<1> QED
  BY <1>1, <1>2, <1>3 DEF MCNext, mcVars

\* So many times a number fit below another one.
LEMMA FitsBelow ==
    ASSUME NEW k \in Nat, NEW l \in Nat \ {0}, NEW s \in Nat, k * l <= s
    PROVE  k <= s \div l /\ s \div l \in Nat
<1>1. PICK q \in Nat, r \in Nat : q = s \div l /\ r < l /\ s = q * l + r
  BY WholeAndRest
<1>2. ~(q + 1 <= k)
  <2> SUFFICES ASSUME q + 1 <= k PROVE FALSE
    OBVIOUS
  <2>1. (q + 1) * l <= k * l /\ (q + 1) * l \in Nat /\ k * l \in Nat /\ (q + 1) * l = q * l + l /\ q * l \in Nat
    BY MoreTimes, OneMore
  <2> QED
    BY <1>1, <2>1
<1> QED
  BY <1>1, <1>2

\* What was sent covers what was answered.
LEMMA NoneExtra == RespInv => NoExtraResponses
<1> SUFFICES ASSUME RespInv PROVE NoExtraResponses
  OBVIOUS
<1>1. RespTypes /\ rk \in RespKernels /\ rs \in RespConns
  BY DEF RespInv, RespCommon, RespTypes
<1>2. PICK z \in Nat, l \in Nat \ {0}, t \in Nat, i \in Nat, g \in Nat, p \in Nat, n \in Nat, c \in Nat :
         /\ z = RespLen /\ l = ReqLen /\ t = rk.sent /\ i = rk.inq /\ g = rk.got /\ p = rs.pos /\ n = rs.len
         /\ c = rs.cnt /\ i <= t
  <2>1. PICK t \in Nat, i \in Nat, g \in Nat : t = rk.sent /\ i = rk.inq /\ g = rk.got /\ i <= t
    BY <1>1 DEF RespTypes, RespKernels
  <2>2. PICK p \in Nat, n \in Nat, c \in Nat : p = rs.pos /\ n = rs.len /\ c = rs.cnt
    BY <1>1 DEF RespConns
  <2>3. PICK z \in Nat, l \in Nat \ {0} : z = RespLen /\ l = ReqLen
    BY ResponseAssumption
  <2> QED
    BY <2>1, <2>2, <2>3
<1>3. CASE rp = "simple"
  BY <1>3 DEF RespInv, SimpleResponse, NoExtraResponses, CoPrograms
<1>4. ASSUME NEW r \in Nat, NEW w \in Nat, g = r * z + p, p <= z, p > 0 => w = r + 1, p = 0 => w >= r
      PROVE  g <= w * z
  <2>1. r * z \in Nat /\ (r + 1) * z = r * z + z
    BY OneMore
  <2>2. CASE p = 0
    BY <1>4, <2>1, <2>2, MoreTimes
  <2>3. CASE p > 0
    BY <1>4, <2>1, <2>3
  <2> QED
    BY <2>2, <2>3
<1>5. CASE rp = "ref_et"
  <2>1. PICK r \in Nat : Answered(r) /\ r + (IF n > 0 THEN 1 ELSE 0) <= t - i /\ (p > 0 => n > 0)
    BY <1>2, <1>5 DEF RespInv, RefEtAnswers
  <2>2. g = r * z + p /\ p <= z
    BY <1>2, <2>1 DEF Answered
  <2>3. PICK w \in Nat : w = r + (IF p > 0 THEN 1 ELSE 0) /\ w <= t
    BY <1>2, <2>1
  <2>4. g <= w * z
    BY <1>4, <2>2, <2>3
  <2>5. w * z <= t * z /\ t * z = z * t /\ w * z \in Nat /\ t * z \in Nat
    BY <2>3, MoreTimes
  <2>6. g <= z * t
    BY <2>4, <2>5
  <2> QED
    BY <1>2, <1>5, <2>6 DEF NoExtraResponses, CoPrograms
<1>6. ASSUME NEW w \in Nat, w * l <= t, g <= w * z
      PROVE  rk.got <= RespLen * (rk.sent \div ReqLen)
  <2>1. PICK s \in Nat : s = t \div l /\ w <= s
    BY <1>6, FitsBelow
  <2>2. w * z <= s * z /\ s * z = z * s /\ w * z \in Nat /\ s * z \in Nat
    BY <2>1, MoreTimes
  <2> QED
    BY <1>2, <1>6, <2>1, <2>2
<1>7. CASE rp = "ref_lt"
  <2>1. PICK r \in Nat : Answered(r) /\ (r + (IF UnderWay THEN 1 ELSE 0)) * l <= t - i
    BY <1>2, <1>7 DEF RespInv, RefLtAnswers
  <2>2. g = r * z + p /\ p <= z /\ (p > 0 => UnderWay)
    BY <1>2, <2>1 DEF Answered, UnderWay
  <2>3. PICK w \in Nat : w = r + (IF UnderWay THEN 1 ELSE 0)
    OBVIOUS
  <2>4. g <= w * z
    BY <1>4, <2>2, <2>3
  <2>5. w * l <= t
    <3>1. w * l \in Nat
      BY OneMore
    <3> QED
      BY <1>2, <2>1, <2>3, <3>1
  <2> QED
    BY <1>6, <1>7, <2>4, <2>5 DEF NoExtraResponses, CoPrograms
<1>8. CASE rp \in Responding
  <2>1. PICK q : Requested(q) /\ p <= z
    BY <1>2, <1>8 DEF RespInv, RespAnswers
  <2>2. q \in Nat /\ t - i = q * l + n /\ g + c * z + (z - p) = q * z
    BY <1>2, <2>1 DEF Requested
  <2>3. q * l \in Nat /\ c * z \in Nat /\ q * z \in Nat
    BY <2>2, OneMore
  <2>4. q * l <= t /\ g <= q * z
    BY <1>2, <2>1, <2>2, <2>3
  <2> QED
    BY <1>6, <1>8, <2>2, <2>4 DEF NoExtraResponses, CoPrograms, Responding
<1>9. CASE rp \in CoPrograms
  BY <1>9 DEF NoExtraResponses
<1> QED
  BY <1>1, <1>3, <1>5, <1>7, <1>8, <1>9 DEF RespTypes, RespPrograms, Responding

\* The types, the counts and the bytes.
LEMMA RespInvAnswers == RespInv => AnswersExact
<1> SUFFICES ASSUME RespInv PROVE AnswersExact
  OBVIOUS
<1>1. RespTypes /\ rk \in RespKernels /\ rs \in RespConns
  BY DEF RespInv, RespCommon, RespTypes
<1>2. rk.inq \in 0 .. MaxSent
  BY <1>1, ResponseAssumption DEF RespTypes, RespKernels
<1>3. rp \in RespPrograms => rs.pos <= RespLen
  BY DEF RespInv, RespPrograms, Responding, SimpleResponse, RefEtAnswers, RefLtAnswers, RespAnswers, Answered
<1>4. rs.pos \in Nat /\ rs.len \in Nat /\ rs.f \in Nat
  BY <1>1 DEF RespConns
<1>5. rp \in {"resp_lt", "resp_et"} => rs.len <= MaxPkt - 1 /\ rs.f <= MaxPkt - 1
  BY DEF RespInv, RespAnswers, Responding
<1>6. RespTypeOK
  <2>1. rp \in RespPrograms => rs.pos \in 0 .. RespLen
    BY <1>3, <1>4, ResponseAssumption
  <2>2. rp \in {"resp_lt", "resp_et"} => rs.len \in 0 .. MaxPkt - 1 /\ rs.f \in 0 .. MaxPkt - 1
    BY <1>4, <1>5, ResponseAssumption
  <2> QED
    BY <1>1, <1>2, <2>1, <2>2 DEF RespTypeOK, RespTypes, RespKernels, RespConns
<1>7. CoTypeOK
  <2>1. co \in CoStates /\ (rp = "co1" => ~(co.rsem /\ co.ssem) /\ co.status = "running")
    BY DEF RespInv, CoWaits
  <2>2. rp \in CoPrograms => rs.len <= BufUnits /\ rs.pos <= rs.len
    BY DEF RespInv, CoHands
  <2>3. rp \in CoPrograms => rs.len \in 0 .. BufUnits /\ rs.pos \in 0 .. rs.len
    BY <1>4, <2>2, CoAssumption
  <2> QED
    BY <2>1, <2>3 DEF CoTypeOK, CoStates
<1> QED
  BY <1>6, <1>7, NoneExtra DEF AnswersExact, RespInv

\* What the loop waits for.
LEMMA RespInvInterest == RespInv => InterestExact
<1> SUFFICES ASSUME RespInv PROVE InterestExact
  OBVIOUS
<1>1. rs.out \in BOOLEAN
  BY DEF RespInv, RespCommon, RespTypes, RespConns
<1>2. rs.pc = "wait" /\ rp = "resp_lt" => (rs.out <=> Busy)
  BY DEF RespInv, RespInterest
<1>3. rs.pc = "wait" /\ rp = "resp_lt" => rs.out = (rs.cnt > 0 \/ rs.pos < RespLen)
  BY <1>1, <1>2 DEF Busy
<1>4. rs.pc = "wait" /\ rp = "ref_lt" => (rs.pos > 0 => rs.out) /\ (rs.out => rs.len > 0)
  BY DEF RespInv, RefLtAnswers
<1> QED
  BY <1>3, <1>4 DEF InterestExact, WriteInterestExact, RespInv

\* The invariant holds.
LEMMA RespInvHolds == MCSpec => []RespInv
<1> QED
  BY RespInitInv, RespNextInv, PTL DEF MCSpec

\* No response without its request and none twice, no byte lost or repeated
\* between a coroutine's recv and send: send_response, sendRes, send_buf and
\* await_send, for every length of requests, responses, buffers and windows.
THEOREM AnswersAreExact == MCSpec => []AnswersExact
<1> QED
  BY RespInvHolds, RespInvAnswers, PTL

\* While the loop waits, EPOLLOUT is asked for exactly if a response is
\* unfinished, and a coroutine is suspended on one event (epoll_ctl in
\* send_response and sendRes; Connection::handle of the ucontext servers).
THEOREM InterestIsExact == MCSpec => []InterestExact
<1> QED
  BY RespInvHolds, RespInvInterest, PTL

\* What can end one of these servers: SIGPIPE after a FIN and a reset; exit_if of
\* the ref servers, for a client that has reset in the accept queue or for want of
\* a descriptor (handleAccept); the acceptor that the loop deletes on main's stack.
THEOREM ResponseDeathHasItsCause == MCSpec => []RespDeathCauses
<1>1. RespInv => RespDeathCauses
  BY DEF RespInv, RespCommon
<1> QED
  BY <1>1, RespInvHolds, PTL

=============================================================================
