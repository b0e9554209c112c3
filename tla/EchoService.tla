---------------------------- MODULE EchoService ----------------------------
(***************************************************************************)
(* What every buffered echo server of network/socket_epoll promises one    *)
(* client: the bytes it has sent back are exactly the first bytes that     *)
(* arrived, once each and in order, and it never holds more than Capacity  *)
(* bytes in between.  Nothing here knows of rings, iovecs or epoll.        *)
(***************************************************************************)
EXTENDS Naturals, Sequences

CONSTANT Capacity

VARIABLES
    arrived,    \* bytes that have arrived from the client (numbered from 1)
    held,       \* the bytes received and not sent back, oldest first
    out,        \* the bytes sent back, in order
    open        \* the connection exists

vars == <<arrived, held, out, open>>

Init ==
    /\ arrived = 0
    /\ held = << >>
    /\ out = << >>
    /\ open = TRUE

Received == Len(out) + Len(held)

Arrive ==
    /\ open
    /\ arrived' = arrived + 1
    /\ UNCHANGED <<held, out, open>>

\* The next n bytes of the client's stream enter the buffer.
Receive(n) ==
    /\ open
    /\ Received + n <= arrived
    /\ Len(held) + n <= Capacity
    /\ held' = held \o [i \in 1 .. n |-> Received + i]
    /\ UNCHANGED <<arrived, out, open>>

\* The n oldest bytes of the buffer are sent back.
Send(n) ==
    /\ open
    /\ n <= Len(held)
    /\ out' = out \o SubSeq(held, 1, n)
    /\ held' = SubSeq(held, n + 1, Len(held))
    /\ UNCHANGED <<arrived, open>>

\* The connection goes; what it held is lost.
Close ==
    /\ open
    /\ open' = FALSE
    /\ UNCHANGED <<arrived, held, out>>

Next ==
    \/ Arrive
    \/ \E n \in 1 .. Capacity : Receive(n) \/ Send(n)
    \/ Close

Spec == Init /\ [][Next]_vars
=============================================================================
