----------------------------- MODULE EchoBuffer -----------------------------
(***************************************************************************)
(* The RingBuffer member of a Connection between the socket's two queues:  *)
(* the state of the buffer, the two ways bytes pass through it, and what   *)
(* must be true of it in every server that has one.                        *)
(***************************************************************************)
EXTENDS EchoSocket

VARIABLES f, p, mem

bufVars == <<f, p, mem>>

BufTypeOK ==
    /\ f \in uint64_t
    /\ p \in uint64_t
    /\ mem \in [Cells -> Nat]

\* The array is not initialised by `new char[]': 0 is no byte of the stream.
BufInit == f = 0 /\ p = 0 /\ mem = [c \in Cells |-> 0]

BlankSize == get_blank_size(f, p)
ExistSize == get_exist_size(f, p)

\* recvmsg stored n bytes through iov; add_exist(n).
Store(iov, n) ==
    /\ mem' = scatter(mem, iov, n, taken + 1)
    /\ p' = add_exist(p, n)
    /\ taken' = taken + n
    /\ UNCHANGED <<f, arrived, out, acked, fin, rst>>

\* sendmsg took n bytes through iov; add_blank(n).
Drain(iov, n) ==
    /\ out' = out \o gather(mem, iov, n)
    /\ f' = add_blank(f, n)
    /\ UNCHANGED <<p, mem, arrived, taken, acked, fin, rst>>

-----------------------------------------------------------------------------
(***************************************************************************)
(* The echoed stream is the client's stream: the k-th byte sent back is    *)
(* the k-th byte received, across every wrap of the ring and of the        *)
(* counters, whatever the sizes of the partial reads and writes.           *)
(***************************************************************************)
StreamIntegrity == \A k \in 1 .. Len(out) : out[k] = k

(***************************************************************************)
(* Why: the counters are the stream positions modulo 2^64, what was        *)
(* received and not sent fits the ring with one cell to spare, and each of *)
(* those bytes is in its cell.                                             *)
(***************************************************************************)
Counters ==
    /\ Len(out) <= taken
    /\ taken - Len(out) < max_pkt_size
    /\ f = Len(out) % U64
    /\ p = taken % U64

Contents ==
    \A k \in Len(out) + 1 .. taken : mem[(k - 1) % max_pkt_size] = k

RingInv == Counters /\ Contents /\ StreamIntegrity

\* The bytes in the ring, oldest first.
Held == [i \in 1 .. ExistSize |-> mem[(f + i - 1) % max_pkt_size]]
=============================================================================
