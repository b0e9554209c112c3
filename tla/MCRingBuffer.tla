---------------------------- MODULE MCRingBuffer ----------------------------
(***************************************************************************)
(* RingBuffer alone: every pair of counters that a sequence of add_exist   *)
(* and add_blank within the advertised sizes can reach.                    *)
(***************************************************************************)
EXTENDS RingBuffer

VARIABLES f, p

Init == f = 0 /\ p = 0

Fill ==
    /\ \E v \in 1 .. get_blank_size(f, p) : p' = add_exist(p, v)
    /\ UNCHANGED f

Take ==
    /\ \E v \in 1 .. get_exist_size(f, p) : f' = add_blank(f, v)
    /\ UNCHANGED p

Next == Fill \/ Take

Spec == Init /\ [][Next]_<<f, p>>

(***************************************************************************)
(* get_blank_iovec hands out exactly the blank cells, from p on, in ring   *)
(* order.  Counters wrap at 2^64 and the array at max_pkt_size on the way. *)
(***************************************************************************)
BlankIovecExact == BlankCovers(f, p)

(***************************************************************************)
(* get_exist_iovec hands out exactly the filled cells, from f on, in ring  *)
(* order, through the same wraps.                                          *)
(***************************************************************************)
ExistIovecExact == ExistCovers(f, p)

(***************************************************************************)
(* The two sizes add up to max_pkt_size - 1 and none is ever negative: the *)
(* unsigned subtraction p - f and its narrowing to int lose nothing.       *)
(***************************************************************************)
SizesPartition ==
    /\ get_blank_size(f, p) + get_exist_size(f, p) = max_pkt_size - 1
    /\ get_blank_size(f, p) >= 0
    /\ get_exist_size(f, p) >= 0

(***************************************************************************)
(* All three at once: sizes, blank iovec and exist iovec describe the same *)
(* partition of the ring at every position of the counters.                *)
(***************************************************************************)
IovecsExact == BlankIovecExact /\ ExistIovecExact /\ SizesPartition

=============================================================================
