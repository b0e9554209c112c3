----------------------------- MODULE RingBuffer -----------------------------
(***************************************************************************)
(* class RingBuffer, the echo buffer of every buffered server under        *)
(* network/socket_epoll: a char array of max_pkt_size cells and two        *)
(* uint64_t counters that are only ever incremented, f (first byte not     *)
(* sent yet) and p (first free position).  A cell index is a counter       *)
(* modulo max_pkt_size; one cell always stays blank.                       *)
(*                                                                         *)
(* The class hands its cells to recvmsg / sendmsg as one or two iovec      *)
(* segments.  A segment is a record [base, len]; an iovec array is a       *)
(* sequence of one or two segments.                                        *)
(***************************************************************************)
EXTENDS Integers, Sequences

CONSTANTS
    max_pkt_size,   \* cells of the array (4096, or 64 in some servers)
    U64,            \* the modulus of uint64_t
    U32             \* the modulus of the 32-bit int the sizes are returned in

ASSUME RingAssumption ==
    /\ max_pkt_size \in Nat /\ max_pkt_size > 1
    /\ U32 \in Nat /\ U32 >= 2 * max_pkt_size
    /\ U64 \in Nat /\ U64 >= U32
    /\ U32 % 2 = 0
    /\ U64 % U32 = 0            \* both are powers of two, and so is
    /\ U64 % max_pkt_size = 0   \* max_pkt_size

Cells    == 0 .. max_pkt_size - 1
uint64_t == 0 .. U64 - 1

-----------------------------------------------------------------------------
(***************************************************************************)
(* The int that a uint64_t expression becomes when a function returns it.  *)
(***************************************************************************)
ToInt(x) == LET y == x % U32 IN IF y >= U32 \div 2 THEN y - U32 ELSE y

get_blank_size(f, p) == ToInt((max_pkt_size - 1 - (p - f)) % U64)
get_exist_size(f, p) == ToInt((p - f) % U64)

add_blank(f, v) == (f + v) % U64
add_exist(p, v) == (p + v) % U64

Seg(b, l) == [base |-> b, len |-> l]

\* Mutant: the two segments of a wrapped ring in the wrong order.
get_exist_iovec_Swapped(f, p) ==
    LET mf == f % max_pkt_size
        mp == p % max_pkt_size
    IN  IF mf <= mp THEN << Seg(mf, mp - mf) >>
        ELSE IF mp = 0 THEN << Seg(mf, max_pkt_size - mf) >>
        ELSE << Seg(0, mp), Seg(mf, max_pkt_size - mf) >>

\* Mutant: the second segment of a wrapped ring left out.
get_exist_iovec_FirstOnly(f, p) ==
    LET mf == f % max_pkt_size
        mp == p % max_pkt_size
    IN  IF mf <= mp THEN << Seg(mf, mp - mf) >>
        ELSE << Seg(mf, max_pkt_size - mf) >>

get_blank_iovec(f, p) ==
    LET mf == f % max_pkt_size
        mp == p % max_pkt_size
    IN  IF mp < mf THEN << Seg(mp, mf - mp - 1) >>
        ELSE IF mf = 0 THEN << Seg(mp, max_pkt_size - mp - 1) >>
        ELSE IF mf = 1 THEN << Seg(mp, max_pkt_size - mp) >>
        ELSE << Seg(mp, max_pkt_size - mp), Seg(0, mf - 1) >>

get_exist_iovec(f, p) ==
    LET mf == f % max_pkt_size
        mp == p % max_pkt_size
    IN  IF mf <= mp THEN << Seg(mf, mp - mf) >>
        ELSE IF mp = 0 THEN << Seg(mf, max_pkt_size - mf) >>
        ELSE << Seg(mf, max_pkt_size - mf), Seg(0, mp) >>

-----------------------------------------------------------------------------
(***************************************************************************)
(* How the kernel walks an iovec array: the cell of the i-th byte (from 0) *)
(* and the number of bytes it describes.                                   *)
(***************************************************************************)
iov_total(iov) ==
    IF Len(iov) = 1 THEN iov[1].len ELSE iov[1].len + iov[2].len

iov_cell(iov, i) ==
    IF i < iov[1].len THEN iov[1].base + i
                      ELSE iov[2].base + (i - iov[1].len)

(***************************************************************************)
(* The array after the kernel stored n bytes of a stream through iov, the  *)
(* first of them being number k of the stream.  A byte is represented by   *)
(* its number in the stream, so that a lost, repeated or reordered byte    *)
(* can be told from the right one.                                         *)
(***************************************************************************)
scatter(mem, iov, n, k) ==
    [c \in Cells |-> IF \E i \in 0 .. n - 1 : iov_cell(iov, i) = c
                     THEN k + (CHOOSE i \in 0 .. n - 1 : iov_cell(iov, i) = c)
                     ELSE mem[c]]

\* The n bytes the kernel collects through iov.
gather(mem, iov, n) == [i \in 1 .. n |-> mem[iov_cell(iov, i - 1)]]

-----------------------------------------------------------------------------
(***************************************************************************)
(* What the two iovec functions must deliver to a caller that trusts       *)
(* get_blank_size and get_exist_size, for counters at most a full ring     *)
(* apart: as many cells as the size says, in ring order from the right     *)
(* end, across the end of the array.                                       *)
(***************************************************************************)
BlankCovers(f, p) ==
    LET iov == get_blank_iovec(f, p)
    IN  /\ iov_total(iov) = get_blank_size(f, p)
        /\ \A i \in 0 .. get_blank_size(f, p) - 1 :
               iov_cell(iov, i) = (p + i) % max_pkt_size

ExistCovers(f, p) ==
    LET iov == get_exist_iovec(f, p)
    IN  /\ iov_total(iov) = get_exist_size(f, p)
        /\ \A i \in 0 .. get_exist_size(f, p) - 1 :
               iov_cell(iov, i) = (f + i) % max_pkt_size
=============================================================================
