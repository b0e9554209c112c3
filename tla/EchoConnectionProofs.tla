------------------------ MODULE EchoConnectionProofs ------------------------
(***************************************************************************)
(* The part of the servers' proofs that does not depend on their handlers: *)
(* the two buffer operations keep RingInv, whichever of the ring's iovecs  *)
(* (or part of one) the caller passes to the kernel; and what the system   *)
(* calls return, and that the client's steps, the accept, the dispatch,    *)
(* the deletion and each use of the ring keep ConnInv and are steps of     *)
(* EchoService.                                                            *)
(***************************************************************************)
EXTENDS EchoConnection, SequenceTheorems, TLAPS

-----------------------------------------------------------------------------
(* What RingBuffer's functions return, for every ring size and every width *)
(* of the counters: first arithmetic of % that the provers do not know,    *)
(* then the class.                                                         *)

\* Quotient and remainder, as % and \div define them.
LEMMA DivMod ==
  ASSUME NEW a \in Int, NEW d \in Nat, d > 0
  PROVE  /\ a \div d \in Int /\ a % d \in 0 .. d - 1
         /\ a = d * (a \div d) + (a % d)
OBVIOUS

\* A positive multiple of d is at least d.
LEMMA MulPos == 
  ASSUME NEW d \in Nat, NEW x \in Int, x >= 1, d > 0
  PROVE d * x >= d
OBVIOUS

\* A negative multiple of d is at most -d.
LEMMA MulNeg == 
  ASSUME NEW d \in Nat, NEW x \in Int, x <= -1, d > 0
  PROVE d * x <= -d
OBVIOUS

\* The remainder is the only number of 0 .. d-1 that differs by a multiple of d.
LEMMA ModUnique ==
  ASSUME NEW d \in Nat, d > 0, NEW q \in Int, NEW r \in 0 .. d - 1
  PROVE  (d * q + r) % d = r
<1> DEFINE a == d * q + r
           x == a \div d
           y == a % d
<1>0. a \in Int OBVIOUS
<1>1. x \in Int /\ y \in 0 .. d-1 /\ a = d * x + y BY <1>0, DivMod
<1>2. d * (q - x) = y - r BY <1>1
<1>3. q - x = 0  BY <1>1, <1>2, MulPos, MulNeg
<1> QED BY <1>2, <1>3, <1>1

\* A counter reduced modulo 2^64 still has its remainder modulo the ring size.
LEMMA ModOfMod ==
  ASSUME NEW d \in Nat, d > 0, NEW m \in Nat, m > 0, m % d = 0, NEW a \in Int
  PROVE  (a % m) % d = a % d
<1> DEFINE x == a \div m
           y == a % m
           s == y \div d
           t == y % d
           u == m \div d
<1>1. x \in Int /\ y \in 0 .. m-1 /\ a = m * x + y BY DivMod
<1>2. s \in Int /\ t \in 0 .. d-1 /\ y = d * s + t BY <1>1, DivMod
<1>3. u \in Int /\ m = d * u BY DivMod
<1> HIDE DEF x, y, s, t, u
<1>4. a = d * (u * x + s) + t BY <1>1, <1>2, <1>3
<1>5. u * x + s \in Int BY <1>1, <1>2, <1>3
<1>6. a % d = t BY <1>2, <1>4, <1>5, ModUnique
<1> QED BY <1>6 DEF t, y

\* Reducing a summand first does not change the remainder of a sum.
LEMMA ModShift ==
  ASSUME NEW d \in Nat, d > 0, NEW a \in Int, NEW b \in Int
  PROVE  /\ ((a % d) + b) % d = (a + b) % d
         /\ (b - (a % d)) % d = (b - a) % d
<1> DEFINE x == a \div d
           y == a % d
           s == (y + b) \div d
           t == (y + b) % d
           v == (b - y) \div d
           w == (b - y) % d
<1>1. x \in Int /\ y \in 0 .. d-1 /\ a = d * x + y BY DivMod
<1>2. s \in Int /\ t \in 0 .. d-1 /\ y + b = d * s + t BY <1>1, DivMod
<1>3. v \in Int /\ w \in 0 .. d-1 /\ b - y = d * v + w BY <1>1, DivMod
<1> HIDE DEF x, y, s, t, v, w
<1>4. a + b = d * (x + s) + t /\ x + s \in Int BY <1>1, <1>2
<1>5. b - a = d * (v - x) + w /\ v - x \in Int BY <1>1, <1>3
<1>6. (a + b) % d = t BY <1>2, <1>4, ModUnique
<1>7. (b - a) % d = w BY <1>3, <1>5, ModUnique
<1> QED BY <1>6, <1>7 DEF t, w, y

\* A number below the modulus is its own remainder.
LEMMA ModSmall ==
  ASSUME NEW d \in Nat, d > 0, NEW r \in 0 .. d - 1
  PROVE  r % d = r
<1>1. d * 0 + r = r OBVIOUS
<1> QED BY <1>1, ModUnique

\* Moving v < d cells along the ring wraps at most once.
LEMMA ModStep ==
  ASSUME NEW d \in Nat, d > 0, NEW a \in Int, NEW v \in 0 .. d - 1
  PROVE  (a + v) % d = IF (a % d) + v < d THEN (a % d) + v ELSE (a % d) + v - d
<1>0. a % d \in 0 .. d-1 BY DivMod
<1>1. (a + v) % d = ((a % d) + v) % d
  <2>1. v \in Int OBVIOUS
  <2> QED BY <2>1, ModShift
<1>2. CASE (a % d) + v < d
  BY <1>0, <1>1, <1>2, ModSmall
<1>3. CASE (a % d) + v >= d
  <2> DEFINE r == (a % d) + v - d
  <2>1. r \in 0 .. d-1 BY <1>0, <1>3
  <2>2. (a % d) + v = d * 1 + r BY <1>0
  <2>3. ((a % d) + v) % d = r BY <2>1, <2>2, ModUnique
  <2> QED BY <2>3, <1>1, <1>3, <1>0
<1> QED BY <1>0, <1>2, <1>3

-----------------------------------------------------------------------------
\* Narrowing a size to int loses nothing.
LEMMA ToIntSmall ==
  ASSUME NEW x \in 0 .. max_pkt_size - 1
  PROVE  ToInt(x) = x
<1>1. x \in 0 .. U32 - 1 /\ U32 \in Nat /\ U32 > 0 BY RingAssumption
<1>2. x % U32 = x BY <1>1, ModSmall
<1>3. U32 \div 2 \in Int /\ x < U32 \div 2 BY RingAssumption
<1> HIDE DEF ToInt
<1>4. ~(x % U32 >= U32 \div 2) BY <1>1, <1>2, <1>3
<1> QED BY <1>2, <1>4 DEF ToInt

\* get_exist_size and get_blank_size return the true sizes, although the
\* counters have wrapped.
LEMMA Sizes ==
  ASSUME NEW ff \in uint64_t, NEW pp \in uint64_t, (pp - ff) % U64 < max_pkt_size
  PROVE  /\ get_exist_size(ff, pp) = (pp - ff) % U64
         /\ get_blank_size(ff, pp) = max_pkt_size - 1 - ((pp - ff) % U64)
         /\ (pp - ff) % U64 \in 0 .. max_pkt_size - 1
<1> DEFINE e == (pp - ff) % U64
           b == max_pkt_size - 1
<1>1. U64 \in Nat /\ U64 > 0 /\ max_pkt_size \in Nat /\ U64 >= 2 * max_pkt_size
      /\ ff \in Int /\ pp \in Int
  BY RingAssumption DEF uint64_t
<1>2. e \in 0 .. max_pkt_size - 1 BY <1>1, DivMod
<1>3. (b - (pp - ff)) % U64 = (b - e) % U64
  <2>1. b \in Int /\ pp - ff \in Int BY <1>1
  <2> QED BY <2>1, <1>1, ModShift
<1>4. (b - e) % U64 = b - e
  <2>1. b - e \in 0 .. U64 - 1 BY <1>1, <1>2
  <2> QED BY <2>1, <1>1, ModSmall
<1>5. b - e \in 0 .. max_pkt_size - 1 BY <1>1, <1>2
<1> QED BY <1>2, <1>3, <1>4, <1>5, ToIntSmall DEF get_exist_size, get_blank_size

\* Adding to a counter, within its room, changes the sizes by that much.
LEMMA SizesAfterAdd ==
  ASSUME NEW ff \in uint64_t, NEW pp \in uint64_t, (pp - ff) % U64 < max_pkt_size,
         NEW n \in Nat
  PROVE  /\ n <= get_blank_size(ff, pp) =>
               get_blank_size(ff, add_exist(pp, n)) = get_blank_size(ff, pp) - n
         /\ n <= get_exist_size(ff, pp) =>
               get_exist_size(add_blank(ff, n), pp) = get_exist_size(ff, pp) - n
<1> DEFINE e == (pp - ff) % U64
<1>1. U64 \in Nat /\ U64 > 0 /\ max_pkt_size \in Nat /\ U64 >= 2 * max_pkt_size
      /\ ff \in Int /\ pp \in Int
  BY RingAssumption DEF uint64_t
<1>2. e \in 0 .. max_pkt_size - 1 /\ get_exist_size(ff, pp) = e
      /\ get_blank_size(ff, pp) = max_pkt_size - 1 - e
  BY Sizes
<1> DEFINE Shift(a, b) == ((a % U64) + b) % U64 = (a + b) % U64
<1>s. \A a, b \in Int : Shift(a, b) BY <1>1, ModShift
<1>3. ASSUME n <= max_pkt_size - 1 - e
      PROVE  get_blank_size(ff, add_exist(pp, n)) = max_pkt_size - 1 - e - n
  <2> DEFINE q == (pp + n) % U64
  <2>1. q \in uint64_t BY <1>1, DivMod DEF uint64_t
  <2>2. (q - ff) % U64 = (pp + n - ff) % U64
    <3>0. PICK r \in Int : r = (pp + n) % U64 BY <2>1 DEF uint64_t
    <3>1. r - ff = r + (-ff) /\ pp + n \in Int /\ -ff \in Int
          /\ pp + n - ff = (pp + n) + (-ff)
      BY ONLY r \in Int, n \in Nat, <1>1
    <3>2. Shift(pp + n, -ff) BY <1>s, <3>1
    <3> QED BY <3>0, <3>1, <3>2
  <2>3. (pp + n - ff) % U64 = (e + n) % U64
    <3>1. pp - ff \in Int /\ n \in Int /\ pp + n - ff = (pp - ff) + n BY <1>1
    <3>2. Shift(pp - ff, n) BY <1>s, <3>1
    <3> QED BY <3>1, <3>2
  <2>4. (e + n) % U64 = e + n
    <3>1. e + n \in 0 .. U64 - 1 BY <1>1, <1>2, <1>3
    <3> QED BY <3>1, <1>1, ModSmall
  <2>5. (q - ff) % U64 = e + n /\ e + n < max_pkt_size
    BY <1>1, <1>2, <1>3, <2>2, <2>3, <2>4
  <2>6. get_blank_size(ff, q) = max_pkt_size - 1 - ((q - ff) % U64)
    <3>1. (q - ff) % U64 < max_pkt_size BY <2>5
    <3> HIDE DEF q
    <3> QED BY <2>1, <3>1, Sizes
  <2>7. add_exist(pp, n) = q BY DEF add_exist
  <2> HIDE DEF q, e
  <2> QED BY <1>1, <1>2, <2>5, <2>6, <2>7
<1>4. ASSUME n <= e
      PROVE  get_exist_size(add_blank(ff, n), pp) = e - n
  <2> DEFINE g == (ff + n) % U64
  <2>1. g \in uint64_t BY <1>1, DivMod DEF uint64_t
  <2>2. (pp - g) % U64 = (pp - (ff + n)) % U64
    <3>1. ff + n \in Int BY <1>1
    <3> QED BY <3>1, <1>1, ModShift
  <2>3. (pp - (ff + n)) % U64 = (e + (-n)) % U64
    <3>1. pp - ff \in Int /\ -n \in Int /\ pp - (ff + n) = (pp - ff) + (-n) BY <1>1
    <3>2. Shift(pp - ff, -n) BY <1>s, <3>1
    <3> QED BY <3>1, <3>2
  <2>4. (e + (-n)) % U64 = e - n
    <3>1. e + (-n) = e - n /\ e - n \in 0 .. U64 - 1 BY <1>1, <1>2, <1>4
    <3> QED BY <3>1, <1>1, ModSmall
  <2>5. (pp - g) % U64 = e - n /\ e - n < max_pkt_size
    BY <1>1, <1>2, <1>4, <2>2, <2>3, <2>4
  <2>6. get_exist_size(g, pp) = (pp - g) % U64
    <3>1. (pp - g) % U64 < max_pkt_size BY <2>5
    <3> HIDE DEF g
    <3> QED BY <2>1, <3>1, Sizes
  <2>7. add_blank(ff, n) = g BY DEF add_blank
  <2> HIDE DEF g, e
  <2> QED BY <2>5, <2>6, <2>7
<1> HIDE DEF e
<1> QED BY <1>2, <1>3, <1>4

\* Where the cell of p lies relative to the cell of f.
LEMMA CellOfP ==
  ASSUME NEW ff \in uint64_t, NEW pp \in uint64_t, (pp - ff) % U64 < max_pkt_size
  PROVE  LET mf == ff % max_pkt_size
             mp == pp % max_pkt_size
             e  == (pp - ff) % U64
         IN  /\ mf \in Cells /\ mp \in Cells
             /\ mp = IF mf + e < max_pkt_size THEN mf + e
                                              ELSE mf + e - max_pkt_size
<1> DEFINE e == (pp - ff) % U64
<1>1. U64 \in Nat /\ U64 > 0 /\ max_pkt_size \in Nat /\ max_pkt_size > 0
      /\ U64 % max_pkt_size = 0 /\ ff \in Int /\ pp \in Int /\ pp \in 0 .. U64 - 1
  BY RingAssumption DEF uint64_t
<1>2. e \in 0 .. max_pkt_size - 1 BY Sizes
<1>3. (ff + e) % U64 = pp
  <2>1. pp - ff \in Int /\ (pp - ff) + ff = pp /\ ff + e = e + ff BY <1>1, <1>2
  <2>2. (e + ff) % U64 = ((pp - ff) + ff) % U64 BY <2>1, <1>1, ModShift
  <2> QED BY <2>1, <2>2, <1>1, ModSmall
<1>4. pp % max_pkt_size = (ff + e) % max_pkt_size
  <2>1. ff + e \in Int BY <1>1, <1>2
  <2> QED BY <2>1, <1>1, <1>3, ModOfMod
<1>5. ff % max_pkt_size \in Cells /\ pp % max_pkt_size \in Cells
  BY <1>1, DivMod DEF Cells
<1> QED BY <1>1, <1>2, <1>4, <1>5, ModStep

(***************************************************************************)
(* get_blank_iovec describes exactly the blank cells, in ring order from   *)
(* pp, for every position of ff and pp and in each of its four cases.         *)
(***************************************************************************)
THEOREM BlankIovec ==
  ASSUME NEW ff \in uint64_t, NEW pp \in uint64_t, (pp - ff) % U64 < max_pkt_size
  PROVE  BlankCovers(ff, pp)
<1> DEFINE e  == (pp - ff) % U64
           mf == ff % max_pkt_size
           mp == pp % max_pkt_size
           n  == max_pkt_size - 1 - e
<1>1. max_pkt_size \in Nat /\ max_pkt_size > 1 /\ max_pkt_size > 0
  BY RingAssumption
<1>2. e \in 0 .. max_pkt_size - 1 /\ get_blank_size(ff, pp) = n BY Sizes
<1>3. mf \in Cells /\ mp \in Cells
      /\ mp = IF mf + e < max_pkt_size THEN mf + e ELSE mf + e - max_pkt_size
  BY CellOfP
<1>4. ASSUME NEW i \in 0 .. n - 1
      PROVE  (pp + i) % max_pkt_size
                = IF mp + i < max_pkt_size THEN mp + i ELSE mp + i - max_pkt_size
  <2>1. i \in 0 .. max_pkt_size - 1 /\ pp \in Int BY <1>1, <1>2 DEF uint64_t
  <2> QED BY <2>1, <1>1, ModStep
<1> HIDE DEF e, mf, mp
<1>5. get_blank_iovec(ff, pp)
         = IF mp < mf THEN << Seg(mp, mf - mp - 1) >>
           ELSE IF mf = 0 THEN << Seg(mp, max_pkt_size - mp - 1) >>
           ELSE IF mf = 1 THEN << Seg(mp, max_pkt_size - mp) >>
           ELSE << Seg(mp, max_pkt_size - mp), Seg(0, mf - 1) >>
  BY DEF get_blank_iovec, mf, mp
<1>6. iov_total(get_blank_iovec(ff, pp)) = n
  BY <1>1, <1>2, <1>3, <1>5 DEF iov_total, Seg, Cells
<1>7. ASSUME NEW i \in 0 .. n - 1
      PROVE  iov_cell(get_blank_iovec(ff, pp), i) = (pp + i) % max_pkt_size
  BY <1>1, <1>2, <1>3, <1>4, <1>5 DEF iov_cell, Seg, Cells
<1> QED BY <1>2, <1>6, <1>7 DEF BlankCovers

(***************************************************************************)
(* get_exist_iovec describes exactly the filled cells, in ring order from  *)
(* ff, in each of its three cases.                                          *)
(***************************************************************************)
THEOREM ExistIovec ==
  ASSUME NEW ff \in uint64_t, NEW pp \in uint64_t, (pp - ff) % U64 < max_pkt_size
  PROVE  ExistCovers(ff, pp)
<1> DEFINE e  == (pp - ff) % U64
           mf == ff % max_pkt_size
           mp == pp % max_pkt_size
<1>1. max_pkt_size \in Nat /\ max_pkt_size > 1 /\ max_pkt_size > 0
  BY RingAssumption
<1>2. e \in 0 .. max_pkt_size - 1 /\ get_exist_size(ff, pp) = e BY Sizes
<1>3. mf \in Cells /\ mp \in Cells
      /\ mp = IF mf + e < max_pkt_size THEN mf + e ELSE mf + e - max_pkt_size
  BY CellOfP
<1>4. ASSUME NEW i \in 0 .. e - 1
      PROVE  (ff + i) % max_pkt_size
                = IF mf + i < max_pkt_size THEN mf + i ELSE mf + i - max_pkt_size
  <2>1. i \in 0 .. max_pkt_size - 1 /\ ff \in Int BY <1>1, <1>2 DEF uint64_t
  <2> QED BY <2>1, <1>1, ModStep
<1> HIDE DEF e, mf, mp
<1>5. get_exist_iovec(ff, pp)
         = IF mf <= mp THEN << Seg(mf, mp - mf) >>
           ELSE IF mp = 0 THEN << Seg(mf, max_pkt_size - mf) >>
           ELSE << Seg(mf, max_pkt_size - mf), Seg(0, mp) >>
  BY DEF get_exist_iovec, mf, mp
<1>6. iov_total(get_exist_iovec(ff, pp)) = e
  BY <1>1, <1>2, <1>3, <1>5 DEF iov_total, Seg, Cells
<1>7. ASSUME NEW i \in 0 .. e - 1
      PROVE  iov_cell(get_exist_iovec(ff, pp), i) = (ff + i) % max_pkt_size
  BY <1>1, <1>2, <1>3, <1>4, <1>5 DEF iov_cell, Seg, Cells
<1> QED BY <1>2, <1>6, <1>7 DEF ExistCovers

-----------------------------------------------------------------------------
(* The buffer operations and the connection *)

\* Concatenation as a function of the index.
LEMMA ConcatAsFunction ==
  ASSUME NEW s \in Seq(Nat), NEW t \in Seq(Nat)
  PROVE  s \o t = [i \in 1 .. Len(s) + Len(t) |->
                       IF i <= Len(s) THEN s[i] ELSE t[i - Len(s)]]
<1> DEFINE u == s \o t
<1>1. u \in Seq(Nat) /\ Len(u) = Len(s) + Len(t)
      /\ \A i \in 1 .. Len(s) + Len(t) :
            u[i] = IF i <= Len(s) THEN s[i] ELSE t[i - Len(s)]
  BY ConcatProperties
<1> HIDE DEF u
<1>2. u = [i \in 1 .. Len(u) |-> u[i]] BY <1>1
<1>3. u = [i \in 1 .. Len(s) + Len(t) |->
              IF i <= Len(s) THEN s[i] ELSE t[i - Len(s)]]
  BY <1>1, <1>2
<1> QED BY <1>3 DEF u

\* Two positions less than a ring apart have different cells.
LEMMA CellsDiffer ==
  ASSUME NEW a \in Int, NEW b \in Int, a < b, b - a < max_pkt_size
  PROVE  a % max_pkt_size # b % max_pkt_size
<1> DEFINE v == b - a
<1>1. max_pkt_size \in Nat /\ max_pkt_size > 0 BY RingAssumption
<1>2. v \in 0 .. max_pkt_size - 1 /\ v > 0 /\ b = a + v BY <1>1
<1>3. a % max_pkt_size \in 0 .. max_pkt_size - 1 BY <1>1, DivMod
<1> HIDE DEF v
<1>4. b % max_pkt_size = IF (a % max_pkt_size) + v < max_pkt_size
                         THEN (a % max_pkt_size) + v
                         ELSE (a % max_pkt_size) + v - max_pkt_size
  BY <1>1, <1>2, ModStep
<1> QED BY <1>1, <1>2, <1>3, <1>4

\* The sizes the class computes are the numbers of bytes in transit.
LEMMA BufSizes ==
  ASSUME SockTypeOK, BufTypeOK, Counters
  PROVE  /\ (p - f) % U64 = taken - Len(out)
         /\ (p - f) % U64 < max_pkt_size
         /\ ExistSize = taken - Len(out)
         /\ BlankSize = max_pkt_size - 1 - (taken - Len(out))
         /\ ExistSize \in 0 .. max_pkt_size - 1
         /\ BlankSize \in 0 .. max_pkt_size - 1
<1>1. U64 \in Nat /\ U64 > 0 /\ max_pkt_size \in Nat /\ max_pkt_size > 1
      /\ U64 >= 2 * max_pkt_size
  BY RingAssumption
<1>2. taken \in Int /\ Len(out) \in Int /\ taken - Len(out) \in 0 .. max_pkt_size - 1
  BY <1>1 DEF SockTypeOK, Counters
<1>3. (p - f) % U64 = taken - Len(out)
  <2>0. p \in Int /\ f \in Int BY DEF BufTypeOK, uint64_t
  <2>1. (p - f) % U64 = (p - Len(out)) % U64
    BY <2>0, <1>1, <1>2, ModShift DEF Counters
  <2>2. p - Len(out) = (taken % U64) + (-Len(out)) /\ -Len(out) \in Int
    BY <2>0, <1>2 DEF Counters
  <2>3. ((taken % U64) + (-Len(out))) % U64 = (taken + (-Len(out))) % U64
    BY <2>2, <1>1, <1>2, ModShift
  <2>4. taken + (-Len(out)) = taken - Len(out) BY <1>2
  <2>5. taken - Len(out) \in 0 .. U64 - 1 BY <1>1, <1>2
  <2>6. (taken - Len(out)) % U64 = taken - Len(out) BY <2>5, <1>1, ModSmall
  <2> QED BY <2>1, <2>2, <2>3, <2>4, <2>6
<1>4. f \in uint64_t /\ p \in uint64_t BY DEF BufTypeOK
<1> QED BY <1>1, <1>2, <1>3, <1>4, Sizes DEF ExistSize, BlankSize

BufSizesRight ==
    /\ ExistSize = taken - Len(out)
    /\ BlankSize = max_pkt_size - 1 - (taken - Len(out))

\* The same in the next state.
LEMMA BufSizesNext ==
  SockTypeOK' /\ BufTypeOK' /\ Counters' => BufSizesRight'
<1>1. SockTypeOK /\ BufTypeOK /\ Counters => BufSizesRight
  BY BufSizes DEF BufSizesRight
<1> QED BY <1>1, PTL

\* A counter's cell is the cell of the stream position it stands for.
LEMMA CounterCells ==
  ASSUME SockTypeOK, Counters, NEW i \in Int
  PROVE  /\ (p + i) % max_pkt_size = (taken + i) % max_pkt_size
         /\ (f + i) % max_pkt_size = (Len(out) + i) % max_pkt_size
<1>1. U64 \in Nat /\ U64 > 0 /\ max_pkt_size \in Nat /\ max_pkt_size > 0
      /\ U64 % max_pkt_size = 0
  BY RingAssumption
<1>2. taken \in Int /\ Len(out) \in Int BY DEF SockTypeOK
<1>3. ASSUME NEW a \in Int
      PROVE  ((a % U64) + i) % max_pkt_size = (a + i) % max_pkt_size
  <2>1. a % U64 \in Int BY <1>1, DivMod
  <2>2. (a % U64) % max_pkt_size = a % max_pkt_size BY <1>1, ModOfMod
  <2>3. (((a % U64) % max_pkt_size) + i) % max_pkt_size
           = ((a % U64) + i) % max_pkt_size
    BY <1>1, <2>1, ModShift
  <2>4. ((a % max_pkt_size) + i) % max_pkt_size = (a + i) % max_pkt_size
    BY <1>1, ModShift
  <2> QED BY <2>2, <2>3, <2>4
<1> QED BY <1>2, <1>3 DEF Counters

\* Storing received bytes in the first n blank cells keeps the invariant.
LEMMA StoreKeeps ==
  ASSUME SockTypeOK, BufTypeOK, RingInv,
         NEW iov, NEW n \in Nat, n <= BlankSize, n <= RcvQueued,
         \A i \in 0 .. n - 1 : iov_cell(iov, i) = (p + i) % max_pkt_size,
         Store(iov, n)
  PROVE  SockTypeOK' /\ BufTypeOK' /\ RingInv'
<1>1. U64 \in Nat /\ U64 > 0 /\ max_pkt_size \in Nat /\ max_pkt_size > 0
  BY RingAssumption
<1>2. taken \in Nat /\ Len(out) \in Nat /\ arrived \in Nat /\ taken <= arrived
      /\ p \in Int
  BY DEF SockTypeOK, BufTypeOK, uint64_t
<1>3. taken - Len(out) + n \in 0 .. max_pkt_size - 1 /\ taken + n <= arrived
  BY <1>1, <1>2, BufSizes DEF RingInv, Counters, RcvQueued
<1>4. \A i \in 0 .. n - 1 : iov_cell(iov, i) = (taken + i) % max_pkt_size
  BY <1>1, CounterCells DEF RingInv
<1>5. Counters'
  <2>1. p' = (taken + n) % U64
    <3>1. p' = ((taken % U64) + n) % U64
      BY DEF Store, add_exist, RingInv, Counters
    <3>2. taken \in Int /\ n \in Int BY <1>2
    <3>3. ((taken % U64) + n) % U64 = (taken + n) % U64
      BY <1>1, <3>2, ModShift
    <3> QED BY <3>1, <3>3
  <2>2. taken' = taken + n /\ f' = f /\ Len(out') = Len(out) BY DEF Store
  <2>3. f = Len(out) % U64 BY DEF RingInv, Counters
  <2>4. Len(out) <= taken + n /\ (taken + n) - Len(out) < max_pkt_size
    BY <1>1, <1>2, <1>3
  <2> QED BY <2>1, <2>2, <2>3, <2>4 DEF Counters
<1>6. ASSUME NEW i \in 0 .. n - 1
      PROVE  mem'[(taken + i) % max_pkt_size] = taken + 1 + i
  <2> DEFINE c == (taken + i) % max_pkt_size
  <2>1. c \in Cells BY <1>1, <1>2, DivMod DEF Cells
  <2>2. \A j \in 0 .. n - 1 : iov_cell(iov, j) = c => j = i
    <3> SUFFICES ASSUME NEW j \in 0 .. n - 1, j # i
                 PROVE  iov_cell(iov, j) # c
      OBVIOUS
    <3>1. iov_cell(iov, j) = (taken + j) % max_pkt_size BY <1>4
    <3>2. taken + i \in Int /\ taken + j \in Int BY <1>2
    <3>3. CASE i < j
      <4>1. taken + i < taken + j /\ (taken + j) - (taken + i) < max_pkt_size
        BY <1>1, <1>2, <1>3, <3>3 DEF RingInv, Counters
      <4> QED BY <3>1, <3>2, <4>1, CellsDiffer
    <3>4. CASE j < i
      <4>1. taken + j < taken + i /\ (taken + i) - (taken + j) < max_pkt_size
        BY <1>1, <1>2, <1>3, <3>4 DEF RingInv, Counters
      <4> QED BY <3>1, <3>2, <4>1, CellsDiffer
    <3> QED BY <3>3, <3>4
  <2>3. iov_cell(iov, i) = c BY <1>4
  <2>4. mem'[c] = taken + 1 + (CHOOSE j \in 0 .. n - 1 : iov_cell(iov, j) = c)
    BY <2>1, <2>3 DEF Store, scatter
  <2>5. (CHOOSE j \in 0 .. n - 1 : iov_cell(iov, j) = c) = i
    BY <2>2, <2>3
  <2> QED BY <2>4, <2>5
<1>7. ASSUME NEW k \in Len(out) + 1 .. taken
      PROVE  mem'[(k - 1) % max_pkt_size] = k
  <2> DEFINE c == (k - 1) % max_pkt_size
  <2>0. k - 1 \in Int BY <1>2
  <2>1. c \in Cells BY <1>1, <2>0, DivMod DEF Cells
  <2>2. \A j \in 0 .. n - 1 : iov_cell(iov, j) # c
    <3> SUFFICES ASSUME NEW j \in 0 .. n - 1
                 PROVE  iov_cell(iov, j) # c
      OBVIOUS
    <3>1. k - 1 < taken + j /\ (taken + j) - (k - 1) < max_pkt_size
          /\ taken + j \in Int
      BY <1>1, <1>2, <1>3
    <3> QED BY <1>4, <2>0, <3>1, CellsDiffer
  <2>3. mem'[c] = mem[c] BY <2>1, <2>2 DEF Store, scatter
  <2> QED BY <2>3 DEF RingInv, Contents
<1>8. Contents'
  <2> SUFFICES ASSUME NEW k \in Len(out) + 1 .. taken + n
               PROVE  mem'[(k - 1) % max_pkt_size] = k
    BY DEF Contents, Store
  <2>1. CASE k <= taken
    <3>1. k \in Len(out) + 1 .. taken BY <1>2, <2>1
    <3> QED BY <3>1, <1>7
  <2>2. CASE k > taken
    <3> DEFINE i == k - 1 - taken
    <3>1. i \in 0 .. n - 1 /\ k - 1 = taken + i /\ k = taken + 1 + i
      BY <1>2, <2>2
    <3> QED BY <3>1, <1>6
  <2> QED BY <1>2, <2>1, <2>2
<1>9. BufTypeOK'
  <2>1. p' \in uint64_t
    BY <1>1, <1>2, DivMod DEF Store, add_exist, uint64_t
  <2>2. ASSUME NEW c \in Cells PROVE mem'[c] \in Nat
    <3>1. CASE \E i \in 0 .. n - 1 : iov_cell(iov, i) = c
      <4> DEFINE j == CHOOSE i \in 0 .. n - 1 : iov_cell(iov, i) = c
      <4>1. j \in 0 .. n - 1 BY <3>1
      <4> HIDE DEF j
      <4>2. taken + 1 + j \in Nat BY <1>2, <4>1
      <4>3. mem'[c] = taken + 1 + j BY <3>1 DEF Store, scatter, j
      <4> QED BY <4>2, <4>3
    <3>2. CASE ~ \E i \in 0 .. n - 1 : iov_cell(iov, i) = c
      BY <3>2 DEF Store, scatter, BufTypeOK
    <3> QED BY <3>1, <3>2
  <2>3. mem' = [c \in Cells |-> mem'[c]] BY DEF Store, scatter
  <2>4. mem' \in [Cells -> Nat] BY <2>2, <2>3
  <2> QED BY <2>1, <2>4 DEF Store, BufTypeOK
<1>10. SockTypeOK' BY <1>2, <1>3 DEF Store, SockTypeOK
<1>11. StreamIntegrity' BY DEF Store, RingInv, StreamIntegrity
<1> QED BY <1>5, <1>8, <1>9, <1>10, <1>11 DEF RingInv

\* Sending from the first n filled cells keeps the invariant.
LEMMA DrainKeeps ==
  ASSUME SockTypeOK, BufTypeOK, RingInv,
         NEW iov, NEW n \in Nat, n <= ExistSize,
         \A i \in 0 .. n - 1 : iov_cell(iov, i) = (f + i) % max_pkt_size,
         Drain(iov, n)
  PROVE  SockTypeOK' /\ BufTypeOK' /\ RingInv' /\ Len(out') = Len(out) + n
<1> DEFINE g == gather(mem, iov, n)
<1>1. U64 \in Nat /\ U64 > 0 /\ max_pkt_size \in Nat /\ max_pkt_size > 0
  BY RingAssumption
<1>2. taken \in Nat /\ Len(out) \in Nat /\ out \in Seq(Nat) /\ f \in Int
  BY DEF SockTypeOK, BufTypeOK, uint64_t
<1>3. n <= taken - Len(out) /\ taken - Len(out) < max_pkt_size
  BY BufSizes DEF RingInv, Counters
<1>4. ASSUME NEW i \in 1 .. n
      PROVE  g[i] = Len(out) + i
  <2>1. i - 1 \in 0 .. n - 1 /\ i - 1 \in Int OBVIOUS
  <2>2. iov_cell(iov, i - 1) = (Len(out) + (i - 1)) % max_pkt_size
    BY <2>1, CounterCells DEF RingInv
  <2>3. Len(out) + i \in Len(out) + 1 .. taken
        /\ (Len(out) + i) - 1 = Len(out) + (i - 1)
    BY <1>2, <1>3
  <2>4. mem[(Len(out) + (i - 1)) % max_pkt_size] = Len(out) + i
    BY <2>3 DEF RingInv, Contents
  <2> QED BY <2>2, <2>4 DEF gather
<1>5. g \in Seq(Nat) /\ Len(g) = n
  <2>1. g = [i \in 1 .. n |-> g[i]] BY DEF gather
  <2>2. \A i \in 1 .. n : g[i] \in Nat BY <1>2, <1>4
  <2>3. g \in [1 .. n -> Nat] BY <2>1, <2>2
  <2> QED BY <2>3, LenProperties
<1> HIDE DEF g
<1>6. out' = out \o g BY DEF Drain, g
<1>7. out' \in Seq(Nat) /\ Len(out') = Len(out) + n
      /\ \A k \in 1 .. Len(out) + n :
            out'[k] = IF k <= Len(out) THEN out[k] ELSE g[k - Len(out)]
  BY <1>2, <1>5, <1>6
<1>8. StreamIntegrity'
  <2> SUFFICES ASSUME NEW k \in 1 .. Len(out) + n
               PROVE  out'[k] = k
    BY <1>7 DEF StreamIntegrity
  <2>1. CASE k <= Len(out)
    BY <1>2, <1>7, <2>1 DEF RingInv, StreamIntegrity
  <2>2. CASE k > Len(out)
    <3>1. k - Len(out) \in 1 .. n /\ Len(out) + (k - Len(out)) = k
      BY <1>2, <2>2
    <3>2. g[k - Len(out)] = k BY <1>4, <3>1
    <3>3. out'[k] = g[k - Len(out)] BY <1>2, <1>7, <2>2
    <3> QED BY <3>2, <3>3
  <2> QED BY <1>2, <2>1, <2>2
<1>9. Counters'
  <2>1. f' = (Len(out) + n) % U64
    <3>1. f' = ((Len(out) % U64) + n) % U64
      BY DEF Drain, add_blank, RingInv, Counters
    <3>2. Len(out) \in Int /\ n \in Int BY <1>2
    <3>3. ((Len(out) % U64) + n) % U64 = (Len(out) + n) % U64
      BY <1>1, <3>2, ModShift
    <3> QED BY <3>1, <3>3
  <2> QED BY <2>1, <1>1, <1>2, <1>3, <1>7 DEF Drain, RingInv, Counters
<1>10. Contents'
  BY <1>2, <1>7 DEF Drain, RingInv, Contents
<1>11. BufTypeOK'
  <2>1. f' \in uint64_t BY <1>1, <1>2, DivMod DEF Drain, add_blank, uint64_t
  <2> QED BY <2>1 DEF Drain, BufTypeOK
<1>12. SockTypeOK' BY <1>2, <1>7 DEF Drain, SockTypeOK
<1> QED BY <1>7, <1>8, <1>9, <1>10, <1>11, <1>12 DEF RingInv

-----------------------------------------------------------------------------
HeldRange == Held = [i \in 1 .. taken - Len(out) |-> Len(out) + i]

\* The ring holds the bytes received and not sent back, in order.
LEMMA HeldBytes ==
  ASSUME SockTypeOK, BufTypeOK, RingInv
  PROVE  /\ Held = [i \in 1 .. taken - Len(out) |-> Len(out) + i]
         /\ Held \in Seq(Nat)
         /\ Len(Held) = taken - Len(out)
<1>1. ExistSize = taken - Len(out) /\ taken - Len(out) \in Nat
      /\ taken \in Nat /\ Len(out) \in Nat /\ max_pkt_size \in Nat
  BY BufSizes, RingAssumption DEF RingInv, SockTypeOK
<1>2. ASSUME NEW i \in 1 .. taken - Len(out)
      PROVE  mem[(f + i - 1) % max_pkt_size] = Len(out) + i
  <2>1. i - 1 \in Int /\ f + i - 1 = f + (i - 1) BY DEF BufTypeOK, uint64_t
  <2>2. (f + (i - 1)) % max_pkt_size = (Len(out) + (i - 1)) % max_pkt_size
    BY <2>1, CounterCells DEF RingInv
  <2>3. Len(out) + i \in Len(out) + 1 .. taken
        /\ (Len(out) + i) - 1 = Len(out) + (i - 1)
    BY <1>1
  <2>4. mem[(Len(out) + (i - 1)) % max_pkt_size] = Len(out) + i
    BY <2>3 DEF RingInv, Contents
  <2> QED BY <2>1, <2>2, <2>4
<1>3. Held = [i \in 1 .. taken - Len(out) |-> Len(out) + i]
  BY <1>1, <1>2 DEF Held
<1>4. Held \in [1 .. taken - Len(out) -> Nat] BY <1>1, <1>3
<1> QED BY <1>1, <1>3, <1>4, LenProperties

\* The same in the next state.
LEMMA HeldBytesNext ==
  SockTypeOK' /\ BufTypeOK' /\ RingInv' => HeldRange'
<1>1. SockTypeOK /\ BufTypeOK /\ RingInv => HeldRange
  BY HeldBytes DEF HeldRange
<1> QED BY <1>1, PTL

\* Storing bytes appends the next ones of the stream to what is held.
LEMMA HeldAfterStore ==
  ASSUME SockTypeOK, BufTypeOK, RingInv, SockTypeOK', BufTypeOK', RingInv',
         NEW iov, NEW n \in Nat, Store(iov, n)
  PROVE  Held' = Held \o [i \in 1 .. n |-> (Len(out) + Len(Held)) + i]
<1> DEFINE a == [i \in 1 .. n |-> (Len(out) + Len(Held)) + i]
           m == taken - Len(out)
<1>1. taken \in Nat /\ Len(out) \in Nat /\ m \in Nat
  BY DEF SockTypeOK, RingInv, Counters
<1>2. Held = [i \in 1 .. m |-> Len(out) + i] /\ Len(Held) = m /\ Held \in Seq(Nat)
  BY HeldBytes
<1>3. Held' = [i \in 1 .. m + n |-> Len(out) + i]
  <2>1. Held' = [i \in 1 .. taken' - Len(out') |-> Len(out') + i]
    BY HeldBytesNext DEF HeldRange
  <2>2. Len(out') = Len(out) /\ taken' - Len(out') = m + n
    BY <1>1 DEF Store
  <2> QED BY <2>1, <2>2
<1>4. a = [i \in 1 .. n |-> taken + i] BY <1>1, <1>2
<1>5. a \in Seq(Nat) /\ Len(a) = n
  <2>1. a \in [1 .. n -> Nat] BY <1>1, <1>4
  <2> QED BY <2>1, LenProperties
<1> HIDE DEF a
<1>6. Held \o a = [i \in 1 .. m + n |->
                       IF i <= m THEN Held[i] ELSE a[i - m]]
  <2>1. Held \o a = [i \in 1 .. Len(Held) + Len(a) |->
                        IF i <= Len(Held) THEN Held[i] ELSE a[i - Len(Held)]]
    BY <1>2, <1>5, ConcatAsFunction
  <2>2. Len(Held) = m /\ Len(a) = n BY <1>2, <1>5
  <2> HIDE DEF m
  <2> QED BY <2>1, <2>2
<1>7. ASSUME NEW i \in 1 .. m + n
      PROVE  Len(out) + i = IF i <= m THEN Held[i] ELSE a[i - m]
  <2>1. CASE i <= m BY <1>1, <1>2, <2>1
  <2>2. CASE i > m
    <3>1. i - m \in 1 .. n /\ taken + (i - m) = Len(out) + i BY <1>1, <2>2
    <3>2. a[i - m] = taken + (i - m) BY <3>1, <1>4
    <3> QED BY <1>1, <2>2, <3>1, <3>2
  <2> QED BY <1>1, <2>1, <2>2
<1>8. Held' = Held \o a BY <1>3, <1>6, <1>7
<1> QED BY <1>8 DEF a

\* Sending bytes takes them from the front of what is held.
LEMMA HeldAfterDrain ==
  ASSUME SockTypeOK, BufTypeOK, RingInv, SockTypeOK', BufTypeOK', RingInv',
         NEW iov, NEW n \in Nat, n <= ExistSize, Drain(iov, n),
         Len(out') = Len(out) + n
  PROVE  /\ n <= Len(Held)
         /\ out' = out \o SubSeq(Held, 1, n)
         /\ Held' = SubSeq(Held, n + 1, Len(Held))
<1> DEFINE m == taken - Len(out)
<1>1. taken \in Nat /\ Len(out) \in Nat /\ m \in Nat /\ n <= m
      /\ out \in Seq(Nat) /\ out' \in Seq(Nat)
  BY BufSizes DEF SockTypeOK, RingInv, Counters
<1>2. Held = [i \in 1 .. m |-> Len(out) + i] /\ Len(Held) = m /\ Held \in Seq(Nat)
  BY HeldBytes
<1>3. Held' = [i \in 1 .. m - n |-> Len(out) + n + i]
  <2>1. Held' = [i \in 1 .. taken' - Len(out') |-> Len(out') + i]
    BY HeldBytesNext DEF HeldRange
  <2>2. taken' - Len(out') = m - n BY <1>1 DEF Drain
  <2> QED BY <2>1, <2>2
<1>4. SubSeq(Held, n + 1, m) = [i \in 1 .. m - n |-> Held[n + i]]
      /\ SubSeq(Held, 1, n) = [i \in 1 .. n |-> Held[i]]
  BY <1>1, <1>2
<1>5. Held' = SubSeq(Held, n + 1, m)
  <2>1. ASSUME NEW i \in 1 .. m - n
        PROVE  Held[n + i] = Len(out) + n + i
    BY <1>1, <1>2
  <2> QED BY <1>3, <1>4, <2>1
<1>6. out' = out \o SubSeq(Held, 1, n)
  <2> DEFINE s == SubSeq(Held, 1, n)
  <2>1. s \in Seq(Nat) /\ Len(s) = n /\ \A i \in 1 .. n : s[i] = Len(out) + i
    BY <1>1, <1>2, <1>4
  <2> HIDE DEF s
  <2>2. out \o s = [k \in 1 .. Len(out) + n |->
                        IF k <= Len(out) THEN out[k] ELSE s[k - Len(out)]]
    BY <1>1, <2>1, ConcatAsFunction
  <2>3. ASSUME NEW k \in 1 .. Len(out) + n
        PROVE  k = IF k <= Len(out) THEN out[k] ELSE s[k - Len(out)]
    <3>1. CASE k <= Len(out)
      BY <1>1, <3>1 DEF RingInv, StreamIntegrity
    <3>2. CASE k > Len(out)
      <4>1. k - Len(out) \in 1 .. n /\ Len(out) + (k - Len(out)) = k
        BY <1>1, <3>2
      <4> QED BY <1>1, <2>1, <3>2, <4>1
    <3> QED BY <1>1, <3>1, <3>2
  <2>4. out \o s = [k \in 1 .. Len(out) + n |-> k] BY <2>2, <2>3
  <2>5. out' = [k \in 1 .. Len(out') |-> out'[k]] BY <1>1
  <2>6. out' = [k \in 1 .. Len(out) + n |-> k]
    BY <2>5 DEF RingInv, StreamIntegrity
  <2>7. out' = out \o s BY <2>4, <2>6
  <2> QED BY <2>7 DEF s
<1> QED BY <1>1, <1>2, <1>5, <1>6

-----------------------------------------------------------------------------
\* The part of the inductive invariant that every ring server shares.
ConnInv == ConnTypeOK /\ RingInv

\* recvmsg never returns more than is queued or than the iovec has room for.
LEMMA RecvBound ==
  ASSUME SockTypeOK, NEW len \in Nat
  PROVE  /\ recv_result(len) \in Int
         /\ RcvQueued \in Nat
         /\ recv_result(len) <= RcvQueued
         /\ recv_result(len) <= len
         /\ recv_result(len) >= 0 \/ recv_result(len) \in {Eagain, Error}
BY DEF SockTypeOK, recv_result, RcvQueued, Smaller, Eagain, Error

\* sendmsg never returns more than the iovec describes.
LEMMA SendBound ==
  ASSUME SockTypeOK, NEW len \in Nat
  PROVE  /\ send_result(len) \in Int
         /\ send_result(len) <= len
         /\ send_result(len) >= 0 \/ send_result(len) \in {Eagain, Error}
BY SocketAssumption DEF SockTypeOK, send_result, SndRoom, Smaller, Eagain, Error

\* The two iovecs describe all of the blank cells and all of the filled ones.
LEMMA WholeIovecs ==
  ASSUME ConnInv
  PROVE  /\ BlankSize \in Nat /\ ExistSize \in Nat
         /\ BlankSize = max_pkt_size - 1 - (taken - Len(out))
         /\ ExistSize = taken - Len(out)
         /\ iov_total(get_blank_iovec(f, p)) = BlankSize
         /\ iov_total(get_exist_iovec(f, p)) = ExistSize
         /\ \A i \in 0 .. BlankSize - 1 :
               iov_cell(get_blank_iovec(f, p), i) = (p + i) % max_pkt_size
         /\ \A i \in 0 .. ExistSize - 1 :
               iov_cell(get_exist_iovec(f, p), i) = (f + i) % max_pkt_size
<1>1. f \in uint64_t /\ p \in uint64_t /\ (p - f) % U64 < max_pkt_size
      /\ BlankSize \in Nat /\ ExistSize \in Nat
      /\ BlankSize = max_pkt_size - 1 - (taken - Len(out))
      /\ ExistSize = taken - Len(out)
  BY BufSizes, RingAssumption
     DEF ConnInv, ConnTypeOK, BufTypeOK, RingInv
<1>2. /\ iov_total(get_blank_iovec(f, p)) = BlankSize
      /\ \A i \in 0 .. BlankSize - 1 :
            iov_cell(get_blank_iovec(f, p), i) = (p + i) % max_pkt_size
  BY <1>1, BlankIovec DEF BlankCovers, BlankSize
<1>3. /\ iov_total(get_exist_iovec(f, p)) = ExistSize
      /\ \A i \in 0 .. ExistSize - 1 :
            iov_cell(get_exist_iovec(f, p), i) = (f + i) % max_pkt_size
  BY <1>1, ExistIovec DEF ExistCovers, ExistSize
<1> QED BY <1>1, <1>2, <1>3

\* The numbers the proofs compare are integers.
LEMMA Numbers ==
  ASSUME ConnInv
  PROVE  /\ arrived \in Nat /\ taken \in Nat /\ acked \in Nat /\ Len(out) \in Nat
         /\ taken <= arrived /\ acked <= Len(out) /\ Len(out) <= taken
         /\ taken - Len(out) < max_pkt_size
         /\ max_pkt_size \in Nat /\ SndCap \in Nat /\ SndLowat \in Nat
         /\ SndLowat > 0
         /\ RcvQueued \in Nat /\ SndRoom \in Int
<1>1. /\ max_pkt_size \in Nat /\ SndCap \in Nat /\ SndLowat \in Nat
      /\ SndLowat > 0 /\ MaxBytes \in Nat
  BY RingAssumption, SocketAssumption
<1>2. /\ arrived \in Nat /\ taken \in Nat /\ acked \in Nat /\ Len(out) \in Nat
      /\ taken <= arrived /\ acked <= Len(out) /\ Len(out) <= taken
      /\ taken - Len(out) < max_pkt_size
  BY <1>1 DEF ConnInv, ConnTypeOK, SockTypeOK, RingInv, Counters
<1> QED BY <1>1, <1>2 DEF RcvQueued, SndRoom

-----------------------------------------------------------------------------
\* A connection that has not been accepted yet satisfies the invariant.
LEMMA InitKeeps == ConnInit => ConnInv
<1> SUFFICES ASSUME ConnInit PROVE ConnInv OBVIOUS
<1> USE DEF ConnInit, SockInit, BufInit
<1>1. max_pkt_size \in Nat /\ max_pkt_size > 1 /\ U64 \in Nat /\ U64 > 0
  BY RingAssumption
<1>2. SockTypeOK
  <2>1. << >> \in Seq(Nat) /\ Len(<< >>) = 0 OBVIOUS
  <2>2. MaxBytes \in Nat BY SocketAssumption
  <2>3. arrived \in 0 .. MaxBytes /\ taken \in 0 .. arrived BY <2>2
  <2>4. out \in Seq(Nat) /\ acked \in 0 .. Len(out) BY <2>1
  <2> QED BY <2>3, <2>4 DEF SockTypeOK
<1>3. BufTypeOK BY <1>1 DEF BufTypeOK, uint64_t
<1>4. ConnTypeOK BY <1>2, <1>3 DEF ConnTypeOK
<1>5. 0 % U64 = 0 BY <1>1, ModSmall
<1>6. RingInv
  BY <1>1, <1>5 DEF RingInv, Counters, Contents, StreamIntegrity
<1> QED BY <1>4, <1>6 DEF ConnInv

\* The client's steps leave the connection alone.
LEMMA ClientKeeps ==
  ASSUME ConnInv, Client
  PROVE  ConnInv' /\ UNCHANGED <<bufVars, taken, out, connVars>>
<1>1. UNCHANGED <<bufVars, taken, out, connVars>>
  BY DEF Client, Peer, ClientSend, ClientRead, ClientShutdown, ClientReset
<1>2. SockTypeOK'
  <2>1. SockTypeOK /\ MaxBytes \in Nat
    BY SocketAssumption DEF ConnInv, ConnTypeOK
  <2>2. CASE Peer(ClientSend)
    BY <2>1, <2>2 DEF SockTypeOK, Peer, ClientSend
  <2>3. CASE Peer(ClientRead)
    BY <2>1, <2>3 DEF SockTypeOK, Peer, ClientRead
  <2>4. CASE Peer(ClientShutdown)
    BY <2>1, <2>4 DEF SockTypeOK, Peer, ClientShutdown
  <2>5. CASE Peer(ClientReset)
    BY <2>1, <2>5 DEF SockTypeOK, Peer, ClientReset
  <2> QED BY <2>2, <2>3, <2>4, <2>5 DEF Client
<1>3. RingInv'
  BY <1>1 DEF ConnInv, RingInv, Counters, Contents, StreamIntegrity, bufVars
<1> QED BY <1>1, <1>2, <1>3 DEF ConnInv, ConnTypeOK, BufTypeOK, bufVars, connVars

\* Whatever touches neither the queues nor the ring keeps the invariant.
LEMMA QuietKeeps ==
  ASSUME ConnInv, UNCHANGED <<sockVars, bufVars>>,
         epoll_event' \subseteq {EPOLLIN, EPOLLOUT},
         ev' \subseteq {EPOLLIN, EPOLLOUT, EPOLLERR}
  PROVE  ConnInv'
BY DEF ConnInv, ConnTypeOK, SockTypeOK, BufTypeOK, RingInv, Counters,
       Contents, StreamIntegrity, sockVars, bufVars

\* Giving the connection up changes nothing but pc.
LEMMA GiveUpKeeps ==
  ASSUME ConnInv, Delete \/ SendError
  PROVE  /\ ConnInv'
         /\ pc' \in {"deleted", "killed"}
         /\ UNCHANGED <<sockVars, bufVars, epoll_event, ev>>
<1>1. pc' \in {"deleted", "killed"}
      /\ UNCHANGED <<sockVars, bufVars, epoll_event, ev>>
  BY DEF Delete, SendError
<1> QED BY <1>1, QuietKeeps DEF ConnInv, ConnTypeOK

\* Registering the socket touches neither the queues nor the ring.
LEMMA AcceptKeeps ==
  ASSUME ConnInv, NEW mask \in SUBSET {EPOLLIN, EPOLLOUT}, Accept(mask)
  PROVE  ConnInv' /\ UNCHANGED <<sockVars, bufVars>>
<1>1. UNCHANGED <<sockVars, bufVars>> BY DEF Accept
<1> QED BY <1>1, QuietKeeps DEF ConnInv, ConnTypeOK, Accept

\* Dispatching an event touches neither the queues nor the ring.
LEMMA DispatchKeeps ==
  ASSUME ConnInv, NEW write, NEW read,
         Dispatch(Level(epoll_event), write, read)
  PROVE  \/ Delete
         \/ /\ ConnInv'
            /\ UNCHANGED <<sockVars, bufVars, epoll_event>>
            /\ pc' \in {write, read}
<1>1. CASE Delete BY <1>1
<1>2. CASE ~ Delete
  <2>1. /\ UNCHANGED <<sockVars, bufVars, epoll_event>>
        /\ pc' \in {write, read}
        /\ ev' = Level(epoll_event)
    BY <1>2 DEF Dispatch
  <2>2. ev' \subseteq {EPOLLIN, EPOLLOUT, EPOLLERR}
    BY <2>1 DEF Level, ConnInv, ConnTypeOK
  <2> QED BY <2>1, <2>2, QuietKeeps DEF ConnInv, ConnTypeOK
<1> QED BY <1>1, <1>2

-----------------------------------------------------------------------------
(* The steps as steps of EchoService. *)

\* The connection starts as the service does: nothing held, nothing sent.
LEMMA ServiceInit == ConnInit => Service!Init
<1> SUFFICES ASSUME ConnInit PROVE Service!Init OBVIOUS
<1>1. SockTypeOK /\ BufTypeOK /\ RingInv BY InitKeeps DEF ConnInv, ConnTypeOK
<1>2. Held \in Seq(Nat) /\ Len(Held) = taken - Len(out) BY <1>1, HeldBytes
<1>3. taken = 0 /\ out = << >> /\ arrived = 0 /\ Open
  BY DEF ConnInit, SockInit, Open
<1>4. Held = << >>
  <2>1. Len(<< >>) = 0 OBVIOUS
  <2>2. Len(Held) = taken - Len(out) /\ Len(out) = 0 BY <1>2, <1>3, <2>1
  <2>3. taken = 0 BY <1>3
  <2>4. Len(Held) = 0 BY <2>2, <2>3
  <2> QED BY <1>2, <2>4
<1> QED BY <1>3, <1>4 DEF Service!Init

\* Deleting the Connection, or being killed, is the service's Close.
LEMMA ServiceGiveUp ==
  ASSUME ConnInv, Open, Delete \/ SendError
  PROVE  Service!Next
<1>1. pc' \in {"deleted", "killed"} /\ UNCHANGED <<sockVars, bufVars>>
  BY GiveUpKeeps
<1>2. ~ Open' /\ UNCHANGED <<arrived, out, Held>>
  BY <1>1 DEF Open, sockVars, bufVars, Held, ExistSize
<1> QED BY <1>2 DEF Service!Next, Service!Close

\* A step that moves no byte is invisible to the service.
LEMMA ServiceQuiet ==
  ASSUME UNCHANGED <<arrived, out, bufVars>>, Open' = Open
  PROVE  UNCHANGED Service!vars
BY DEF Service!vars, Held, ExistSize, bufVars

\* A client's byte is the service's Arrive; its other steps are invisible.
LEMMA ServiceClient ==
  ASSUME ConnInv, Client
  PROVE  [Service!Next]_(Service!vars)
<1>1. UNCHANGED <<bufVars, taken, out, connVars>> BY ClientKeeps
<1>2. Open /\ Open' /\ UNCHANGED Held
  BY <1>1 DEF Client, Peer, Open, connVars, Held, ExistSize, bufVars
<1>3. CASE Peer(ClientSend)
  BY <1>1, <1>2, <1>3 DEF Peer, ClientSend, Service!Next, Service!Arrive
<1>4. CASE Peer(ClientRead) \/ Peer(ClientShutdown) \/ Peer(ClientReset)
  BY <1>1, <1>2, <1>4
     DEF Peer, ClientRead, ClientShutdown, ClientReset, Service!vars
<1> QED BY <1>3, <1>4 DEF Client

\* recvmsg with add_exist is the service's Receive.
LEMMA ServiceStore ==
  ASSUME ConnInv, ConnInv', Open, Open', NEW iov, NEW n \in Nat,
         n <= BlankSize, n <= RcvQueued, Store(iov, n)
  PROVE  [Service!Next]_(Service!vars)
<1> DEFINE C == max_pkt_size - 1
<1>0. SockTypeOK /\ BufTypeOK /\ RingInv /\ SockTypeOK' /\ BufTypeOK' /\ RingInv'
  BY DEF ConnInv, ConnTypeOK
<1>1. taken \in Nat /\ Len(out) \in Nat /\ C \in Nat /\ taken <= arrived
      /\ Len(out) <= taken /\ taken - Len(out) <= C
      /\ Len(Held) = taken - Len(out)
      /\ BlankSize = C - (taken - Len(out)) /\ arrived \in Nat
  BY <1>0, RingAssumption, HeldBytes, BufSizes
     DEF SockTypeOK, RingInv, Counters
<1>2. Held' = Held \o [i \in 1 .. n |-> (Len(out) + Len(Held)) + i]
  BY <1>0, HeldAfterStore
<1>3. UNCHANGED <<arrived, out>> BY DEF Store
<1>4. CASE n = 0
  <2>1. mem' = mem
    BY <1>0, <1>4 DEF Store, scatter, BufTypeOK
  <2>2. p' = p
    BY <1>0, <1>4, ModSmall, RingAssumption
       DEF Store, add_exist, BufTypeOK, uint64_t
  <2>3. UNCHANGED bufVars BY <2>1, <2>2 DEF Store, bufVars
  <2>4. Open' = Open BY DEF Open
  <2> QED BY <1>3, <2>3, <2>4, ServiceQuiet
<1>5. CASE n > 0
  <2>1. n \in 1 .. C /\ Len(Held) + n <= C
        /\ (Len(out) + Len(Held)) + n <= arrived
    BY <1>1, <1>5 DEF RcvQueued
  <2>2. Service!Receive(n)
    BY <1>2, <1>3, <2>1 DEF Service!Receive, Service!Received
  <2> QED BY <2>1, <2>2 DEF Service!Next
<1> QED BY <1>4, <1>5

\* sendmsg with add_blank is the service's Send.
LEMMA ServiceDrain ==
  ASSUME ConnInv, ConnInv', Open, Open', NEW iov, NEW n \in Nat,
         n <= ExistSize, Drain(iov, n), Len(out') = Len(out) + n
  PROVE  [Service!Next]_(Service!vars)
<1> DEFINE C == max_pkt_size - 1
<1>0. SockTypeOK /\ BufTypeOK /\ RingInv /\ SockTypeOK' /\ BufTypeOK' /\ RingInv'
  BY DEF ConnInv, ConnTypeOK
<1>1. n <= C /\ C \in Nat
  BY <1>0, RingAssumption, BufSizes DEF RingInv
<1>2. n <= Len(Held) /\ out' = out \o SubSeq(Held, 1, n)
      /\ Held' = SubSeq(Held, n + 1, Len(Held))
  BY <1>0, HeldAfterDrain
<1>3. UNCHANGED arrived BY DEF Drain
<1>4. CASE n = 0
  <2>1. Held \in Seq(Nat) /\ out \in Seq(Nat)
    BY <1>0, HeldBytes DEF SockTypeOK
  <2>2. SubSeq(Held, 1, 0) = << >> /\ out \o << >> = out
        /\ SubSeq(Held, 1, Len(Held)) = Held
    BY <2>1
  <2>3. out' = out
    <3>1. out' = out \o SubSeq(Held, 1, 0) BY <1>2, <1>4
    <3> QED BY <2>2, <3>1
  <2>4. Held' = Held
    <3>1. n + 1 = 1 BY <1>4
    <3>2. Held' = SubSeq(Held, 1, Len(Held)) BY <1>2, <3>1
    <3> QED BY <2>2, <3>2
  <2>5. Open' = Open BY DEF Open
  <2> QED BY <1>3, <2>3, <2>4, <2>5 DEF Service!vars
<1>5. CASE n > 0
  <2>1. n \in 1 .. C BY <1>1, <1>5
  <2>2. Service!Send(n) BY <1>2, <1>3 DEF Service!Send
  <2> QED BY <2>1, <2>2 DEF Service!Next
<1> QED BY <1>4, <1>5
=============================================================================
