-------------------------- MODULE PeHashmap2Proofs --------------------------
(***************************************************************************)
(* For every number of threads, keys, values, entries and buckets: no get  *)
(* of proc_entry_hashmap2 stands on freed memory, the buckets and the      *)
(* cache stay intact, and insert, remove and get are linearizable.         *)
(***************************************************************************)
EXTENDS PeHashmap2, FiniteSetTheorems, TLAPS

(***************************************************************************)
(* Lists of pointers nx, whatever they are: what Walk says of next, for    *)
(* the pointers before and after a step alike.                             *)
(***************************************************************************)
ClosedBy(nx, S, f) ==
    /\ f \in S \cup {NULL}
    /\ \A n \in S : nx[n] \in S \cup {NULL}

Chain(nx, f) ==
    {n \in Entries : \A S \in SUBSET Entries : ClosedBy(nx, S, f) => n \in S}

Pointers == [Entries -> Links]

\* Any closed set holds the whole list.
LEMMA ChainLeast ==
  ASSUME NEW nx, NEW f, NEW S \in SUBSET Entries, ClosedBy(nx, S, f)
  PROVE  Chain(nx, f) \subseteq S
BY DEF Chain

\* A list is closed itself.
LEMMA ChainClosed ==
  ASSUME NEW nx \in Pointers, NEW f \in Links
  PROVE  /\ Chain(nx, f) \in SUBSET Entries
         /\ f # NULL => f \in Chain(nx, f)
         /\ \A n \in Chain(nx, f) : nx[n] # NULL => nx[n] \in Chain(nx, f)
         /\ ClosedBy(nx, Chain(nx, f), f)
<1>1. Chain(nx, f) \in SUBSET Entries BY DEF Chain
<1>2. f # NULL => f \in Chain(nx, f) BY DEF Chain, ClosedBy, Links
<1>3. ASSUME NEW n \in Chain(nx, f), nx[n] # NULL
      PROVE  nx[n] \in Chain(nx, f)
  <2>1. nx[n] \in Entries BY <1>1, <1>3 DEF Pointers, Links
  <2>2. ASSUME NEW S \in SUBSET Entries, ClosedBy(nx, S, f)
        PROVE  nx[n] \in S
    <3>1. n \in S BY <2>2 DEF Chain
    <3> QED BY <3>1, <2>2, <1>3 DEF ClosedBy
  <2> QED BY <2>1, <2>2 DEF Chain
<1> QED BY <1>1, <1>2, <1>3 DEF ClosedBy

LEMMA ChainNull ==
  ASSUME NEW nx
  PROVE  Chain(nx, NULL) = {}
<1>1. ClosedBy(nx, {}, NULL) BY DEF ClosedBy
<1> QED BY <1>1, ChainLeast

\* The rest of a list, from any of its entries, is part of it.
LEMMA ChainRest ==
  ASSUME NEW nx \in Pointers, NEW f \in Links, NEW n \in Chain(nx, f)
  PROVE  /\ Chain(nx, n) \subseteq Chain(nx, f)
         /\ Chain(nx, nx[n]) \subseteq Chain(nx, f)
<1>1. /\ Chain(nx, f) \in SUBSET Entries
      /\ ClosedBy(nx, Chain(nx, f), f)
  BY ChainClosed
<1>2. ClosedBy(nx, Chain(nx, f), n) BY <1>1 DEF ClosedBy
<1>3. ClosedBy(nx, Chain(nx, f), nx[n]) BY <1>1 DEF ClosedBy
<1> QED BY <1>1, <1>2, <1>3, ChainLeast

\* A list is its first entry and the list from the next one on.
LEMMA ChainFirst ==
  ASSUME NEW nx \in Pointers, NEW f \in Entries
  PROVE  Chain(nx, f) = {f} \cup Chain(nx, nx[f])
<1>0. f \in Links /\ nx[f] \in Links /\ f # NULL
  BY PeAssumption DEF Links, Pointers
<1>1. f \in Chain(nx, f) BY <1>0, ChainClosed
<1>2. Chain(nx, nx[f]) \subseteq Chain(nx, f) BY <1>0, <1>1, ChainRest
<1>3. /\ Chain(nx, nx[f]) \in SUBSET Entries
      /\ ClosedBy(nx, Chain(nx, nx[f]), nx[f])
  BY <1>0, ChainClosed
<1>4. ClosedBy(nx, {f} \cup Chain(nx, nx[f]), f) BY <1>3 DEF ClosedBy
<1>5. Chain(nx, f) \subseteq {f} \cup Chain(nx, nx[f])
  BY <1>3, <1>4, ChainLeast
<1> QED BY <1>1, <1>2, <1>5

\* Pointers of entries that are not on it do not matter to a list.
LEMMA ChainFrame ==
  ASSUME NEW nx \in Pointers, NEW ny \in Pointers, NEW f \in Links,
         \A n \in Chain(nx, f) : ny[n] = nx[n]
  PROVE  Chain(ny, f) = Chain(nx, f)
<1>1. /\ Chain(nx, f) \in SUBSET Entries
      /\ ClosedBy(nx, Chain(nx, f), f)
  BY ChainClosed
<1>2. ClosedBy(ny, Chain(nx, f), f) BY <1>1 DEF ClosedBy
<1>3. Chain(ny, f) \subseteq Chain(nx, f) BY <1>1, <1>2, ChainLeast
<1>4. /\ Chain(ny, f) \in SUBSET Entries
      /\ ClosedBy(ny, Chain(ny, f), f)
  BY ChainClosed
<1>5. ClosedBy(nx, Chain(ny, f), f) BY <1>3, <1>4 DEF ClosedBy
<1>6. Chain(nx, f) \subseteq Chain(ny, f) BY <1>4, <1>5, ChainLeast
<1> QED BY <1>3, <1>6

-----------------------------------------------------------------------------
(***************************************************************************)
(* hlist_del_rcu: ny are the pointers once those of L that pointed to old  *)
(* point to its successor.  A walk from anywhere loses at most old.        *)
(***************************************************************************)
Unlinked(nx, ny, L, old) ==
    ny = [e \in Entries |-> IF e \in L /\ nx[e] = old THEN nx[old] ELSE nx[e]]

LEMMA UnlinkWalk ==
  ASSUME NEW nx \in Pointers, NEW ny \in Pointers, NEW f \in Links,
         NEW L \in SUBSET Entries, NEW old \in L, nx[old] # old,
         Unlinked(nx, ny, L, old)
  PROVE  /\ Chain(ny, f) \subseteq Chain(nx, f)
         /\ Chain(nx, f) \subseteq Chain(ny, f) \cup {old}
<1> DEFINE C == Chain(nx, f)
           D == Chain(ny, f)
<1>1. C \in SUBSET Entries /\ ClosedBy(nx, C, f) BY ChainClosed
<1>2. D \in SUBSET Entries /\ ClosedBy(ny, D, f) BY ChainClosed
<1> HIDE DEF C, D
<1>3. ClosedBy(ny, C, f)
  <2>1. ASSUME NEW e \in C PROVE ny[e] \in C \cup {NULL}
    <3>1. nx[e] \in C \cup {NULL} BY <1>1 DEF ClosedBy
    <3>2. nx[e] = old => nx[old] \in C \cup {NULL}
      BY <1>1, <3>1, PeAssumption DEF ClosedBy
    <3>3. ny[e] = nx[e] \/ (nx[e] = old /\ ny[e] = nx[old])
      BY <1>1 DEF Unlinked
    <3> QED BY <3>1, <3>2, <3>3
  <2> QED BY <1>1, <2>1 DEF ClosedBy
<1>4. D \subseteq C BY <1>1, <1>3, ChainLeast DEF C, D
<1>5. C \subseteq D \cup {old}
  <2>1. CASE \A e \in D : e \in L => nx[e] # old
    <3>1. ClosedBy(nx, D, f) BY <1>2, <2>1 DEF ClosedBy, Unlinked
    <3> QED BY <1>2, <3>1, ChainLeast DEF C, D
  <2>2. CASE \E e \in D : e \in L /\ nx[e] = old
    <3>1. PICK e \in D : e \in L /\ nx[e] = old BY <2>2
    <3>2. nx[old] \in D \cup {NULL} BY <1>2, <3>1 DEF ClosedBy, Unlinked
    <3>3. ClosedBy(nx, D \cup {old}, f) BY <1>2, <3>2 DEF ClosedBy, Unlinked
    <3>4. D \cup {old} \in SUBSET Entries BY <1>2
    <3> QED BY <3>3, <3>4, ChainLeast DEF C
  <2> QED BY <2>1, <2>2
<1> QED BY <1>4, <1>5 DEF C, D

\* The bucket's list is what it was, without old.
LEMMA UnlinkList ==
  ASSUME NEW nx \in Pointers, NEW ny \in Pointers, NEW f \in Links,
         NEW old \in Chain(nx, f), old \notin Chain(nx, nx[old]),
         Unlinked(nx, ny, Chain(nx, f), old)
  PROVE  Chain(ny, IF f = old THEN nx[old] ELSE f) = Chain(nx, f) \ {old}
<1> DEFINE L == Chain(nx, f)
           g == IF f = old THEN nx[old] ELSE f
           D == Chain(ny, g)
<1>1. L \in SUBSET Entries /\ ClosedBy(nx, L, f) BY ChainClosed
<1>2. nx[old] \in Links /\ nx[old] # old
  <2>1. nx[old] \in Links BY <1>1 DEF Pointers
  <2>2. nx[old] # NULL => nx[old] \in Chain(nx, nx[old])
    BY <2>1, ChainClosed
  <2>3. old # NULL BY <1>1, PeAssumption
  <2> QED BY <2>1, <2>2, <2>3
<1>3. g \in Links BY <1>2
<1>4. D \in SUBSET Entries /\ ClosedBy(ny, D, g) BY <1>3, ChainClosed
<1>5. old \in L /\ Unlinked(nx, ny, L, old) OBVIOUS
<1> HIDE DEF L, D
<1>6. ClosedBy(ny, L \ {old}, g) BY <1>1, <1>2, <1>5 DEF ClosedBy, Unlinked
<1>7. D \subseteq L \ {old} BY <1>1, <1>6, ChainLeast DEF D
<1>8. nx[old] \in D \cup {NULL}
  <2>1. CASE f = old BY <1>4, <2>1 DEF ClosedBy
  <2>2. CASE f # old
    <3>1. \E e \in D : nx[e] = old
      <4> SUFFICES ASSUME \A e \in D : nx[e] # old PROVE FALSE OBVIOUS
      <4>1. ClosedBy(nx, D, f) BY <1>4, <2>2, <1>5 DEF ClosedBy, Unlinked
      <4>2. L \subseteq D BY <4>1, <1>4, ChainLeast DEF L
      <4> QED BY <4>2, <1>5, <1>7
    <3>2. PICK e \in D : nx[e] = old BY <3>1
    <3>3. ny[e] = nx[old] BY <3>2, <1>7, <1>1, <1>5 DEF Unlinked
    <3> QED BY <3>2, <3>3, <1>4 DEF ClosedBy
  <2> QED BY <2>1, <2>2
<1>9. ClosedBy(nx, D \cup {old}, f)
  BY <1>4, <1>5, <1>7, <1>8 DEF ClosedBy, Unlinked
<1>10. L \subseteq D \cup {old} BY <1>9, <1>4, <1>1, <1>5, ChainLeast DEF L
<1>11. D = L \ {old} BY <1>7, <1>10, <1>5
<1> QED BY <1>11 DEF L, D

\* No entry left on the list is ahead of itself.
LEMMA UnlinkAcyclic ==
  ASSUME NEW nx \in Pointers, NEW ny \in Pointers,
         NEW L \in SUBSET Entries, NEW old \in L, nx[old] # old,
         Unlinked(nx, ny, L, old),
         NEW e \in Entries, e \notin Chain(nx, nx[e])
  PROVE  e \notin Chain(ny, ny[e])
<1>1. nx[e] \in Links /\ nx[old] \in Links BY DEF Pointers
<1>2. CASE ny[e] = nx[e] BY <1>1, <1>2, UnlinkWalk
<1>3. CASE ny[e] # nx[e]
  <2>1. nx[e] = old /\ ny[e] = nx[old] BY <1>3 DEF Unlinked
  <2>2. Chain(ny, nx[old]) \subseteq Chain(nx, nx[old]) BY <1>1, UnlinkWalk
  <2>3. Chain(nx, nx[old]) \subseteq Chain(nx, old) BY ChainFirst
  <2> QED BY <2>1, <2>2, <2>3
<1> QED BY <1>2, <1>3

-----------------------------------------------------------------------------
(***************************************************************************)
(* hlist_replace_rcu: ny are the pointers once those of L that pointed to  *)
(* old point to new, and new points to old's successor.  A walk from       *)
(* anywhere but new loses at most old, and only to gain new.               *)
(***************************************************************************)
Replaced(nx, ny, L, old, new) ==
    ny = [e \in Entries |-> IF e = new THEN nx[old]
                            ELSE IF e \in L /\ nx[e] = old THEN new
                            ELSE nx[e]]

LEMMA ReplaceWalk ==
  ASSUME NEW nx \in Pointers, NEW ny \in Pointers, NEW f \in Links,
         NEW L \in SUBSET Entries, NEW old \in L, nx[old] # old,
         NEW new \in Entries, new \notin L, new \notin Chain(nx, f),
         Replaced(nx, ny, L, old, new)
  PROVE  /\ Chain(ny, f) \subseteq Chain(nx, f) \cup {new}
         /\ Chain(nx, f) \subseteq Chain(ny, f) \cup {old}
         /\ old \in Chain(nx, f) =>
               old \in Chain(ny, f) \/ new \in Chain(ny, f)
         /\ old \notin Chain(nx, f) => Chain(ny, f) = Chain(nx, f)
<1> DEFINE C == Chain(nx, f)
           D == Chain(ny, f)
<1>0. old # new /\ new # NULL /\ old # NULL BY PeAssumption
<1>1. C \in SUBSET Entries /\ ClosedBy(nx, C, f) BY ChainClosed
<1>2. D \in SUBSET Entries /\ ClosedBy(ny, D, f) BY ChainClosed
<1>3. new \notin C OBVIOUS
<1> HIDE DEF C, D
<1>4. CASE old \notin C
  <2>1. ASSUME NEW e \in C PROVE ny[e] = nx[e]
    <3>1. nx[e] \in C \cup {NULL} BY <1>1 DEF ClosedBy
    <3>2. nx[e] # old /\ e # new BY <3>1, <1>4, <1>0, <1>3
    <3> QED BY <3>2, <1>1 DEF Replaced
  <2>2. D = C BY <2>1, ChainFrame DEF C, D
  <2> QED BY <1>4, <2>2 DEF C, D
<1>5. CASE old \in C
  <2>1. ClosedBy(ny, C \cup {new}, f)
    <3>1. ASSUME NEW e \in C \cup {new}
          PROVE  ny[e] \in (C \cup {new}) \cup {NULL}
      <4>1. nx[old] \in C \cup {NULL} BY <1>5, <1>1 DEF ClosedBy
      <4>2. CASE e = new BY <4>1, <4>2 DEF Replaced
      <4>3. CASE e # new
        <5>1. e \in C /\ nx[e] \in C \cup {NULL} BY <4>3, <1>1 DEF ClosedBy
        <5>2. ny[e] = new \/ ny[e] = nx[e] BY <4>3, <5>1, <1>1 DEF Replaced
        <5> QED BY <5>1, <5>2
      <4> QED BY <4>2, <4>3
    <3> QED BY <3>1, <1>1 DEF ClosedBy
  <2>2. D \subseteq C \cup {new} BY <2>1, <1>1, ChainLeast DEF D
  <2>3. ASSUME NEW e \in D \ {new}
        PROVE  nx[e] = old \/ nx[e] \in (D \ {new}) \cup {NULL}
    <3>1. e \in C /\ nx[e] \in C \cup {NULL} BY <2>2, <1>1 DEF ClosedBy
    <3>2. nx[e] # new BY <3>1, <1>0, <1>3
    <3>3. ny[e] \in D \cup {NULL} BY <1>2 DEF ClosedBy
    <3>4. nx[e] = old \/ ny[e] = nx[e] BY <1>2 DEF Replaced
    <3> QED BY <3>2, <3>3, <3>4
  <2>4. f \in (D \ {new}) \cup {NULL}
    BY <1>0, <1>1, <1>2, <1>3 DEF ClosedBy
  <2>5. old \in D \/ new \in D
    <3> SUFFICES ASSUME old \notin D, new \notin D PROVE FALSE OBVIOUS
    <3>1. ASSUME NEW e \in D PROVE nx[e] \in D \cup {NULL}
      <4>1. ny[e] \in D \cup {NULL} BY <1>2 DEF ClosedBy
      <4>2. ny[e] # new /\ ny[e] # old BY <4>1, <1>0
      <4>3. nx[e] # old
        BY <4>2, <1>2 DEF Replaced
      <4> QED BY <4>3, <2>3
    <3>2. ClosedBy(nx, D, f) BY <3>1, <1>2 DEF ClosedBy
    <3>3. C \subseteq D BY <3>2, <1>2, ChainLeast DEF C
    <3> QED BY <3>3, <1>5
  <2>6. nx[old] \in D \cup {NULL}
    <3>1. CASE old \in D
      <4>1. ny[old] = nx[old] BY <1>0 DEF Replaced
      <4> QED BY <3>1, <4>1, <1>2 DEF ClosedBy
    <3>2. CASE new \in D
      <4>1. ny[new] = nx[old] BY DEF Replaced
      <4> QED BY <3>2, <4>1, <1>2 DEF ClosedBy
    <3> QED BY <3>1, <3>2, <2>5
  <2>7. nx[old] # new
    <3>1. nx[old] \in C \cup {NULL} BY <1>5, <1>1 DEF ClosedBy
    <3> QED BY <3>1, <1>0, <1>3
  <2>8. ClosedBy(nx, (D \ {new}) \cup {old}, f)
    <3>1. ASSUME NEW e \in (D \ {new}) \cup {old}
          PROVE  nx[e] \in ((D \ {new}) \cup {old}) \cup {NULL}
      <4>1. CASE e = old BY <4>1, <2>6, <2>7
      <4>2. CASE e # old BY <4>2, <2>3
      <4> QED BY <4>1, <4>2
    <3> QED BY <3>1, <2>4 DEF ClosedBy
  <2>9. C \subseteq (D \ {new}) \cup {old}
    BY <2>8, <1>2, ChainLeast DEF C
  <2> QED BY <1>5, <2>2, <2>5, <2>9 DEF C, D
<1> QED BY <1>4, <1>5

\* The bucket's list is what it was, with new for old.
LEMMA ReplaceList ==
  ASSUME NEW nx \in Pointers, NEW ny \in Pointers, NEW f \in Links,
         NEW old \in Chain(nx, f), old \notin Chain(nx, nx[old]),
         NEW new \in Entries, new \notin Chain(nx, f),
         Replaced(nx, ny, Chain(nx, f), old, new)
  PROVE  Chain(ny, IF f = old THEN new ELSE f) =
            (Chain(nx, f) \ {old}) \cup {new}
<1> DEFINE L == Chain(nx, f)
           g == IF f = old THEN new ELSE f
           D == Chain(ny, g)
<1>1. L \in SUBSET Entries /\ ClosedBy(nx, L, f) BY ChainClosed
<1>0. new # NULL /\ old # NULL /\ old # new BY <1>1, PeAssumption
<1>2. nx[old] \in Links /\ nx[old] # old
  <2>1. nx[old] \in Links BY <1>1 DEF Pointers
  <2>2. nx[old] # NULL => nx[old] \in Chain(nx, nx[old])
    BY <2>1, ChainClosed
  <2> QED BY <2>1, <2>2, <1>0
<1>3. g \in Links BY DEF Links
<1>4. D \in SUBSET Entries /\ ClosedBy(ny, D, g) BY <1>3, ChainClosed
<1>5. old \in L /\ new \notin L /\ Replaced(nx, ny, L, old, new) OBVIOUS
<1> HIDE DEF L, D
<1>6. nx[old] \in (L \ {old}) \cup {NULL} BY <1>1, <1>2, <1>5 DEF ClosedBy
<1>7. ClosedBy(ny, (L \ {old}) \cup {new}, g)
  <2>1. ASSUME NEW e \in (L \ {old}) \cup {new}
        PROVE  ny[e] \in ((L \ {old}) \cup {new}) \cup {NULL}
    <3>1. CASE e = new BY <3>1, <1>6, <1>5 DEF Replaced
    <3>2. CASE e # new
      <4>1. e \in L /\ nx[e] \in L \cup {NULL} BY <3>2, <1>1 DEF ClosedBy
      <4>2. ny[e] = IF nx[e] = old THEN new ELSE nx[e]
        BY <3>2, <4>1, <1>1, <1>5 DEF Replaced
      <4> QED BY <4>1, <4>2
    <3> QED BY <3>1, <3>2
  <2>2. g \in ((L \ {old}) \cup {new}) \cup {NULL} BY <1>1 DEF ClosedBy
  <2> QED BY <2>1, <2>2 DEF ClosedBy
<1>8. D \subseteq (L \ {old}) \cup {new} BY <1>7, <1>1, ChainLeast DEF D
<1>9. new \in D
  <2>1. CASE f = old BY <1>4, <2>1, <1>0 DEF ClosedBy
  <2>2. CASE f # old
    <3>1. \E e \in D : nx[e] = old /\ e # new
      <4> SUFFICES ASSUME \A e \in D : e # new => nx[e] # old PROVE FALSE
        OBVIOUS
      <4>1. ASSUME NEW e \in D \ {new}
            PROVE  nx[e] \in (D \ {new}) \cup {NULL}
        <5>1. e \in L /\ nx[e] \in L \cup {NULL}
          BY <1>8, <1>1 DEF ClosedBy
        <5>2. nx[e] # new BY <5>1, <1>0, <1>5
        <5>3. ny[e] = nx[e] BY <1>4, <1>5 DEF Replaced
        <5> QED BY <5>2, <5>3, <1>4 DEF ClosedBy
      <4>2. f \in (D \ {new}) \cup {NULL}
        BY <2>2, <1>4, <1>1, <1>5, <1>0 DEF ClosedBy
      <4>3. ClosedBy(nx, D \ {new}, f) BY <4>1, <4>2 DEF ClosedBy
      <4>4. L \subseteq D \ {new} BY <4>3, <1>4, ChainLeast DEF L
      <4> QED BY <4>4, <1>5, <1>8, <1>0
    <3>2. PICK e \in D : nx[e] = old /\ e # new BY <3>1
    <3>3. ny[e] = new BY <3>2, <1>8, <1>4, <1>5 DEF Replaced
    <3> QED BY <3>2, <3>3, <1>4, <1>0 DEF ClosedBy
  <2> QED BY <2>1, <2>2
<1>10. nx[old] \in (D \ {new}) \cup {NULL}
  <2>1. ny[new] = nx[old] BY DEF Replaced
  <2>2. nx[old] \in D \cup {NULL} BY <2>1, <1>9, <1>4 DEF ClosedBy
  <2> QED BY <2>2, <1>6, <1>5, <1>0
<1>11. ClosedBy(nx, (D \ {new}) \cup {old}, f)
  <2>1. ASSUME NEW e \in (D \ {new}) \cup {old}
        PROVE  nx[e] \in ((D \ {new}) \cup {old}) \cup {NULL}
    <3>1. CASE e = old BY <3>1, <1>10
    <3>2. CASE e # old
      <4>1. e \in L /\ nx[e] \in L \cup {NULL}
        BY <3>2, <1>8, <1>1 DEF ClosedBy
      <4>2. nx[e] # new BY <4>1, <1>0, <1>5
      <4>3. nx[e] = old \/ ny[e] = nx[e] BY <3>2, <1>4, <1>5 DEF Replaced
      <4>4. ny[e] \in D \cup {NULL} BY <3>2, <1>4 DEF ClosedBy
      <4> QED BY <4>2, <4>3, <4>4
    <3> QED BY <3>1, <3>2
  <2>2. f \in ((D \ {new}) \cup {old}) \cup {NULL}
    BY <1>4, <1>1, <1>5, <1>0 DEF ClosedBy
  <2> QED BY <2>1, <2>2 DEF ClosedBy
<1>12. L \subseteq (D \ {new}) \cup {old}
  BY <1>11, <1>4, <1>1, <1>5, ChainLeast DEF L
<1>13. D = (L \ {old}) \cup {new} BY <1>8, <1>9, <1>12
<1> QED BY <1>13 DEF L, D

\* No entry of the new list is ahead of itself.
LEMMA ReplaceAcyclic ==
  ASSUME NEW nx \in Pointers, NEW ny \in Pointers, NEW f \in Links,
         NEW old \in Chain(nx, f), old \notin Chain(nx, nx[old]),
         nx[old] # old,
         NEW new \in Entries, new \notin Chain(nx, f),
         Replaced(nx, ny, Chain(nx, f), old, new),
         NEW e \in (Chain(nx, f) \ {old}) \cup {new},
         e # new => e \notin Chain(nx, nx[e])
  PROVE  e \notin Chain(ny, ny[e])
<1> DEFINE L == Chain(nx, f)
<1>1. L \in SUBSET Entries /\ L \subseteq Entries BY ChainClosed
<1>2. nx[old] \in Links /\ ny[new] = nx[old]
  BY <1>1 DEF Pointers, Replaced
<1>3. Chain(nx, nx[old]) \subseteq L BY ChainRest
<1>4. Chain(ny, nx[old]) = Chain(nx, nx[old])
  BY <1>1, <1>2, <1>3, ReplaceWalk
<1>5. CASE e = new BY <1>2, <1>3, <1>4, <1>5
<1>6. CASE e # new
  <2>1. e \in L /\ e \in Entries /\ nx[e] \in Links
    BY <1>1, <1>6 DEF Pointers
  <2>2. CASE ny[e] = nx[e]
    <3>1. Chain(nx, nx[e]) \subseteq L BY <2>1, ChainRest
    <3>2. Chain(ny, nx[e]) \subseteq Chain(nx, nx[e]) \cup {new}
      BY <1>1, <2>1, <3>1, ReplaceWalk
    <3> QED BY <2>2, <3>2, <1>6
  <2>3. CASE ny[e] # nx[e]
    <3>1. nx[e] = old /\ ny[e] = new BY <2>1, <2>3, <1>6 DEF Replaced
    <3>2. Chain(ny, new) = {new} \cup Chain(nx, nx[old])
      BY <1>2, <1>4, ChainFirst
    <3>3. Chain(nx, old) = {old} \cup Chain(nx, nx[old])
      BY <1>1, ChainFirst
    <3> QED BY <3>1, <3>2, <3>3, <1>6
  <2> QED BY <2>2, <2>3
<1> QED BY <1>5, <1>6

-----------------------------------------------------------------------------
(* The inductive invariant. *)

List(b)  == Chain(next, head[b])
Ahead(t) == Chain(next, entry[t])

\* t has an entry of its own: not published yet, or unlinked and not yet
\* handed to call_rcu.
Holds(t) == pc[t] \in {"insert", "call_rcu"}

InUse == module \in {"live", "remove_proc_entry"}

(***************************************************************************)
(* The lists: allocated entries of the bucket's keys, one per key, that no *)
(* callback will free, with no way back to an entry once past it.          *)
(***************************************************************************)
ListsInv ==
    /\ \A b \in Buckets : \A n \in List(b) :
          /\ n \in used /\ n \notin call_rcu_list
          /\ key[n] \in Keys /\ index[key[n]] = b
          /\ value[n] \in Values
          /\ n \notin Chain(next, next[n])
    /\ \A b \in Buckets : \A m, n \in List(b) : key[m] = key[n] => m = n

CountInv == InUse => \A b \in Buckets : num[b] = Cardinality(List(b))

(***************************************************************************)
(* Every allocated entry has one owner: a bucket, a thread or a callback.  *)
(***************************************************************************)
HeldInv ==
    /\ call_rcu_list \subseteq used
    /\ \A t \in Threads : Holds(t) =>
          /\ entry[t] \in used /\ entry[t] \notin call_rcu_list
          /\ \A b \in Buckets : entry[t] \notin List(b)

FreshInv ==
    \A t \in Threads : pc[t] = "insert" =>
        /\ arg[t] \in Keys /\ key[entry[t]] = arg[t]
        /\ value[entry[t]] \in Values

DistinctInv ==
    \A t, u \in Threads :
        Holds(t) /\ Holds(u) /\ entry[t] = entry[u] => t = u

OwnedInv ==
    \A n \in used :
        \/ n \in call_rcu_list
        \/ \E b \in Buckets : n \in List(b)
        \/ \E t \in Threads : Holds(t) /\ entry[t] = n

OwnersInv == HeldInv /\ FreshInv /\ DistinctInv /\ OwnedInv

(***************************************************************************)
(* What a get can still come to is allocated, its callback waits for this  *)
(* get, and it has been published.                                         *)
(***************************************************************************)
ReadersInv ==
    \A t \in Threads : pc[t] = "get" =>
        /\ arg[t] \in Keys
        /\ \A n \in Ahead(t) :
              /\ n \in used
              /\ n \in call_rcu_list => t \in readers[n]
              /\ \A u \in Threads : pc[u] = "insert" => n # entry[u]

\* pe_map_flush and pe_map_destroy run alone.
PhaseInv ==
    /\ ~ InUse => \A t \in Threads : pc[t] = "idle"
    /\ module = "exited" => used = {}

(***************************************************************************)
(* The map is what the lists hold.  A get has on its way an entry of its   *)
(* key or has seen the key absent, and any entry of the key on its way     *)
(* holds a value that the key has had since the get began.                 *)
(***************************************************************************)
MapInv ==
    InUse => \A k \in Keys :
        \/ \E n \in List(index[k]) : key[n] = k /\ map[k] = value[n]
        \/ map[k] = NULL /\ \A n \in List(index[k]) : key[n] # k

SeenInv ==
    /\ \A t \in Threads : pc[t] = "get" =>
          /\ \A n \in Ahead(t) :
                key[n] = arg[t] => value[n] \in seen[t][arg[t]]
          /\ \/ NULL \in seen[t][arg[t]]
             \/ \E n \in Ahead(t) : key[n] = arg[t]
    /\ \A t \in Threads, k \in Keys :
          pc[t] # "get" \/ k # arg[t] => seen[t][k] = {}
    /\ \A t \in Threads : pc[t] # "copy_to_user" => ret[t] = NULL

IInv ==
    /\ TypeOK /\ ListsInv /\ CountInv /\ OwnersInv /\ ReadersInv
    /\ PhaseInv /\ MapInv /\ SeenInv

-----------------------------------------------------------------------------
LEMMA WalkIsChain ==
  /\ \A f : Walk(f) = Chain(next, f)
  /\ \A k : Found(k) = {n \in List(index[k]) : key[n] = k}
BY DEF Walk, Closed, Chain, ClosedBy, Found, List

LEMMA InitKeeps == Init => IInv
<1> SUFFICES ASSUME Init PROVE IInv OBVIOUS
<1>1. TypeOK BY PeAssumption DEF Init, TypeOK, Links
<1>2. \A b \in Buckets : List(b) = {} BY ChainNull DEF Init, List
<1>3. ListsInv BY <1>2 DEF ListsInv
<1>4. CountInv BY <1>2, FS_EmptySet DEF CountInv, Init
<1>5. OwnersInv BY DEF Init, OwnersInv, HeldInv, FreshInv, DistinctInv, OwnedInv, Holds
<1>6. ReadersInv BY DEF Init, ReadersInv
<1>7. PhaseInv BY DEF Init, PhaseInv, InUse
<1>8. MapInv BY <1>2, PeAssumption DEF Init, MapInv
<1>9. SeenInv BY DEF Init, SeenInv
<1> QED BY <1>1, <1>3, <1>4, <1>5, <1>6, <1>7, <1>8, <1>9 DEF IInv

\* The new entry is nobody's but the thread's.
LEMMA AllocKeeps ==
  ASSUME IInv, NEW t \in Threads, NEW k \in Keys, NEW v \in Values,
         kmem_cache_alloc(t, k, v)
  PROVE  IInv'
<1> USE DEF IInv
<1>1. PICK n \in Entries \ used :
        /\ used' = used \cup {n}
        /\ key' = [key EXCEPT ![n] = k]
        /\ value' = [value EXCEPT ![n] = v]
        /\ entry' = [entry EXCEPT ![t] = n]
  BY DEF kmem_cache_alloc
<1>2. /\ module = "live" /\ pc[t] = "idle"
      /\ pc' = [pc EXCEPT ![t] = "insert"]
      /\ arg' = [arg EXCEPT ![t] = k]
      /\ UNCHANGED <<head, num, next, rcu, module, history>>
  BY DEF kmem_cache_alloc
<1>3. UNCHANGED <<head, num, next, call_rcu_list, readers, module, map, seen, ret>>
  BY <1>2 DEF rcu, history
<1>4. TypeOK'
  BY <1>1, <1>2, <1>3 DEF TypeOK, Links
<1>5. \A b \in Buckets : List(b)' = List(b) BY <1>3 DEF List
<1>6. \A u \in Threads \ {t} :
        /\ Ahead(u)' = Ahead(u) /\ entry'[u] = entry[u]
        /\ pc'[u] = pc[u] /\ arg'[u] = arg[u]
  BY <1>1, <1>2, <1>3 DEF Ahead, TypeOK
<1>7. entry'[t] = n /\ pc'[t] = "insert" /\ arg'[t] = k
  BY <1>1, <1>2 DEF TypeOK
<1>8. /\ \A m \in used : m # n /\ key'[m] = key[m] /\ value'[m] = value[m]
      /\ key'[n] = k /\ value'[n] = v
  BY <1>1 DEF TypeOK
<1>9. ListsInv' BY <1>1, <1>3, <1>5, <1>8 DEF ListsInv
<1>10. CountInv' BY <1>3, <1>5 DEF CountInv, InUse
<1>11. OwnersInv'
  <2>1. n \notin call_rcu_list /\ \A b \in Buckets : n \notin List(b)
    BY <1>1 DEF OwnersInv, HeldInv, ListsInv
  <2>2. \A u \in Threads \ {t} : Holds(u) => entry[u] # n
    BY <1>1 DEF OwnersInv, HeldInv
  <2>3. /\ Holds(t)' /\ ~ Holds(t)
        /\ \A u \in Threads \ {t} : Holds(u)' <=> Holds(u)
    BY <1>2, <1>6, <1>7 DEF Holds
  <2>4. HeldInv'
    BY <1>1, <1>3, <1>5, <1>6, <1>7, <2>1, <2>3 DEF OwnersInv, HeldInv
  <2>5. FreshInv'
    BY <1>6, <1>7, <1>8 DEF OwnersInv, HeldInv, FreshInv, Holds
  <2>6. DistinctInv'
    BY <1>6, <1>7, <2>2, <2>3 DEF OwnersInv, DistinctInv
  <2>7. OwnedInv'
    BY <1>1, <1>3, <1>5, <1>6, <1>7, <2>3 DEF OwnersInv, OwnedInv
  <2> QED BY <2>4, <2>5, <2>6, <2>7 DEF OwnersInv
<1>12. ReadersInv' BY <1>1, <1>2, <1>3, <1>6, <1>7 DEF ReadersInv
<1>13. PhaseInv' BY <1>2, <1>3 DEF PhaseInv, InUse
<1>14. MapInv'
  BY <1>3, <1>5, <1>8, PeAssumption DEF MapInv, InUse, ListsInv
<1>15. SeenInv'
  BY <1>2, <1>3, <1>6, <1>7, <1>8 DEF SeenInv, ReadersInv
<1> QED BY <1>4, <1>9, <1>10, <1>11, <1>12, <1>13, <1>14, <1>15

\* The gets that may come to the entry are the ones its callback waits for.
LEMMA CallRcuKeeps ==
  ASSUME IInv, NEW t \in Threads, call_rcu(t)
  PROVE  IInv'
<1> USE DEF IInv
<1> DEFINE n == entry[t]
<1>1. /\ pc[t] = "call_rcu"
      /\ call_rcu_list' = call_rcu_list \cup {n}
      /\ readers' = [readers EXCEPT ![n] = InGet]
      /\ pc' = [pc EXCEPT ![t] = "idle"]
      /\ arg' = [arg EXCEPT ![t] = NULL]
      /\ entry' = [entry EXCEPT ![t] = NULL]
      /\ UNCHANGED <<head, num, used, key, value, next, module, map, seen, ret>>
  BY DEF call_rcu, Done, fields, history
<1>2. Holds(t) BY <1>1 DEF Holds
<1>3. /\ n \in used /\ n \in Entries /\ n \notin call_rcu_list
      /\ \A b \in Buckets : n \notin List(b)
  BY <1>2 DEF OwnersInv, HeldInv, TypeOK
<1> HIDE DEF n
<1>4. TypeOK' BY <1>1, <1>3 DEF TypeOK, Links, InGet
<1>5. \A b \in Buckets : List(b)' = List(b) BY <1>1 DEF List
<1>6. \A u \in Threads \ {t} :
        /\ Ahead(u)' = Ahead(u) /\ entry'[u] = entry[u]
        /\ pc'[u] = pc[u] /\ arg'[u] = arg[u]
  BY <1>1 DEF Ahead, TypeOK
<1>7. pc'[t] = "idle" BY <1>1 DEF TypeOK
<1>8. /\ readers'[n] = InGet
      /\ \A m \in Entries \ {n} : readers'[m] = readers[m]
  BY <1>1, <1>3 DEF TypeOK
<1>9. ListsInv' BY <1>1, <1>3, <1>5 DEF ListsInv
<1>10. CountInv' BY <1>1, <1>5 DEF CountInv, InUse
<1>11. OwnersInv'
  <2>1. \A u \in Threads \ {t} : Holds(u) => entry[u] # n
    BY <1>2 DEF OwnersInv, DistinctInv, n
  <2>2. /\ ~ Holds(t)'
        /\ \A u \in Threads \ {t} : Holds(u)' <=> Holds(u)
    BY <1>6, <1>7 DEF Holds
  <2>3. HeldInv'
    BY <1>1, <1>3, <1>5, <1>6, <2>1, <2>2 DEF OwnersInv, HeldInv
  <2>4. FreshInv' BY <1>1, <1>6, <1>7 DEF OwnersInv, FreshInv
  <2>5. DistinctInv' BY <1>6, <2>2 DEF OwnersInv, DistinctInv
  <2>6. OwnedInv'
    <3> SUFFICES ASSUME NEW m \in used, m # n, m \notin call_rcu_list,
                        \A b \in Buckets : m \notin List(b)
                 PROVE  \E u \in Threads : Holds(u)' /\ entry'[u] = m
      BY <1>1, <1>5 DEF OwnedInv
    <3>1. PICK u \in Threads : Holds(u) /\ entry[u] = m
      BY DEF OwnersInv, OwnedInv
    <3>2. u # t BY <3>1 DEF n
    <3> QED BY <3>1, <3>2, <1>6, <2>2
  <2> QED BY <2>3, <2>4, <2>5, <2>6 DEF OwnersInv
<1>12. ReadersInv'
  <2> SUFFICES ASSUME NEW u \in Threads, pc'[u] = "get"
               PROVE  /\ arg'[u] \in Keys
                      /\ \A m \in Ahead(u)' :
                            /\ m \in used'
                            /\ m \in call_rcu_list' => u \in readers'[m]
                            /\ \A w \in Threads : pc'[w] = "insert" => m # entry'[w]
    BY DEF ReadersInv
  <2>1. u # t BY <1>7
  <2>2. u \in InGet BY <2>1, <1>6 DEF InGet
  <2>3. arg'[u] \in Keys BY <2>1, <1>6 DEF ReadersInv
  <2>4. ASSUME NEW m \in Ahead(u)'
        PROVE  /\ m \in used'
               /\ m \in call_rcu_list' => u \in readers'[m]
               /\ \A w \in Threads : pc'[w] = "insert" => m # entry'[w]
    <3>1. m \in Ahead(u) BY <2>1, <1>6
    <3>2. /\ m \in used
          /\ m \in call_rcu_list => u \in readers[m]
          /\ \A w \in Threads : pc[w] = "insert" => m # entry[w]
      BY <3>1, <2>1, <1>6 DEF ReadersInv
    <3>3. m \in Entries BY <3>2 DEF TypeOK
    <3>4. \A w \in Threads : pc'[w] = "insert" => m # entry'[w]
      BY <3>2, <1>6, <1>7
    <3> QED BY <3>2, <3>3, <3>4, <2>2, <1>1, <1>8
  <2> QED BY <2>3, <2>4
<1>13. PhaseInv' BY <1>1, <1>6, <1>7 DEF PhaseInv, InUse
<1>14. MapInv' BY <1>1, <1>5, PeAssumption DEF MapInv, InUse
<1>15. SeenInv' BY <1>1, <1>6, <1>7 DEF SeenInv
<1> QED BY <1>4, <1>9, <1>10, <1>11, <1>12, <1>13, <1>14, <1>15

\* The freed entry is on no list and no get's way.
LEMMA FreeRcuKeeps ==
  ASSUME IInv, NEW n \in Entries, pe_entry_free_rcu(n)
  PROVE  IInv'
<1> USE DEF IInv
<1>1. /\ n \in call_rcu_list /\ readers[n] = {}
      /\ call_rcu_list' = call_rcu_list \ {n}
      /\ used' = used \ {n}
      /\ key' = [m \in Entries |-> IF m \in {n} THEN NULL ELSE key[m]]
      /\ value' = [m \in Entries |-> IF m \in {n} THEN NULL ELSE value[m]]
      /\ next' = [m \in Entries |-> IF m \in {n} THEN NULL ELSE next[m]]
      /\ UNCHANGED <<head, num, pc, arg, entry, readers, module, map, seen, ret>>
  BY DEF pe_entry_free_rcu, Free, threads, history
<1>2. TypeOK' BY <1>1 DEF TypeOK, Links
<1>3. /\ next \in Pointers /\ next' \in Pointers
      /\ head \in [Buckets -> Links] /\ entry \in [Threads -> Links]
  BY <1>2 DEF TypeOK, Pointers
<1>4. \A m \in Entries \ {n} :
        key'[m] = key[m] /\ value'[m] = value[m] /\ next'[m] = next[m]
  BY <1>1
<1>5. ASSUME NEW f \in Links, n \notin Chain(next, f)
      PROVE  Chain(next', f) = Chain(next, f)
  <2>1. Chain(next, f) \in SUBSET Entries BY <1>3, ChainClosed
  <2>2. \A m \in Chain(next, f) : next'[m] = next[m] BY <1>4, <1>5, <2>1
  <2> QED BY <2>2, <1>3, ChainFrame
<1>6. ASSUME NEW b \in Buckets
      PROVE  /\ List(b)' = List(b)
             /\ n \notin List(b) /\ List(b) \subseteq Entries
             /\ \A m \in List(b) :
                   Chain(next', next'[m]) = Chain(next, next[m])
  <2>1. n \notin List(b) /\ head[b] \in Links BY <1>1, <1>3 DEF ListsInv
  <2>2. List(b)' = List(b) BY <2>1, <1>1, <1>5 DEF List
  <2>3. List(b) \subseteq Entries BY <2>1, <1>3, ChainClosed DEF List
  <2>4. ASSUME NEW m \in List(b)
        PROVE  Chain(next', next'[m]) = Chain(next, next[m])
    <3>1. next'[m] = next[m] /\ next[m] \in Links
      BY <2>1, <2>3, <1>3, <1>4 DEF Pointers
    <3>2. Chain(next, next[m]) \subseteq List(b)
      BY <2>1, <1>3, ChainRest DEF List
    <3> QED BY <3>1, <3>2, <2>1, <1>5
  <2> QED BY <2>1, <2>2, <2>3, <2>4
<1>7. ASSUME NEW u \in Threads, pc[u] = "get"
      PROVE  Ahead(u)' = Ahead(u) /\ n \notin Ahead(u) /\ Ahead(u) \subseteq Entries
  <2>1. n \notin Ahead(u) /\ entry[u] \in Links
    BY <1>7, <1>1, <1>3 DEF ReadersInv
  <2>2. Ahead(u)' = Ahead(u) BY <2>1, <1>1, <1>5 DEF Ahead
  <2>3. Ahead(u) \subseteq Entries BY <2>1, <1>3, ChainClosed DEF Ahead
  <2> QED BY <2>1, <2>2, <2>3
<1>8. ListsInv'
  BY <1>1, <1>4, <1>6 DEF ListsInv
<1>9. CountInv' BY <1>1, <1>6 DEF CountInv, InUse
<1>10. OwnersInv'
  <2>1. \A u \in Threads : Holds(u) => entry[u] # n /\ entry[u] \in Entries
    BY <1>1 DEF OwnersInv, HeldInv, TypeOK
  <2>2. \A u \in Threads : Holds(u)' <=> Holds(u) BY <1>1 DEF Holds
  <2>3. HeldInv' BY <1>1, <1>6, <2>1, <2>2 DEF OwnersInv, HeldInv
  <2>4. FreshInv' BY <1>1, <1>4, <2>1 DEF OwnersInv, FreshInv, Holds
  <2>5. DistinctInv' BY <1>1, <2>2 DEF OwnersInv, DistinctInv
  <2>6. OwnedInv' BY <1>1, <1>6, <2>2 DEF OwnersInv, OwnedInv
  <2> QED BY <2>3, <2>4, <2>5, <2>6 DEF OwnersInv
<1>11. ReadersInv' BY <1>1, <1>7 DEF ReadersInv
<1>12. PhaseInv' BY <1>1 DEF PhaseInv, InUse
<1>13. MapInv' BY <1>1, <1>4, <1>6, PeAssumption DEF MapInv, InUse
<1>14. SeenInv' BY <1>1, <1>4, <1>7 DEF SeenInv
<1> QED BY <1>2, <1>8, <1>9, <1>10, <1>11, <1>12, <1>13, <1>14


\* A step of one thread that moves no pointer of a list and frees nothing.
LEMMA GetKeeps ==
  ASSUME IInv, NEW t \in Threads, NEW k \in Keys, pe_map_get(t, k)
  PROVE  IInv'
<1> USE DEF IInv
<1>1. /\ module = "live" /\ pc[t] = "idle"
      /\ pc' = [pc EXCEPT ![t] = "get"]
      /\ arg' = [arg EXCEPT ![t] = k]
      /\ entry' = [entry EXCEPT ![t] = head[index[k]]]
      /\ seen' = [seen EXCEPT ![t][k] = {map[k]}]
      /\ UNCHANGED <<head, num, used, key, value, next, call_rcu_list, readers,
                     module, map, ret>>
  BY DEF pe_map_get, fields, rcu
<1>2. index[k] \in Buckets BY PeAssumption
<1>3. /\ seen'[t][k] = {map[k]}
      /\ \A x \in Keys \ {k} : seen'[t][x] = seen[t][x]
      /\ \A u \in Threads \ {t} : seen'[u] = seen[u]
      /\ seen' \in [Threads -> [Keys -> SUBSET (Values \cup {NULL})]]
  BY <1>1 DEF TypeOK
<1>4. TypeOK' BY <1>1, <1>2, <1>3 DEF TypeOK
<1>5. \A b \in Buckets : List(b)' = List(b) BY <1>1 DEF List
<1>6. \A u \in Threads \ {t} :
        /\ Ahead(u)' = Ahead(u) /\ entry'[u] = entry[u]
        /\ pc'[u] = pc[u] /\ arg'[u] = arg[u]
  BY <1>1 DEF Ahead, TypeOK
<1>7. /\ pc'[t] = "get" /\ arg'[t] = k
      /\ Ahead(t)' = List(index[k])
  BY <1>1 DEF TypeOK, Ahead, List
<1>8. /\ ~ Holds(t) /\ ~ Holds(t)'
      /\ \A u \in Threads \ {t} : Holds(u)' <=> Holds(u)
  BY <1>1, <1>6, <1>7 DEF Holds
<1>9. ListsInv' BY <1>1, <1>5 DEF ListsInv
<1>10. CountInv' BY <1>1, <1>5 DEF CountInv, InUse
<1>11. OwnersInv'
  <2>1. HeldInv' BY <1>1, <1>5, <1>6, <1>8 DEF OwnersInv, HeldInv
  <2>2. FreshInv' BY <1>1, <1>6, <1>7 DEF OwnersInv, FreshInv
  <2>3. DistinctInv' BY <1>6, <1>8 DEF OwnersInv, DistinctInv
  <2>4. OwnedInv' BY <1>1, <1>5, <1>6, <1>8 DEF OwnersInv, OwnedInv
  <2> QED BY <2>1, <2>2, <2>3, <2>4 DEF OwnersInv
<1>12. ReadersInv'
  <2>1. \A n \in List(index[k]) :
          /\ n \in used /\ n \notin call_rcu_list
          /\ \A u \in Threads : pc[u] = "insert" => n # entry[u]
    BY <1>2 DEF ListsInv, OwnersInv, HeldInv, Holds
  <2> QED BY <2>1, <1>1, <1>6, <1>7 DEF ReadersInv
<1>13. PhaseInv' BY <1>1, <1>6, <1>7 DEF PhaseInv, InUse
<1>14. MapInv' BY <1>1, <1>5, PeAssumption DEF MapInv, InUse
<1>15. SeenInv'
  <2>1. /\ \A n \in List(index[k]) : key[n] = k => value[n] = map[k]
        /\ \/ map[k] = NULL
           \/ \E n \in List(index[k]) : key[n] = k
    BY <1>1, <1>2 DEF MapInv, ListsInv, InUse
  <2>2. /\ \A n \in Ahead(t)' :
              key'[n] = arg'[t] => value'[n] \in seen'[t][arg'[t]]
        /\ \/ NULL \in seen'[t][arg'[t]]
           \/ \E n \in Ahead(t)' : key'[n] = arg'[t]
    BY <1>1, <1>3, <1>7, <2>1
  <2>3. \A u \in Threads \ {t} : pc'[u] = "get" =>
          /\ \A n \in Ahead(u)' :
                key'[n] = arg'[u] => value'[n] \in seen'[u][arg'[u]]
          /\ \/ NULL \in seen'[u][arg'[u]]
             \/ \E n \in Ahead(u)' : key'[n] = arg'[u]
    BY <1>1, <1>3, <1>6 DEF SeenInv
  <2>4. \A u \in Threads, x \in Keys :
          pc'[u] # "get" \/ x # arg'[u] => seen'[u][x] = {}
    BY <1>1, <1>3, <1>6, <1>7 DEF SeenInv
  <2>5. \A u \in Threads : pc'[u] # "copy_to_user" => ret'[u] = NULL
    BY <1>1, <1>6, <1>7 DEF SeenInv
  <2> QED BY <2>2, <2>3, <2>4, <2>5 DEF SeenInv
<1> QED BY <1>4, <1>9, <1>10, <1>11, <1>12, <1>13, <1>14, <1>15

\* What is ahead of the next entry was ahead of this one.
LEMMA GetNextKeeps ==
  ASSUME IInv, NEW t \in Threads, get_next(t)
  PROVE  IInv'
<1> USE DEF IInv
<1>1. /\ pc[t] = "get" /\ entry[t] # NULL /\ key[entry[t]] # arg[t]
      /\ entry' = [entry EXCEPT ![t] = next[@]]
      /\ UNCHANGED <<head, num, used, key, value, next, pc, arg, call_rcu_list,
                     readers, module, map, seen, ret>>
  BY DEF get_next, fields, rcu, history
<1>2. /\ entry[t] \in Entries /\ next[entry[t]] \in Links /\ next \in Pointers
      /\ entry'[t] = next[entry[t]]
  BY <1>1 DEF TypeOK, Links, Pointers
<1>3. TypeOK' BY <1>1, <1>2 DEF TypeOK
<1>4. \A b \in Buckets : List(b)' = List(b) BY <1>1 DEF List
<1>5. \A u \in Threads \ {t} : Ahead(u)' = Ahead(u) /\ entry'[u] = entry[u]
  BY <1>1 DEF Ahead, TypeOK
<1>6. Ahead(t) = {entry[t]} \cup Ahead(t)'
  BY <1>1, <1>2, ChainFirst DEF Ahead
<1>7. ~ Holds(t) /\ \A u \in Threads : Holds(u)' <=> Holds(u)
  BY <1>1 DEF Holds
<1>8. ListsInv' BY <1>1, <1>4 DEF ListsInv
<1>9. CountInv' BY <1>1, <1>4 DEF CountInv, InUse
<1>10. OwnersInv'
  <2>1. HeldInv' BY <1>1, <1>4, <1>5, <1>7 DEF OwnersInv, HeldInv
  <2>2. FreshInv' BY <1>1, <1>5 DEF OwnersInv, FreshInv
  <2>3. DistinctInv' BY <1>5, <1>7 DEF OwnersInv, DistinctInv
  <2>4. OwnedInv' BY <1>1, <1>4, <1>5, <1>7 DEF OwnersInv, OwnedInv
  <2> QED BY <2>1, <2>2, <2>3, <2>4 DEF OwnersInv
<1>11. ReadersInv' BY <1>1, <1>5, <1>6 DEF ReadersInv
<1>12. PhaseInv' BY <1>1 DEF PhaseInv, InUse
<1>13. MapInv' BY <1>1, <1>4, PeAssumption DEF MapInv, InUse
<1>14. SeenInv' BY <1>1, <1>5, <1>6 DEF SeenInv
<1> QED BY <1>3, <1>8, <1>9, <1>10, <1>11, <1>12, <1>13, <1>14

LEMMA UnlockKeeps ==
  ASSUME IInv, NEW t \in Threads, rcu_read_unlock(t)
  PROVE  IInv'
<1> USE DEF IInv
<1>1. /\ pc[t] = "get"
      /\ \/ /\ entry[t] # NULL /\ key[entry[t]] = arg[t]
            /\ ret' = [ret EXCEPT ![t] = value[entry[t]]]
            /\ pc' = [pc EXCEPT ![t] = "copy_to_user"]
         \/ pc' = [pc EXCEPT ![t] = "idle"] /\ ret' = ret
      /\ arg' = [arg EXCEPT ![t] = NULL]
      /\ entry' = [entry EXCEPT ![t] = NULL]
      /\ readers' = [n \in Entries |-> readers[n] \ {t}]
      /\ seen' = [seen EXCEPT ![t][arg[t]] = {}]
      /\ UNCHANGED <<head, num, used, key, value, next, call_rcu_list, module, map>>
  BY DEF rcu_read_unlock, fields
<1>2. /\ \A x \in Keys : x # arg[t] => seen'[t][x] = seen[t][x]
      /\ seen'[t][arg[t]] = {}
      /\ \A u \in Threads \ {t} : seen'[u] = seen[u]
      /\ seen' \in [Threads -> [Keys -> SUBSET (Values \cup {NULL})]]
  BY <1>1 DEF TypeOK, ReadersInv
<1>3. /\ pc' \in [Threads -> {"idle", "insert", "call_rcu", "get", "copy_to_user"}]
      /\ ret' \in [Threads -> Values \cup {NULL}]
      /\ pc'[t] \in {"idle", "copy_to_user"}
      /\ \A u \in Threads \ {t} : ret'[u] = ret[u] /\ pc'[u] = pc[u]
      /\ pc'[t] = "idle" => ret'[t] = ret[t]
  BY <1>1 DEF TypeOK, Links
<1>4. TypeOK' BY <1>1, <1>2, <1>3 DEF TypeOK, Links
<1>5. \A b \in Buckets : List(b)' = List(b) BY <1>1 DEF List
<1>6. \A u \in Threads \ {t} :
        /\ Ahead(u)' = Ahead(u) /\ entry'[u] = entry[u] /\ arg'[u] = arg[u]
  BY <1>1 DEF Ahead, TypeOK
<1>7. /\ ~ Holds(t) /\ ~ Holds(t)'
      /\ \A u \in Threads \ {t} : Holds(u)' <=> Holds(u)
  BY <1>1, <1>3 DEF Holds
<1>8. ListsInv' BY <1>1, <1>5 DEF ListsInv
<1>9. CountInv' BY <1>1, <1>5 DEF CountInv, InUse
<1>10. OwnersInv'
  <2>1. HeldInv' BY <1>1, <1>5, <1>6, <1>7 DEF OwnersInv, HeldInv
  <2>2. FreshInv' BY <1>1, <1>3, <1>6 DEF OwnersInv, FreshInv
  <2>3. DistinctInv' BY <1>6, <1>7 DEF OwnersInv, DistinctInv
  <2>4. OwnedInv' BY <1>1, <1>5, <1>6, <1>7 DEF OwnersInv, OwnedInv
  <2> QED BY <2>1, <2>2, <2>3, <2>4 DEF OwnersInv
<1>11. ReadersInv'
  <2>1. \A n \in used : n \in Entries BY DEF TypeOK
  <2> QED BY <1>1, <1>3, <1>6, <2>1 DEF ReadersInv
<1>12. PhaseInv' BY <1>1, <1>3 DEF PhaseInv, InUse
<1>13. MapInv' BY <1>1, <1>5, PeAssumption DEF MapInv, InUse
<1>14. SeenInv'
  <2>1. \A u \in Threads : pc'[u] = "get" =>
          /\ \A n \in Ahead(u)' :
                key'[n] = arg'[u] => value'[n] \in seen'[u][arg'[u]]
          /\ \/ NULL \in seen'[u][arg'[u]]
             \/ \E n \in Ahead(u)' : key'[n] = arg'[u]
    BY <1>1, <1>2, <1>3, <1>6 DEF SeenInv
  <2>2. \A u \in Threads, x \in Keys :
          pc'[u] # "get" \/ x # arg'[u] => seen'[u][x] = {}
    BY <1>2, <1>3, <1>6 DEF SeenInv
  <2>3. \A u \in Threads : pc'[u] # "copy_to_user" => ret'[u] = NULL
    BY <1>1, <1>3 DEF SeenInv
  <2> QED BY <2>1, <2>2, <2>3 DEF SeenInv
<1> QED BY <1>4, <1>8, <1>9, <1>10, <1>11, <1>12, <1>13, <1>14


LEMMA CopyKeeps ==
  ASSUME IInv, NEW t \in Threads, copy_to_user(t)
  PROVE  IInv'
<1> USE DEF IInv
<1>1. /\ pc[t] = "copy_to_user"
      /\ ret' = [ret EXCEPT ![t] = NULL]
      /\ pc' = [pc EXCEPT ![t] = "idle"]
      /\ arg' = [arg EXCEPT ![t] = NULL]
      /\ entry' = [entry EXCEPT ![t] = NULL]
      /\ UNCHANGED <<head, num, used, key, value, next, call_rcu_list, readers,
                     module, map, seen>>
  BY DEF copy_to_user, Done, fields, rcu
<1>2. TypeOK' BY <1>1 DEF TypeOK, Links
<1>3. \A b \in Buckets : List(b)' = List(b) BY <1>1 DEF List
<1>4. \A u \in Threads \ {t} :
        /\ Ahead(u)' = Ahead(u) /\ entry'[u] = entry[u]
        /\ pc'[u] = pc[u] /\ arg'[u] = arg[u] /\ ret'[u] = ret[u]
  BY <1>1 DEF Ahead, TypeOK
<1>5. pc'[t] = "idle" /\ ret'[t] = NULL BY <1>1 DEF TypeOK
<1>6. /\ ~ Holds(t) /\ ~ Holds(t)'
      /\ \A u \in Threads \ {t} : Holds(u)' <=> Holds(u)
  BY <1>1, <1>4, <1>5 DEF Holds
<1>7. ListsInv' BY <1>1, <1>3 DEF ListsInv
<1>8. CountInv' BY <1>1, <1>3 DEF CountInv, InUse
<1>9. OwnersInv'
  <2>1. HeldInv' BY <1>1, <1>3, <1>4, <1>6 DEF OwnersInv, HeldInv
  <2>2. FreshInv' BY <1>1, <1>4, <1>5 DEF OwnersInv, FreshInv
  <2>3. DistinctInv' BY <1>4, <1>6 DEF OwnersInv, DistinctInv
  <2>4. OwnedInv' BY <1>1, <1>3, <1>4, <1>6 DEF OwnersInv, OwnedInv
  <2> QED BY <2>1, <2>2, <2>3, <2>4 DEF OwnersInv
<1>10. ReadersInv' BY <1>1, <1>4, <1>5 DEF ReadersInv
<1>11. PhaseInv' BY <1>1, <1>4, <1>5 DEF PhaseInv, InUse
<1>12. MapInv' BY <1>1, <1>3, PeAssumption DEF MapInv, InUse
<1>13. SeenInv' BY <1>1, <1>4, <1>5 DEF SeenInv
<1> QED BY <1>2, <1>7, <1>8, <1>9, <1>10, <1>11, <1>12, <1>13

LEMMA ExitKeeps ==
  ASSUME IInv, proc_entry_hashmap2_exit \/ pe_map_flush
  PROVE  IInv'
<1> USE DEF IInv
<1>1. /\ UNCHANGED <<head, used, key, value, next, pc, arg, entry,
                     call_rcu_list, readers, seen, ret>>
      /\ \/ /\ module = "live" /\ module' = "remove_proc_entry"
            /\ UNCHANGED <<num, map>>
         \/ /\ \A t \in Threads : pc[t] = "idle"
            /\ module' = "flush"
            /\ num' = [b \in Buckets |-> 0]
            /\ map' = [k \in Keys |-> NULL]
  BY DEF proc_entry_hashmap2_exit, pe_map_flush, fields, threads, rcu, history
<1>2. TypeOK' BY <1>1 DEF TypeOK
<1>3. /\ \A b \in Buckets : List(b)' = List(b)
      /\ \A t \in Threads : Ahead(t)' = Ahead(t) /\ (Holds(t)' <=> Holds(t))
  BY <1>1 DEF List, Ahead, Holds
<1>4. ListsInv' BY <1>1, <1>3 DEF ListsInv
<1>5. CountInv' BY <1>1, <1>3 DEF CountInv, InUse
<1>6. OwnersInv'
  BY <1>1, <1>3 DEF OwnersInv, HeldInv, FreshInv, DistinctInv, OwnedInv
<1>7. ReadersInv' BY <1>1, <1>3 DEF ReadersInv
<1>8. PhaseInv' BY <1>1 DEF PhaseInv, InUse
<1>9. MapInv' BY <1>1, <1>3, PeAssumption DEF MapInv, InUse
<1>10. SeenInv' BY <1>1, <1>3 DEF SeenInv
<1> QED BY <1>2, <1>4, <1>5, <1>6, <1>7, <1>8, <1>9, <1>10

\* No thread and no callback has an entry left: all are on the lists.
LEMMA DestroyKeeps ==
  ASSUME IInv, pe_map_destroy
  PROVE  IInv'
<1> USE DEF IInv
<1> DEFINE S == UNION {Walk(head[b]) : b \in Buckets}
<1>1. /\ module = "flush" /\ module' = "exited" /\ call_rcu_list = {}
      /\ used' = used \ S
      /\ key' = [n \in Entries |-> IF n \in S THEN NULL ELSE key[n]]
      /\ value' = [n \in Entries |-> IF n \in S THEN NULL ELSE value[n]]
      /\ next' = [n \in Entries |-> IF n \in S THEN NULL ELSE next[n]]
      /\ head' = [b \in Buckets |-> NULL]
      /\ UNCHANGED <<num, pc, arg, entry, call_rcu_list, readers, map, seen, ret>>
  BY DEF pe_map_destroy, Free, threads, rcu, history
<1>2. \A n \in used : n \in S
  BY <1>1, WalkIsChain
     DEF PhaseInv, InUse, OwnersInv, OwnedInv, Holds, List
<1> HIDE DEF S
<1>3. used' = {} BY <1>1, <1>2
<1>4. \A t \in Threads : pc[t] = "idle" BY <1>1 DEF PhaseInv, InUse
<1>5. \A b \in Buckets : List(b)' = {} BY <1>1, ChainNull DEF List
<1>6. TypeOK' BY <1>1 DEF TypeOK, Links
<1>7. ListsInv' BY <1>5 DEF ListsInv
<1>8. CountInv' BY <1>1 DEF CountInv, InUse
<1>9. OwnersInv'
  BY <1>1, <1>3, <1>4
     DEF OwnersInv, HeldInv, FreshInv, DistinctInv, OwnedInv, Holds
<1>10. ReadersInv' BY <1>1, <1>4 DEF ReadersInv
<1>11. PhaseInv' BY <1>1, <1>3, <1>4 DEF PhaseInv
<1>12. MapInv' BY <1>1 DEF MapInv, InUse
<1>13. SeenInv' BY <1>1, <1>4 DEF SeenInv
<1> QED BY <1>6, <1>7, <1>8, <1>9, <1>10, <1>11, <1>12, <1>13


-----------------------------------------------------------------------------
(* The locked parts of insert and remove. *)

\* What the callers see of an insert or remove of k.
LEMMA RememberSets ==
  ASSUME TypeOK, NEW k \in Keys, NEW v \in Values \cup {NULL}, Remember(k, v)
  PROVE  /\ map' \in [Keys -> Values \cup {NULL}]
         /\ map'[k] = v
         /\ \A x \in Keys \ {k} : map'[x] = map[x]
         /\ seen' \in [Threads -> [Keys -> SUBSET (Values \cup {NULL})]]
         /\ \A u \in Threads : \A x \in Keys \ {k} : seen'[u][x] = seen[u][x]
         /\ \A u \in Threads : seen[u][k] = {} => seen'[u][k] = {}
         /\ \A u \in Threads : seen[u][k] # {} =>
               seen'[u][k] = seen[u][k] \cup {v}
         /\ ret' = ret
BY DEF TypeOK, Remember

(***************************************************************************)
(* A get loses an entry of its key only where it can come to the new one   *)
(* or has seen the key absent, and gains only the value just inserted.     *)
(***************************************************************************)
LEMMA RememberKeepsSeen ==
  ASSUME IInv, NEW k \in Keys, NEW v \in Values \cup {NULL}, Remember(k, v),
         UNCHANGED <<key, value>>,
         \A u \in Threads :
            /\ pc'[u] = "get" <=> pc[u] = "get"
            /\ pc'[u] = "copy_to_user" <=> pc[u] = "copy_to_user"
            /\ pc[u] = "get" =>
                 /\ arg'[u] = arg[u]
                 /\ \A n \in Ahead(u)' :
                      n \in Ahead(u) \/ (key[n] = k /\ value[n] = v)
                 /\ \A n \in Ahead(u) :
                      \/ n \in Ahead(u)'
                      \/ /\ key[n] = k
                         /\ v = NULL \/ \E m \in Ahead(u)' : key[m] = k
  PROVE  SeenInv'
<1> USE DEF IInv
<1>1. /\ \A u \in Threads : \A x \in Keys \ {k} : seen'[u][x] = seen[u][x]
      /\ \A u \in Threads : seen[u][k] = {} => seen'[u][k] = {}
      /\ \A u \in Threads : seen[u][k] # {} =>
               seen'[u][k] = seen[u][k] \cup {v}
      /\ ret' = ret
  BY RememberSets
<1>2. ASSUME NEW u \in Threads, pc'[u] = "get"
      PROVE  /\ \A n \in Ahead(u)' :
                   key'[n] = arg'[u] => value'[n] \in seen'[u][arg'[u]]
             /\ \/ NULL \in seen'[u][arg'[u]]
                \/ \E n \in Ahead(u)' : key'[n] = arg'[u]
  <2>1. pc[u] = "get" /\ arg'[u] = arg[u] /\ arg[u] \in Keys
    BY <1>2 DEF ReadersInv
  <2>2. /\ \A n \in Ahead(u) :
              key[n] = arg[u] => value[n] \in seen[u][arg[u]]
        /\ \/ NULL \in seen[u][arg[u]]
           \/ \E n \in Ahead(u) : key[n] = arg[u]
    BY <2>1 DEF SeenInv
  <2>3. CASE arg[u] # k
    <3>1. seen'[u][arg[u]] = seen[u][arg[u]] BY <1>1, <2>1, <2>3
    <3> QED BY <2>1, <2>2, <2>3, <3>1
  <2>4. CASE arg[u] = k
    <3>1. seen[u][k] # {} BY <2>2, <2>4
    <3>2. seen'[u][k] = seen[u][k] \cup {v} BY <3>1, <1>1
    <3> QED BY <2>1, <2>2, <2>4, <3>2
  <2> QED BY <2>3, <2>4
<1>3. ASSUME NEW u \in Threads, NEW x \in Keys, pc'[u] # "get" \/ x # arg'[u]
      PROVE  seen'[u][x] = {}
  <2>1. pc[u] # "get" \/ x # arg[u] BY <1>3
  <2>2. seen[u][x] = {} BY <2>1 DEF SeenInv
  <2> QED BY <2>2, <1>1
<1>4. \A u \in Threads : pc'[u] # "copy_to_user" => ret'[u] = NULL
  BY <1>1 DEF SeenInv
<1> QED BY <1>2, <1>3, <1>4 DEF SeenInv

\* The lists are disjoint, and no entry points to itself.
LEMMA ListsApart ==
  ASSUME IInv
  PROVE  /\ next \in Pointers
         /\ \A b \in Buckets : head[b] \in Links /\ List(b) \in SUBSET Entries
         /\ \A b, c \in Buckets : \A n \in List(b) : n \in List(c) => b = c
         /\ \A b \in Buckets : \A n \in List(b) :
               /\ next[n] \in Links /\ next[n] # n
               /\ n \notin Chain(next, next[n])
<1> USE DEF IInv
<1>1. next \in Pointers BY DEF TypeOK, Pointers
<1>2. ASSUME NEW b \in Buckets
      PROVE  head[b] \in Links /\ List(b) \in SUBSET Entries
  BY <1>1, ChainClosed DEF TypeOK, List
<1>3. \A b, c \in Buckets : \A n \in List(b) : n \in List(c) => b = c
  BY DEF ListsInv
<1>4. ASSUME NEW b \in Buckets, NEW n \in List(b)
      PROVE  /\ next[n] \in Links /\ next[n] # n
             /\ n \notin Chain(next, next[n])
  <2>1. n \notin Chain(next, next[n]) BY DEF ListsInv
  <2>2. n \in Entries /\ next[n] \in Links /\ n # NULL
    BY <1>1, <1>2, PeAssumption DEF Pointers
  <2>3. next[n] # NULL => next[n] \in Chain(next, next[n])
    BY <1>1, <2>2, ChainClosed
  <2> QED BY <2>1, <2>2, <2>3
<1> QED BY <1>1, <1>2, <1>3, <1>4

LEMMA RemoveKeeps ==
  ASSUME IInv, NEW t \in Threads, NEW k \in Keys, pe_map_remove(t, k)
  PROVE  IInv'
<1> USE DEF IInv
<1> DEFINE b == index[k]
<1>1. PICK old \in Found(k) : hlist_del_rcu(b, old) /\ Retire(t, old)
  BY DEF pe_map_remove
<1>2. /\ module = "live" /\ pc[t] = "idle"
      /\ num' = [num EXCEPT ![b] = @ - 1]
      /\ Remember(k, NULL)
      /\ UNCHANGED <<used, key, value, call_rcu_list, readers, module>>
      /\ pc' = [pc EXCEPT ![t] = "call_rcu"]
      /\ arg' = [arg EXCEPT ![t] = NULL]
      /\ entry' = [entry EXCEPT ![t] = old]
  BY <1>1 DEF pe_map_remove, Retire, rcu
<1>3. b \in Buckets /\ old \in List(b) /\ key[old] = k
  BY WalkIsChain, PeAssumption
<1>4. /\ head' = [head EXCEPT ![b] = IF @ = old THEN next[old] ELSE @]
      /\ Unlinked(next, next', List(b), old)
  BY <1>1, WalkIsChain DEF hlist_del_rcu, Unlinked, List
<1> HIDE DEF b
<1>5. /\ next \in Pointers
      /\ \A c \in Buckets : head[c] \in Links /\ List(c) \in SUBSET Entries
      /\ \A c, d \in Buckets : \A n \in List(c) : n \in List(d) => c = d
      /\ \A c \in Buckets : \A n \in List(c) :
            /\ next[n] \in Links /\ next[n] # n
            /\ n \notin Chain(next, next[n])
  BY ListsApart
<1>6. old \in Entries /\ next[old] \in Links BY <1>3, <1>5
<1>7. next' \in Pointers BY <1>4, <1>5, <1>6 DEF Unlinked, Pointers
<1>8. map' \in [Keys -> Values \cup {NULL}]
      /\ map'[k] = NULL
      /\ (\A x \in Keys \ {k} : map'[x] = map[x])
      /\ seen' \in [Threads -> [Keys -> SUBSET (Values \cup {NULL})]]
      /\ ret' = ret
  BY <1>2, RememberSets
<1>9. List(b)' = List(b) \ {old}
  <2>1. head'[b] = IF head[b] = old THEN next[old] ELSE head[b]
    BY <1>3, <1>4 DEF TypeOK
  <2> QED BY <1>3, <1>4, <1>5, <1>7, <2>1, UnlinkList DEF List
<1>10. ASSUME NEW c \in Buckets \ {b} PROVE List(c)' = List(c)
  <2>1. head'[c] = head[c] BY <1>4 DEF TypeOK
  <2>2. \A n \in List(c) : next'[n] = next[n]
    BY <1>3, <1>4, <1>5 DEF Unlinked
  <2> QED BY <2>1, <2>2, <1>5, <1>7, ChainFrame DEF List
<1>11. \A c \in Buckets : List(c)' \subseteq List(c) BY <1>9, <1>10
<1>12. ASSUME NEW u \in Threads \ {t}
       PROVE  /\ pc'[u] = pc[u] /\ arg'[u] = arg[u] /\ entry'[u] = entry[u]
              /\ Ahead(u)' \subseteq Ahead(u)
              /\ Ahead(u) \subseteq Ahead(u)' \cup {old}
  <2>1. pc'[u] = pc[u] /\ arg'[u] = arg[u] /\ entry'[u] = entry[u]
    BY <1>2 DEF TypeOK
  <2>2. entry[u] \in Links BY DEF TypeOK
  <2> QED BY <1>3, <1>4, <1>5, <1>7, <2>1, <2>2, UnlinkWalk DEF Ahead
<1>13. pc'[t] = "call_rcu" /\ entry'[t] = old BY <1>2 DEF TypeOK
<1>14. num'[b] = num[b] - 1 /\ \A c \in Buckets \ {b} : num'[c] = num[c]
  BY <1>2, <1>3 DEF TypeOK
<1>15. Cardinality(List(b)') = Cardinality(List(b)) - 1
       /\ Cardinality(List(b)) \in Nat /\ Cardinality(List(b)') \in Nat
  <2>1. IsFiniteSet(List(b)) BY <1>3, <1>5, PeAssumption, FS_Subset
  <2>2. IsFiniteSet(List(b)') BY <2>1, <1>9, FS_RemoveElement
  <2> QED BY <1>3, <1>9, <2>1, <2>2, FS_RemoveElement, FS_CardinalityType
<1>16. num[b] = Cardinality(List(b)) BY <1>2, <1>3 DEF CountInv, InUse
<1>17. TypeOK'
  <2>1. num' \in [Buckets -> Nat] BY <1>2, <1>14, <1>15, <1>16 DEF TypeOK
  <2>2. head' \in [Buckets -> Links] BY <1>4, <1>6 DEF TypeOK
  <2> QED BY <2>1, <2>2, <1>2, <1>6, <1>7, <1>8 DEF TypeOK, Pointers, Links
<1>18. ListsInv'
  <2>1. ASSUME NEW c \in Buckets, NEW n \in List(c)'
        PROVE  n \notin Chain(next', next'[n])
    <3>1. n \in List(c) /\ n \in Entries BY <1>5, <1>11
    <3> QED BY <3>1, <1>3, <1>4, <1>5, <1>7, UnlinkAcyclic
  <2> QED BY <2>1, <1>2, <1>11 DEF ListsInv
<1>19. CountInv' BY <1>10, <1>14, <1>15, <1>16, <1>2 DEF CountInv, InUse
<1>20. /\ ~ Holds(t) /\ Holds(t)'
       /\ \A u \in Threads \ {t} : Holds(u)' <=> Holds(u)
  BY <1>2, <1>12, <1>13 DEF Holds
<1>21. old \in used /\ old \notin call_rcu_list BY <1>3 DEF ListsInv
<1>22. OwnersInv'
  <2>1. \A u \in Threads \ {t} : Holds(u) => entry[u] # old
    BY <1>3 DEF OwnersInv, HeldInv
  <2>2. \A c \in Buckets : old \notin List(c)'
    BY <1>3, <1>5, <1>9, <1>10
  <2>3. HeldInv'
    BY <1>2, <1>11, <1>12, <1>13, <1>20, <1>21, <2>2 DEF OwnersInv, HeldInv
  <2>4. FreshInv' BY <1>2, <1>12, <1>13 DEF OwnersInv, FreshInv
  <2>5. DistinctInv'
    BY <1>12, <1>13, <1>20, <2>1 DEF OwnersInv, DistinctInv
  <2>6. OwnedInv'
    <3> SUFFICES ASSUME NEW n \in used, n \notin call_rcu_list, n # old,
                        \A c \in Buckets : n \notin List(c)'
                 PROVE  \E u \in Threads : Holds(u)' /\ entry'[u] = n
      BY <1>2, <1>13, <1>20 DEF OwnedInv
    <3>1. \A c \in Buckets : n \notin List(c) BY <1>9, <1>10
    <3>2. PICK u \in Threads : Holds(u) /\ entry[u] = n
      BY <3>1 DEF OwnersInv, OwnedInv
    <3> QED BY <3>2, <1>12, <1>20
  <2> QED BY <2>3, <2>4, <2>5, <2>6 DEF OwnersInv
<1>23. ReadersInv' BY <1>2, <1>12, <1>13 DEF ReadersInv
<1>24. PhaseInv' BY <1>2 DEF PhaseInv, InUse
<1>25. MapInv'
  <2> SUFFICES ASSUME NEW x \in Keys
               PROVE  \/ \E n \in List(index[x])' : key[n] = x /\ map'[x] = value[n]
                      \/ map'[x] = NULL /\ \A n \in List(index[x])' : key[n] # x
    BY <1>2 DEF MapInv
  <2>1. index[x] \in Buckets BY PeAssumption
  <2>2. CASE x = k
    <3>1. \A n \in List(b) : key[n] = k => n = old BY <1>3 DEF ListsInv
    <3> QED BY <2>2, <3>1, <1>8, <1>9 DEF b
  <2>3. CASE x # k
    <3>1. \/ \E n \in List(index[x]) : key[n] = x /\ map[x] = value[n]
          \/ map[x] = NULL /\ \A n \in List(index[x]) : key[n] # x
      BY <1>2 DEF MapInv, InUse
    <3>2. map'[x] = map[x] BY <1>8, <2>3
    <3>3. \A n \in List(index[x]) : key[n] = x => n \in List(index[x])'
      BY <1>3, <1>9, <1>10, <2>1, <2>3
    <3> QED BY <2>1, <3>1, <3>2, <3>3, <1>11
  <2> QED BY <2>2, <2>3
<1>26. SeenInv'
  BY <1>2, <1>3, <1>12, <1>13, RememberKeepsSeen
<1> QED BY <1>17, <1>18, <1>19, <1>22, <1>23, <1>24, <1>25, <1>26


\* What the thread brings to the lock.
LEMMA NewEntry ==
  ASSUME IInv, NEW t \in Threads, pc[t] = "insert"
  PROVE  /\ InUse
         /\ arg[t] \in Keys /\ index[arg[t]] \in Buckets
         /\ entry[t] \in Entries /\ entry[t] \in used
         /\ entry[t] \notin call_rcu_list
         /\ \A c \in Buckets : entry[t] \notin List(c)
         /\ \A u \in Threads \ {t} : Holds(u) => entry[u] # entry[t]
         /\ \A u \in Threads : pc[u] = "get" => entry[t] \notin Ahead(u)
         /\ key[entry[t]] = arg[t] /\ value[entry[t]] \in Values
<1> USE DEF IInv
<1>1. Holds(t) BY DEF Holds
<1>2. InUse BY DEF PhaseInv
<1>3. arg[t] \in Keys /\ index[arg[t]] \in Buckets
  BY PeAssumption DEF OwnersInv, FreshInv
<1>4. /\ entry[t] \in Entries /\ entry[t] \in used
      /\ entry[t] \notin call_rcu_list
      /\ \A c \in Buckets : entry[t] \notin List(c)
  BY <1>1 DEF OwnersInv, HeldInv, TypeOK
<1>5. \A u \in Threads \ {t} : Holds(u) => entry[u] # entry[t]
  BY <1>1 DEF OwnersInv, DistinctInv
<1>6. \A u \in Threads : pc[u] = "get" => entry[t] \notin Ahead(u)
  BY DEF ReadersInv
<1> QED BY <1>2, <1>3, <1>4, <1>5, <1>6 DEF OwnersInv, FreshInv

\* The key is new to the map: no walk that has begun changes.
LEMMA InsertNewKeeps ==
  ASSUME IInv, NEW t \in Threads, pc[t] = "insert",
         NEW new, NEW k, NEW b, new = entry[t], k = arg[t], b = index[k],
         Found(k) = {},
         next' = [next EXCEPT ![new] = head[b]],
         head' = [head EXCEPT ![b] = new],
         num' = [num EXCEPT ![b] = @ + 1],
         Done(t),
         Remember(k, value[new]),
         UNCHANGED <<used, key, value, rcu, module>>
  PROVE  IInv'
<1> USE DEF IInv
<1>1. /\ InUse /\ k \in Keys /\ b \in Buckets
      /\ new \in Entries /\ new \in used /\ new \notin call_rcu_list
      /\ \A c \in Buckets : new \notin List(c)
      /\ \A u \in Threads \ {t} : Holds(u) => entry[u] # new
      /\ \A u \in Threads : pc[u] = "get" => new \notin Ahead(u)
      /\ key[new] = k /\ value[new] \in Values
  BY NewEntry
<1>2. /\ next' = [next EXCEPT ![new] = head[b]]
      /\ head' = [head EXCEPT ![b] = new]
      /\ num' = [num EXCEPT ![b] = @ + 1]
      /\ Remember(k, value[new])
      /\ UNCHANGED <<used, key, value, call_rcu_list, readers, module>>
      /\ pc' = [pc EXCEPT ![t] = "idle"]
      /\ arg' = [arg EXCEPT ![t] = NULL]
      /\ entry' = [entry EXCEPT ![t] = NULL]
  BY DEF Done, rcu
<1>3. \A n \in List(b) : key[n] # k BY WalkIsChain
<1>4. b = index[k] /\ new = entry[t] /\ k = arg[t] OBVIOUS
<1>5. /\ next \in Pointers
      /\ \A c \in Buckets : head[c] \in Links /\ List(c) \in SUBSET Entries
      /\ \A c \in Buckets : \A n \in List(c) :
            next[n] \in Links /\ n \notin Chain(next, next[n])
  BY ListsApart
<1>6. next' \in Pointers BY <1>1, <1>2, <1>5 DEF Pointers
<1>7. next'[new] = head[b] /\ \A n \in Entries \ {new} : next'[n] = next[n]
  BY <1>1, <1>2, <1>5 DEF Pointers
<1>8. ASSUME NEW f \in Links, new \notin Chain(next, f)
      PROVE  Chain(next', f) = Chain(next, f)
  <2>1. Chain(next, f) \in SUBSET Entries BY <1>5, ChainClosed
  <2>2. \A n \in Chain(next, f) : next'[n] = next[n] BY <2>1, <1>7, <1>8
  <2> QED BY <2>2, <1>5, <1>6, ChainFrame
<1>9. Chain(next', head[b]) = List(b) /\ List(b)' = {new} \cup List(b)
  <2>1. Chain(next', head[b]) = List(b) BY <1>1, <1>5, <1>8 DEF List
  <2>2. head'[b] = new BY <1>1, <1>2 DEF TypeOK
  <2>3. Chain(next', new) = {new} \cup Chain(next', next'[new])
    BY <1>1, <1>6, ChainFirst
  <2>4. List(b)' = Chain(next', new) BY <2>2 DEF List
  <2> QED BY <2>1, <2>3, <2>4, <1>7
<1>10. ASSUME NEW c \in Buckets \ {b} PROVE List(c)' = List(c)
  <2>1. head'[c] = head[c] BY <1>2 DEF TypeOK
  <2> QED BY <2>1, <1>1, <1>5, <1>8 DEF List
<1>11. ASSUME NEW u \in Threads \ {t}
       PROVE  /\ pc'[u] = pc[u] /\ arg'[u] = arg[u] /\ entry'[u] = entry[u]
              /\ pc[u] = "get" => Ahead(u)' = Ahead(u)
  <2>1. pc'[u] = pc[u] /\ arg'[u] = arg[u] /\ entry'[u] = entry[u]
    BY <1>2 DEF TypeOK
  <2>2. entry[u] \in Links BY DEF TypeOK
  <2> QED BY <1>1, <1>8, <2>1, <2>2 DEF Ahead
<1>12. pc'[t] = "idle" BY <1>2 DEF TypeOK
<1>13. /\ map' \in [Keys -> Values \cup {NULL}] /\ map'[k] = value[new]
       /\ \A x \in Keys \ {k} : map'[x] = map[x]
       /\ seen' \in [Threads -> [Keys -> SUBSET (Values \cup {NULL})]]
       /\ ret' = ret
  BY <1>1, <1>2, RememberSets
<1>14. TypeOK'
  <2>1. num' \in [Buckets -> Nat] BY <1>1, <1>2 DEF TypeOK
  <2>2. head' \in [Buckets -> Links] BY <1>1, <1>2 DEF TypeOK, Links
  <2> QED BY <2>1, <2>2, <1>2, <1>6, <1>13 DEF TypeOK, Pointers, Links
<1>15. ListsInv'
  <2>1. ASSUME NEW c \in Buckets, NEW n \in List(c)'
        PROVE  n \notin Chain(next', next'[n])
    <3>1. CASE n = new BY <3>1, <1>1, <1>7, <1>9
    <3>2. CASE n # new
      <4>1. n \in List(c) /\ n \in Entries BY <3>2, <1>5, <1>9, <1>10
      <4>2. Chain(next, next[n]) \subseteq List(c)
        BY <4>1, <1>5, ChainRest DEF List
      <4>3. Chain(next', next'[n]) = Chain(next, next[n])
        BY <3>2, <4>1, <4>2, <1>1, <1>5, <1>7, <1>8
      <4> QED BY <4>1, <4>3, <1>5
    <3> QED BY <3>1, <3>2
  <2>2. \A c \in Buckets : \A n \in List(c)' :
          n \in List(c) \/ (c = b /\ n = new)
    BY <1>9, <1>10
  <2>3. ASSUME NEW c \in Buckets, NEW n \in List(c)'
        PROVE  /\ n \in used /\ n \notin call_rcu_list
               /\ key[n] \in Keys /\ index[key[n]] = c
               /\ value[n] \in Values
    BY <1>1, <1>4, <2>2 DEF ListsInv
  <2>4. \A c \in Buckets : \A m, n \in List(c)' : key[m] = key[n] => m = n
    BY <1>1, <1>3, <2>2 DEF ListsInv
  <2> QED BY <2>1, <2>3, <2>4, <1>2 DEF ListsInv
<1>16. CountInv'
  <2>1. IsFiniteSet(List(b)) BY <1>1, <1>5, PeAssumption, FS_Subset
  <2>2. Cardinality(List(b)') = Cardinality(List(b)) + 1
    <3>1. List(b)' = List(b) \cup {new} BY <1>9
    <3> QED BY <2>1, <3>1, <1>1, FS_AddElement
  <2>3. num'[b] = num[b] + 1 /\ \A c \in Buckets \ {b} : num'[c] = num[c]
    BY <1>1, <1>2 DEF TypeOK
  <2> QED BY <2>2, <2>3, <1>1, <1>10 DEF CountInv
<1>17. /\ ~ Holds(t)'
       /\ \A u \in Threads \ {t} : Holds(u)' <=> Holds(u)
  BY <1>11, <1>12 DEF Holds
<1>18. OwnersInv'
  <2>1. HeldInv'
    BY <1>1, <1>2, <1>9, <1>10, <1>11, <1>17 DEF OwnersInv, HeldInv
  <2>2. FreshInv' BY <1>2, <1>11, <1>12 DEF OwnersInv, FreshInv
  <2>3. DistinctInv' BY <1>11, <1>17 DEF OwnersInv, DistinctInv
  <2>4. OwnedInv'
    <3> SUFFICES ASSUME NEW n \in used, n \notin call_rcu_list,
                        \A c \in Buckets : n \notin List(c)'
                 PROVE  \E u \in Threads : Holds(u)' /\ entry'[u] = n
      BY <1>2 DEF OwnedInv
    <3>1. n # new /\ \A c \in Buckets : n \notin List(c)
      BY <1>1, <1>9, <1>10
    <3>2. PICK u \in Threads : Holds(u) /\ entry[u] = n
      BY <3>1 DEF OwnersInv, OwnedInv
    <3> QED BY <3>1, <3>2, <1>4, <1>11, <1>17
  <2> QED BY <2>1, <2>2, <2>3, <2>4 DEF OwnersInv
<1>19. ReadersInv' BY <1>2, <1>11, <1>12 DEF ReadersInv
<1>20. PhaseInv' BY <1>1, <1>2 DEF PhaseInv, InUse
<1>21. MapInv'
  <2> SUFFICES ASSUME NEW x \in Keys
               PROVE  \/ \E n \in List(index[x])' : key[n] = x /\ map'[x] = value[n]
                      \/ map'[x] = NULL /\ \A n \in List(index[x])' : key[n] # x
    BY <1>2 DEF MapInv
  <2>1. index[x] \in Buckets BY PeAssumption
  <2>2. CASE x = k BY <2>2, <1>1, <1>4, <1>9, <1>13
  <2>3. CASE x # k
    <3>1. \/ \E n \in List(index[x]) : key[n] = x /\ map[x] = value[n]
          \/ map[x] = NULL /\ \A n \in List(index[x]) : key[n] # x
      BY <1>1 DEF MapInv
    <3>2. map'[x] = map[x] BY <1>13, <2>3
    <3>3. /\ \A n \in List(index[x]) : n \in List(index[x])'
          /\ \A n \in List(index[x])' : n \in List(index[x]) \/ n = new
      BY <1>9, <1>10, <2>1
    <3> QED BY <3>1, <3>2, <3>3, <1>1, <2>3
  <2> QED BY <2>2, <2>3
<1>22. SeenInv'
  <2>1. pc[t] # "get" /\ pc[t] # "copy_to_user" OBVIOUS
  <2> QED BY <2>1, <1>1, <1>2, <1>11, <1>12, RememberKeepsSeen
<1> QED BY <1>14, <1>15, <1>16, <1>18, <1>19, <1>20, <1>21, <1>22

\* The key's entry is replaced: a get that is before it comes to the new one.
LEMMA InsertReplacesKeeps ==
  ASSUME IInv, NEW t \in Threads, pc[t] = "insert",
         NEW new, NEW k, NEW b, new = entry[t], k = arg[t], b = index[k],
         NEW old \in Found(k),
         Relink(b, old, new),
         Retire(t, old),
         Remember(k, value[new]),
         UNCHANGED <<num, used, key, value, rcu, module>>
  PROVE  IInv'
<1> USE DEF IInv
<1>1. /\ InUse /\ k \in Keys /\ b \in Buckets
      /\ new \in Entries /\ new \in used /\ new \notin call_rcu_list
      /\ \A c \in Buckets : new \notin List(c)
      /\ \A u \in Threads \ {t} : Holds(u) => entry[u] # new
      /\ \A u \in Threads : pc[u] = "get" => new \notin Ahead(u)
      /\ key[new] = k /\ value[new] \in Values
  BY NewEntry
<1>2. /\ head' = [head EXCEPT ![b] = IF @ = old THEN new ELSE @]
      /\ Replaced(next, next', List(b), old, new)
      /\ Remember(k, value[new])
      /\ UNCHANGED <<num, used, key, value, call_rcu_list, readers, module>>
      /\ pc' = [pc EXCEPT ![t] = "call_rcu"]
      /\ arg' = [arg EXCEPT ![t] = NULL]
      /\ entry' = [entry EXCEPT ![t] = old]
  BY WalkIsChain DEF Relink, Retire, Replaced, List, rcu
<1>3. old \in List(b) /\ key[old] = k BY WalkIsChain
<1>4. b = index[k] /\ new = entry[t] /\ k = arg[t] OBVIOUS
<1>5. /\ next \in Pointers
      /\ \A c \in Buckets : head[c] \in Links /\ List(c) \in SUBSET Entries
      /\ \A c, d \in Buckets : \A n \in List(c) : n \in List(d) => c = d
      /\ \A c \in Buckets : \A n \in List(c) :
            /\ next[n] \in Links /\ next[n] # n
            /\ n \notin Chain(next, next[n])
  BY ListsApart
<1>6. /\ old \in Entries /\ next[old] \in Links /\ next[old] # old
      /\ old # new /\ old \notin Chain(next, next[old])
  BY <1>1, <1>3, <1>5
<1>7. next' \in Pointers BY <1>1, <1>2, <1>5, <1>6 DEF Replaced, Pointers, Links
<1>8. List(b)' = (List(b) \ {old}) \cup {new}
  <2>1. head'[b] = IF head[b] = old THEN new ELSE head[b]
    BY <1>1, <1>2 DEF TypeOK
  <2> QED BY <1>1, <1>2, <1>3, <1>5, <1>6, <1>7, <2>1, ReplaceList DEF List
<1>9. ASSUME NEW c \in Buckets \ {b}
      PROVE  /\ List(c)' = List(c)
             /\ \A n \in List(c) : next'[n] = next[n]
  <2>1. head'[c] = head[c] BY <1>2 DEF TypeOK
  <2>2. \A n \in List(c) : next'[n] = next[n]
    BY <1>1, <1>2, <1>5 DEF Replaced
  <2> QED BY <2>1, <2>2, <1>5, <1>7, ChainFrame DEF List
<1>10. ASSUME NEW u \in Threads \ {t}
       PROVE  /\ pc'[u] = pc[u] /\ arg'[u] = arg[u] /\ entry'[u] = entry[u]
              /\ pc[u] = "get" =>
                   /\ Ahead(u)' \subseteq Ahead(u) \cup {new}
                   /\ Ahead(u) \subseteq Ahead(u)' \cup {old}
                   /\ old \in Ahead(u) => old \in Ahead(u)' \/ new \in Ahead(u)'
  <2>1. pc'[u] = pc[u] /\ arg'[u] = arg[u] /\ entry'[u] = entry[u]
    BY <1>2 DEF TypeOK
  <2>2. entry[u] \in Links BY DEF TypeOK
  <2>3. ASSUME pc[u] = "get" PROVE new \notin Chain(next, entry[u])
    BY <1>1, <2>3 DEF Ahead
  <2> QED BY <1>1, <1>2, <1>3, <1>5, <1>6, <1>7, <2>1, <2>2, <2>3, ReplaceWalk
          DEF Ahead
<1>11. pc'[t] = "call_rcu" /\ entry'[t] = old BY <1>2 DEF TypeOK
<1>12. /\ map' \in [Keys -> Values \cup {NULL}] /\ map'[k] = value[new]
       /\ \A x \in Keys \ {k} : map'[x] = map[x]
       /\ seen' \in [Threads -> [Keys -> SUBSET (Values \cup {NULL})]]
       /\ ret' = ret
  BY <1>1, <1>2, RememberSets
<1>13. TypeOK'
  <2>1. head' \in [Buckets -> Links] BY <1>1, <1>2 DEF TypeOK, Links
  <2> QED BY <2>1, <1>2, <1>6, <1>7, <1>12 DEF TypeOK, Pointers, Links
<1>14. \A c \in Buckets : \A n \in List(c)' :
          (n \in List(c) /\ n # old) \/ (c = b /\ n = new)
  BY <1>1, <1>3, <1>5, <1>8, <1>9
<1>15. ListsInv'
  <2>1. ASSUME NEW c \in Buckets, NEW n \in List(c)'
        PROVE  n \notin Chain(next', next'[n])
    <3>1. CASE c = b
      <4>1. n # new => n \notin Chain(next, next[n])
        BY <3>1, <1>1, <1>5, <1>8
      <4> QED BY <3>1, <4>1, <1>1, <1>2, <1>3, <1>5, <1>6, <1>7, <1>8,
                 ReplaceAcyclic DEF List
    <3>2. CASE c # b
      <4>1. n \in List(c) /\ next'[n] = next[n] /\ next[n] \in Links
        BY <3>2, <1>5, <1>9
      <4>2. Chain(next, next[n]) \subseteq List(c)
        BY <4>1, <1>5, ChainRest DEF List
      <4>3. Chain(next', next[n]) = Chain(next, next[n])
        BY <3>2, <4>1, <4>2, <1>5, <1>7, <1>9, ChainFrame
      <4> QED BY <4>1, <4>3, <1>5
    <3> QED BY <3>1, <3>2
  <2>2. ASSUME NEW c \in Buckets, NEW n \in List(c)'
        PROVE  /\ n \in used /\ n \notin call_rcu_list
               /\ key[n] \in Keys /\ index[key[n]] = c
               /\ value[n] \in Values
    BY <1>1, <1>4, <1>14 DEF ListsInv
  <2>3. \A n \in List(b) : key[n] = k => n = old
    BY <1>1, <1>3 DEF ListsInv
  <2>4. \A c \in Buckets : \A m, n \in List(c)' : key[m] = key[n] => m = n
    BY <1>1, <1>14, <2>3 DEF ListsInv
  <2> QED BY <2>1, <2>2, <2>4, <1>2 DEF ListsInv
<1>16. CountInv'
  <2>1. IsFiniteSet(List(b)) BY <1>1, <1>5, PeAssumption, FS_Subset
  <2>2. /\ IsFiniteSet(List(b) \ {old})
        /\ Cardinality(List(b) \ {old}) = Cardinality(List(b)) - 1
    BY <2>1, <1>3, FS_RemoveElement
  <2>3. Cardinality((List(b) \ {old}) \cup {new}) = Cardinality(List(b) \ {old}) + 1
    BY <2>2, <1>1, FS_AddElement
  <2>4. Cardinality(List(b)) \in Nat BY <2>1, FS_CardinalityType
  <2>5. Cardinality(List(b)') = Cardinality(List(b))
    BY <2>2, <2>3, <2>4, <1>8
  <2> QED BY <2>5, <1>1, <1>2, <1>9 DEF CountInv
<1>17. /\ Holds(t)'
       /\ \A u \in Threads \ {t} : Holds(u)' <=> Holds(u)
  BY <1>10, <1>11 DEF Holds
<1>18. old \in used /\ old \notin call_rcu_list BY <1>1, <1>3 DEF ListsInv
<1>19. OwnersInv'
  <2>1. \A u \in Threads \ {t} : Holds(u) => entry[u] # old
    BY <1>1, <1>3 DEF OwnersInv, HeldInv
  <2>2. \A c \in Buckets : old \notin List(c)' BY <1>6, <1>14
  <2>3. ASSUME NEW u \in Threads, Holds(u)'
        PROVE  /\ entry'[u] \in used /\ entry'[u] \notin call_rcu_list
               /\ \A c \in Buckets : entry'[u] \notin List(c)'
    <3>1. CASE u = t BY <3>1, <2>2, <1>11, <1>18
    <3>2. CASE u # t
      BY <3>2, <2>3, <1>1, <1>10, <1>14, <1>17 DEF OwnersInv, HeldInv
    <3> QED BY <3>1, <3>2
  <2>4. HeldInv' BY <2>3, <1>2 DEF OwnersInv, HeldInv
  <2>5. FreshInv' BY <1>2, <1>10, <1>11 DEF OwnersInv, FreshInv
  <2>6. DistinctInv'
    BY <1>10, <1>11, <1>17, <2>1 DEF OwnersInv, DistinctInv
  <2>7. OwnedInv'
    <3> SUFFICES ASSUME NEW n \in used, n \notin call_rcu_list, n # old,
                        \A c \in Buckets : n \notin List(c)'
                 PROVE  \E u \in Threads : Holds(u)' /\ entry'[u] = n
      BY <1>2, <1>11, <1>17 DEF OwnedInv
    <3>1. n # new /\ \A c \in Buckets : n \notin List(c)
      BY <1>1, <1>8, <1>9
    <3>2. PICK u \in Threads : Holds(u) /\ entry[u] = n
      BY <3>1 DEF OwnersInv, OwnedInv
    <3> QED BY <3>1, <3>2, <1>4, <1>10, <1>17
  <2> QED BY <2>4, <2>5, <2>6, <2>7 DEF OwnersInv
<1>20. ReadersInv'
  <2> SUFFICES ASSUME NEW u \in Threads, pc'[u] = "get"
               PROVE  /\ arg'[u] \in Keys
                      /\ \A n \in Ahead(u)' :
                            /\ n \in used'
                            /\ n \in call_rcu_list' => u \in readers'[n]
                            /\ \A w \in Threads : pc'[w] = "insert" => n # entry'[w]
    BY DEF ReadersInv
  <2>1. u # t /\ pc[u] = "get" BY <1>10, <1>11
  <2>2. \A w \in Threads : pc'[w] = "insert" =>
          w # t /\ pc[w] = "insert" /\ entry'[w] = entry[w] /\ entry[w] # new
    BY <1>1, <1>10, <1>11 DEF Holds
  <2>3. ASSUME NEW n \in Ahead(u)'
        PROVE  /\ n \in used
               /\ n \in call_rcu_list => u \in readers[n]
               /\ \A w \in Threads : pc'[w] = "insert" => n # entry'[w]
    <3>1. n \in Ahead(u) \/ n = new BY <2>1, <1>10
    <3> QED BY <3>1, <2>1, <2>2, <1>1 DEF ReadersInv
  <2> QED BY <2>1, <2>3, <1>2, <1>10 DEF ReadersInv
<1>21. PhaseInv' BY <1>1, <1>2 DEF PhaseInv, InUse
<1>22. MapInv'
  <2> SUFFICES ASSUME NEW x \in Keys
               PROVE  \/ \E n \in List(index[x])' : key[n] = x /\ map'[x] = value[n]
                      \/ map'[x] = NULL /\ \A n \in List(index[x])' : key[n] # x
    BY <1>2 DEF MapInv
  <2>1. index[x] \in Buckets BY PeAssumption
  <2>2. CASE x = k BY <2>2, <1>1, <1>4, <1>8, <1>12
  <2>3. CASE x # k
    <3>1. \/ \E n \in List(index[x]) : key[n] = x /\ map[x] = value[n]
          \/ map[x] = NULL /\ \A n \in List(index[x]) : key[n] # x
      BY <1>1 DEF MapInv
    <3>2. map'[x] = map[x] BY <1>12, <2>3
    <3>3. /\ \A n \in List(index[x]) : n # old => n \in List(index[x])'
          /\ \A n \in List(index[x])' : n \in List(index[x]) \/ n = new
      BY <1>8, <1>9, <2>1
    <3> QED BY <3>1, <3>2, <3>3, <1>1, <1>3, <2>3
  <2> QED BY <2>2, <2>3
<1>23. SeenInv'
  <2>1. pc[t] # "get" /\ pc[t] # "copy_to_user" OBVIOUS
  <2>2. \A u \in Threads : pc[u] = "get" =>
          /\ \A n \in Ahead(u)' :
               n \in Ahead(u) \/ (key[n] = k /\ value[n] = value[new])
          /\ \A n \in Ahead(u) :
               \/ n \in Ahead(u)'
               \/ key[n] = k /\ \E m \in Ahead(u)' : key[m] = k
    BY <2>1, <1>1, <1>3, <1>10
  <2> QED BY <2>1, <2>2, <1>1, <1>2, <1>10, <1>11, RememberKeepsSeen
<1> QED BY <1>13, <1>15, <1>16, <1>19, <1>20, <1>21, <1>22, <1>23


LEMMA InsertKeeps ==
  ASSUME IInv, NEW t \in Threads, pe_map_insert(t)
  PROVE  IInv'
<1>1. PICK new, k, b : new = entry[t] /\ k = arg[t] /\ b = index[k] OBVIOUS
<1>2. /\ pc[t] = "insert"
      /\ \/ \E old \in Found(k) :
               /\ Relink(b, old, new)
               /\ Retire(t, old)
               /\ UNCHANGED num
         \/ /\ Found(k) = {}
            /\ next' = [next EXCEPT ![new] = head[b]]
            /\ head' = [head EXCEPT ![b] = new]
            /\ num' = [num EXCEPT ![b] = @ + 1]
            /\ Done(t)
      /\ Remember(k, value[new])
      /\ UNCHANGED <<used, key, value, rcu, module>>
  BY <1>1 DEF pe_map_insert
<1>3. CASE \E old \in Found(k) :
              Relink(b, old, new) /\ Retire(t, old) /\ UNCHANGED num
  BY <1>1, <1>2, <1>3, InsertReplacesKeeps
<1>4. CASE /\ Found(k) = {}
           /\ next' = [next EXCEPT ![new] = head[b]]
           /\ head' = [head EXCEPT ![b] = new]
           /\ num' = [num EXCEPT ![b] = @ + 1]
           /\ Done(t)
  BY <1>1, <1>2, <1>4, InsertNewKeeps
<1> QED BY <1>2, <1>3, <1>4

LEMMA StutterKeeps == IInv /\ UNCHANGED vars => IInv'
<1> SUFFICES ASSUME IInv, UNCHANGED vars PROVE IInv' OBVIOUS
<1> USE DEF IInv, vars, fields, threads, rcu, history
<1>1. TypeOK' BY DEF TypeOK
<1>2. ListsInv' BY DEF ListsInv, List
<1>3. CountInv' BY DEF CountInv, List, InUse
<1>4. OwnersInv'
  BY DEF OwnersInv, HeldInv, FreshInv, DistinctInv, OwnedInv, Holds, List
<1>5. ReadersInv' BY DEF ReadersInv, Ahead
<1>6. PhaseInv' BY DEF PhaseInv, InUse
<1>7. MapInv' BY DEF MapInv, InUse, List
<1>8. SeenInv' BY DEF SeenInv, Ahead
<1> QED BY <1>1, <1>2, <1>3, <1>4, <1>5, <1>6, <1>7, <1>8

LEMMA NextKeeps == IInv /\ [Next]_vars => IInv'
<1> SUFFICES ASSUME IInv, [Next]_vars PROVE IInv' OBVIOUS
<1>1. ASSUME NEW t \in Threads, Thread(t) PROVE IInv'
  BY <1>1, AllocKeeps, InsertKeeps, RemoveKeeps, CallRcuKeeps, GetKeeps,
     GetNextKeeps, UnlockKeeps, CopyKeeps DEF Thread
<1>2. ASSUME NEW n \in Entries, pe_entry_free_rcu(n) PROVE IInv'
  BY <1>2, FreeRcuKeeps
<1>3. ASSUME Exit PROVE IInv' BY <1>3, ExitKeeps, DestroyKeeps DEF Exit
<1>4. ASSUME UNCHANGED vars PROVE IInv' BY <1>4, StutterKeeps
<1> QED BY <1>1, <1>2, <1>3, <1>4 DEF Next

LEMMA SpecKeeps == Spec => []IInv
BY InitKeeps, NextKeeps, PTL DEF Spec

(***************************************************************************)
(* A get of pe_map_get never stands on an entry that pe_entry_free_rcu has *)
(* freed, however inserts, removes and callbacks run around it.            *)
(***************************************************************************)
THEOREM NoGetUsesFreedMemory == Spec => []NoUseAfterFree
<1>1. IInv => NoUseAfterFree
  <2> SUFFICES ASSUME IInv, NEW t \in Threads, pc[t] = "get", entry[t] # NULL
               PROVE  entry[t] \in used
    BY DEF NoUseAfterFree, InGet
  <2>1. next \in Pointers /\ entry[t] \in Links BY DEF IInv, TypeOK, Pointers
  <2>2. entry[t] \in Ahead(t) BY <2>1, ChainClosed DEF Ahead
  <2> QED BY <2>2 DEF IInv, ReadersInv
<1> QED BY <1>1, SpecKeeps, PTL

(***************************************************************************)
(* The buckets list allocated entries of their own keys, one per key, and  *)
(* count them; kmem_cache_destroy finds the cache empty.                   *)
(***************************************************************************)
THEOREM MapStaysIntact == Spec => []MapIntact
<1>1. IInv => MapIntact
  <2> SUFFICES ASSUME IInv PROVE MapIntact OBVIOUS
  <2> USE DEF IInv
  <2>1. \A b : Walk(head[b]) = List(b) BY WalkIsChain DEF List
  <2>2. module # "exited" /\ module # "flush" => InUse BY DEF TypeOK, InUse
  <2>3. BucketsOK
    BY <2>1, <2>2 DEF BucketsOK, ListsInv, CountInv
  <2>4. CacheEmptyAtExit
    BY DEF CacheEmptyAtExit, PhaseInv, OwnersInv, HeldInv
  <2> QED BY <2>3, <2>4 DEF MapIntact
<1> QED BY <1>1, SpecKeeps, PTL

-----------------------------------------------------------------------------
(* The refinement of PeMap. *)

LEMMA StepIsMapStep ==
  ASSUME IInv, Next
  PROVE  Map!Next \/ UNCHANGED history
<1> USE DEF IInv
<1>1. ASSUME NEW t \in Threads, Thread(t) PROVE Map!Next \/ UNCHANGED history
  <2>1. ASSUME NEW k \in Keys, NEW v \in Values, kmem_cache_alloc(t, k, v)
        PROVE  UNCHANGED history
    BY <2>1 DEF kmem_cache_alloc
  <2>2. ASSUME pe_map_insert(t) PROVE Map!Next
    <3>1. pc[t] = "insert" /\ Remember(arg[t], value[entry[t]])
      BY <2>2 DEF pe_map_insert
    <3>2. arg[t] \in Keys /\ value[entry[t]] \in Values BY <3>1, NewEntry
    <3>3. Map!Put(arg[t], value[entry[t]]) BY <3>1 DEF Remember, Map!Put
    <3> QED BY <3>2, <3>3 DEF Map!Next
  <2>3. ASSUME NEW k \in Keys, pe_map_remove(t, k) PROVE Map!Next
    <3>1. Map!Put(k, NULL) BY <2>3 DEF pe_map_remove, Remember, Map!Put
    <3> QED BY <3>1 DEF Map!Next
  <2>4. ASSUME NEW k \in Keys, pe_map_get(t, k) PROVE Map!Next
    <3>1. \A x \in Keys : seen[t][x] = {} BY <2>4 DEF pe_map_get, SeenInv
    <3>2. Map!Call(t, k) BY <2>4, <3>1 DEF pe_map_get, Map!Call
    <3> QED BY <3>2 DEF Map!Next
  <2>5. ASSUME rcu_read_unlock(t) PROVE Map!Next
    <3>1. pc[t] = "get" /\ arg[t] \in Keys BY <2>5 DEF rcu_read_unlock, ReadersInv
    <3>2. next \in Pointers /\ entry[t] \in Links BY DEF TypeOK, Pointers
    <3>3. CASE entry[t] # NULL
      <4>1. entry[t] \in Ahead(t) BY <3>2, <3>3, ChainClosed DEF Ahead
      <4>2. key[entry[t]] = arg[t] BY <2>5, <3>3 DEF rcu_read_unlock
      <4>3. value[entry[t]] \in seen[t][arg[t]] BY <3>1, <4>1, <4>2 DEF SeenInv
      <4>4. value[entry[t]] \in Values \cup {NULL} BY <3>2, <3>3 DEF TypeOK, Links
      <4>5. Map!Found(t, arg[t], value[entry[t]])
        BY <2>5, <3>3, <4>3 DEF rcu_read_unlock, Map!Found
      <4> QED BY <3>1, <4>4, <4>5 DEF Map!Next
    <3>4. CASE entry[t] = NULL
      <4>1. Ahead(t) = {} BY <3>4, ChainNull DEF Ahead
      <4>2. NULL \in seen[t][arg[t]] BY <3>1, <4>1 DEF SeenInv
      <4>3. ret' = ret BY <2>5, <3>4 DEF rcu_read_unlock
      <4>4. ret[t] = NULL BY <3>1 DEF SeenInv
      <4>5. ret' = [ret EXCEPT ![t] = NULL] BY <4>3, <4>4 DEF TypeOK
      <4>6. Map!Found(t, arg[t], NULL)
        BY <2>5, <4>2, <4>5 DEF rcu_read_unlock, Map!Found
      <4> QED BY <3>1, <4>6 DEF Map!Next
    <3> QED BY <3>3, <3>4
  <2>6. ASSUME copy_to_user(t) PROVE Map!Next
    <3>1. Map!Return(t) BY <2>6 DEF copy_to_user, Map!Return
    <3> QED BY <3>1 DEF Map!Next
  <2>7. ASSUME call_rcu(t) \/ get_next(t) PROVE UNCHANGED history
    BY <2>7 DEF call_rcu, get_next
  <2> QED BY <1>1, <2>1, <2>2, <2>3, <2>4, <2>5, <2>6, <2>7 DEF Thread
<1>2. ASSUME NEW n \in Entries, pe_entry_free_rcu(n) PROVE UNCHANGED history
  BY <1>2 DEF pe_entry_free_rcu
<1>3. ASSUME Exit PROVE Map!Next \/ UNCHANGED history
  <2>1. ASSUME pe_map_flush PROVE Map!Next
    <3>1. \A t \in Threads, k \in Keys : seen[t][k] = {}
      BY <2>1 DEF pe_map_flush, SeenInv
    <3>2. Map!Destroy BY <2>1, <3>1 DEF pe_map_flush, Map!Destroy
    <3> QED BY <3>2 DEF Map!Next
  <2> QED BY <1>3, <2>1 DEF Exit, proc_entry_hashmap2_exit, pe_map_destroy
<1> QED BY <1>1, <1>2, <1>3 DEF Next

(***************************************************************************)
(* insert, remove and get of proc_entry_hashmap2 are linearizable: a get   *)
(* that runs while its key is replaced or removed returns a value the key  *)
(* had during the call, and finds a key that is there all the time.        *)
(***************************************************************************)
THEOREM ImplementsMap == Spec => MapSpec
<1>1. Init => Map!Init BY DEF Init, Map!Init
<1>2. IInv /\ [Next]_vars => [Map!Next]_(Map!vars)
  <2> SUFFICES ASSUME IInv, [Next]_vars PROVE Map!Next \/ UNCHANGED history
    BY DEF Map!vars, history
  <2>1. CASE Next BY <2>1, StepIsMapStep
  <2>2. CASE UNCHANGED vars BY <2>2 DEF vars
  <2> QED BY <2>1, <2>2
<1> QED BY <1>1, <1>2, SpecKeeps, PTL DEF Spec, MapSpec, Map!Spec


=============================================================================
