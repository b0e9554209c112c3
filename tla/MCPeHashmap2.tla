---------------------------- MODULE MCPeHashmap2 ----------------------------
(* PeHashmap2 with one bucket, so that all keys collide. *)
EXTENDS PeHashmap2, TLC

CONSTANT bucket

OneBucket == [k \in Keys |-> bucket]

Symmetry == Permutations(Threads) \cup Permutations(Entries)
               \cup Permutations(Values) \cup Permutations(Keys)
=============================================================================
