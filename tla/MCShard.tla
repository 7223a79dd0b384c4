------------------------------ MODULE MCShard ------------------------------
(* Instances of Shard for TLC. *)
EXTENDS Shard, TLC

CONSTANTS a1, a2, s1, s2, r1, r2, r3, k1

OneShard    == [a \in Auctions |-> s1]
TwoShards   == [a \in Auctions |-> IF a = a1 THEN s1 ELSE s2]
SkewErrors  == {-1, 0, 1}
IdSymmetry  == Permutations(Ids)
=============================================================================
