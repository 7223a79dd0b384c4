---------------------------- MODULE MCPessimistic ----------------------------
(* Instances of Pessimistic for TLC. *)
EXTENDS Pessimistic, TLC

CONSTANTS a1, a2, r1, r2, r3, k1

IdSymmetry == Permutations(Ids)
=============================================================================
