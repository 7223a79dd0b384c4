---------------------------- MODULE MCOptimistic ----------------------------
(* Instances of Optimistic for TLC. *)
EXTENDS Optimistic

CONSTANTS a1, r1, r2, k1
=============================================================================
