------------------------------ MODULE MCClosing ------------------------------
(* Instances of Closing for TLC. *)
EXTENDS Closing

CONSTANTS a1, a2, m1, m2
=============================================================================
