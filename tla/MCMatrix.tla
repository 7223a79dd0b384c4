------------------------------ MODULE MCMatrix ------------------------------
(* Instances of Matrix for TLC. *)
EXTENDS Matrix
=============================================================================
