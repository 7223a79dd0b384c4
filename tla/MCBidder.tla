------------------------------ MODULE MCBidder ------------------------------
(* Instances of Bidder for TLC. *)
EXTENDS Bidder, TLC

CONSTANTS v1, v2, a1, a2

(* Neither VUs nor auctions differ in anything but their name. *)
Symmetry == Permutations(VUs) \cup Permutations(Auctions)
=============================================================================
