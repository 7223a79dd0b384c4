------------------------------ MODULE BidEngine ------------------------------
(***************************************************************************)
(* The contract of package bid, that the three engines implement:          *)
(*                                                                         *)
(*   - the history of an auction only grows, stays chained and free of     *)
(*     collisions;                                                         *)
(*   - PlaceBid returns Accepted only once the bid is durable, and says at *)
(*     which place of the sequence it is;                                  *)
(*   - a rejection is final: that call is never recorded afterwards;       *)
(*   - every call is answered at most once.                                *)
(*                                                                         *)
(* An error promises nothing: it means "I could not decide", and the bid   *)
(* may be durable already, become so later, or never.                      *)
(***************************************************************************)
EXTENDS AuctionDB

VARIABLES
    bids,       \* the table bids
    answered    \* the answers given so far

Init == bids = {} /\ answered = {}

(* Bids become durable, several at once when one statement carries them. *)
Record ==
    /\ bids \subseteq bids' /\ bids' # bids
    /\ Chained(bids') /\ NoCollision(bids')
    /\ \A b \in bids' \ bids, x \in answered :
          x.req.id = b.id => x.outcome \notin Rejections
    /\ UNCHANGED answered

(* Callers get their answers, again several at once. *)
Reply ==
    /\ answered \subseteq answered' /\ answered' # answered
    /\ \A x \in answered' \ answered :
          /\ \A y \in answered' : y.req.id = x.req.id => y = x
          /\ x.outcome = "Accepted" =>
                \E b \in bids : Accepted(b) = x
          /\ x.outcome \in Rejections =>
                \A b \in bids : b.id # x.req.id
    /\ UNCHANGED bids

Next == Record \/ Reply

Spec == Init /\ [][Next]_<<bids, answered>>
=============================================================================
