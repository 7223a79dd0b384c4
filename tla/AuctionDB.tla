------------------------------ MODULE AuctionDB ------------------------------
(***************************************************************************)
(* What every component knows of the two Postgres tables: the shape of the *)
(* rows of auctions and bids, the rules the schema enforces on bids, the   *)
(* two rules of package bid (minimum next bid, closing), and the coherence *)
(* predicates that cmd/checker runs against a finished cell.               *)
(*                                                                         *)
(* Money and instants are integers; identities are model values.  A bid is *)
(* identified by the PlaceBid call it answers: the call's id stands for    *)
(* the row's uuid and for the bidder, so highest_bidder names a call.      *)
(***************************************************************************)
EXTENDS Integers, FiniteSets

CONSTANTS
    Auctions,   \* auction ids
    Ids,        \* PlaceBid calls
    Amounts,    \* bid amounts in cents
    Keys,       \* idempotency keys
    NoKey,      \* "" on the wire, NULL in bids.idempotency_key
    NoBidder,   \* auctions.highest_bidder IS NULL
    Increment,  \* auctions.min_increment_cents
    StartingBid,\* auctions.highest_bid_cents of an auction nobody bid on
    EndsAt      \* auctions.ends_at

ASSUME AmountsAreCents == Amounts \subseteq Nat \ {0}
ASSUME IncrementIsPositive == Increment \in Nat \ {0}
ASSUME StartingBidIsCents == StartingBid \in Nat
ASSUME EndsAtIsAnInstant == EndsAt \in Int
ASSUME NoKeyIsNotAKey == NoKey \notin Keys

(* One attempt, as it reaches the engine. *)
Request == [id: Ids, auction: Auctions, amount: Amounts, key: Keys \cup {NoKey}]

(* A row of bids.  created is created_at. *)
BidRow == [id: Ids, auction: Auctions, amount: Amounts, key: Keys \cup {NoKey},
           seq: Nat \ {0}, created: Int]

(* A row of auctions; "absent" is an id with no row. *)
AuctionRow == [status: {"absent", "open", "closed"}, version: Nat, top: Nat,
               winner: Ids \cup {NoBidder}]

FreshRow == [status |-> "open", version |-> 0, top |-> StartingBid, winner |-> NoBidder]
NoRow    == [status |-> "absent", version |-> 0, top |-> StartingBid, winner |-> NoBidder]

RequestOf(row) == [id |-> row.id, auction |-> row.auction,
                   amount |-> row.amount, key |-> row.key]

(* What PlaceBid says of an attempt.  Lost is not an answer of the engine: *)
(* the process died under the call.                                        *)
Outcomes == {"Accepted", "Conflict", "TooLow", "Closed", "NotFound", "Invalid",
             "Cancelled", "Error", "Lost"}
Rejections == {"Conflict", "TooLow", "Closed", "NotFound", "Invalid", "Cancelled"}

(* seq is filled when Accepted and 0 otherwise. *)
Answer == [req: Request, outcome: Outcomes, seq: Nat]

Accepted(row)       == [req |-> RequestOf(row), outcome |-> "Accepted", seq |-> row.seq]
Refused(r, outcome) == [req |-> r, outcome |-> outcome, seq |-> 0]

(* The smallest amount that beats a top of that many cents. *)
MinNextBid(top) == top + Increment

(* The single closing rule; now is read from Postgres or estimated. *)
IsClosed(status, now) == status = "closed" \/ now >= EndsAt

(* Two rows that the primary key or one of the two unique indexes of bids  *)
(* will not have side by side.  A NULL key is outside its partial index.   *)
Collide(b, c) ==
    \/ b.id = c.id
    \/ b.auction = c.auction /\ b.seq = c.seq
    \/ b.key = c.key /\ b.key # NoKey

(* The INSERT of the rows new into bids breaks no unique index. *)
Insertable(bids, new) ==
    \A b \in new, c \in bids \cup new : Collide(b, c) => b = c

----------------------------------------------------------------------------
(* Predicates over the tables that the properties of every engine share.   *)

(* The bid that b had to beat. *)
Beats(b, c) ==
    /\ c.auction = b.auction
    /\ c.seq + 1 = b.seq
    /\ MinNextBid(c.amount) <= b.amount

(* The first bid of an auction has to beat the starting bid.               *)
Opens(b) == b.seq = 1 /\ MinNextBid(StartingBid) <= b.amount

(* I1 and I2 together, row by row: every bid but an auction's first has    *)
(* its predecessor in the table, and beats it by the increment.            *)
Chained(bids) ==
    \A b \in bids : Opens(b) \/ \E c \in bids : Beats(b, c)

(* No two bids of one auction share a place in its sequence, and no two    *)
(* bids share an idempotency key.                                          *)
NoCollision(bids) ==
    \A b, c \in bids : Collide(b, c) => b = c

BidsOf(bids, a) == {b \in bids : b.auction = a}

(* I3 for one auction: version counts the bids, and top and winner are     *)
(* those of the last one.                                                  *)
Coherent(row, bidsOfA) ==
    /\ row.version = Cardinality(bidsOfA)
    /\ \A b \in bidsOfA :
          b.seq = row.version => b.amount = row.top /\ b.id = row.winner
    /\ \A b \in bidsOfA : b.amount <= row.top

(* The weaker form that survives every interleaving: the row is the state  *)
(* some recorded bid left behind, if not the last one.                     *)
RowOfSomeBid(row, bidsOfA) ==
    \/ row.version = 0 /\ row.top = StartingBid /\ row.winner = NoBidder
    \/ \E b \in bidsOfA :
          b.seq = row.version /\ b.amount = row.top /\ b.id = row.winner
=============================================================================
