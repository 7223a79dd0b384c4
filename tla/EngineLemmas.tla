----------------------------- MODULE EngineLemmas -----------------------------
(***************************************************************************)
(* What the proofs about the engines share: the types of answers, and how  *)
(* the two tables follow one another when a bid is placed on top of the    *)
(* last one, when an auction is created and when closerd closes it.        *)
(***************************************************************************)
EXTENDS AuctionDB, FiniteSetTheorems, TLAPS

(* Answers of the engine and of the restart are answers of the contract.   *)
LEMMA RefusedIsAnswer ==
    ASSUME NEW r \in Request, NEW o \in Outcomes
    PROVE  Refused(r, o) \in Answer
BY DEF Refused, Answer

(* Amounts are cents. *)
LEMMA AmountIsNat ==
    /\ \A r \in Request : r.amount \in Nat
    /\ \A b \in BidRow : b.amount \in Nat
BY AmountsAreCents DEF Request, BidRow

(* Answers and bids are those of calls. *)
LEMMA OfCalls ==
    /\ \A x \in Answer : x.req.id \in Ids
    /\ \A b \in BidRow : b.id \in Ids
BY DEF Answer, Request, BidRow

(* The request a row of bids answers is a request. *)
LEMMA RequestOfRow ==
    ASSUME NEW b \in BidRow
    PROVE  RequestOf(b) \in Request
BY DEF BidRow, Request, RequestOf

(* The 201 of a row is an answer of the contract. *)
LEMMA AcceptedIsAnswer ==
    ASSUME NEW b \in BidRow
    PROVE  Accepted(b) \in Answer
BY RequestOfRow DEF Accepted, Answer, Outcomes, BidRow

----------------------------------------------------------------------------
(* The row of an auction follows its bids: coherent with them, the state   *)
(* the last of them left, and absent only while there are none.            *)
RowFollows(row, bidsOfA) ==
    /\ Coherent(row, bidsOfA)
    /\ RowOfSomeBid(row, bidsOfA)
    /\ \A b \in bidsOfA : b.seq <= row.version
    /\ row.status = "absent" => bidsOfA = {}

TablesFollow(auctions, bids) ==
    /\ IsFiniteSet(bids)
    /\ Chained(bids)
    /\ NoCollision(bids)
    /\ \A a \in Auctions : RowFollows(auctions[a], BidsOf(bids, a))

(* The row after a bid that tops it. *)
Topped(row, b) ==
    [status |-> row.status, version |-> b.seq, top |-> b.amount, winner |-> b.id]

(* b is the next bid over row, that it beats. *)
Tops(row, b) ==
    /\ row.status # "absent"
    /\ b.seq = row.version + 1
    /\ MinNextBid(row.top) <= b.amount

(* A row that follows its bids is topped by the next one.                  *)
LEMMA ToppedFollows ==
    ASSUME NEW row \in AuctionRow, NEW rows \in SUBSET BidRow, IsFiniteSet(rows),
           NEW b \in BidRow, RowFollows(row, rows), Tops(row, b)
    PROVE  RowFollows(Topped(row, b), rows \cup {b})
<1>1. row.version \in Nat /\ row.top \in Nat /\ b.seq = row.version + 1
  BY DEF AuctionRow, Tops
<1>2. \A c \in rows : c.seq \in Nat /\ c.seq <= row.version /\ c.amount \in Nat /\ c.amount <= row.top
  BY AmountsAreCents DEF BidRow, RowFollows, Coherent
<1>3. b \notin rows
  BY <1>1, <1>2
<1>4. Cardinality(rows \cup {b}) = b.seq
  <2>1. Cardinality(rows \cup {b}) = Cardinality(rows) + 1
    BY <1>3, FS_AddElement
  <2>2. Cardinality(rows) = row.version
    BY DEF RowFollows, Coherent
  <2> QED
    BY <1>1, <2>1, <2>2
<1>5. row.top <= b.amount /\ b.amount \in Nat
  <2>1. b.amount \in Nat
    BY AmountIsNat
  <2>2. row.top + Increment <= b.amount
    BY DEF Tops, MinNextBid
  <2> QED
    BY <1>1, <2>1, <2>2, IncrementIsPositive
<1>6. \A c \in rows \cup {b} : c.amount <= b.amount /\ c.seq <= b.seq
  BY <1>1, <1>2, <1>5
<1>7. \A c \in rows \cup {b} : c.seq = b.seq => c = b
  BY <1>1, <1>2
<1>8. Coherent(Topped(row, b), rows \cup {b})
  BY <1>4, <1>6, <1>7 DEF Coherent, Topped
<1>9. RowOfSomeBid(Topped(row, b), rows \cup {b})
  BY DEF RowOfSomeBid, Topped
<1> QED
  BY <1>6, <1>8, <1>9 DEF RowFollows, Topped, Tops

(* The top of such a row is the starting bid or an amount somebody bid.    *)
LEMMA TopIsAnAmount ==
    ASSUME NEW row, NEW bids \in SUBSET BidRow, NEW a \in Auctions,
           RowOfSomeBid(row, BidsOf(bids, a))
    PROVE  row.top = StartingBid \/ row.top \in Amounts
BY DEF RowOfSomeBid, BidsOf, BidRow

(* The sequence of an auction whose row follows its bids has no hole:      *)
(* there are as many bids as places.                                       *)
LEMMA SequenceIsFull ==
    ASSUME NEW row \in AuctionRow, NEW rows \in SUBSET BidRow, IsFiniteSet(rows),
           RowFollows(row, rows), \A b, c \in rows : b.seq = c.seq => b = c
    PROVE  \A n \in 1..row.version : \E b \in rows : b.seq = n
<1> DEFINE place == [b \in rows |-> b.seq]
<1>1. row.version \in Nat /\ Cardinality(rows) = row.version
  BY DEF AuctionRow, RowFollows, Coherent
<1>2. \A b \in rows : b.seq \in 1..row.version
  BY <1>1 DEF BidRow, RowFollows
<1>3. place \in Injection(rows, 1..row.version)
  BY <1>2 DEF Injection, IsInjective
<1>4. IsFiniteSet(1..row.version) /\ Cardinality(1..row.version) = row.version
  <2>1. 1 \in Int /\ row.version \in Int
    BY <1>1
  <2>2. /\ IsFiniteSet(1..row.version)
        /\ Cardinality(1..row.version) = IF 1 > row.version THEN 0 ELSE row.version - 1 + 1
    BY <2>1, FS_Interval
  <2> QED
    BY <1>1, <2>2
<1> HIDE DEF place
<1>5. place \in Surjection(rows, 1..row.version)
  BY <1>1, <1>3, <1>4, FS_Injection
<1> QED
  BY <1>5 DEF Surjection, place

(* Placing the next bid keeps the sequence chained: the one before it is   *)
(* the bid the row remembers, or there is none.                            *)
LEMMA NextIsChained ==
    ASSUME NEW bids \in SUBSET BidRow, NEW row \in AuctionRow, NEW b \in BidRow,
           Chained(bids), RowOfSomeBid(row, BidsOf(bids, b.auction)), Tops(row, b)
    PROVE  Chained(bids \cup {b})
<1>1. Opens(b) \/ \E c \in bids : Beats(b, c)
  <2>1. CASE row.version = 0 /\ row.top = StartingBid
    BY <2>1 DEF Tops, Opens
  <2>2. CASE \E c \in BidsOf(bids, b.auction) : c.seq = row.version /\ c.amount = row.top
    BY <2>2 DEF Tops, Beats, BidsOf
  <2> QED
    BY <2>1, <2>2 DEF RowOfSomeBid
<1> QED
  BY <1>1 DEF Chained

(* A bid the unique indexes let in collides with no other. *)
LEMMA InsertedIsAlone ==
    ASSUME NEW bids, NEW b, NoCollision(bids), Insertable(bids, {b})
    PROVE  NoCollision(bids \cup {b})
<1>1. \A c \in bids \cup {b} : Collide(b, c) => b = c
  BY DEF Insertable
<1>2. \A c \in bids : Collide(c, b) => b = c
  BY <1>1 DEF Collide
<1> QED
  BY <1>1, <1>2 DEF NoCollision

(* One bid placed on top: the tables still follow one another.             *)
LEMMA PlaceFollows ==
    ASSUME NEW auctions \in [Auctions -> AuctionRow], NEW bids \in SUBSET BidRow,
           TablesFollow(auctions, bids), NEW b \in BidRow,
           Tops(auctions[b.auction], b), Insertable(bids, {b}),
           NEW after, after = [auctions EXCEPT ![b.auction] = Topped(@, b)]
    PROVE  TablesFollow(after, bids \cup {b})
<1>1. b.auction \in Auctions /\ auctions[b.auction] \in AuctionRow
  BY DEF BidRow
<1>2. IsFiniteSet(bids \cup {b})
  BY FS_AddElement DEF TablesFollow
<1>3. Chained(bids \cup {b})
  BY <1>1, NextIsChained DEF TablesFollow, RowFollows
<1>4. NoCollision(bids \cup {b})
  BY InsertedIsAlone DEF TablesFollow
<1>5. ASSUME NEW a \in Auctions PROVE RowFollows(after[a], BidsOf(bids \cup {b}, a))
  <2>1. CASE a = b.auction
    <3>1. BidsOf(bids \cup {b}, a) = BidsOf(bids, a) \cup {b}
      BY <2>1 DEF BidsOf
    <3>2. IsFiniteSet(BidsOf(bids, a)) /\ BidsOf(bids, a) \in SUBSET BidRow
      BY FS_Subset DEF BidsOf, TablesFollow
    <3>3. after[a] = Topped(auctions[a], b)
      BY <2>1
    <3>4. RowFollows(auctions[a], BidsOf(bids, a)) /\ Tops(auctions[a], b)
      BY <2>1 DEF TablesFollow
    <3> QED
      BY <2>1, <1>1, <3>1, <3>2, <3>3, <3>4, ToppedFollows
  <2>2. CASE a # b.auction
    BY <2>2 DEF BidsOf, TablesFollow
  <2> QED
    BY <2>1, <2>2
<1> QED
  BY <1>2, <1>3, <1>4, <1>5 DEF TablesFollow

(* POST /auctions puts a fresh row where there was none, and no bid.       *)
LEMMA CreateFollows ==
    ASSUME NEW auctions \in [Auctions -> AuctionRow], NEW bids \in SUBSET BidRow,
           TablesFollow(auctions, bids), NEW a \in Auctions,
           auctions[a].status = "absent"
    PROVE  TablesFollow([auctions EXCEPT ![a] = FreshRow], bids)
<1>1. BidsOf(bids, a) = {}
  BY DEF TablesFollow, RowFollows
<1>2. RowFollows(FreshRow, {})
  BY FS_EmptySet DEF RowFollows, Coherent, RowOfSomeBid, FreshRow
<1> QED
  BY <1>1, <1>2 DEF TablesFollow

(* closerd changes no more than the status. *)
LEMMA CloseFollows ==
    ASSUME NEW auctions \in [Auctions -> AuctionRow], NEW bids \in SUBSET BidRow,
           TablesFollow(auctions, bids), NEW a \in Auctions,
           auctions[a].status = "open"
    PROVE  TablesFollow([auctions EXCEPT ![a].status = "closed"], bids)
<1>1. RowFollows([auctions[a] EXCEPT !.status = "closed"], BidsOf(bids, a))
  BY DEF TablesFollow, RowFollows, Coherent, RowOfSomeBid, AuctionRow
<1> QED
  BY <1>1 DEF TablesFollow

(* The tables of a system nobody bid in follow one another. *)
LEMMA EmptyFollows ==
    ASSUME NEW auctions \in [Auctions -> {NoRow, FreshRow}]
    PROVE  TablesFollow(auctions, {})
<1>1. \A a \in Auctions : BidsOf({}, a) = {}
  BY DEF BidsOf
<1>2. RowFollows(FreshRow, {}) /\ RowFollows(NoRow, {})
  BY FS_EmptySet DEF RowFollows, Coherent, RowOfSomeBid, FreshRow, NoRow
<1>3. Chained({}) /\ NoCollision({})
  BY DEF Chained, NoCollision
<1> QED
  BY <1>1, <1>2, <1>3, FS_EmptySet DEF TablesFollow

----------------------------------------------------------------------------
(* What the contract asks of the answers given so far: one for each call,  *)
(* an accept shows a bid in the table, a rejected call has none.           *)
Honest(answered, bids) ==
    \A x \in answered :
        /\ \A y \in answered : y.req.id = x.req.id => y = x
        /\ x.outcome = "Accepted" => \E b \in bids : Accepted(b) = x
        /\ x.outcome \in Rejections => \A b \in bids : b.id # x.req.id

(* Honest answers to calls that had none. *)
LEMMA HonestAnswers ==
    ASSUME NEW answered, NEW bids, NEW new, Honest(answered, bids), Honest(new, bids),
           \A x \in new, y \in answered : y.req.id # x.req.id
    PROVE  Honest(answered \cup new, bids)
BY DEF Honest

(* One refusal of a call that had no answer, and has no bid if the refusal *)
(* is a rejection.                                                         *)
LEMMA HonestRefusal ==
    ASSUME NEW answered, NEW bids, NEW r, NEW o, Honest(answered, bids),
           \A y \in answered : y.req.id # r.id,
           o # "Accepted",
           o \in Rejections => \A b \in bids : b.id # r.id
    PROVE  Honest(answered \cup {Refused(r, o)}, bids)
<1>1. Honest({Refused(r, o)}, bids)
  BY DEF Honest, Refused
<1> QED
  BY <1>1, HonestAnswers DEF Refused

(* The 201 of a bid in the table. *)
LEMMA HonestAccept ==
    ASSUME NEW answered, NEW bids, NEW b \in bids, Honest(answered, bids),
           \A y \in answered : y.req.id # b.id
    PROVE  Honest(answered \cup {Accepted(b)}, bids)
<1>1. Honest({Accepted(b)}, bids)
  BY DEF Honest, Accepted, Rejections
<1> QED
  BY <1>1, HonestAnswers DEF Accepted, RequestOf

(* Bids of calls that were not rejected keep the answers honest. *)
LEMMA HonestRecord ==
    ASSUME NEW answered, NEW bids, NEW new, Honest(answered, bids),
           \A b \in new, x \in answered : x.req.id = b.id => x.outcome \notin Rejections
    PROVE  Honest(answered, bids \cup new)
BY DEF Honest
=============================================================================
