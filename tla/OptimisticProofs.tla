--------------------------- MODULE OptimisticProofs ---------------------------
(***************************************************************************)
(* Proofs about Optimistic, for every set of auctions, calls, amounts,     *)
(* keys and versions and every clock.                                      *)
(***************************************************************************)
EXTENDS Optimistic, EngineLemmas

USE DEF tables

(* A statement of a running call is on its way over the row it aims at.    *)
LEMMA NewBidType ==
    ASSUME TypeOK, NEW i \in Ids, pc[i] = "running"
    PROVE  NewBid(i) \in BidRow
<1>1. req[i] \in Request /\ stmt[i] \in Stmt
  BY DEF TypeOK
<1>2. auctions[req[i].auction] \in AuctionRow
  BY <1>1 DEF TypeOK, Request
<1>3. auctions[req[i].auction].version + 1 \in Nat \ {0}
  BY <1>2 DEF AuctionRow
<1> QED
  BY <1>1, <1>3 DEF NewBid, BidRow, Request, Stmt

(* Whatever the reason, it is an outcome, and a rejection. *)
LEMMA ReasonIsRejection ==
    ASSUME NEW row, NEW i
    PROVE  Reason(row, i) \in Rejections /\ Reason(row, i) \in Outcomes
BY DEF Reason, Rejections, Outcomes

(* The rows, the statements and the answers keep their types. *)
LEMMA TypeStep == TypeOK /\ [Next]_vars => TypeOK'
<1> SUFFICES ASSUME TypeOK, [Next]_vars PROVE TypeOK'
  OBVIOUS
<1>1. ASSUME NEW r \in Request, NEW version \in Versions \cup {NoVersion}, Call(r, version)
      PROVE  TypeOK'
  <2>1. r.id \in Ids /\ auctions[r.auction] \in AuctionRow
    BY DEF Request, TypeOK
  <2>2. [row |-> auctions[r.auction], now |-> clock] \in Stmt
    BY <2>1 DEF Stmt, TypeOK
  <2>3. Refused(r, "Invalid") \in Answer
    BY RefusedIsAnswer DEF Outcomes
  <2>4. CASE version = NoVersion
    BY <1>1, <2>1, <2>3, <2>4 DEF TypeOK, Call, Answers, Steps
  <2>5. CASE version # NoVersion
    BY <1>1, <2>1, <2>2, <2>5 DEF TypeOK, Call, Steps
  <2> QED
    BY <2>4, <2>5
<1>2. ASSUME NEW i \in Ids, Wins(i) PROVE TypeOK'
  <2>1. NewBid(i) \in BidRow /\ req[i] \in Request /\ req[i].amount \in Nat
    BY <1>2, NewBidType, AmountIsNat DEF Wins, TypeOK
  <2>2. bids' \subseteq BidRow
    BY <1>2, <2>1 DEF Wins, TypeOK
  <2>3. ASSUME NEW row \in AuctionRow
        PROVE  [status |-> row.status, version |-> row.version + 1,
                top |-> req[i].amount, winner |-> i] \in AuctionRow
    BY <2>1 DEF AuctionRow
  <2>4. auctions' \in [Auctions -> AuctionRow]
    BY <1>2, <2>3 DEF Wins, TypeOK
  <2> QED
    BY <1>2, <2>2, <2>4 DEF Wins, TypeOK, Ends, Steps
<1>3. ASSUME NEW i \in Ids, Misses(i) \/ Collides(i) \/ Cancelled(i) PROVE TypeOK'
  BY <1>3 DEF Misses, Collides, Cancelled, TypeOK, Ends, Steps
<1>4. ASSUME NEW i \in Ids, ReplyAccepted(i) PROVE TypeOK'
  <2>1. PICK b \in bids : Answers(i, Accepted(b))
    BY <1>4 DEF ReplyAccepted
  <2>2. Accepted(b) \in Answer
    BY AcceptedIsAnswer DEF TypeOK
  <2> QED
    BY <1>4, <2>1, <2>2 DEF ReplyAccepted, TypeOK, Answers, Steps
<1>5. ASSUME NEW i \in Ids, ReplyFailed(i) \/ Classify(i) PROVE TypeOK'
  <2>1. PICK o \in Outcomes : Answers(i, Refused(req[i], o))
    BY <1>5, ReasonIsRejection DEF ReplyFailed, Classify, Outcomes
  <2>2. Refused(req[i], o) \in Answer
    BY <1>5, RefusedIsAnswer DEF ReplyFailed, Classify, TypeOK
  <2> QED
    BY <1>5, <2>1, <2>2 DEF ReplyFailed, Classify, TypeOK, Answers, Steps
<1>6. ASSUME NEW i \in Ids, GiveUp(i) PROVE TypeOK'
  <2>1. Refused(req[i], "Error") \in Answer
    BY <1>6, RefusedIsAnswer DEF GiveUp, Waiting, TypeOK, Outcomes
  <2> QED
    BY <1>6, <2>1 DEF GiveUp, TypeOK, Waiting, Steps
<1>7. CASE Restart
  <2>1. \A i \in Ids : Waiting(i) => Refused(req[i], "Lost") \in Answer
    BY RefusedIsAnswer DEF Waiting, TypeOK, Outcomes
  <2> QED
    BY <1>7, <2>1 DEF Restart, TypeOK, Waiting, Steps
<1>8. ASSUME NEW a \in Auctions, Create(a) \/ CloseRow(a) PROVE TypeOK'
  BY <1>8, StartingBidIsCents DEF Create, CloseRow, TypeOK, FreshRow, AuctionRow
<1>9. CASE Tick \/ UNCHANGED vars
  BY <1>9 DEF Tick, vars, TypeOK
<1> QED
  BY <1>1, <1>2, <1>3, <1>4, <1>5, <1>6, <1>7, <1>8, <1>9 DEF Next, Progress

(* TypeOK: a call never reaches Postgres without a version, and what the   *)
(* engine and its tables hold keeps the types of the code, for every value *)
(* of the constants.                                                       *)
THEOREM TypeCorrect == Spec => []TypeOK
<1>1. Init => TypeOK
  BY StartingBidIsCents DEF Init, TypeOK, Steps, NoRow, FreshRow, AuctionRow
<1> QED
  BY <1>1, TypeStep, PTL DEF Spec

----------------------------------------------------------------------------
(* The inductive invariant: the tables follow one another, the answers are *)
(* honest, and a call is at most once in the table and where it should be. *)

(* A bid in the table was placed by a call that is past its statement, on  *)
(* top of the version the call expected.                                   *)
PlacedOnce ==
    \A b \in bids :
        /\ pc[b.id] \in {"landed", "over"}
        /\ b.seq = expected[b.id] + 1

(* Who was told something was called, and whoever was told the outcome has *)
(* no statement in Postgres any more.                                      *)
ToldIsOver ==
    \A x \in answered :
        /\ pc[x.req.id] # "idle"
        /\ x.outcome \notin {"Error", "Lost"} => pc[x.req.id] = "over"

IInv ==
    /\ TypeOK
    /\ TablesFollow(auctions, bids)
    /\ Honest(answered, bids)
    /\ PlacedOnce
    /\ ToldIsOver

(* Only Wins and the operations on auctions touch the tables. *)
LEMMA IInvStep == IInv /\ [Next]_vars => IInv'
<1> SUFFICES ASSUME IInv, [Next]_vars PROVE IInv'
  OBVIOUS
<1>0. TypeOK /\ TypeOK'
  BY TypeStep DEF IInv
<1> USE <1>0
<1>1. ASSUME NEW r \in Request, NEW version \in Versions \cup {NoVersion}, Call(r, version)
      PROVE  IInv'
  <2>1. r.id \in Ids /\ (\A y \in answered : y.req.id # r.id) /\ (\A b \in bids : b.id # r.id)
    BY <1>1 DEF Call, IInv, PlacedOnce, ToldIsOver, Request
  <2>2. PlacedOnce'
    <3>1. \A b \in bids : pc'[b.id] = pc[b.id] /\ expected'[b.id] = expected[b.id]
      BY <1>1, <2>1, OfCalls DEF Call, TypeOK, Answers
    <3> QED
      BY <1>1, <3>1 DEF Call, IInv, PlacedOnce
  <2>3. CASE version = NoVersion
    <3>1. answered' = answered \cup {Refused(r, "Invalid")} /\ pc' = [pc EXCEPT ![r.id] = "over"]
      BY <1>1, <2>3 DEF Call, Answers
    <3>2. Honest(answered', bids)
      BY <2>1, <3>1, HonestRefusal DEF IInv
    <3>3. ToldIsOver'
      BY <2>1, <3>1 DEF ToldIsOver, IInv, TypeOK, Refused
    <3> QED
      BY <1>1, <2>2, <3>2, <3>3 DEF Call, IInv
  <2>4. CASE version # NoVersion
    <3>1. ToldIsOver'
      BY <1>1, <2>1, <2>4, OfCalls DEF Call, ToldIsOver, IInv, TypeOK
    <3> QED
      BY <1>1, <2>2, <2>4, <3>1 DEF Call, IInv
  <2> QED
    BY <2>3, <2>4
<1>2. ASSUME NEW i \in Ids, Wins(i) PROVE IInv'
  <2> DEFINE b == NewBid(i)
  <2>1. b \in BidRow /\ b.id = i /\ b.auction = req[i].auction
    BY <1>2, NewBidType DEF Wins, NewBid
  <2>2. Tops(auctions[b.auction], b)
    BY <1>2, <2>1 DEF Wins, Chosen, Matches, Tops, NewBid
  <2>3. auctions' = [auctions EXCEPT ![b.auction] = Topped(@, b)]
    BY <1>2 DEF Wins, Topped, NewBid
  <2>4. bids' = bids \cup {b} /\ Insertable(bids, {b})
    BY <1>2 DEF Wins
  <2>5. TablesFollow(auctions', bids')
    <3> HIDE DEF b
    <3> QED
      BY <2>1, <2>2, <2>3, <2>4, PlaceFollows DEF IInv, TypeOK
  <2>6. Honest(answered, bids')
    <3>1. \A x \in answered : x.req.id = b.id => x.outcome \notin Rejections
      BY <1>2, <2>1 DEF Wins, IInv, ToldIsOver, Rejections
    <3> QED
      BY <2>4, <3>1, HonestRecord DEF IInv
  <2>7. PlacedOnce'
    <3>1. b.seq = expected[i] + 1
      BY <1>2 DEF Wins, Chosen, Matches, NewBid
    <3> HIDE DEF b
    <3> QED
      BY <1>2, <2>1, <2>4, <3>1 DEF Wins, Ends, IInv, PlacedOnce, TypeOK, BidRow
  <2>8. ToldIsOver'
    BY <1>2 DEF Wins, Ends, IInv, ToldIsOver, TypeOK
  <2> QED
    BY <1>2, <2>5, <2>6, <2>7, <2>8 DEF Wins, IInv
<1>3. ASSUME NEW i \in Ids, Misses(i) \/ Collides(i) \/ Cancelled(i) PROVE IInv'
  <2>1. PlacedOnce' /\ ToldIsOver'
    BY <1>3, OfCalls DEF Misses, Collides, Cancelled, Ends, IInv, PlacedOnce, ToldIsOver, TypeOK
  <2> QED
    BY <1>3, <2>1 DEF Misses, Collides, Cancelled, IInv
<1>4. ASSUME NEW i \in Ids, ReplyAccepted(i) PROVE IInv'
  <2>1. PICK b \in bids : b.id = i /\ Answers(i, Accepted(b))
    BY <1>4 DEF ReplyAccepted
  <2>2. Honest(answered', bids)
    BY <1>4, <2>1, HonestAccept DEF ReplyAccepted, Answers, Waiting, IInv
  <2>3. PlacedOnce' /\ ToldIsOver'
    BY <1>4, <2>1 DEF ReplyAccepted, Answers, IInv, PlacedOnce, ToldIsOver, TypeOK, Accepted, RequestOf
  <2> QED
    BY <1>4, <2>2, <2>3 DEF ReplyAccepted, IInv
<1>5. ASSUME NEW i \in Ids, ReplyFailed(i) \/ Classify(i) PROVE IInv'
  <2>1. PICK o : o \in Rejections \cup {"Error"} /\ Answers(i, Refused(req[i], o))
    BY <1>5, ReasonIsRejection DEF ReplyFailed, Classify
  <2>2. req[i].id = i /\ pc[i] \in {"missed", "failed"} /\ (\A y \in answered : y.req.id # i)
    BY <1>5 DEF ReplyFailed, Classify, Waiting, TypeOK
  <2>3. Honest(answered', bids)
    <3>1. \A b \in bids : b.id # i
      BY <2>2 DEF IInv, PlacedOnce
    <3> QED
      BY <2>1, <2>2, <3>1, HonestRefusal DEF Answers, IInv, Rejections
  <2>4. PlacedOnce' /\ ToldIsOver'
    BY <1>5, <2>1, <2>2 DEF ReplyFailed, Classify, Answers, IInv, PlacedOnce, ToldIsOver, TypeOK, Refused
  <2> QED
    BY <1>5, <2>3, <2>4 DEF ReplyFailed, Classify, IInv
<1>6. ASSUME NEW i \in Ids, GiveUp(i) PROVE IInv'
  <2>1. req[i].id = i /\ pc[i] # "idle" /\ (\A y \in answered : y.req.id # i)
    BY <1>6 DEF GiveUp, Waiting, TypeOK
  <2>2. Honest(answered', bids)
    BY <1>6, <2>1, HonestRefusal DEF GiveUp, IInv, Rejections
  <2>3. PlacedOnce' /\ ToldIsOver'
    BY <1>6, <2>1 DEF GiveUp, IInv, PlacedOnce, ToldIsOver, TypeOK, Refused
  <2> QED
    BY <1>6, <2>2, <2>3 DEF GiveUp, IInv
<1>7. CASE Restart
  <2> DEFINE new == {Refused(req[i], "Lost") : i \in {j \in Ids : Waiting(j)}}
  <2>1. \A x \in new : /\ x.outcome = "Lost" /\ x.req.id \in Ids /\ pc[x.req.id] # "idle"
                       /\ x = Refused(req[x.req.id], "Lost")
                       /\ \A y \in answered : y.req.id # x.req.id
    BY DEF Waiting, TypeOK, Refused
  <2>2. answered' = answered \cup new
    BY <1>7 DEF Restart
  <2> HIDE DEF new
  <2>3. Honest(new, bids)
    BY <2>1 DEF Honest, Rejections
  <2>4. Honest(answered', bids)
    BY <2>1, <2>2, <2>3, HonestAnswers DEF IInv
  <2>5. \A i \in Ids : /\ pc[i] # "idle" => pc'[i] # "idle"
                       /\ pc[i] \in {"landed", "over"} => pc'[i] \in {"landed", "over"}
                       /\ pc[i] = "over" => pc'[i] = "over"
    BY <1>7 DEF Restart
  <2>6. PlacedOnce'
    BY <1>7, <2>5 DEF Restart, IInv, PlacedOnce, TypeOK, BidRow
  <2>7. ToldIsOver'
    <3>1. \A x \in answered : x.req.id \in Ids
      BY OfCalls DEF TypeOK
    <3>2. \A x \in answered : /\ pc'[x.req.id] # "idle"
                              /\ x.outcome \notin {"Error", "Lost"} => pc'[x.req.id] = "over"
      BY <3>1, <2>5 DEF IInv, ToldIsOver
    <3>3. \A x \in new : pc'[x.req.id] # "idle" /\ x.outcome = "Lost"
      BY <2>1, <2>5
    <3> QED
      BY <2>2, <3>2, <3>3 DEF ToldIsOver
  <2> QED
    BY <1>7, <2>4, <2>6, <2>7 DEF Restart, IInv
<1>8. ASSUME NEW a \in Auctions, Create(a) PROVE IInv'
  <2>1. TablesFollow(auctions', bids')
    BY <1>8, CreateFollows DEF Create, IInv, TypeOK
  <2> QED
    BY <1>8, <2>1 DEF Create, IInv, PlacedOnce, ToldIsOver
<1>9. ASSUME NEW a \in Auctions, CloseRow(a) PROVE IInv'
  <2>1. TablesFollow(auctions', bids')
    BY <1>9, CloseFollows DEF CloseRow, IInv, TypeOK
  <2> QED
    BY <1>9, <2>1 DEF CloseRow, IInv, PlacedOnce, ToldIsOver
<1>10. CASE Tick \/ UNCHANGED vars
  BY <1>10 DEF Tick, vars, IInv, PlacedOnce, ToldIsOver
<1> QED
  BY <1>1, <1>2, <1>3, <1>4, <1>5, <1>6, <1>7, <1>8, <1>9, <1>10 DEF Next, Progress

(* The inductive invariant, for every value of the constants. *)
THEOREM Inductive == Spec => []IInv
<1>1. Init => IInv
  BY EmptyFollows, StartingBidIsCents
     DEF Init, IInv, TypeOK, Steps, NoRow, FreshRow, AuctionRow, Honest, PlacedOnce, ToldIsOver
<1> QED
  BY <1>1, IInvStep, PTL DEF Spec

(* WinnerAndVersionCoherent: I3 of the checker holds at every moment of    *)
(* every execution, whatever commits between a statement's snapshot and    *)
(* the row lock it waits for.                                              *)
THEOREM AlwaysCoherent == Spec => []WinnerAndVersionCoherent
<1>1. IInv => WinnerAndVersionCoherent
  BY DEF IInv, TablesFollow, RowFollows, WinnerAndVersionCoherent
<1> QED
  BY <1>1, Inductive, PTL

(* OneWinnerPerVersion: two calls that were sent the same version of an    *)
(* auction are never both told 201.                                        *)
THEOREM OneWinner == Spec => []OneWinnerPerVersion
<1>1. IInv => OneWinnerPerVersion
  <2> SUFFICES ASSUME IInv, NEW x \in answered, x.outcome = "Accepted"
               PROVE  /\ x.seq = expected[x.req.id] + 1
                      /\ \A y \in answered :
                            y.outcome = "Accepted" /\ y.req.auction = x.req.auction
                            /\ expected[y.req.id] = expected[x.req.id] => x = y
    BY DEF OneWinnerPerVersion
  <2>1. \A z \in answered : z.outcome = "Accepted" =>
           \E b \in bids : /\ Accepted(b) = z /\ z.seq = b.seq /\ z.req.id = b.id
                           /\ z.req.auction = b.auction /\ b.seq = expected[b.id] + 1
    BY DEF IInv, Honest, PlacedOnce, Accepted, RequestOf
  <2>2. \A b, c \in bids : b.auction = c.auction /\ b.seq = c.seq => b = c
    BY DEF IInv, TablesFollow, NoCollision, Collide
  <2>3. PICK b \in bids : Accepted(b) = x /\ x.req.id = b.id /\ x.req.auction = b.auction
                          /\ x.seq = b.seq /\ b.seq = expected[b.id] + 1
    BY <2>1
  <2>4. ASSUME NEW y \in answered, y.outcome = "Accepted", y.req.auction = x.req.auction,
               expected[y.req.id] = expected[x.req.id]
        PROVE  x = y
    <3>1. PICK c \in bids : Accepted(c) = y /\ y.req.id = c.id /\ y.req.auction = c.auction
                            /\ c.seq = expected[c.id] + 1
      BY <2>1, <2>4
    <3>2. b = c
      BY <2>2, <2>3, <2>4, <3>1
    <3> QED
      BY <2>3, <3>1, <3>2
  <2> QED
    BY <2>3, <2>4
<1> QED
  BY <1>1, Inductive, PTL

(* ClosedIsFinal: no bid lands on an auction that closerd closed, although *)
(* its statement may have started while the auction was open.              *)
THEOREM NothingAfterTheClose == Spec => ClosedIsFinal
<1>1. TypeOK /\ [Next]_vars =>
        [\A a \in Auctions : auctions[a].status = "closed" =>
            auctions'[a] = auctions[a] /\ BidsOf(bids', a) = BidsOf(bids, a)]_vars
  <2> SUFFICES ASSUME TypeOK, Next, NEW a \in Auctions, auctions[a].status = "closed"
               PROVE  auctions'[a] = auctions[a] /\ BidsOf(bids', a) = BidsOf(bids, a)
    OBVIOUS
  <2>1. ASSUME NEW i \in Ids, Wins(i)
        PROVE  auctions'[a] = auctions[a] /\ BidsOf(bids', a) = BidsOf(bids, a)
    <3>1. req[i].auction # a
      BY <2>1 DEF Wins, Chosen, Matches
    <3> QED
      BY <2>1, <3>1 DEF Wins, BidsOf, NewBid, TypeOK
  <2>2. ASSUME NEW c \in Auctions, Create(c) \/ CloseRow(c)
        PROVE  auctions'[a] = auctions[a] /\ BidsOf(bids', a) = BidsOf(bids, a)
    BY <2>2 DEF Create, CloseRow, BidsOf, TypeOK
  <2>3. CASE UNCHANGED tables
    BY <2>3
  <2> QED
    BY <2>1, <2>2, <2>3
       DEF Next, Progress, Call, Misses, Collides, ReplyAccepted, ReplyFailed, Classify,
           GiveUp, Cancelled, Restart, Tick
<1> QED
  BY <1>1, TypeCorrect, PTL DEF Spec, ClosedIsFinal

(* Each step adds to one of the two things the contract sees, if any. *)
LEMMA OneAtATime ==
    ASSUME TypeOK, [Next]_vars
    PROVE  \/ bids' = bids /\ answered \subseteq answered'
           \/ answered' = answered /\ bids \subseteq bids'
<1>1. ASSUME NEW i \in Ids, Wins(i) PROVE answered' = answered /\ bids \subseteq bids'
  BY <1>1 DEF Wins
<1>2. ASSUME NEW i \in Ids, Misses(i) \/ Collides(i) \/ Cancelled(i) PROVE UNCHANGED <<bids, answered>>
  BY <1>2 DEF Misses, Collides, Cancelled
<1>3. ASSUME NEW i \in Ids, ReplyAccepted(i) \/ ReplyFailed(i) \/ Classify(i) \/ GiveUp(i)
      PROVE  bids' = bids /\ answered \subseteq answered'
  BY <1>3 DEF ReplyAccepted, ReplyFailed, Classify, GiveUp, Answers
<1>4. ASSUME NEW r \in Request, NEW version \in Versions \cup {NoVersion}, Call(r, version)
      PROVE  bids' = bids /\ answered \subseteq answered'
  BY <1>4 DEF Call, Answers
<1>5. CASE Restart
  BY <1>5 DEF Restart
<1>6. ASSUME NEW a \in Auctions, Create(a) \/ CloseRow(a) PROVE UNCHANGED <<bids, answered>>
  BY <1>6 DEF Create, CloseRow
<1>7. CASE Tick \/ UNCHANGED vars
  BY <1>7 DEF Tick, vars
<1> QED
  BY <1>1, <1>2, <1>3, <1>4, <1>5, <1>6, <1>7 DEF Next, Progress

(* ImplementsEngine: the optimistic engine keeps the contract of package   *)
(* bid.  What a step adds to the table or to the answers is what the       *)
(* contract allows because the invariant still holds after it.             *)
THEOREM KeepsTheContract == Spec => ImplementsEngine
<1>1. Init => Engine!Init
  BY DEF Init, Engine!Init
<1>2. IInv /\ IInv' /\ [Next]_vars => [Engine!Next]_<<bids, answered>>
  <2> SUFFICES ASSUME IInv, IInv', [Next]_vars, ~ UNCHANGED <<bids, answered>>
               PROVE  Engine!Next
    OBVIOUS
  <2>1. CASE bids' = bids /\ answered \subseteq answered'
    BY <2>1 DEF IInv, Honest, Engine!Next, Engine!Reply, Engine!Rejections, Engine!Accepted,
                Rejections, Accepted, Engine!RequestOf, RequestOf
  <2>2. CASE answered' = answered /\ bids \subseteq bids'
    <3>1. Engine!Chained(bids')
      BY DEF IInv, TablesFollow, Chained, Opens, Beats, MinNextBid,
             Engine!Chained, Engine!Opens, Engine!Beats, Engine!MinNextBid
    <3>2. Engine!NoCollision(bids')
      BY DEF IInv, TablesFollow, NoCollision, Collide, Engine!NoCollision, Engine!Collide
    <3>3. \A b \in bids', x \in answered : x.req.id = b.id => x.outcome \notin Engine!Rejections
      BY <2>2 DEF IInv, Honest, Rejections, Engine!Rejections
    <3> QED
      BY <2>2, <3>1, <3>2, <3>3 DEF Engine!Next, Engine!Record
  <2> QED
    BY <2>1, <2>2, OneAtATime DEF IInv
<1> QED
  BY <1>1, <1>2, Inductive, PTL DEF Spec, ImplementsEngine, Engine!Spec

----------------------------------------------------------------------------
(* I4, "nenhum lance apos o fechamento": a bid carries the instant its     *)
(* statement compared with the end, however long it waited for the lock.   *)
THEOREM NoBidAfterTheEnd == Spec => [](\A b \in bids : b.created < EndsAt)
<1> DEFINE BeforeTheEnd == \A b \in bids : b.created < EndsAt
<1>1. Init => BeforeTheEnd
  BY DEF Init
<1>2. BeforeTheEnd /\ [Next]_vars => BeforeTheEnd'
  <2> SUFFICES ASSUME BeforeTheEnd, [Next]_vars PROVE BeforeTheEnd'
    OBVIOUS
  <2>1. ASSUME NEW i \in Ids, Wins(i) PROVE BeforeTheEnd'
    BY <2>1 DEF Wins, Chosen, Matches, NewBid
  <2>2. CASE bids' = bids
    BY <2>2
  <2>3. (\E i \in Ids : Wins(i)) \/ bids' = bids
    BY DEF Next, Progress, Call, Misses, Collides, ReplyAccepted, ReplyFailed, Classify, GiveUp,
           Cancelled, Restart, Create, CloseRow, Tick, vars
  <2> QED
    BY <2>1, <2>2, <2>3
<1> QED
  BY <1>1, <1>2, PTL DEF Spec

(* MinNextBid adds two int64: the WHERE and classify apply it to the       *)
(* starting bid or to an amount somebody bid, so it fits if those do.      *)
THEOREM MinNextBidIsBounded ==
    ASSUME NEW Most \in Nat, MinNextBid(StartingBid) <= Most,
           \A amount \in Amounts : MinNextBid(amount) <= Most
    PROVE  Spec => [](\A a \in Auctions : MinNextBid(auctions[a].top) <= Most)
<1> DEFINE Fits == \A a \in Auctions : MinNextBid(auctions[a].top) <= Most
<1>1. IInv => Fits
  BY TopIsAnAmount DEF IInv, TypeOK, TablesFollow, RowFollows, BidRow
<1> HIDE DEF Fits
<1>2. Spec => []Fits
  BY <1>1, Inductive, PTL
<1> QED
  BY <1>2 DEF Fits

(* Of the contract, as an invariant: one answer to a call, a 201 shows a   *)
(* row of the table, and a call that was rejected has none.                *)
THEOREM AnswersAreHonest == Spec => []Honest(answered, bids)
<1>1. IInv => Honest(answered, bids)
  BY DEF IInv
<1> QED
  BY <1>1, Inductive, PTL
=============================================================================
