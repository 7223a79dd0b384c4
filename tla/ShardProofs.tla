----------------------------- MODULE ShardProofs -----------------------------
(***************************************************************************)
(* Proofs about Shard, for every set of auctions, calls, amounts, keys and *)
(* shards, every routing, every inbox and batch size and every clock.      *)
(***************************************************************************)
EXTENDS Shard, EngineLemmas, SequenceTheorems

USE DEF tables, callers

(* Where run() goes after a decision is a stage. *)
LEMMA AfterDecisionStage ==
    ASSUME NEW s \in Shards, NEW rows, NEW st \in AfterDecision(s, rows)
    PROVE  st \in Stages
BY DEF AfterDecision, Stages

(* The rows a statement writes to auctions are rows of auctions.           *)
LEMMA ApplyType ==
    ASSUME TypeOK, NEW rows \in SUBSET BidRow, Apply(rows)
    PROVE  auctions' \in [Auctions -> AuctionRow] /\ bids' \subseteq BidRow
<1>1. PICK pick \in Picks(rows) : auctions' = Updated(pick)
  BY DEF Apply
<1>2. \A a \in DOMAIN pick : pick[a] \in BidRow
  BY DEF Picks
<1>3. ASSUME NEW a \in Auctions, a \in DOMAIN pick
      PROVE  [status |-> auctions[a].status, version |-> pick[a].seq,
              top |-> pick[a].amount, winner |-> pick[a].id] \in AuctionRow
  BY <1>2, <1>3, AmountsAreCents DEF TypeOK, AuctionRow, BidRow
<1>4. Updated(pick) \in [Auctions -> AuctionRow]
  BY <1>3 DEF Updated, TypeOK
<1> QED
  BY <1>1, <1>4 DEF Apply, TypeOK

(* What a decision that answers leaves behind is well typed.               *)
LEMMA AnswersType ==
    ASSUME TypeOK, NEW s \in Shards, hand[s] # NoRequest,
           NEW o \in Outcomes, Answers(s, o)
    PROVE  /\ answered' \subseteq Answer
           /\ hand' \in [Shards -> Request \cup {NoRequest}]
           /\ stage' \in [Shards -> Stages]
           /\ batch' \in [Shards -> SUBSET BidRow]
<1>1. hand[s] \in Request
  BY DEF TypeOK
<1>2. Refused(hand[s], o) \in Answer
  BY <1>1, RefusedIsAnswer
<1>3. PICK st \in AfterDecision(s, batch[s]) : stage' = [stage EXCEPT ![s] = st]
  BY DEF Answers
<1>4. st \in Stages
  BY AfterDecisionStage
<1> QED
  BY <1>2, <1>3, <1>4 DEF TypeOK, Answers

(* The same of a failed commit.                                            *)
LEMMA FailType ==
    ASSUME TypeOK, NEW s \in Shards, Fail(s)
    PROVE  /\ mem' \in [Auctions -> MemState \cup {Unknown}]
           /\ answered' \subseteq Answer
           /\ stage' \in [Shards -> Stages]
           /\ batch' \in [Shards -> SUBSET BidRow]
<1>1. \A b \in batch[s] : Refused(RequestOf(b), "Error") \in Answer
  BY RequestOfRow, RefusedIsAnswer DEF TypeOK, Outcomes
<1> QED
  BY <1>1 DEF TypeOK, Fail, Stages

(* And of an accept, whose row is the one its batch is given.              *)
LEMMA AcceptType ==
    ASSUME TypeOK, NEW s \in Shards, Accept(s)
    PROVE  /\ batch' \in [Shards -> SUBSET BidRow]
           /\ mem' \in [Auctions -> MemState \cup {Unknown}]
           /\ stage' \in [Shards -> Stages]
           /\ hand' \in [Shards -> Request \cup {NoRequest}]
<1> DEFINE r == hand[s]
           a == r.auction
<1>1. r \in Request /\ a \in Auctions
  BY DEF Accept, TypeOK, Request
<1>2. mem[a] \in MemState
  BY <1>1 DEF Accept, TypeOK
<1>3. PICK drift \in Drifts :
        batch' = [batch EXCEPT ![s] = @ \cup
           {[id |-> r.id, auction |-> a, amount |-> r.amount, key |-> r.key,
             seq |-> mem[a].version + 1, created |-> ShardNow(a) + drift]}]
  BY DEF Accept
<1>4. [id |-> r.id, auction |-> a, amount |-> r.amount, key |-> r.key,
       seq |-> mem[a].version + 1, created |-> ShardNow(a) + drift] \in BidRow
  <2>1. /\ mem[a].skew \in Int
        /\ clock \in Int
        /\ drift \in Int
    <3>1. mem[a].skew \in Skews
      BY <1>2 DEF MemState
    <3>2. mem[a].skew \in Int
      BY <3>1, SkewsAreErrors
    <3>3. clock \in Int
      BY DEF TypeOK
    <3>4. drift \in Int
      <4>1. drift \in Nat
        BY DriftsAreDelays
      <4> QED
        BY <4>1
    <3> QED
      BY <3>2, <3>3, <3>4
  <2>2. mem[a].version + 1 \in Nat \ {0}
    BY <1>2 DEF MemState
  <2>3. ShardNow(a) + drift \in Int
    BY <2>1 DEF ShardNow
  <2> QED
    BY <1>1, <2>2, <2>3 DEF BidRow, Request
<1>5. batch' \in [Shards -> SUBSET BidRow]
  BY <1>3, <1>4 DEF TypeOK
<1>6. r.amount \in Nat
  BY <1>1, AmountsAreCents DEF Request
<1>7. mem' = [mem EXCEPT ![a] = [version |-> mem[a].version + 1, top |-> r.amount,
                                 status |-> mem[a].status, skew |-> mem[a].skew]]
  BY DEF Accept
<1>8. [version |-> mem[a].version + 1, top |-> r.amount,
       status |-> mem[a].status, skew |-> mem[a].skew] \in MemState
  BY <1>2, <1>6 DEF MemState
<1>9. mem' \in [Auctions -> MemState \cup {Unknown}]
  BY <1>7, <1>8 DEF TypeOK
<1>10. stage' \in [Shards -> Stages]
  BY AfterDecisionStage DEF Accept, TypeOK
<1> QED
  BY <1>5, <1>9, <1>10 DEF Accept, TypeOK

(* And of a restart, which answers every call in flight.                   *)
LEMMA RestartType ==
    ASSUME TypeOK, Restart
    PROVE  answered' \subseteq Answer /\ limbo' \subseteq SUBSET BidRow
<1>1. \A s \in Shards : Cmds(s) \subseteq Request
  BY RequestOfRow DEF Cmds, TypeOK
<1>2. \A r \in calling \cup UNION {Cmds(s) : s \in Shards} : r \in Request
  BY <1>1 DEF TypeOK
<1>3. \A r \in calling \cup UNION {Cmds(s) : s \in Shards} : Refused(r, "Lost") \in Answer
  BY <1>2, RefusedIsAnswer DEF Outcomes
<1>4. limbo' \subseteq SUBSET BidRow
  BY DEF Restart, TypeOK
<1> QED
  BY <1>3, <1>4 DEF Restart, TypeOK

(* The rows of the three tables, the maps and the answers keep their types *)
(* through every operation of the engine and of its surroundings.          *)
LEMMA TypeStep ==
    ASSUME TypeOK, [Next]_vars
    PROVE  TypeOK'
<1>1. ASSUME NEW r \in Request, Call(r) PROVE TypeOK'
  BY <1>1 DEF TypeOK, Call, Request
<1>2. ASSUME NEW r \in Request, Enqueue(r) PROVE TypeOK'
  <2>1. ShardOf[r.auction] \in Shards
    BY ShardOfRoutes DEF Request
  <2>2. Append(inbox[ShardOf[r.auction]], r) \in Seq(Request)
    BY <2>1 DEF TypeOK
  <2> QED
    BY <1>2, <2>1, <2>2 DEF TypeOK, Enqueue
<1>3. ASSUME NEW r \in Request, GiveUp(r) PROVE TypeOK'
  <2>1. Refused(r, "Cancelled") \in Answer
    BY RefusedIsAnswer DEF Outcomes
  <2> QED
    BY <1>3, <2>1 DEF TypeOK, GiveUp
<1>4. ASSUME NEW s \in Shards, Take(s) PROVE TypeOK'
  <2>1. Head(inbox[s]) \in Request /\ Tail(inbox[s]) \in Seq(Request)
    BY <1>4 DEF TypeOK, Take
  <2> QED
    BY <1>4, <2>1 DEF TypeOK, Take
<1>5. ASSUME NEW s \in Shards, Hydrate(s) PROVE TypeOK'
  <2>1. hand[s].auction \in Auctions
    BY <1>5 DEF TypeOK, Hydrate, Request
  <2>2. PICK skew \in Skews :
          mem' = [mem EXCEPT ![hand[s].auction] =
                    [version |-> auctions[hand[s].auction].version,
                     top     |-> auctions[hand[s].auction].top,
                     status  |-> auctions[hand[s].auction].status,
                     skew    |-> skew]]
    BY <1>5 DEF Hydrate
  <2>3. [version |-> auctions[hand[s].auction].version,
         top     |-> auctions[hand[s].auction].top,
         status  |-> auctions[hand[s].auction].status,
         skew    |-> skew] \in MemState
    BY <1>5, <2>1 DEF TypeOK, Hydrate, AuctionRow, MemState
  <2> QED
    BY <1>5, <2>2, <2>3 DEF TypeOK, Hydrate
<1>6. ASSUME NEW s \in Shards, HydrateMiss(s) PROVE TypeOK'
  BY <1>6, AnswersType DEF TypeOK, HydrateMiss, Outcomes
<1>7. ASSUME NEW s \in Shards, HydrateError(s) PROVE TypeOK'
  BY <1>7, AnswersType DEF TypeOK, HydrateError, Outcomes
<1>8. ASSUME NEW s \in Shards, RejectClosed(s) PROVE TypeOK'
  BY <1>8, AnswersType DEF TypeOK, RejectClosed, Outcomes
<1>9. ASSUME NEW s \in Shards, RejectTooLow(s) PROVE TypeOK'
  BY <1>9, AnswersType DEF TypeOK, RejectTooLow, Outcomes
<1>10. ASSUME NEW s \in Shards, Accept(s) PROVE TypeOK'
  BY <1>10, AcceptType DEF TypeOK, Accept
<1>11. ASSUME NEW s \in Shards, InboxDrained(s) PROVE TypeOK'
  BY <1>11 DEF TypeOK, InboxDrained, Stages
<1>12. ASSUME NEW s \in Shards, Land(s) PROVE TypeOK'
  <2>1. batch[s] \in SUBSET BidRow
    BY DEF TypeOK
  <2> QED
    BY <1>12, <2>1, ApplyType DEF TypeOK, Land, Stages
<1>13. ASSUME NEW s \in Shards, Abort(s) PROVE TypeOK'
  BY <1>13, FailType DEF TypeOK, Abort
<1>14. ASSUME NEW s \in Shards, CommitError(s) PROVE TypeOK'
  <2>1. limbo' \subseteq SUBSET BidRow
    BY <1>14 DEF TypeOK, CommitError
  <2> QED
    BY <1>14, <2>1, FailType DEF TypeOK, CommitError
<1>15. ASSUME NEW s \in Shards, CommitReplyLost(s) PROVE TypeOK'
  BY <1>15, FailType DEF TypeOK, CommitReplyLost
<1>16. ASSUME NEW s \in Shards, CommitReply(s) PROVE TypeOK'
  <2>1. \A b \in batch[s] : Accepted(b) \in Answer
    BY AcceptedIsAnswer DEF TypeOK
  <2> QED
    BY <1>16, <2>1 DEF TypeOK, CommitReply, Stages
<1>17. ASSUME NEW rows \in limbo, LimboLands(rows) PROVE TypeOK'
  <2>1. rows \in SUBSET BidRow
    BY DEF TypeOK
  <2> QED
    BY <1>17, <2>1, ApplyType DEF TypeOK, LimboLands
<1>18. ASSUME NEW rows \in limbo, LimboDies(rows) PROVE TypeOK'
  BY <1>18 DEF TypeOK, LimboDies
<1>19. CASE Restart
  <2>1. inbox' \in [Shards -> Seq(Request)]
    <3>1. <<>> \in Seq(Request)
      OBVIOUS
    <3> QED
      BY <1>19, <3>1 DEF Restart
  <2>2. /\ hand' \in [Shards -> Request \cup {NoRequest}]
        /\ mem' \in [Auctions -> MemState \cup {Unknown}]
        /\ batch' \in [Shards -> SUBSET BidRow]
        /\ stage' \in [Shards -> Stages]
    BY <1>19 DEF Restart, Stages
  <2>3. /\ auctions' = auctions /\ bids' = bids /\ clock' = clock
        /\ called' = called /\ calling' = {}
    BY <1>19 DEF Restart
  <2> QED
    BY <1>19, <2>1, <2>2, <2>3, RestartType DEF TypeOK
<1>20. ASSUME NEW a \in Auctions, Create(a) PROVE TypeOK'
  BY <1>20, StartingBidIsCents DEF TypeOK, Create, FreshRow, AuctionRow
<1>21. ASSUME NEW a \in Auctions, CloseRow(a) PROVE TypeOK'
  BY <1>21 DEF TypeOK, CloseRow, AuctionRow
<1>22. CASE Tick
  BY <1>22 DEF TypeOK, Tick
<1>23. CASE UNCHANGED vars
  BY <1>23 DEF TypeOK, vars
<1> QED
  BY <1>1, <1>2, <1>3, <1>4, <1>5, <1>6, <1>7, <1>8, <1>9, <1>10, <1>11, <1>12,
     <1>13, <1>14, <1>15, <1>16, <1>17, <1>18, <1>19, <1>20, <1>21, <1>22, <1>23
     DEF Next, Place, Run, Decide, Commit

(* TypeOK: the state of the engine stays what its Go types and the columns *)
(* of its tables say, for every value of the constants.                    *)
THEOREM TypeCorrect == Spec => []TypeOK
<1>1. Init => TypeOK
  BY StartingBidIsCents DEF Init, TypeOK, Stages, NoRow, FreshRow, AuctionRow
<1>2. TypeOK /\ [Next]_vars => TypeOK'
  BY TypeStep
<1> QED
  BY <1>1, <1>2, PTL DEF Spec

----------------------------------------------------------------------------
(* The inductive invariant.  The next lemmas are the frame: what growing   *)
(* tables, growing batches and refusals cannot disturb.                    *)

(* Answers that are no accepts keep every 201 true. *)
LEMMA StillDurable ==
    ASSUME AcceptedIsDurable, bids \subseteq bids', NEW new,
           answered' = answered \cup new,
           \A x \in new : x.outcome # "Accepted"
    PROVE  AcceptedIsDurable'
BY DEF AcceptedIsDurable

(* Rows that are added keep what the maps hold backed. *)
LEMMA StillBacked ==
    ASSUME TypeOK, MemoryNeverAhead, bids \subseteq bids',
           \A s \in Shards : batch[s] \subseteq batch'[s], mem' = mem
    PROVE  MemoryNeverAhead'
BY ShardOfRoutes DEF TypeOK, MemoryNeverAhead, Backed

(* Rows that are added, and statements that end, keep the others linked. *)
LEMMA StillLinked ==
    ASSUME BatchesLinked, bids \subseteq bids', batch' = batch, limbo' \subseteq limbo
    PROVE  BatchesLinked'
BY DEF BatchesLinked, Linked

(* A statement that landed stays landed while its batch does. *)
LEMMA StillLanded ==
    ASSUME DoneMeansLanded, bids \subseteq bids', batch' = batch,
           \A s \in Shards : stage'[s] = "done" => stage[s] = "done"
    PROVE  DoneMeansLanded'
BY DEF DoneMeansLanded

(* A decision never ends in the stage of a statement that landed.          *)
LEMMA DecisionIsNotDone ==
    ASSUME NEW s \in Shards, NEW rows, NEW st \in AfterDecision(s, rows)
    PROVE  st # "done"
BY DEF AfterDecision

(* A statement whose bids beat the table's or one another's extends every  *)
(* sequence it touches, whenever it lands, if the unique indexes let it.   *)
LEMMA ApplyExtends ==
    ASSUME IInv, NEW rows \in SUBSET BidRow, Linked(rows),
           Insertable(bids, rows), Apply(rows)
    PROVE  bids \subseteq bids' /\ SequenceChained' /\ RowIsSomeBid'
<1>1. bids' = bids \cup rows
  BY DEF Apply
<1>2. Chained(bids')
  BY <1>1 DEF IInv, SequenceChained, Chained, Linked
<1>3. NoCollision(bids')
  <2>1. \A b, c \in bids : Collide(b, c) => b = c
    BY DEF IInv, SequenceChained, NoCollision
  <2>2. \A b \in rows, c \in bids \cup rows : Collide(b, c) => b = c
    BY DEF Insertable
  <2>3. \A b, c : Collide(b, c) => Collide(c, b)
    BY DEF Collide
  <2> QED
    BY <1>1, <2>1, <2>2, <2>3 DEF NoCollision
<1>4. PICK pick \in Picks(rows) : auctions' = Updated(pick)
  BY DEF Apply
<1>5. ASSUME NEW a \in Auctions PROVE RowOfSomeBid(auctions'[a], BidsOf(bids', a))
  <2>1. CASE a \in DOMAIN pick
    <3>1. pick[a] \in rows /\ pick[a].auction = a
      BY <2>1 DEF Picks
    <3>2. auctions'[a] = [status |-> auctions[a].status, version |-> pick[a].seq,
                          top |-> pick[a].amount, winner |-> pick[a].id]
      BY <1>4, <2>1 DEF Updated
    <3>3. pick[a] \in BidsOf(bids', a)
      BY <1>1, <3>1 DEF BidsOf
    <3> QED
      BY <3>2, <3>3 DEF RowOfSomeBid
  <2>2. CASE a \notin DOMAIN pick
    <3>1. auctions'[a] = auctions[a]
      BY <1>4, <2>2 DEF Updated
    <3>2. RowOfSomeBid(auctions[a], BidsOf(bids, a))
      BY DEF IInv, RowIsSomeBid
    <3>3. BidsOf(bids, a) \subseteq BidsOf(bids', a)
      BY <1>1 DEF BidsOf
    <3> QED
      BY <3>1, <3>2, <3>3 DEF RowOfSomeBid
  <2> QED
    BY <2>1, <2>2
<1> QED
  BY <1>1, <1>2, <1>3, <1>5 DEF SequenceChained, RowIsSomeBid

(* Evicting what the batch touched leaves in memory only what the table    *)
(* backs, whether the statement landed, was refused or is still running.   *)
LEMMA FailKeepsTruth ==
    ASSUME IInv, NEW s \in Shards, Fail(s), bids' = bids,
           limbo' \subseteq limbo \cup {batch[s]}
    PROVE  /\ AcceptedIsDurable'
           /\ MemoryNeverAhead'
           /\ BatchesLinked'
           /\ DoneMeansLanded'
<1>1. AcceptedIsDurable'
  <2>1. answered' = answered \cup {Refused(RequestOf(b), "Error") : b \in batch[s]}
    BY DEF Fail
  <2>2. \A x \in {Refused(RequestOf(b), "Error") : b \in batch[s]} : x.outcome # "Accepted"
    BY DEF Refused
  <2> QED
    BY <2>1, <2>2, StillDurable DEF IInv
<1>2. MemoryNeverAhead'
  <2> SUFFICES ASSUME NEW a \in Auctions, mem'[a] # Unknown
               PROVE  Backed(a)'
    BY DEF MemoryNeverAhead
  <2>1. mem'[a] = mem[a] /\ \A b \in batch[s] : b.auction # a
    BY DEF Fail, IInv, TypeOK
  <2>2. Backed(a)
    BY <2>1 DEF IInv, MemoryNeverAhead
  <2>3. \A t \in Shards : t # s => batch'[t] = batch[t]
    BY DEF Fail, IInv, TypeOK
  <2> QED
    BY <2>1, <2>2, <2>3, ShardOfRoutes DEF Backed
<1>3. BatchesLinked'
  <2>1. Linked({})'
    BY DEF Linked
  <2>2. \A t \in Shards : batch'[t] = batch[t] \/ batch'[t] = {}
    BY DEF Fail, IInv, TypeOK
  <2>3. \A rows \in limbo' : rows \in limbo \/ rows = batch[s]
    OBVIOUS
  <2> QED
    BY <2>1, <2>2, <2>3 DEF IInv, BatchesLinked, Linked
<1>4. DoneMeansLanded'
  BY DEF Fail, IInv, TypeOK, DoneMeansLanded
<1> QED
  BY <1>1, <1>2, <1>3, <1>4

(* A decision that answers moves nothing the invariant speaks of, but the  *)
(* answer itself, and that is not an accept.                               *)
LEMMA AnswersKeepsTruth ==
    ASSUME IInv, NEW s \in Shards, NEW o \in Outcomes \ {"Accepted"}, Answers(s, o),
           UNCHANGED <<tables, mem, inbox>>
    PROVE  /\ AcceptedIsDurable'
           /\ MemoryNeverAhead'
           /\ BatchesLinked'
           /\ DoneMeansLanded'
           /\ Routed'
           /\ SequenceChained'
           /\ RowIsSomeBid'
<1>1. AcceptedIsDurable'
  <2>1. \A x \in {Refused(hand[s], o)} : x.outcome # "Accepted"
    BY DEF Refused
  <2>2. answered' = answered \cup {Refused(hand[s], o)}
    BY DEF Answers
  <2>3. bids \subseteq bids'
    OBVIOUS
  <2> QED
    BY <2>1, <2>2, <2>3 DEF IInv, AcceptedIsDurable
<1>2. DoneMeansLanded'
  <2>1. PICK st \in AfterDecision(s, batch[s]) : stage' = [stage EXCEPT ![s] = st]
    BY DEF Answers
  <2>2. st # "done"
    BY DecisionIsNotDone
  <2> QED
    BY <2>1, <2>2, StillLanded DEF Answers, IInv, TypeOK
<1>3. MemoryNeverAhead' /\ BatchesLinked'
  BY StillBacked, StillLinked DEF Answers, IInv
<1>4. Routed'
  BY DEF Answers, IInv, TypeOK, Routed
<1>5. SequenceChained' /\ RowIsSomeBid'
  BY DEF IInv, SequenceChained, RowIsSomeBid
<1> QED
  BY <1>1, <1>2, <1>3, <1>4, <1>5

(* An accept: the new bid beats the one its shard's memory stands for, and *)
(* becomes the one it stands for.                                          *)
LEMMA AcceptKeepsTruth ==
    ASSUME IInv, NEW s \in Shards, Accept(s)
    PROVE  /\ MemoryNeverAhead'
           /\ BatchesLinked'
           /\ DoneMeansLanded'
<1> DEFINE r == hand[s]
           a == r.auction
<1>1. /\ a \in Auctions /\ ShardOf[a] = s
      /\ mem[a] \in MemState
      /\ r.amount >= MinNextBid(mem[a].top)
  BY DEF Accept, IInv, TypeOK, Routed, Request
<1>2. PICK drift \in Drifts :
        batch' = [batch EXCEPT ![s] = @ \cup
           {[id |-> r.id, auction |-> a, amount |-> r.amount, key |-> r.key,
             seq |-> mem[a].version + 1, created |-> ShardNow(a) + drift]}]
  BY DEF Accept
<1> DEFINE row == [id |-> r.id, auction |-> a, amount |-> r.amount, key |-> r.key,
                   seq |-> mem[a].version + 1, created |-> ShardNow(a) + drift]
<1>3. batch'[s] = batch[s] \cup {row} /\ \A t \in Shards : t # s => batch'[t] = batch[t]
  BY <1>2 DEF IInv, TypeOK
<1>4. row.auction = a /\ row.seq = mem[a].version + 1 /\ row.amount = r.amount
  OBVIOUS
<1> HIDE DEF row
<1>5. UNCHANGED <<bids, limbo>>
  BY DEF Accept
<1>6. Opens(row) \/ \E c \in bids \cup batch[s] : Beats(row, c)
  <2>1. Backed(a)
    BY <1>1 DEF Accept, IInv, MemoryNeverAhead
  <2>2. CASE mem[a].version = 0 /\ mem[a].top = StartingBid
    BY <2>2, <1>1, <1>4 DEF Opens
  <2>3. ASSUME NEW b \in bids \cup batch[s],
               b.auction = a, b.seq = mem[a].version, b.amount = mem[a].top
        PROVE  Beats(row, b)
    BY <2>3, <1>1, <1>4 DEF Beats
  <2> QED
    BY <2>1, <2>2, <2>3, <1>1 DEF Backed
<1>7. BatchesLinked'
  <2>1. ASSUME NEW b \in batch'[s]
        PROVE  Opens(b) \/ \E c \in bids' \cup batch'[s] : Beats(b, c)
    BY <1>3, <1>5, <1>6 DEF IInv, BatchesLinked, Linked
  <2>2. ASSUME NEW t \in Shards, t # s, NEW b \in batch'[t]
        PROVE  Opens(b) \/ \E c \in bids' \cup batch'[t] : Beats(b, c)
    BY <2>2, <1>3, <1>5 DEF IInv, BatchesLinked, Linked
  <2>3. ASSUME NEW rows \in limbo', NEW b \in rows
        PROVE  Opens(b) \/ \E c \in bids' \cup rows : Beats(b, c)
    BY <1>5 DEF IInv, BatchesLinked, Linked
  <2> QED
    BY <2>1, <2>2, <2>3 DEF BatchesLinked, Linked
<1>8. MemoryNeverAhead'
  <2> SUFFICES ASSUME NEW b \in Auctions, mem'[b] # Unknown
               PROVE  Backed(b)'
    BY DEF MemoryNeverAhead
  <2>1. CASE b = a
    <3>1. mem'[a].version = row.seq /\ mem'[a].top = row.amount
      BY <1>1, <1>4 DEF Accept, IInv, TypeOK
    <3>2. row \in batch'[ShardOf[a]]
      BY <1>1, <1>3
    <3> QED
      BY <2>1, <3>1, <3>2, <1>4 DEF Backed
  <2>2. CASE b # a
    <3>1. mem'[b] = mem[b]
      BY <2>2, <1>1 DEF Accept, IInv, TypeOK
    <3>2. Backed(b)
      BY <3>1 DEF IInv, MemoryNeverAhead
    <3>3. batch[ShardOf[b]] \subseteq batch'[ShardOf[b]]
      BY <1>3, ShardOfRoutes
    <3> QED
      BY <3>1, <3>2, <3>3, <1>5 DEF Backed
  <2> QED
    BY <2>1, <2>2
<1>9. DoneMeansLanded'
  <2>1. PICK st \in AfterDecision(s, batch'[s]) : stage' = [stage EXCEPT ![s] = st]
    BY DEF Accept
  <2>2. st # "done"
    BY DecisionIsNotDone
  <2>3. stage'[s] # "done" /\ \A t \in Shards : t # s => stage'[t] = stage[t]
    BY <2>1, <2>2 DEF IInv, TypeOK
  <2> QED
    BY <2>3, <1>3, <1>5 DEF IInv, DoneMeansLanded
<1> QED
  BY <1>7, <1>8, <1>9

(* The reply of a statement that landed: memory keeps what the table has.  *)
LEMMA ReplyKeepsTruth ==
    ASSUME IInv, NEW s \in Shards, CommitReply(s)
    PROVE  /\ AcceptedIsDurable'
           /\ MemoryNeverAhead'
           /\ BatchesLinked'
           /\ DoneMeansLanded'
<1>1. batch[s] \subseteq bids
  BY DEF CommitReply, IInv, DoneMeansLanded
<1>2. bids' = bids /\ mem' = mem /\ limbo' = limbo
  BY DEF CommitReply
<1>3. /\ batch'[s] = {} /\ stage'[s] # "done"
      /\ \A t \in Shards : t # s => batch'[t] = batch[t] /\ stage'[t] = stage[t]
  BY DEF CommitReply, IInv, TypeOK
<1>4. AcceptedIsDurable'
  BY <1>1, <1>2 DEF CommitReply, IInv, AcceptedIsDurable
<1>5. MemoryNeverAhead'
  BY <1>1, <1>2, <1>3, ShardOfRoutes DEF IInv, MemoryNeverAhead, Backed
<1>6. BatchesLinked'
  BY <1>2, <1>3 DEF IInv, BatchesLinked, Linked
<1>7. DoneMeansLanded'
  BY <1>2, <1>3 DEF IInv, DoneMeansLanded
<1> QED
  BY <1>4, <1>5, <1>6, <1>7

(* A restart forgets memory and batches; what it leaves on its way to      *)
(* Postgres was linked already.                                            *)
LEMMA RestartKeepsTruth ==
    ASSUME IInv, Restart
    PROVE  /\ AcceptedIsDurable'
           /\ MemoryNeverAhead'
           /\ BatchesLinked'
           /\ DoneMeansLanded'
           /\ Routed'
<1>1. AcceptedIsDurable'
  BY DEF Restart, Refused, IInv, AcceptedIsDurable
<1>2. MemoryNeverAhead'
  BY DEF Restart, MemoryNeverAhead
<1>3. BatchesLinked'
  <2>1. \A rows \in limbo' : rows \in limbo \/ \E s \in Shards : rows = batch[s]
    BY DEF Restart
  <2>2. \A s \in Shards : batch'[s] = {}
    BY DEF Restart
  <2>3. bids' = bids
    BY DEF Restart
  <2> QED
    BY <2>1, <2>2, <2>3 DEF IInv, BatchesLinked, Linked
<1>4. DoneMeansLanded'
  BY DEF Restart, DoneMeansLanded
<1>5. Routed'
  BY DEF Restart, Routed
<1> QED
  BY <1>1, <1>2, <1>3, <1>4, <1>5

(* Each operation of the engine and of its surroundings keeps IInv.        *)
LEMMA InvariantStep ==
    ASSUME IInv, [Next]_vars
    PROVE  IInv'
<1> USE DEF IInv
<1>0. TypeOK'
  BY TypeStep
<1>1. ASSUME NEW r \in Request, Call(r) PROVE IInv'
  BY <1>0, <1>1, StillDurable, StillBacked, StillLinked, StillLanded
     DEF Call, SequenceChained, AcceptedIsDurable, RowIsSomeBid, Routed
<1>2. ASSUME NEW r \in Request, Enqueue(r) PROVE IInv'
  <2>1. Routed'
    <3> DEFINE t == ShardOf[r.auction]
    <3>1. inbox[t] \in Seq(Request) /\ t \in Shards
      BY ShardOfRoutes DEF TypeOK, Request
    <3>2. inbox' = [inbox EXCEPT ![t] = Append(@, r)] /\ hand' = hand
      BY <1>2 DEF Enqueue
    <3>3. ASSUME NEW i \in DOMAIN inbox'[t] PROVE ShardOf[inbox'[t][i].auction] = t
      <4>1. inbox'[t] = Append(inbox[t], r)
        BY <3>1, <3>2 DEF TypeOK
      <4>2. inbox'[t][i] = r \/ (i \in DOMAIN inbox[t] /\ inbox'[t][i] = inbox[t][i])
        BY <4>1, <3>1
      <4> QED
        BY <4>2, <3>1 DEF Routed
    <3>4. \A s \in Shards : s # t => inbox'[s] = inbox[s]
      BY <3>1, <3>2 DEF TypeOK
    <3> QED
      BY <3>2, <3>3, <3>4 DEF Routed
  <2> QED
    BY <1>0, <1>2, <2>1, StillBacked, StillLinked, StillLanded
       DEF Enqueue, SequenceChained, AcceptedIsDurable, RowIsSomeBid
<1>3. ASSUME NEW r \in Request, GiveUp(r) PROVE IInv'
  <2>1. AcceptedIsDurable'
    BY <1>3 DEF GiveUp, Refused, AcceptedIsDurable
  <2> QED
    BY <1>0, <1>3, <2>1, StillBacked, StillLinked, StillLanded
       DEF GiveUp, SequenceChained, RowIsSomeBid, Routed
<1>4. ASSUME NEW s \in Shards, Take(s) PROVE IInv'
  <2>1. Routed'
    <3>1. inbox[s] \in Seq(Request) /\ inbox[s] # <<>>
      BY <1>4 DEF TypeOK, Take
    <3>2. Head(inbox[s]) = inbox[s][1] /\ 1 \in DOMAIN inbox[s]
      BY <3>1
    <3>3. \A i \in DOMAIN Tail(inbox[s]) :
             i + 1 \in DOMAIN inbox[s] /\ Tail(inbox[s])[i] = inbox[s][i + 1]
      BY <3>1
    <3>4. /\ inbox'[s] = Tail(inbox[s]) /\ hand'[s] = Head(inbox[s])
          /\ \A t \in Shards : t # s => inbox'[t] = inbox[t] /\ hand'[t] = hand[t]
      BY <1>4 DEF Take, TypeOK
    <3>5. /\ ShardOf[Head(inbox[s]).auction] = s
          /\ \A i \in DOMAIN Tail(inbox[s]) : ShardOf[Tail(inbox[s])[i].auction] = s
      BY <3>2, <3>3 DEF Routed
    <3>6. ASSUME NEW t \in Shards
          PROVE  /\ \A i \in DOMAIN inbox'[t] : ShardOf[inbox'[t][i].auction] = t
                 /\ hand'[t] # NoRequest => ShardOf[hand'[t].auction] = t
      <4>1. CASE t = s
        BY <4>1, <3>4, <3>5
      <4>2. CASE t # s
        <5>1. inbox'[t] = inbox[t] /\ hand'[t] = hand[t]
          BY <4>2, <3>4
        <5> QED
          BY <5>1 DEF Routed
      <4> QED
        BY <4>1, <4>2
    <3> QED
      BY <3>6 DEF Routed
  <2> QED
    BY <1>0, <1>4, <2>1, StillBacked, StillLinked, StillLanded
       DEF Take, SequenceChained, AcceptedIsDurable, RowIsSomeBid
<1>5. ASSUME NEW s \in Shards, Hydrate(s) PROVE IInv'
  <2>1. MemoryNeverAhead'
    <3> DEFINE a == hand[s].auction
    <3>1. a \in Auctions
      BY <1>5 DEF Hydrate, TypeOK, Request
    <3>2. /\ mem'[a].version = auctions[a].version /\ mem'[a].top = auctions[a].top
          /\ \A b \in Auctions : b # a => mem'[b] = mem[b]
      BY <1>5, <3>1 DEF Hydrate, TypeOK
    <3>3. RowOfSomeBid(auctions[a], BidsOf(bids, a))
      BY <3>1 DEF RowIsSomeBid
    <3>4. bids' = bids /\ batch' = batch
      BY <1>5 DEF Hydrate
    <3> HIDE DEF a
    <3>5. \/ auctions[a].version = 0 /\ auctions[a].top = StartingBid
          \/ \E b \in bids : /\ b.auction = a /\ b.seq = auctions[a].version
                             /\ b.amount = auctions[a].top
      BY <3>3 DEF RowOfSomeBid, BidsOf
    <3>6. \/ mem'[a].version = 0 /\ mem'[a].top = StartingBid
          \/ \E b \in bids' \cup batch'[ShardOf[a]] :
                b.auction = a /\ b.seq = mem'[a].version /\ b.amount = mem'[a].top
      BY <3>2, <3>4, <3>5
    <3>7. ASSUME NEW b \in Auctions, b # a, mem'[b] # Unknown
          PROVE  \/ mem'[b].version = 0 /\ mem'[b].top = StartingBid
                 \/ \E c \in bids' \cup batch'[ShardOf[b]] :
                       c.auction = b /\ c.seq = mem'[b].version /\ c.amount = mem'[b].top
      BY <3>2, <3>4, <3>7 DEF MemoryNeverAhead, Backed
    <3> QED
      BY <3>6, <3>7 DEF MemoryNeverAhead, Backed
  <2> QED
    BY <1>0, <1>5, <2>1, StillLinked, StillLanded
       DEF Hydrate, SequenceChained, AcceptedIsDurable, RowIsSomeBid, Routed
<1>6. ASSUME NEW s \in Shards, HydrateMiss(s) PROVE IInv'
  BY <1>0, <1>6, AnswersKeepsTruth DEF HydrateMiss, Outcomes
<1>7. ASSUME NEW s \in Shards, HydrateError(s) PROVE IInv'
  BY <1>0, <1>7, AnswersKeepsTruth DEF HydrateError, Outcomes
<1>8. ASSUME NEW s \in Shards, RejectClosed(s) PROVE IInv'
  BY <1>0, <1>8, AnswersKeepsTruth DEF RejectClosed, Outcomes
<1>9. ASSUME NEW s \in Shards, RejectTooLow(s) PROVE IInv'
  BY <1>0, <1>9, AnswersKeepsTruth DEF RejectTooLow, Outcomes
<1>10. ASSUME NEW s \in Shards, Accept(s) PROVE IInv'
  <2>1. Routed'
    BY <1>10 DEF Accept, Routed, TypeOK
  <2> QED
    BY <1>0, <1>10, <2>1, AcceptKeepsTruth
       DEF Accept, SequenceChained, AcceptedIsDurable, RowIsSomeBid
<1>11. ASSUME NEW s \in Shards, InboxDrained(s) PROVE IInv'
  <2>1. \A t \in Shards : stage'[t] = "done" => stage[t] = "done"
    BY <1>11 DEF InboxDrained, TypeOK
  <2> QED
    BY <1>0, <1>11, <2>1, StillBacked, StillLinked, StillLanded
       DEF InboxDrained, SequenceChained, AcceptedIsDurable, RowIsSomeBid, Routed
<1>12. ASSUME NEW s \in Shards, Land(s) PROVE IInv'
  <2>1. batch[s] \in SUBSET BidRow /\ Linked(batch[s])
    BY DEF TypeOK, BatchesLinked
  <2>2. bids \subseteq bids' /\ SequenceChained' /\ RowIsSomeBid'
    BY <1>12, <2>1, ApplyExtends DEF Land
  <2>3. DoneMeansLanded'
    BY <1>12, <2>2 DEF Land, Apply, TypeOK, DoneMeansLanded
  <2>4. AcceptedIsDurable'
    BY <1>12, <2>2 DEF Land, AcceptedIsDurable
  <2> QED
    BY <1>0, <1>12, <2>2, <2>3, <2>4, StillBacked, StillLinked DEF Land, Routed
<1>13. ASSUME NEW s \in Shards, Abort(s) PROVE IInv'
  BY <1>0, <1>13, FailKeepsTruth DEF Abort, SequenceChained, RowIsSomeBid, Routed
<1>14. ASSUME NEW s \in Shards, CommitError(s) PROVE IInv'
  <2>1. limbo' \subseteq limbo \cup {batch[s]} /\ bids' = bids
    BY <1>14 DEF CommitError
  <2> QED
    BY <1>0, <1>14, <2>1, FailKeepsTruth
       DEF CommitError, SequenceChained, RowIsSomeBid, Routed
<1>15. ASSUME NEW s \in Shards, CommitReplyLost(s) PROVE IInv'
  BY <1>0, <1>15, FailKeepsTruth
     DEF CommitReplyLost, SequenceChained, RowIsSomeBid, Routed
<1>16. ASSUME NEW s \in Shards, CommitReply(s) PROVE IInv'
  BY <1>0, <1>16, ReplyKeepsTruth
     DEF CommitReply, SequenceChained, RowIsSomeBid, Routed
<1>17. ASSUME NEW rows \in limbo, LimboLands(rows) PROVE IInv'
  <2>1. rows \in SUBSET BidRow /\ Linked(rows)
    BY DEF TypeOK, BatchesLinked
  <2>2. bids \subseteq bids' /\ SequenceChained' /\ RowIsSomeBid'
    BY <1>17, <2>1, ApplyExtends DEF LimboLands
  <2>3. limbo' \subseteq limbo
    BY <1>17 DEF LimboLands
  <2>4. AcceptedIsDurable'
    BY <1>17, <2>2 DEF LimboLands, AcceptedIsDurable
  <2> QED
    BY <1>0, <1>17, <2>2, <2>3, <2>4, StillBacked, StillLinked, StillLanded
       DEF LimboLands, Routed
<1>18. ASSUME NEW rows \in limbo, LimboDies(rows) PROVE IInv'
  BY <1>0, <1>18, StillBacked, StillLinked, StillLanded
     DEF LimboDies, SequenceChained, AcceptedIsDurable, RowIsSomeBid, Routed
<1>19. CASE Restart
  BY <1>0, <1>19, RestartKeepsTruth
     DEF Restart, SequenceChained, RowIsSomeBid
<1>20. ASSUME NEW a \in Auctions, Create(a) PROVE IInv'
  <2>1. RowIsSomeBid'
    BY <1>20 DEF Create, RowIsSomeBid, RowOfSomeBid, FreshRow, NoRow, TypeOK
  <2> QED
    BY <1>0, <1>20, <2>1, StillBacked, StillLinked, StillLanded
       DEF Create, SequenceChained, AcceptedIsDurable, Routed
<1>21. ASSUME NEW a \in Auctions, CloseRow(a) PROVE IInv'
  <2>1. \A b \in Auctions : /\ auctions'[b].version = auctions[b].version
                            /\ auctions'[b].top = auctions[b].top
                            /\ auctions'[b].winner = auctions[b].winner
    BY <1>21 DEF CloseRow, TypeOK, AuctionRow
  <2>2. RowIsSomeBid'
    BY <1>21, <2>1 DEF CloseRow, RowIsSomeBid, RowOfSomeBid
  <2> QED
    BY <1>0, <1>21, <2>2, StillBacked, StillLinked, StillLanded
       DEF CloseRow, SequenceChained, AcceptedIsDurable, Routed
<1>22. CASE Tick
  BY <1>0, <1>22, StillBacked, StillLinked, StillLanded
     DEF Tick, SequenceChained, AcceptedIsDurable, RowIsSomeBid, Routed
<1>23. CASE UNCHANGED vars
  BY <1>0, <1>23, StillBacked, StillLinked, StillLanded
     DEF vars, SequenceChained, AcceptedIsDurable, RowIsSomeBid, Routed
<1> HIDE DEF IInv
<1> QED
  BY <1>1, <1>2, <1>3, <1>4, <1>5, <1>6, <1>7, <1>8, <1>9, <1>10, <1>11, <1>12,
     <1>13, <1>14, <1>15, <1>16, <1>17, <1>18, <1>19, <1>20, <1>21, <1>22, <1>23
     DEF Next, Place, Run, Decide, Commit

(* IInv holds in every reachable state: the strengthening under which the  *)
(* single writer's promises are inductive, whatever lands, aborts or dies. *)
THEOREM Inductive == Spec => []IInv
<1>1. Init => IInv
  <2> SUFFICES ASSUME Init PROVE IInv
    OBVIOUS
  <2>1. TypeOK
    BY StartingBidIsCents DEF Init, TypeOK, Stages, NoRow, FreshRow, AuctionRow
  <2>2. SequenceChained /\ AcceptedIsDurable
    BY DEF Init, SequenceChained, Chained, NoCollision, AcceptedIsDurable
  <2>3. MemoryNeverAhead /\ RowIsSomeBid
    BY DEF Init, MemoryNeverAhead, RowIsSomeBid, RowOfSomeBid, NoRow, FreshRow
  <2>4. BatchesLinked /\ DoneMeansLanded /\ Routed
    BY DEF Init, BatchesLinked, Linked, DoneMeansLanded, Routed
  <2> QED
    BY <2>1, <2>2, <2>3, <2>4 DEF IInv
<1>2. IInv /\ [Next]_vars => IInv'
  BY InvariantStep
<1> QED
  BY <1>1, <1>2, PTL DEF Spec

(* SequenceChained: I1 and I2 of the checker hold at every moment.         *)
THEOREM AlwaysChained == Spec => []SequenceChained
<1>1. IInv => SequenceChained
  BY DEF IInv
<1> QED
  BY <1>1, Inductive, PTL

(* AcceptedIsDurable: no 201 leaves before its bid is in the table.        *)
THEOREM AcceptsAreDurable == Spec => []AcceptedIsDurable
<1>1. IInv => AcceptedIsDurable
  BY DEF IInv
<1> QED
  BY <1>1, Inductive, PTL

(* MemoryNeverAhead: once a batch is answered, a shard knows of an auction *)
(* nothing that the table of bids does not hold.                           *)
THEOREM MemoryIsBacked == Spec => []MemoryNeverAhead
<1>1. IInv => MemoryNeverAhead
  BY DEF IInv
<1> QED
  BY <1>1, Inductive, PTL

(* RowIsSomeBid: the published row never mixes two bids.                   *)
THEOREM RowsAreBids == Spec => []RowIsSomeBid
<1>1. IInv => RowIsSomeBid
  BY DEF IInv
<1> QED
  BY <1>1, Inductive, PTL

(* A statement writes version, top and winner, and never the status.       *)
LEMMA ApplyKeepsStatus ==
    ASSUME TypeOK, NEW rows \in SUBSET BidRow, Apply(rows), NEW a \in Auctions
    PROVE  auctions'[a].status = auctions[a].status
<1>1. PICK pick \in Picks(rows) : auctions' = Updated(pick)
  BY DEF Apply
<1> QED
  BY <1>1 DEF Updated

(* ClosedStaysClosed: no operation reopens an auction, not even a batch    *)
(* that was decided before the end and lands after closerd's UPDATE.       *)
THEOREM NothingReopens == Spec => ClosedStaysClosed
<1>1. ASSUME TypeOK, [Next]_vars, NEW a \in Auctions, auctions[a].status = "closed"
      PROVE  auctions'[a].status = "closed"
  <2>1. ASSUME NEW s \in Shards, Land(s) PROVE auctions'[a].status = "closed"
    BY <1>1, <2>1, ApplyKeepsStatus DEF Land, TypeOK
  <2>2. ASSUME NEW rows \in limbo, LimboLands(rows) PROVE auctions'[a].status = "closed"
    BY <1>1, <2>2, ApplyKeepsStatus DEF LimboLands, TypeOK
  <2>3. ASSUME NEW b \in Auctions, Create(b) PROVE auctions'[a].status = "closed"
    BY <1>1, <2>3 DEF Create, TypeOK
  <2>4. ASSUME NEW b \in Auctions, CloseRow(b) PROVE auctions'[a].status = "closed"
    BY <1>1, <2>4 DEF CloseRow, TypeOK
  <2>5. CASE UNCHANGED auctions
    BY <1>1, <2>5
  <2>6. ASSUME NEW r \in Request, Place(r) PROVE UNCHANGED auctions
    BY <2>6 DEF Place, Call, Enqueue, GiveUp
  <2>7. ASSUME NEW s \in Shards, Run(s), ~Land(s) PROVE UNCHANGED auctions
    BY <2>7 DEF Run, Decide, Commit, Take, Hydrate, HydrateMiss, HydrateError, RejectClosed,
       RejectTooLow, Accept, InboxDrained, Abort, CommitError, CommitReplyLost, CommitReply
  <2>8. Restart \/ Tick \/ (UNCHANGED vars) \/ (\E rows \in limbo : LimboDies(rows))
           => UNCHANGED auctions
    BY DEF Restart, Tick, vars, LimboDies
  <2> QED
    BY <1>1, <2>1, <2>2, <2>3, <2>4, <2>5, <2>6, <2>7, <2>8 DEF Next
<1>2. TypeOK /\ [Next]_vars =>
         [\A a \in Auctions : auctions[a].status = "closed" => auctions'[a].status = "closed"]_vars
  BY <1>1
<1> QED
  BY <1>2, TypeCorrect, PTL DEF Spec, ClosedStaysClosed

----------------------------------------------------------------------------
(* The contract of package bid.  What it needs beyond IInv: a call is in   *)
(* one place of the engine at most - with its caller, in an inbox, in a    *)
(* hand or in a batch - and in none once it was answered; and what is in   *)
(* the table or on its way to it was decided.                              *)

CallingIds   == {r.id : r \in calling}
QueuedIds(s) == {inbox[s][n].id : n \in DOMAIN inbox[s]}
HandIds(s)   == {r.id : r \in {hand[s]} \ {NoRequest}}
BatchIds(s)  == {b.id : b \in batch[s]}
ShardIds(s)  == QueuedIds(s) \cup HandIds(s) \cup BatchIds(s)

Written == bids \cup UNION limbo

OnceEach ==
    /\ \A r, q \in calling : r.id = q.id => r = q
    /\ \A s \in Shards : \A m, n \in DOMAIN inbox[s] : inbox[s][m].id = inbox[s][n].id => m = n
    /\ \A s \in Shards : \A b, c \in batch[s] : b.id = c.id => b = c

Apart ==
    /\ CallingIds \subseteq called
    /\ \A s \in Shards :
          /\ ShardIds(s) \subseteq called
          /\ CallingIds \cap ShardIds(s) = {}
          /\ QueuedIds(s) \cap HandIds(s) = {}
          /\ (QueuedIds(s) \cup HandIds(s)) \cap BatchIds(s) = {}
          /\ \A t \in Shards \ {s} : ShardIds(s) \cap ShardIds(t) = {}

ToldIsOver ==
    \A x \in answered :
        /\ x.req.id \in called /\ x.req.id \notin CallingIds
        /\ \A s \in Shards : x.req.id \notin ShardIds(s)

WrittenIsDecided ==
    \A b \in Written :
        /\ b.id \in called /\ b.id \notin CallingIds
        /\ \A s \in Shards : b.id \notin QueuedIds(s) \cup HandIds(s)

(* Of the contract: one answer to a call, and no bid of a rejected one,    *)
(* not even on its way.                                                    *)
ToldOnce ==
    \A x \in answered :
        /\ \A y \in answered : y.req.id = x.req.id => y = x
        /\ x.outcome \in Rejections => \A b \in Written : b.id # x.req.id

OnePlace == OnceEach /\ Apart /\ ToldIsOver /\ WrittenIsDecided /\ ToldOnce

(* What a shard has not decided yet, and what a caller has not handed over *)
Undecided(s) == CallingIds \cup QueuedIds(s) \cup HandIds(s)

(* One shard moves what it holds towards the answer, takes what a caller   *)
(* hands over, writes no more than its batch, and answers what it lets go  *)
(* of.  Everything a call meets but the restart is such a step.            *)
LEMMA ShardStep ==
    ASSUME Apart, ToldIsOver, WrittenIsDecided, ToldOnce,
           NEW s \in Shards, NEW new,
           called' = called,
           CallingIds' \subseteq CallingIds,
           Undecided(s)' \subseteq Undecided(s),
           BatchIds(s)' \subseteq BatchIds(s) \cup HandIds(s),
           CallingIds' \cap ShardIds(s)' = {},
           QueuedIds(s)' \cap HandIds(s)' = {},
           (QueuedIds(s) \cup HandIds(s))' \cap BatchIds(s)' = {},
           \A t \in Shards \ {s} : /\ QueuedIds(t)' = QueuedIds(t)
                                   /\ HandIds(t)' = HandIds(t)
                                   /\ BatchIds(t)' = BatchIds(t),
           Written' \subseteq Written \cup batch[s],
           answered' = answered \cup new,
           \A x \in new : /\ x.req.id \in CallingIds \cup ShardIds(s)
                          /\ x.req.id \notin (CallingIds \cup ShardIds(s))'
                          /\ \A y \in new : y.req.id = x.req.id => y = x
                          /\ x.outcome \in Rejections => x.req.id \in Undecided(s)
    PROVE  Apart' /\ ToldIsOver' /\ WrittenIsDecided' /\ ToldOnce'
<1>1. (CallingIds \cup ShardIds(s))' \subseteq CallingIds \cup ShardIds(s)
  BY DEF Undecided, ShardIds
<1>2. \A t \in Shards \ {s} : ShardIds(t)' = ShardIds(t)
  BY DEF ShardIds
<1>3. CallingIds \cup ShardIds(s) \subseteq called
  BY DEF Apart
<1>4. \A t \in Shards \ {s} : (CallingIds \cup ShardIds(s)) \cap ShardIds(t) = {}
  BY DEF Apart
<1>5. Apart'
  <2>1. (CallingIds \subseteq called)' /\ (ShardIds(s) \subseteq called)'
    BY <1>1, <1>3
  <2>2. ASSUME NEW t \in Shards \ {s}
        PROVE  /\ (ShardIds(t) \subseteq called)'
               /\ (CallingIds \cap ShardIds(t) = {})'
               /\ (QueuedIds(t) \cap HandIds(t) = {})'
               /\ ((QueuedIds(t) \cup HandIds(t)) \cap BatchIds(t) = {})'
               /\ (ShardIds(s) \cap ShardIds(t) = {})'
               /\ (ShardIds(t) \cap ShardIds(s) = {})'
               /\ \A u \in Shards \ {t} : (ShardIds(t) \cap ShardIds(u) = {})'
    <3>1. (ShardIds(s) \cap ShardIds(t) = {})' /\ (CallingIds \cap ShardIds(t) = {})'
      BY <1>1, <1>2, <1>4
    <3>2. \A u \in Shards \ {t} : (ShardIds(t) \cap ShardIds(u) = {})'
      BY <1>2, <3>1 DEF Apart
    <3> QED
      BY <1>2, <3>1, <3>2 DEF Apart
  <2> QED
    BY <2>1, <2>2 DEF Apart
<1>6. ToldIsOver'
  <2>1. ASSUME NEW x \in answered
        PROVE  /\ x.req.id \in called' /\ x.req.id \notin CallingIds'
               /\ \A t \in Shards : x.req.id \notin ShardIds(t)'
    BY <1>1, <1>2 DEF ToldIsOver
  <2>2. ASSUME NEW x \in new
        PROVE  /\ x.req.id \in called' /\ x.req.id \notin CallingIds'
               /\ \A t \in Shards : x.req.id \notin ShardIds(t)'
    BY <1>2, <1>3, <1>4
  <2> QED
    BY <2>1, <2>2 DEF ToldIsOver
<1>7. WrittenIsDecided'
  <2>1. ASSUME NEW b \in Written
        PROVE  /\ b.id \in called' /\ b.id \notin CallingIds'
               /\ \A t \in Shards : b.id \notin (QueuedIds(t) \cup HandIds(t))'
    BY DEF WrittenIsDecided, Undecided
  <2>2. ASSUME NEW b \in batch[s]
        PROVE  /\ b.id \in called' /\ b.id \notin CallingIds'
               /\ \A t \in Shards : b.id \notin (QueuedIds(t) \cup HandIds(t))'
    <3>1. b.id \in BatchIds(s) /\ b.id \in ShardIds(s)
      BY DEF BatchIds, ShardIds
    <3>2. b.id \notin Undecided(s)
      BY <3>1 DEF Apart, Undecided
    <3>3. \A t \in Shards \ {s} : b.id \notin QueuedIds(t) \cup HandIds(t)
      BY <1>4, <3>1 DEF ShardIds
    <3> QED
      BY <1>3, <3>1, <3>2, <3>3 DEF Undecided
  <2> QED
    BY <2>1, <2>2 DEF WrittenIsDecided
<1>8. ToldOnce'
  <2>1. \A x \in new, y \in answered : y.req.id # x.req.id
    BY DEF ToldIsOver
  <2>2. \A x, y \in answered' : y.req.id = x.req.id => y = x
    BY <2>1 DEF ToldOnce
  <2>3. ASSUME NEW x \in answered', x.outcome \in Rejections, NEW b \in Written'
        PROVE  b.id # x.req.id
    <3>1. CASE x \in answered
      <4>1. \A c \in batch[s] : c.id # x.req.id
        BY <3>1 DEF ToldIsOver, ShardIds, BatchIds
      <4> QED
        BY <2>3, <3>1, <4>1 DEF ToldOnce
    <3>2. CASE x \in new
      <4>1. x.req.id \in Undecided(s)
        BY <2>3, <3>2
      <4>2. \A c \in batch[s] : c.id # x.req.id
        BY <4>1 DEF Undecided, Apart, ShardIds, BatchIds
      <4>3. \A c \in Written : c.id # x.req.id
        BY <4>1 DEF Undecided, WrittenIsDecided
      <4> QED
        BY <4>2, <4>3
    <3> QED
      BY <3>1, <3>2
  <2> QED
    BY <2>2, <2>3 DEF ToldOnce
<1> QED
  BY <1>5, <1>6, <1>7, <1>8

(* A step that moves no call and writes nothing that was not on its way.   *)
LEMMA QuietStep ==
    ASSUME OnePlace, UNCHANGED <<called, calling, inbox, hand, batch, answered>>,
           Written' \subseteq Written
    PROVE  OnePlace'
<1>1. CallingIds' = CallingIds
  BY DEF CallingIds
<1>2. ASSUME NEW s \in Shards
      PROVE  /\ QueuedIds(s)' = QueuedIds(s) /\ HandIds(s)' = HandIds(s)
             /\ BatchIds(s)' = BatchIds(s) /\ ShardIds(s)' = ShardIds(s)
  BY DEF QueuedIds, HandIds, BatchIds, ShardIds
<1>3. OnceEach'
  BY DEF OnePlace, OnceEach
<1>4. Apart'
  BY <1>1, <1>2 DEF OnePlace, Apart
<1>5. ToldIsOver'
  BY <1>1, <1>2 DEF OnePlace, ToldIsOver
<1>6. WrittenIsDecided'
  BY <1>1, <1>2 DEF OnePlace, WrittenIsDecided
<1>7. ToldOnce'
  BY DEF OnePlace, ToldOnce
<1> QED
  BY <1>3, <1>4, <1>5, <1>6, <1>7 DEF OnePlace

(* The ids of a shard no step touched. *)
LEMMA OtherShards ==
    ASSUME NEW t \in Shards, inbox'[t] = inbox[t], hand'[t] = hand[t], batch'[t] = batch[t]
    PROVE  /\ QueuedIds(t)' = QueuedIds(t)
           /\ HandIds(t)' = HandIds(t)
           /\ BatchIds(t)' = BatchIds(t)
BY DEF QueuedIds, HandIds, BatchIds

(* PlaceBid starts: the call is nowhere yet. *)
LEMMA CallOnePlace ==
    ASSUME TypeOK, OnePlace, NEW r \in Request, Call(r)
    PROVE  OnePlace'
<1>1. /\ r.id \notin called /\ called' = called \cup {r.id} /\ calling' = calling \cup {r}
      /\ UNCHANGED <<tables, inbox, hand, batch, answered>>
  BY DEF Call
<1>2. CallingIds' = CallingIds \cup {r.id}
  BY <1>1 DEF CallingIds
<1>3. ASSUME NEW s \in Shards
      PROVE  /\ QueuedIds(s)' = QueuedIds(s) /\ HandIds(s)' = HandIds(s)
             /\ BatchIds(s)' = BatchIds(s) /\ ShardIds(s)' = ShardIds(s)
             /\ r.id \notin ShardIds(s)
  BY <1>1 DEF QueuedIds, HandIds, BatchIds, ShardIds, OnePlace, Apart
<1>4. Written' = Written
  BY <1>1 DEF Written
<1>5. r.id \notin CallingIds
  BY <1>1 DEF OnePlace, Apart
<1>6. OnceEach'
  BY <1>1, <1>5 DEF OnePlace, OnceEach, CallingIds
<1>7. Apart'
  BY <1>1, <1>2, <1>3 DEF OnePlace, Apart
<1>8. ToldIsOver'
  BY <1>1, <1>2, <1>3 DEF OnePlace, ToldIsOver
<1>9. WrittenIsDecided'
  BY <1>1, <1>2, <1>3, <1>4 DEF OnePlace, WrittenIsDecided
<1>10. ToldOnce'
  BY <1>1, <1>4 DEF OnePlace, ToldOnce
<1> QED
  BY <1>6, <1>7, <1>8, <1>9, <1>10 DEF OnePlace

(* The command enters the inbox of its shard. *)
LEMMA EnqueueOnePlace ==
    ASSUME TypeOK, OnePlace, NEW r \in Request, Enqueue(r)
    PROVE  OnePlace'
<1> DEFINE s == ShardOf[r.auction]
<1>1. s \in Shards /\ inbox[s] \in Seq(Request)
  BY ShardOfRoutes DEF Request, TypeOK
<1>2. /\ r \in calling /\ calling' = calling \ {r} /\ inbox' = [inbox EXCEPT ![s] = Append(@, r)]
      /\ UNCHANGED <<tables, called, hand, batch, answered>>
  BY DEF Enqueue
<1> HIDE DEF s
<1>3. inbox'[s] = Append(inbox[s], r) /\ \A t \in Shards \ {s} : inbox'[t] = inbox[t]
  BY <1>1, <1>2 DEF TypeOK
<1>4. /\ \A n \in DOMAIN inbox[s] : n \in DOMAIN inbox'[s] /\ inbox'[s][n] = inbox[s][n]
      /\ \A n \in DOMAIN inbox'[s] :
            \/ n \in DOMAIN inbox[s] /\ inbox'[s][n] = inbox[s][n]
            \/ n = Len(inbox[s]) + 1 /\ inbox'[s][n] = r
      /\ Len(inbox[s]) + 1 \in DOMAIN inbox'[s]
  BY <1>1, <1>3
<1>5. QueuedIds(s)' = QueuedIds(s) \cup {r.id}
  <2>1. \A n \in DOMAIN inbox'[s] : inbox'[s][n].id \in QueuedIds(s) \cup {r.id}
    BY <1>4 DEF QueuedIds
  <2>2. \A n \in DOMAIN inbox[s] : inbox[s][n].id \in QueuedIds(s)'
    BY <1>4 DEF QueuedIds
  <2>3. r.id \in QueuedIds(s)'
    <3>1. inbox'[s][Len(inbox[s]) + 1] = r
      BY <1>1, <1>3
    <3> QED
      BY <1>4, <3>1 DEF QueuedIds
  <2> QED
    BY <2>1, <2>2, <2>3 DEF QueuedIds
<1>6. HandIds(s)' = HandIds(s) /\ BatchIds(s)' = BatchIds(s)
  BY <1>2 DEF HandIds, BatchIds
<1>7. r.id \in CallingIds /\ CallingIds' = CallingIds \ {r.id}
  BY <1>2 DEF CallingIds, OnePlace, OnceEach
<1>8. r.id \notin ShardIds(s)
  BY <1>1, <1>7 DEF OnePlace, Apart
<1>9. OnceEach'
  <2>1. ASSUME NEW m \in DOMAIN inbox'[s], NEW n \in DOMAIN inbox'[s],
               inbox'[s][m].id = inbox'[s][n].id
        PROVE  m = n
    <3>1. \A k \in DOMAIN inbox[s] : inbox[s][k].id # r.id
      BY <1>8 DEF ShardIds, QueuedIds
    <3> QED
      BY <1>1, <1>4, <2>1, <3>1 DEF OnePlace, OnceEach
  <2>2. \A t \in Shards : \A m, n \in DOMAIN inbox'[t] : inbox'[t][m].id = inbox'[t][n].id => m = n
    BY <1>3, <2>1 DEF OnePlace, OnceEach
  <2> QED
    BY <1>2, <2>2 DEF OnePlace, OnceEach
<1>10. Apart' /\ ToldIsOver' /\ WrittenIsDecided' /\ ToldOnce'
  <2>1. \A t \in Shards \ {s} : /\ QueuedIds(t)' = QueuedIds(t) /\ HandIds(t)' = HandIds(t)
                                /\ BatchIds(t)' = BatchIds(t)
    BY <1>2, <1>3, OtherShards
  <2>2. Undecided(s)' \subseteq Undecided(s) /\ BatchIds(s)' \subseteq BatchIds(s) \cup HandIds(s)
    BY <1>5, <1>6, <1>7 DEF Undecided
  <2>3. CallingIds' \cap ShardIds(s)' = {}
    BY <1>1, <1>5, <1>6, <1>7 DEF ShardIds, OnePlace, Apart
  <2>4. /\ QueuedIds(s)' \cap HandIds(s)' = {}
        /\ (QueuedIds(s) \cup HandIds(s))' \cap BatchIds(s)' = {}
    BY <1>1, <1>5, <1>6, <1>8 DEF ShardIds, OnePlace, Apart
  <2>5. Written' \subseteq Written \cup batch[s] /\ answered' = answered \cup {}
    BY <1>2 DEF Written
  <2> QED
    BY <1>1, <1>2, <1>7, <2>1, <2>2, <2>3, <2>4, <2>5, ShardStep DEF OnePlace
<1> QED
  BY <1>9, <1>10 DEF OnePlace

(* The caller leaves before the enqueue. *)
LEMMA GiveUpOnePlace ==
    ASSUME TypeOK, OnePlace, NEW r \in Request, GiveUp(r)
    PROVE  OnePlace'
<1> DEFINE s == ShardOf[r.auction]
           new == {Refused(r, "Cancelled")}
<1>1. s \in Shards
  BY ShardOfRoutes DEF Request
<1>2. /\ r \in calling /\ calling' = calling \ {r} /\ answered' = answered \cup new
      /\ UNCHANGED <<tables, called, inbox, hand, batch>>
  BY DEF GiveUp
<1> HIDE DEF s
<1>3. \A t \in Shards : /\ QueuedIds(t)' = QueuedIds(t) /\ HandIds(t)' = HandIds(t)
                        /\ BatchIds(t)' = BatchIds(t)
  BY <1>2, OtherShards
<1>4. r.id \in CallingIds /\ CallingIds' = CallingIds \ {r.id}
  BY <1>2 DEF CallingIds, OnePlace, OnceEach
<1>5. r.id \notin ShardIds(s)
  BY <1>1, <1>4 DEF OnePlace, Apart
<1>6. OnceEach'
  BY <1>2 DEF OnePlace, OnceEach
<1>7. \A x \in new : x.req.id = r.id /\ \A y \in new : y = x
  BY DEF Refused
<1> HIDE DEF new
<1>8. Apart' /\ ToldIsOver' /\ WrittenIsDecided' /\ ToldOnce'
  <2>1. Undecided(s)' \subseteq Undecided(s) /\ BatchIds(s)' \subseteq BatchIds(s) \cup HandIds(s)
    BY <1>1, <1>3, <1>4 DEF Undecided
  <2>2. /\ CallingIds' \cap ShardIds(s)' = {}
        /\ QueuedIds(s)' \cap HandIds(s)' = {}
        /\ (QueuedIds(s) \cup HandIds(s))' \cap BatchIds(s)' = {}
    BY <1>1, <1>3, <1>4 DEF ShardIds, OnePlace, Apart
  <2>3. Written' \subseteq Written \cup batch[s]
    BY <1>2 DEF Written
  <2>4. r.id \notin (CallingIds \cup ShardIds(s))' /\ r.id \in Undecided(s)
    BY <1>1, <1>3, <1>4, <1>5 DEF ShardIds, Undecided
  <2>5. \A x \in new : /\ x.req.id \in CallingIds \cup ShardIds(s)
                       /\ x.req.id \notin (CallingIds \cup ShardIds(s))'
                       /\ \A y \in new : y.req.id = x.req.id => y = x
                       /\ x.outcome \in Rejections => x.req.id \in Undecided(s)
    BY <1>4, <1>7, <2>4
  <2> QED
    BY <1>1, <1>2, <1>3, <1>4, <2>1, <2>2, <2>3, <2>5, ShardStep DEF OnePlace
<1> QED
  BY <1>6, <1>8 DEF OnePlace

(* The goroutine takes the head of its inbox in its hand. *)
LEMMA TakeOnePlace ==
    ASSUME TypeOK, OnePlace, NEW s \in Shards, Take(s)
    PROVE  OnePlace'
<1>1. /\ inbox[s] \in Seq(Request) /\ inbox[s] # <<>> /\ hand[s] = NoRequest
      /\ inbox'[s] = Tail(inbox[s]) /\ hand'[s] = Head(inbox[s])
      /\ \A t \in Shards \ {s} : inbox'[t] = inbox[t] /\ hand'[t] = hand[t]
      /\ UNCHANGED <<tables, called, calling, batch, answered>>
  BY DEF Take, TypeOK
<1> DEFINE h == Head(inbox[s])
<1>2. /\ h = inbox[s][1] /\ 1 \in DOMAIN inbox[s] /\ h \in Request
      /\ \A n \in DOMAIN Tail(inbox[s]) :
            n + 1 \in DOMAIN inbox[s] /\ Tail(inbox[s])[n] = inbox[s][n + 1] /\ n \in Nat \ {0}
      /\ \A n \in DOMAIN inbox[s] : n \in Nat \ {0} /\ (n # 1 =>
            n - 1 \in DOMAIN Tail(inbox[s]) /\ Tail(inbox[s])[n - 1] = inbox[s][n])
  BY <1>1
<1>3. h.id \in QueuedIds(s)
  BY <1>2 DEF QueuedIds
<1> HIDE DEF h
<1>4. QueuedIds(s)' = QueuedIds(s) \ {h.id}
  <2>1. \A n \in DOMAIN Tail(inbox[s]) :
           Tail(inbox[s])[n].id \in QueuedIds(s) /\ Tail(inbox[s])[n].id # h.id
    <3> SUFFICES ASSUME NEW n \in DOMAIN Tail(inbox[s])
                 PROVE  Tail(inbox[s])[n].id \in QueuedIds(s) /\ Tail(inbox[s])[n].id # h.id
      OBVIOUS
    <3>1. /\ n + 1 \in DOMAIN inbox[s] /\ Tail(inbox[s])[n] = inbox[s][n + 1]
          /\ n \in Nat \ {0} /\ n + 1 # 1
      BY <1>2
    <3> QED
      BY <1>2, <3>1 DEF QueuedIds, OnePlace, OnceEach
  <2>2. \A n \in DOMAIN inbox[s] : inbox[s][n].id # h.id => inbox[s][n].id \in QueuedIds(s)'
    <3> SUFFICES ASSUME NEW n \in DOMAIN inbox[s], inbox[s][n].id # h.id
                 PROVE  inbox[s][n].id \in QueuedIds(s)'
      OBVIOUS
    <3>1. n # 1
      BY <1>2
    <3>2. n - 1 \in DOMAIN inbox'[s] /\ inbox'[s][n - 1] = inbox[s][n]
      BY <1>1, <1>2, <3>1
    <3> QED
      BY <3>2 DEF QueuedIds
  <2>3. QueuedIds(s)' \subseteq QueuedIds(s) \ {h.id}
    <3>1. QueuedIds(s)' = {Tail(inbox[s])[n].id : n \in DOMAIN Tail(inbox[s])}
      BY <1>1 DEF QueuedIds
    <3> QED
      BY <2>1, <3>1
  <2>4. ASSUME NEW i \in QueuedIds(s), i # h.id PROVE i \in QueuedIds(s)'
    <3>1. PICK n \in DOMAIN inbox[s] : i = inbox[s][n].id
      BY DEF QueuedIds
    <3> QED
      BY <2>2, <2>4, <3>1
  <2> QED
    BY <2>3, <2>4
<1>5. HandIds(s) = {} /\ HandIds(s)' = {h.id} /\ BatchIds(s)' = BatchIds(s)
  BY <1>1, <1>2, NoRequestIsNotARequest DEF HandIds, BatchIds, h
<1>6. CallingIds' = CallingIds
  BY <1>1 DEF CallingIds
<1>7. OnceEach'
  <2>1. ASSUME NEW m \in DOMAIN Tail(inbox[s]), NEW n \in DOMAIN Tail(inbox[s]),
               Tail(inbox[s])[m].id = Tail(inbox[s])[n].id
        PROVE  m = n
    <3>1. m + 1 = n + 1
      BY <1>2, <2>1 DEF OnePlace, OnceEach
    <3> QED
      BY <1>2, <3>1
  <2>2. \A t \in Shards : \A m, n \in DOMAIN inbox'[t] : inbox'[t][m].id = inbox'[t][n].id => m = n
    BY <1>1, <2>1 DEF OnePlace, OnceEach
  <2> QED
    BY <1>1, <2>2 DEF OnePlace, OnceEach
<1>8. Apart' /\ ToldIsOver' /\ WrittenIsDecided' /\ ToldOnce'
  <2>1. \A t \in Shards \ {s} : /\ QueuedIds(t)' = QueuedIds(t) /\ HandIds(t)' = HandIds(t)
                                /\ BatchIds(t)' = BatchIds(t)
    BY <1>1, OtherShards
  <2>2. Undecided(s)' \subseteq Undecided(s) /\ BatchIds(s)' \subseteq BatchIds(s) \cup HandIds(s)
    BY <1>3, <1>4, <1>5, <1>6 DEF Undecided
  <2>3. /\ CallingIds' \cap ShardIds(s)' = {}
        /\ QueuedIds(s)' \cap HandIds(s)' = {}
        /\ (QueuedIds(s) \cup HandIds(s))' \cap BatchIds(s)' = {}
    BY <1>3, <1>4, <1>5, <1>6 DEF ShardIds, OnePlace, Apart
  <2>4. Written' \subseteq Written \cup batch[s] /\ answered' = answered \cup {}
    BY <1>1 DEF Written
  <2> QED
    BY <1>1, <1>6, <2>1, <2>2, <2>3, <2>4, ShardStep DEF OnePlace
<1> QED
  BY <1>7, <1>8 DEF OnePlace

(* A decision that answers lets go of the hand. *)
LEMMA AnswersOnePlace ==
    ASSUME TypeOK, OnePlace, NEW s \in Shards, hand[s] # NoRequest,
           NEW o, Answers(s, o), UNCHANGED <<tables, called, calling, inbox>>
    PROVE  OnePlace'
<1> DEFINE new == {Refused(hand[s], o)}
           h == hand[s].id
<1>1. /\ hand'[s] = NoRequest /\ \A t \in Shards \ {s} : hand'[t] = hand[t]
      /\ batch' = batch /\ answered' = answered \cup new
  BY DEF Answers, TypeOK
<1>2. CallingIds' = CallingIds /\ Written' = Written
  BY <1>1 DEF CallingIds, Written
<1>3. HandIds(s) = {h} /\ HandIds(s)' = {} /\ QueuedIds(s)' = QueuedIds(s) /\ BatchIds(s)' = BatchIds(s)
  BY <1>1 DEF HandIds, QueuedIds, BatchIds
<1>4. \A x \in new : x.req.id = h /\ \A y \in new : y = x
  BY DEF Refused
<1> HIDE DEF new, h
<1>5. OnceEach'
  BY <1>1 DEF OnePlace, OnceEach
<1>6. Apart' /\ ToldIsOver' /\ WrittenIsDecided' /\ ToldOnce'
  <2>1. \A t \in Shards \ {s} : /\ QueuedIds(t)' = QueuedIds(t) /\ HandIds(t)' = HandIds(t)
                                /\ BatchIds(t)' = BatchIds(t)
    BY <1>1, OtherShards
  <2>2. Undecided(s)' \subseteq Undecided(s) /\ BatchIds(s)' \subseteq BatchIds(s) \cup HandIds(s)
    BY <1>2, <1>3 DEF Undecided
  <2>3. /\ CallingIds' \cap ShardIds(s)' = {}
        /\ QueuedIds(s)' \cap HandIds(s)' = {}
        /\ (QueuedIds(s) \cup HandIds(s))' \cap BatchIds(s)' = {}
    BY <1>2, <1>3 DEF ShardIds, OnePlace, Apart
  <2>4. h \notin (CallingIds \cup ShardIds(s))' /\ h \in Undecided(s) /\ h \in ShardIds(s)
    BY <1>2, <1>3 DEF ShardIds, Undecided, OnePlace, Apart
  <2>5. \A x \in new : /\ x.req.id \in CallingIds \cup ShardIds(s)
                       /\ x.req.id \notin (CallingIds \cup ShardIds(s))'
                       /\ \A y \in new : y.req.id = x.req.id => y = x
                       /\ x.outcome \in Rejections => x.req.id \in Undecided(s)
    BY <1>4, <2>4
  <2> QED
    BY <1>1, <1>2, <2>1, <2>2, <2>3, <2>5, ShardStep DEF OnePlace
<1> QED
  BY <1>5, <1>6 DEF OnePlace

(* An accept moves the call from the hand to the batch. *)
LEMMA AcceptOnePlace ==
    ASSUME TypeOK, OnePlace, NEW s \in Shards, Accept(s)
    PROVE  OnePlace'
<1> DEFINE h == hand[s].id
<1>1. PICK row : row.id = h /\ batch' = [batch EXCEPT ![s] = @ \cup {row}]
  <2>1. PICK drift \in Drifts :
        batch' = [batch EXCEPT ![s] = @ \cup
           {[id |-> hand[s].id, auction |-> hand[s].auction, amount |-> hand[s].amount,
             key |-> hand[s].key, seq |-> mem[hand[s].auction].version + 1,
             created |-> ShardNow(hand[s].auction) + drift]}]
    BY DEF Accept
  <2> QED
    BY <2>1
<1>2. /\ hand[s] # NoRequest
      /\ hand'[s] = NoRequest /\ \A t \in Shards \ {s} : hand'[t] = hand[t] /\ batch'[t] = batch[t]
      /\ batch'[s] = batch[s] \cup {row}
      /\ UNCHANGED <<tables, called, calling, inbox, answered>>
  BY <1>1 DEF Accept, TypeOK
<1>3. CallingIds' = CallingIds /\ Written' = Written
  BY <1>2 DEF CallingIds, Written
<1>4. /\ HandIds(s) = {h} /\ HandIds(s)' = {} /\ QueuedIds(s)' = QueuedIds(s)
      /\ BatchIds(s)' = BatchIds(s) \cup {h}
  BY <1>1, <1>2 DEF HandIds, QueuedIds, BatchIds
<1> HIDE DEF h
<1>5. h \notin BatchIds(s)
  BY <1>4 DEF OnePlace, Apart
<1>6. OnceEach'
  <2>1. \A b, c \in batch'[s] : b.id = c.id => b = c
    BY <1>1, <1>2, <1>5 DEF BatchIds, OnePlace, OnceEach
  <2>2. \A t \in Shards : \A b, c \in batch'[t] : b.id = c.id => b = c
    BY <1>2, <2>1 DEF OnePlace, OnceEach
  <2> QED
    BY <1>2, <2>2 DEF OnePlace, OnceEach
<1>7. Apart' /\ ToldIsOver' /\ WrittenIsDecided' /\ ToldOnce'
  <2>1. \A t \in Shards \ {s} : /\ QueuedIds(t)' = QueuedIds(t) /\ HandIds(t)' = HandIds(t)
                                /\ BatchIds(t)' = BatchIds(t)
    BY <1>2, OtherShards
  <2>2. Undecided(s)' \subseteq Undecided(s) /\ BatchIds(s)' \subseteq BatchIds(s) \cup HandIds(s)
    BY <1>3, <1>4 DEF Undecided
  <2>3. /\ CallingIds' \cap ShardIds(s)' = {}
        /\ QueuedIds(s)' \cap HandIds(s)' = {}
        /\ (QueuedIds(s) \cup HandIds(s))' \cap BatchIds(s)' = {}
    BY <1>3, <1>4 DEF ShardIds, OnePlace, Apart
  <2>4. answered' = answered \cup {}
    BY <1>2
  <2> QED
    BY <1>2, <1>3, <2>1, <2>2, <2>3, <2>4, ShardStep DEF OnePlace
<1> QED
  BY <1>6, <1>7 DEF OnePlace

(* A batch that is answered, with its 201s or with its error, is let go of *)
(* as a whole.                                                             *)
LEMMA BatchOnePlace ==
    ASSUME TypeOK, OnePlace, NEW s \in Shards, NEW new,
           answered' = answered \cup new, batch' = [batch EXCEPT ![s] = {}],
           \A x \in new : /\ x.outcome \notin Rejections
                          /\ \E b \in batch[s] : x.req.id = b.id
                          /\ \A y \in new : y.req.id = x.req.id => y = x,
           Written' \subseteq Written \cup batch[s],
           UNCHANGED <<called, calling, inbox, hand>>
    PROVE  OnePlace'
<1>1. batch'[s] = {} /\ \A t \in Shards \ {s} : batch'[t] = batch[t]
  BY DEF TypeOK
<1>2. CallingIds' = CallingIds
  BY DEF CallingIds
<1>3. HandIds(s)' = HandIds(s) /\ QueuedIds(s)' = QueuedIds(s) /\ BatchIds(s)' = {}
  BY <1>1 DEF HandIds, QueuedIds, BatchIds
<1>4. OnceEach'
  BY <1>1 DEF OnePlace, OnceEach
<1>5. Apart' /\ ToldIsOver' /\ WrittenIsDecided' /\ ToldOnce'
  <2>1. \A t \in Shards \ {s} : /\ QueuedIds(t)' = QueuedIds(t) /\ HandIds(t)' = HandIds(t)
                                /\ BatchIds(t)' = BatchIds(t)
    BY <1>1, OtherShards
  <2>2. Undecided(s)' \subseteq Undecided(s) /\ BatchIds(s)' \subseteq BatchIds(s) \cup HandIds(s)
    BY <1>2, <1>3 DEF Undecided
  <2>3. /\ CallingIds' \cap ShardIds(s)' = {}
        /\ QueuedIds(s)' \cap HandIds(s)' = {}
        /\ (QueuedIds(s) \cup HandIds(s))' \cap BatchIds(s)' = {}
    BY <1>2, <1>3 DEF ShardIds, OnePlace, Apart
  <2>4. \A x \in new : x.req.id \in BatchIds(s)
    BY DEF BatchIds
  <2>5. \A i \in BatchIds(s) : i \notin (CallingIds \cup ShardIds(s))' /\ i \in ShardIds(s)
    BY <1>2, <1>3 DEF ShardIds, OnePlace, Apart
  <2>6. \A x \in new : /\ x.req.id \in CallingIds \cup ShardIds(s)
                       /\ x.req.id \notin (CallingIds \cup ShardIds(s))'
                       /\ \A y \in new : y.req.id = x.req.id => y = x
                       /\ x.outcome \in Rejections => x.req.id \in Undecided(s)
    BY <2>4, <2>5
  <2> QED
    BY <1>2, <2>1, <2>2, <2>3, <2>6, ShardStep DEF OnePlace
<1> QED
  BY <1>4, <1>5 DEF OnePlace

(* The error of a failed commit, whatever becomes of the statement. *)
LEMMA FailOnePlace ==
    ASSUME TypeOK, OnePlace, NEW s \in Shards, Fail(s), bids' = bids,
           limbo' \subseteq limbo \cup {batch[s]},
           UNCHANGED <<called, calling, inbox, hand>>
    PROVE  OnePlace'
<1> DEFINE new == {Refused(RequestOf(b), "Error") : b \in batch[s]}
<1>1. \A x \in new : /\ x.outcome \notin Rejections
                     /\ \E b \in batch[s] : x.req.id = b.id /\ x = Refused(RequestOf(b), "Error")
  BY DEF Refused, RequestOf, Rejections
<1>2. Written' \subseteq Written \cup batch[s]
  BY DEF Written
<1>3. answered' = answered \cup new /\ batch' = [batch EXCEPT ![s] = {}]
  BY DEF Fail
<1> HIDE DEF new
<1>4. \A x, y \in new : y.req.id = x.req.id => y = x
  BY <1>1 DEF OnePlace, OnceEach
<1>5. \A x \in new : /\ x.outcome \notin Rejections
                     /\ \E b \in batch[s] : x.req.id = b.id
                     /\ \A y \in new : y.req.id = x.req.id => y = x
  BY <1>1, <1>4
<1> QED
  BY <1>2, <1>3, <1>5, BatchOnePlace

(* The 201s of a statement that landed. *)
LEMMA ReplyOnePlace ==
    ASSUME TypeOK, OnePlace, NEW s \in Shards, CommitReply(s)
    PROVE  OnePlace'
<1> DEFINE new == {Accepted(b) : b \in batch[s]}
<1>1. \A x \in new : /\ x.outcome \notin Rejections
                     /\ \E b \in batch[s] : x.req.id = b.id /\ x = Accepted(b)
  BY DEF Accepted, RequestOf, Rejections
<1>2. /\ Written' \subseteq Written \cup batch[s]
      /\ UNCHANGED <<called, calling, inbox, hand>>
  BY DEF Written, CommitReply
<1>3. answered' = answered \cup new /\ batch' = [batch EXCEPT ![s] = {}]
  BY DEF CommitReply
<1> HIDE DEF new
<1>4. \A x, y \in new : y.req.id = x.req.id => y = x
  BY <1>1 DEF OnePlace, OnceEach
<1>5. \A x \in new : /\ x.outcome \notin Rejections
                     /\ \E b \in batch[s] : x.req.id = b.id
                     /\ \A y \in new : y.req.id = x.req.id => y = x
  BY <1>1, <1>4
<1> QED
  BY <1>2, <1>3, <1>5, BatchOnePlace

(* A statement lands: what it writes is its batch. *)
LEMMA LandOnePlace ==
    ASSUME TypeOK, OnePlace, NEW s \in Shards, Land(s)
    PROVE  OnePlace'
<1>1. /\ bids' = bids \cup batch[s] /\ UNCHANGED <<limbo, called, calling, inbox, hand, batch, answered>>
  BY DEF Land, Apply
<1>2. Written' \subseteq Written \cup batch[s] /\ CallingIds' = CallingIds /\ answered' = answered \cup {}
  BY <1>1 DEF Written, CallingIds
<1>3. \A t \in Shards : /\ QueuedIds(t)' = QueuedIds(t) /\ HandIds(t)' = HandIds(t)
                        /\ BatchIds(t)' = BatchIds(t)
  BY <1>1, OtherShards
<1>4. OnceEach'
  BY <1>1 DEF OnePlace, OnceEach
<1>5. /\ Undecided(s)' \subseteq Undecided(s) /\ BatchIds(s)' \subseteq BatchIds(s) \cup HandIds(s)
      /\ CallingIds' \cap ShardIds(s)' = {}
      /\ QueuedIds(s)' \cap HandIds(s)' = {}
      /\ (QueuedIds(s) \cup HandIds(s))' \cap BatchIds(s)' = {}
  BY <1>2, <1>3 DEF Undecided, ShardIds, OnePlace, Apart
<1>6. Apart' /\ ToldIsOver' /\ WrittenIsDecided' /\ ToldOnce'
  BY <1>1, <1>2, <1>3, <1>5, ShardStep DEF OnePlace
<1> QED
  BY <1>4, <1>6 DEF OnePlace

(* A restart answers every call that was anywhere in the process, once.    *)
LEMMA RestartOnePlace ==
    ASSUME TypeOK, OnePlace, Restart
    PROVE  OnePlace'
<1> DEFINE flying == calling \cup UNION {Cmds(s) : s \in Shards}
           new == {Refused(r, "Lost") : r \in flying}
<1>1. /\ answered' = answered \cup new /\ bids' = bids /\ called' = called
      /\ calling' = {} /\ inbox' = [s \in Shards |-> <<>>] /\ hand' = [s \in Shards |-> NoRequest]
      /\ batch' = [s \in Shards |-> {}]
      /\ \A rows \in limbo' : rows \in limbo \/ \E s \in Shards : rows = batch[s]
  BY DEF Restart
<1>2. CallingIds' = {} /\ \A s \in Shards : ShardIds(s)' = {}
  BY <1>1 DEF CallingIds, ShardIds, QueuedIds, HandIds, BatchIds
<1>3. \A b \in Written' : b \in Written \/ \E s \in Shards : b \in batch[s]
  BY <1>1 DEF Written
<1>4. \A r \in calling : r.id \in CallingIds
  BY DEF CallingIds
<1>5. ASSUME NEW s \in Shards
      PROVE  \A r \in Cmds(s) :
                /\ r.id \in ShardIds(s)
                /\ \/ r.id \in QueuedIds(s) /\ \E n \in DOMAIN inbox[s] : r = inbox[s][n]
                   \/ r.id \in HandIds(s) /\ r = hand[s]
                   \/ r.id \in BatchIds(s) /\ \E b \in batch[s] : r = RequestOf(b) /\ r.id = b.id
  BY DEF Cmds, ShardIds, QueuedIds, HandIds, BatchIds, RequestOf
<1>6. ASSUME NEW s \in Shards, NEW r \in Cmds(s), NEW q \in Cmds(s), r.id = q.id
      PROVE  r = q
  <2>1. CASE r.id \in QueuedIds(s)
    <3>1. r.id \notin HandIds(s) /\ r.id \notin BatchIds(s)
      BY <2>1 DEF OnePlace, Apart
    <3>2. PICK m \in DOMAIN inbox[s] : r = inbox[s][m]
      BY <1>5, <3>1
    <3>3. PICK n \in DOMAIN inbox[s] : q = inbox[s][n]
      BY <1>5, <1>6, <3>1
    <3> QED
      BY <1>6, <3>2, <3>3 DEF OnePlace, OnceEach
  <2>2. CASE r.id \in HandIds(s)
    <3>1. r.id \notin QueuedIds(s) /\ r.id \notin BatchIds(s)
      BY <2>2 DEF OnePlace, Apart
    <3> QED
      BY <1>5, <1>6, <3>1
  <2>3. CASE r.id \in BatchIds(s)
    <3>1. r.id \notin QueuedIds(s) /\ r.id \notin HandIds(s)
      BY <2>3 DEF OnePlace, Apart
    <3>2. PICK b \in batch[s] : r = RequestOf(b) /\ r.id = b.id
      BY <1>5, <3>1
    <3>3. PICK c \in batch[s] : q = RequestOf(c) /\ q.id = c.id
      BY <1>5, <1>6, <3>1
    <3> QED
      BY <1>6, <3>2, <3>3 DEF OnePlace, OnceEach
  <2> QED
    BY <1>5, <2>1, <2>2, <2>3
<1>7. ASSUME NEW r \in flying, NEW q \in flying, r.id = q.id
      PROVE  r = q
  <2>1. CASE r \in calling
    <3>1. \A s \in Shards : r.id \notin ShardIds(s)
      BY <1>4, <2>1 DEF OnePlace, Apart
    <3>2. q \in calling
      BY <1>5, <1>7, <3>1
    <3> QED
      BY <1>7, <2>1, <3>2 DEF OnePlace, OnceEach
  <2>2. CASE \E s \in Shards : r \in Cmds(s)
    <3>1. PICK s \in Shards : r \in Cmds(s)
      BY <2>2
    <3>2. r.id \in ShardIds(s)
      BY <1>5, <3>1
    <3>3. q \notin calling
      BY <1>4, <1>7, <3>2 DEF OnePlace, Apart
    <3>4. PICK t \in Shards : q \in Cmds(t)
      BY <3>3
    <3>5. q.id \in ShardIds(t)
      BY <1>5, <3>4
    <3>6. s = t
      BY <1>7, <3>2, <3>5 DEF OnePlace, Apart
    <3> QED
      BY <1>6, <1>7, <3>1, <3>4, <3>6
  <2> QED
    BY <2>1, <2>2
<1>8. \A r \in flying : r.id \in CallingIds \/ \E s \in Shards : r.id \in ShardIds(s)
  BY <1>4, <1>5
<1>9. \A x \in new : \E r \in flying : x = Refused(r, "Lost") /\ x.req = r /\ x.outcome = "Lost"
  BY DEF Refused
<1> HIDE DEF new, flying
<1>10. OnceEach'
  BY <1>1 DEF OnceEach
<1>11. Apart'
  <2>1. \A s \in Shards : QueuedIds(s)' = {} /\ HandIds(s)' = {} /\ BatchIds(s)' = {}
    BY <1>2 DEF ShardIds
  <2> QED
    BY <1>2, <2>1 DEF Apart
<1>12. \A s \in Shards : CallingIds \subseteq called /\ ShardIds(s) \subseteq called
  BY DEF OnePlace, Apart
<1>13. ToldIsOver'
  <2>1. \A x \in new : x.req.id \in called
    BY <1>8, <1>9, <1>12 DEF OnePlace, Apart
  <2> QED
    BY <1>1, <1>2, <2>1 DEF OnePlace, ToldIsOver
<1>14. WrittenIsDecided'
  <2>1. \A s \in Shards : \A b \in batch[s] : b.id \in called
    BY <1>12 DEF ShardIds, BatchIds
  <2>2. \A s \in Shards : QueuedIds(s)' = {} /\ HandIds(s)' = {}
    BY <1>2 DEF ShardIds
  <2> QED
    BY <1>1, <1>2, <1>3, <2>1, <2>2 DEF OnePlace, WrittenIsDecided
<1>15. ToldOnce'
  <2>1. \A x, y \in new : y.req.id = x.req.id => y = x
    BY <1>7, <1>9
  <2>2. \A x \in new, y \in answered : y.req.id # x.req.id
    BY <1>8, <1>9 DEF OnePlace, ToldIsOver
  <2>3. \A x, y \in answered' : y.req.id = x.req.id => y = x
    BY <1>1, <2>1, <2>2 DEF OnePlace, ToldOnce
  <2>4. ASSUME NEW x \in answered', x.outcome \in Rejections, NEW b \in Written'
        PROVE  b.id # x.req.id
    <3>1. x \in answered
      BY <1>1, <1>9, <2>4 DEF Rejections
    <3>2. \A s \in Shards : \A c \in batch[s] : c.id # x.req.id
      BY <3>1 DEF OnePlace, ToldIsOver, ShardIds, BatchIds
    <3> QED
      BY <1>3, <2>4, <3>1, <3>2 DEF OnePlace, ToldOnce
  <2> QED
    BY <2>3, <2>4 DEF ToldOnce
<1> QED
  BY <1>10, <1>11, <1>13, <1>14, <1>15 DEF OnePlace

(* Every step keeps a call in one place. *)
LEMMA OnePlaceStep ==
    ASSUME TypeOK, OnePlace, [Next]_vars
    PROVE  OnePlace'
<1>1. ASSUME NEW r \in Request, Place(r) PROVE OnePlace'
  BY <1>1, CallOnePlace, EnqueueOnePlace, GiveUpOnePlace DEF Place
<1>2. ASSUME NEW s \in Shards, Take(s) PROVE OnePlace'
  BY <1>2, TakeOnePlace
<1>3. ASSUME NEW s \in Shards, Hydrate(s) \/ InboxDrained(s) PROVE OnePlace'
  BY <1>3, QuietStep DEF Hydrate, InboxDrained, Written
<1>4. ASSUME NEW s \in Shards, HydrateMiss(s) \/ HydrateError(s) \/ RejectClosed(s) \/ RejectTooLow(s)
      PROVE  OnePlace'
  BY <1>4, AnswersOnePlace DEF HydrateMiss, HydrateError, RejectClosed, RejectTooLow
<1>5. ASSUME NEW s \in Shards, Accept(s) PROVE OnePlace'
  BY <1>5, AcceptOnePlace
<1>6. ASSUME NEW s \in Shards, Abort(s) \/ CommitError(s) \/ CommitReplyLost(s) PROVE OnePlace'
  <2>1. /\ Fail(s) /\ bids' = bids /\ limbo' \subseteq limbo \cup {batch[s]}
        /\ UNCHANGED <<called, calling, inbox, hand>>
    BY <1>6 DEF Abort, CommitError, CommitReplyLost
  <2> QED
    BY <2>1, FailOnePlace
<1>7. ASSUME NEW s \in Shards, CommitReply(s) PROVE OnePlace'
  BY <1>7, ReplyOnePlace
<1>8. ASSUME NEW s \in Shards, Land(s) PROVE OnePlace'
  BY <1>8, LandOnePlace
<1>9. ASSUME NEW rows \in limbo, LimboLands(rows) \/ LimboDies(rows) PROVE OnePlace'
  <2>1. Written' \subseteq Written
    BY <1>9 DEF LimboLands, LimboDies, Apply, Written
  <2> QED
    BY <1>9, <2>1, QuietStep DEF LimboLands, LimboDies
<1>10. CASE Restart
  BY <1>10, RestartOnePlace
<1>11. ASSUME NEW a \in Auctions, Create(a) \/ CloseRow(a) PROVE OnePlace'
  BY <1>11, QuietStep DEF Create, CloseRow, Written
<1>12. CASE Tick \/ UNCHANGED vars
  BY <1>12, QuietStep DEF Tick, vars, Written
<1> QED
  BY <1>1, <1>2, <1>3, <1>4, <1>5, <1>6, <1>7, <1>8, <1>9, <1>10, <1>11, <1>12
     DEF Next, Run, Decide, Commit

(* In the engine, a call is never in two places, nor in one once it was    *)
(* told how it ended.                                                      *)
THEOREM AlwaysOnePlace == Spec => []OnePlace
<1>1. Init => OnePlace
  BY DEF Init, OnePlace, OnceEach, Apart, ToldIsOver, WrittenIsDecided, ToldOnce,
         CallingIds, ShardIds, QueuedIds, HandIds, BatchIds, Written
<1>2. TypeOK /\ OnePlace /\ [Next]_vars => OnePlace'
  BY OnePlaceStep
<1> QED
  BY <1>1, <1>2, TypeCorrect, PTL DEF Spec

(* Each step adds to one of the two things the contract sees, if any. *)
LEMMA OneAtATime ==
    ASSUME [Next]_vars
    PROVE  \/ bids' = bids /\ answered \subseteq answered'
           \/ answered' = answered /\ bids \subseteq bids'
<1>1. ASSUME NEW r \in Request, Place(r) PROVE bids' = bids /\ answered \subseteq answered'
  BY <1>1 DEF Place, Call, Enqueue, GiveUp
<1>2. ASSUME NEW s \in Shards, Take(s) \/ Hydrate(s) \/ InboxDrained(s) \/ Accept(s)
      PROVE  UNCHANGED <<bids, answered>>
  BY <1>2 DEF Take, Hydrate, InboxDrained, Accept
<1>3. ASSUME NEW s \in Shards, HydrateMiss(s) \/ HydrateError(s) \/ RejectClosed(s) \/ RejectTooLow(s)
      PROVE  bids' = bids /\ answered \subseteq answered'
  BY <1>3 DEF HydrateMiss, HydrateError, RejectClosed, RejectTooLow, Answers
<1>4. ASSUME NEW s \in Shards,
             Abort(s) \/ CommitError(s) \/ CommitReplyLost(s) \/ CommitReply(s)
      PROVE  bids' = bids /\ answered \subseteq answered'
  BY <1>4 DEF Abort, CommitError, CommitReplyLost, CommitReply, Fail
<1>5. ASSUME NEW s \in Shards, Land(s) PROVE answered' = answered /\ bids \subseteq bids'
  BY <1>5 DEF Land, Apply
<1>6. ASSUME NEW rows \in limbo, LimboLands(rows) \/ LimboDies(rows)
      PROVE  answered' = answered /\ bids \subseteq bids'
  BY <1>6 DEF LimboLands, LimboDies, Apply
<1>7. CASE Restart
  BY <1>7 DEF Restart
<1>8. ASSUME NEW a \in Auctions, Create(a) \/ CloseRow(a) PROVE UNCHANGED <<bids, answered>>
  BY <1>8 DEF Create, CloseRow
<1>9. CASE Tick \/ UNCHANGED vars
  BY <1>9 DEF Tick, vars
<1> QED
  BY <1>1, <1>2, <1>3, <1>4, <1>5, <1>6, <1>7, <1>8, <1>9 DEF Next, Run, Decide, Commit

(* ImplementsEngine: the shard engine keeps the contract of package bid,   *)
(* although it decides in memory, answers in batches, gives up on          *)
(* statements that may still land and loses its memory in a restart.       *)
THEOREM KeepsTheContract == Spec => ImplementsEngine
<1>1. Init => Engine!Init
  BY DEF Init, Engine!Init
<1>2. IInv' /\ OnePlace' /\ [Next]_vars => [Engine!Next]_<<bids, answered>>
  <2> SUFFICES ASSUME IInv', OnePlace', [Next]_vars, ~ UNCHANGED <<bids, answered>>
               PROVE  Engine!Next
    OBVIOUS
  <2>1. Honest(answered, bids)'
    BY DEF IInv, AcceptedIsDurable, OnePlace, ToldOnce, Written, Honest
  <2>2. CASE bids' = bids /\ answered \subseteq answered'
    BY <2>1, <2>2 DEF Honest, Engine!Next, Engine!Reply, Engine!Rejections, Engine!Accepted,
                Rejections, Accepted, Engine!RequestOf, RequestOf
  <2>3. CASE answered' = answered /\ bids \subseteq bids'
    <3>1. Engine!Chained(bids')
      BY DEF IInv, SequenceChained, Chained, Opens, Beats, MinNextBid,
             Engine!Chained, Engine!Opens, Engine!Beats, Engine!MinNextBid
    <3>2. Engine!NoCollision(bids')
      BY DEF IInv, SequenceChained, NoCollision, Collide, Engine!NoCollision, Engine!Collide
    <3>3. \A b \in bids', x \in answered : x.req.id = b.id => x.outcome \notin Engine!Rejections
      BY <2>1, <2>3 DEF Honest, Rejections, Engine!Rejections
    <3> QED
      BY <2>3, <3>1, <3>2, <3>3 DEF Engine!Next, Engine!Record
  <2> QED
    BY <2>2, <2>3, OneAtATime
<1> QED
  BY <1>1, <1>2, Inductive, AlwaysOnePlace, PTL DEF Spec, ImplementsEngine, Engine!Spec

----------------------------------------------------------------------------
(* I3 at every moment, "vencedor e versao coerentes", is what the shard    *)
(* does not keep (WinnerAndVersionCoherent).  The comment over commit says *)
(* what it relies on: a batch never holds two bids of one auction.  Here   *)
(* is that nothing else is missing.                                        *)

(* A bid is written once: what is still to land, of a batch or forgotten,  *)
(* is nowhere else, and nobody decides while a statement is on its way.    *)
WrittenOnce ==
    /\ \A s \in Shards : hand[s] # NoRequest => stage[s] \in {"idle", "open"}
    /\ \A s \in Shards : stage[s] # "done" => \A b \in batch[s], c \in Written : b.id # c.id
    /\ \A rows \in limbo : \A b \in rows, c \in bids \cup UNION (limbo \ {rows}) : b.id # c.id

(* Bids of two shards are of different calls. *)
LEMMA BatchesApart ==
    ASSUME OnePlace, NEW s \in Shards, NEW t \in Shards \ {s},
           NEW b \in batch[s], NEW c \in batch[t]
    PROVE  b.id # c.id
BY DEF OnePlace, Apart, ShardIds, BatchIds

(* A batch is let go of: what is left was there. *)
LEMMA EmptiedIsWrittenOnce ==
    ASSUME TypeOK, WrittenOnce, NEW s \in Shards, bids' = bids,
           batch' = [batch EXCEPT ![s] = {}], stage' = [stage EXCEPT ![s] = "idle"], hand' = hand,
           \/ limbo' = limbo
           \/ stage[s] # "done" /\ limbo' = limbo \cup {batch[s]} /\ OnePlace
    PROVE  WrittenOnce'
<1>1. /\ batch'[s] = {} /\ stage'[s] = "idle"
      /\ \A t \in Shards \ {s} : batch'[t] = batch[t] /\ stage'[t] = stage[t]
  BY DEF TypeOK
<1>2. CASE limbo' = limbo
  BY <1>1, <1>2 DEF WrittenOnce, Written
<1>3. CASE stage[s] # "done" /\ limbo' = limbo \cup {batch[s]} /\ OnePlace
  <2>1. \A b \in batch[s], c \in Written : b.id # c.id /\ c.id # b.id
    BY <1>3 DEF WrittenOnce
  <2>2. Written' = Written \cup batch[s]
    BY <1>3 DEF Written
  <2>3. \A t \in Shards : hand'[t] # NoRequest => stage'[t] \in {"idle", "open"}
    BY <1>1 DEF WrittenOnce
  <2>4. ASSUME NEW t \in Shards, stage'[t] # "done", NEW b \in batch'[t], NEW c \in Written'
        PROVE  b.id # c.id
    <3>1. t # s /\ b \in batch[t] /\ stage[t] # "done"
      BY <1>1, <2>4
    <3> QED
      BY <1>3, <2>2, <3>1, BatchesApart DEF WrittenOnce
  <2>5. ASSUME NEW rows \in limbo', NEW b \in rows, NEW c \in bids' \cup UNION (limbo' \ {rows})
        PROVE  b.id # c.id
    <3>1. CASE rows = batch[s]
      <4>1. c \in Written
        BY <1>3, <2>5, <3>1 DEF Written
      <4> QED
        BY <2>1, <3>1, <4>1
    <3>2. CASE rows \in limbo
      <4>1. b \in Written
        BY <3>2 DEF Written
      <4>2. c \in batch[s] \/ c \in bids \cup UNION (limbo \ {rows})
        BY <1>3
      <4> QED
        BY <2>1, <3>2, <4>1, <4>2 DEF WrittenOnce
    <3> QED
      BY <1>3, <3>1, <3>2
  <2> QED
    BY <2>3, <2>4, <2>5 DEF WrittenOnce
<1> QED
  BY <1>2, <1>3

(* A statement lands: its bids move from where they were to the table.     *)
LEMMA LandedIsWrittenOnce ==
    ASSUME TypeOK, WrittenOnce, OnePlace, hand' = hand, batch' = batch,
           \/ \E s \in Shards : /\ Land(s)
           \/ \E rows \in limbo : LimboLands(rows)
    PROVE  WrittenOnce'
<1>1. ASSUME NEW s \in Shards, Land(s) PROVE WrittenOnce'
  <2>1. /\ bids' = bids \cup batch[s] /\ limbo' = limbo /\ stage[s] = "exec" /\ stage'[s] = "done"
        /\ \A t \in Shards \ {s} : stage'[t] = stage[t]
    BY <1>1 DEF Land, Apply, TypeOK
  <2>2. \A b \in batch[s], c \in Written : b.id # c.id /\ c.id # b.id
    BY <2>1 DEF WrittenOnce
  <2>3. Written' = Written \cup batch[s]
    BY <2>1 DEF Written
  <2>4. \A t \in Shards : hand'[t] # NoRequest => stage'[t] \in {"idle", "open"}
    BY <2>1 DEF WrittenOnce
  <2>5. ASSUME NEW t \in Shards, stage'[t] # "done", NEW b \in batch'[t], NEW c \in Written'
        PROVE  b.id # c.id
    <3>1. t # s /\ stage[t] # "done" /\ b \in batch[t]
      BY <2>1, <2>5
    <3> QED
      BY <2>3, <3>1, BatchesApart DEF WrittenOnce
  <2>6. ASSUME NEW rows \in limbo', NEW b \in rows, NEW c \in bids' \cup UNION (limbo' \ {rows})
        PROVE  b.id # c.id
    <3>1. rows \in limbo /\ b \in Written
      BY <2>1, <2>6 DEF Written
    <3>2. c \in batch[s] \/ c \in bids \cup UNION (limbo \ {rows})
      BY <2>1
    <3> QED
      BY <2>2, <3>1, <3>2 DEF WrittenOnce
  <2> QED
    BY <2>4, <2>5, <2>6 DEF WrittenOnce
<1>2. ASSUME NEW rows \in limbo, LimboLands(rows) PROVE WrittenOnce'
  <2>1. bids' = bids \cup rows /\ limbo' = limbo \ {rows} /\ stage' = stage
    BY <1>2 DEF LimboLands, Apply
  <2>2. Written' \subseteq Written
    BY <2>1 DEF Written
  <2>3. ASSUME NEW others \in limbo', NEW b \in others, NEW c \in bids' \cup UNION (limbo' \ {others})
        PROVE  b.id # c.id
    <3>1. others \in limbo /\ others # rows
      BY <2>1
    <3>2. c \in bids \cup UNION (limbo \ {others})
      BY <2>1, <3>1
    <3> QED
      BY <3>1, <3>2 DEF WrittenOnce
  <2> QED
    BY <2>1, <2>2, <2>3 DEF WrittenOnce
<1> QED
  BY <1>1, <1>2

(* An accept adds the bid of the call in the hand to the batch. *)
LEMMA AcceptAdds ==
    ASSUME NEW s \in Shards, Accept(s)
    PROVE  \E row : /\ batch' = [batch EXCEPT ![s] = @ \cup {row}]
                    /\ row.id = hand[s].id /\ row.auction = hand[s].auction
                    /\ \E drift \in Drifts : row.created = ShardNow(hand[s].auction) + drift
<1> DEFINE r == hand[s]
           a == r.auction
           RowAt(drift) == [id |-> r.id, auction |-> a, amount |-> r.amount, key |-> r.key,
                            seq |-> mem[a].version + 1, created |-> ShardNow(a) + drift]
<1>1. PICK drift \in Drifts : batch' = [batch EXCEPT ![s] = @ \cup {RowAt(drift)}]
  BY DEF Accept
<1>2. /\ RowAt(drift).id = r.id /\ RowAt(drift).auction = a
      /\ RowAt(drift).created = ShardNow(a) + drift
  OBVIOUS
<1> HIDE DEF RowAt
<1> QED
  BY <1>1, <1>2

(* The call in the hand becomes a bid of the batch: it was not written.    *)
LEMMA AcceptedIsWrittenOnce ==
    ASSUME TypeOK, WrittenOnce, OnePlace, NEW s \in Shards, Accept(s)
    PROVE  WrittenOnce'
<1>1. PICK row : batch' = [batch EXCEPT ![s] = @ \cup {row}] /\ row.id = hand[s].id
  BY AcceptAdds
<1>2. hand[s] # NoRequest /\ stage[s] # "done"
  BY DEF Accept, WrittenOnce
<1>3. \A c \in Written : c.id # row.id
  BY <1>1, <1>2 DEF OnePlace, WrittenIsDecided, HandIds
<1>4. /\ batch'[s] = batch[s] \cup {row} /\ hand'[s] = NoRequest /\ Written' = Written /\ UNCHANGED tables
      /\ \A t \in Shards \ {s} : /\ batch'[t] = batch[t] /\ hand'[t] = hand[t]
                                 /\ stage'[t] = stage[t]
  BY <1>1 DEF Accept, TypeOK, Written
<1> QED
  BY <1>2, <1>3, <1>4 DEF WrittenOnce

(* A restart hands what was on its way over to Postgres. *)
LEMMA RestartIsWrittenOnce ==
    ASSUME TypeOK, WrittenOnce, OnePlace, Restart
    PROVE  WrittenOnce'
<1>1. /\ bids' = bids /\ \A s \in Shards : batch'[s] = {} /\ hand'[s] = NoRequest
      /\ \A rows \in limbo' : \/ rows \in limbo
                              \/ \E s \in Shards : stage[s] = "exec" /\ rows = batch[s]
  BY DEF Restart
<1>2. ASSUME NEW rows \in limbo', NEW others \in limbo' \ {rows}, NEW b \in rows, NEW c \in others
      PROVE  b.id # c.id
  <2>1. CASE rows \in limbo /\ others \in limbo
    BY <1>2, <2>1 DEF WrittenOnce
  <2>2. CASE rows \in limbo /\ others \notin limbo
    <3>1. PICK t \in Shards : stage[t] = "exec" /\ others = batch[t]
      BY <1>1, <2>2
    <3> QED
      BY <2>2, <3>1 DEF WrittenOnce, Written
  <2>3. CASE rows \notin limbo /\ others \in limbo
    <3>1. PICK s \in Shards : stage[s] = "exec" /\ rows = batch[s]
      BY <1>1, <2>3
    <3> QED
      BY <2>3, <3>1 DEF WrittenOnce, Written
  <2>4. CASE rows \notin limbo /\ others \notin limbo
    <3>1. PICK s \in Shards : rows = batch[s]
      BY <1>1, <2>4
    <3>2. PICK t \in Shards : others = batch[t]
      BY <1>1, <2>4
    <3> QED
      BY <1>2, <3>1, <3>2, BatchesApart
  <2> QED
    BY <2>1, <2>2, <2>3, <2>4
<1>3. ASSUME NEW rows \in limbo', NEW b \in rows, NEW c \in bids
      PROVE  b.id # c.id
  BY <1>1, <1>3 DEF WrittenOnce, Written
<1> QED
  BY <1>1, <1>2, <1>3 DEF WrittenOnce

LEMMA WrittenOnceStep ==
    ASSUME TypeOK, OnePlace, WrittenOnce, [Next]_vars
    PROVE  WrittenOnce'
<1>1. CASE UNCHANGED <<bids, limbo, batch, stage>> /\ \A s \in Shards : hand'[s] # NoRequest => hand'[s] = hand[s]
  BY <1>1 DEF WrittenOnce, Written
<1>2. ASSUME NEW s \in Shards, Take(s) PROVE WrittenOnce'
  BY <1>2 DEF Take, WrittenOnce, Written, TypeOK
<1>3. ASSUME NEW s \in Shards, HydrateMiss(s) \/ HydrateError(s) \/ RejectClosed(s) \/ RejectTooLow(s)
      PROVE  WrittenOnce'
  <2>1. PICK st \in AfterDecision(s, batch[s]) : stage' = [stage EXCEPT ![s] = st]
    BY <1>3 DEF HydrateMiss, HydrateError, RejectClosed, RejectTooLow, Answers
  <2>2. hand[s] # NoRequest /\ hand' = [hand EXCEPT ![s] = NoRequest] /\ UNCHANGED <<batch, bids, limbo>>
    BY <1>3 DEF HydrateMiss, HydrateError, RejectClosed, RejectTooLow, Answers
  <2>3. hand'[s] = NoRequest /\ \A t \in Shards \ {s} : hand'[t] = hand[t]
    BY <2>2 DEF TypeOK
  <2>4. \A t \in Shards \ {s} : stage'[t] = stage[t]
    BY <2>1 DEF TypeOK
  <2>5. stage[s] # "done" /\ Written' = Written
    BY <2>2 DEF WrittenOnce, Written
  <2>6. \A t \in Shards : hand'[t] # NoRequest => stage'[t] \in {"idle", "open"}
    BY <2>3, <2>4 DEF WrittenOnce
  <2>7. \A t \in Shards : stage'[t] # "done" => \A b \in batch'[t], c \in Written' : b.id # c.id
    BY <2>2, <2>4, <2>5 DEF WrittenOnce
  <2> QED
    BY <2>2, <2>6, <2>7 DEF WrittenOnce
<1>4. ASSUME NEW s \in Shards, Accept(s) PROVE WrittenOnce'
  BY <1>4, AcceptedIsWrittenOnce
<1>5. ASSUME NEW s \in Shards, InboxDrained(s) PROVE WrittenOnce'
  BY <1>5 DEF InboxDrained, WrittenOnce, Written, TypeOK
<1>6. ASSUME NEW s \in Shards, Land(s) PROVE WrittenOnce'
  BY <1>6, LandedIsWrittenOnce DEF Land
<1>7. ASSUME NEW s \in Shards, Abort(s) \/ CommitReplyLost(s) \/ CommitReply(s)
      PROVE  WrittenOnce'
  <2>1. /\ batch' = [batch EXCEPT ![s] = {}] /\ stage' = [stage EXCEPT ![s] = "idle"]
        /\ UNCHANGED <<bids, limbo, hand>>
    BY <1>7 DEF Abort, CommitReplyLost, CommitReply, Fail
  <2> QED
    BY <2>1, EmptiedIsWrittenOnce
<1>8. ASSUME NEW s \in Shards, CommitError(s) PROVE WrittenOnce'
  <2>1. /\ batch' = [batch EXCEPT ![s] = {}] /\ stage' = [stage EXCEPT ![s] = "idle"]
        /\ UNCHANGED <<bids, hand>> /\ stage[s] # "done"
        /\ limbo' \in {limbo, limbo \cup {batch[s]}}
    BY <1>8 DEF CommitError, Fail
  <2> QED
    BY <2>1, EmptiedIsWrittenOnce
<1>9. ASSUME NEW rows \in limbo, LimboLands(rows) PROVE WrittenOnce'
  BY <1>9, LandedIsWrittenOnce DEF LimboLands
<1>10. ASSUME NEW rows \in limbo, LimboDies(rows) PROVE WrittenOnce'
  BY <1>10 DEF LimboDies, WrittenOnce, Written
<1>11. CASE Restart
  BY <1>11, RestartIsWrittenOnce
<1>12. (\E r \in Request : Place(r)) \/ (\E s \in Shards : Hydrate(s)) \/ Tick \/ UNCHANGED vars
          \/ (\E a \in Auctions : Create(a) \/ CloseRow(a))
       => WrittenOnce'
  BY <1>1 DEF Place, Call, Enqueue, GiveUp, Hydrate, Tick, vars, Create, CloseRow
<1> QED
  BY <1>2, <1>3, <1>4, <1>5, <1>6, <1>7, <1>8, <1>9, <1>10, <1>11, <1>12 DEF Next, Run, Decide, Commit

(* No bid is in two statements, or in the table and in a statement that    *)
(* may still land: when commit gives a batch up to Postgres and answers    *)
(* the error, nothing of it is written again.                              *)
THEOREM NothingWrittenTwice == Spec => []WrittenOnce
<1>1. Init => WrittenOnce
  BY DEF Init, WrittenOnce
<1>2. TypeOK /\ OnePlace /\ WrittenOnce /\ [Next]_vars => WrittenOnce'
  BY WrittenOnceStep
<1> QED
  BY <1>1, <1>2, TypeCorrect, AlwaysOnePlace, PTL DEF Spec

----------------------------------------------------------------------------
(* The row of an auction follows its bids as long as a statement holds one *)
(* bid of an auction at most.                                              *)

OnePerAuction(rows) == \A b, c \in rows : b.auction = c.auction => b = c

(* The comment over commit: "nunca dois lances do mesmo leilao no lote".   *)
OneAcceptPerBatch == \A s \in Shards : OnePerAuction(batch[s])

Existing(rows, table) == \A b \in rows : table[b.auction].status # "absent"

RowsFollow ==
    /\ IsFiniteSet(bids)
    /\ \A a \in Auctions : RowFollows(auctions[a], BidsOf(bids, a))
    /\ \A a \in Auctions : mem[a] # Unknown => auctions[a].status # "absent"
    /\ \A s \in Shards : IsFiniteSet(batch[s]) /\ Existing(batch[s], auctions)
    /\ \A rows \in limbo : IsFiniteSet(rows) /\ Existing(rows, auctions) /\ OnePerAuction(rows)

(* A bid that is linked to the table, and that the unique indexes let in,  *)
(* is the next one over the row: the sequence below it has no hole.        *)
LEMMA LinkedTops ==
    ASSUME NEW row \in AuctionRow, NEW rows \in SUBSET BidRow, IsFiniteSet(rows),
           RowFollows(row, rows), row.status # "absent",
           \A b, c \in rows : b.seq = c.seq => b = c,
           NEW b \in BidRow, \A c \in rows : c.seq # b.seq,
           Opens(b) \/ \E c \in rows : Beats(b, c)
    PROVE  Tops(row, b)
<1>1. row.version \in Nat /\ row.top \in Nat /\ b.seq \in Nat \ {0}
  BY DEF AuctionRow, BidRow
<1>2. \A n \in 1..row.version : \E c \in rows : c.seq = n
  BY SequenceIsFull
<1>3. b.seq > row.version
  <2>1. ~(b.seq <= row.version)
    BY <1>1, <1>2
  <2> QED
    BY <1>1, <2>1
<1>4. CASE Opens(b)
  <2>1. row.version = 0
    BY <1>1, <1>3, <1>4 DEF Opens
  <2>2. \A c \in rows : c.seq \in Nat \ {0}
    BY DEF BidRow
  <2>3. row.top = StartingBid
    BY <2>1, <2>2 DEF RowFollows, RowOfSomeBid
  <2> QED
    BY <1>4, <2>1, <2>3 DEF Opens, Tops
<1>5. CASE \E c \in rows : Beats(b, c)
  <2>1. PICK c \in rows : c.seq + 1 = b.seq /\ MinNextBid(c.amount) <= b.amount
    BY <1>5 DEF Beats
  <2>2. c.seq \in Nat /\ c.seq <= row.version
    BY DEF BidRow, RowFollows
  <2>3. c.seq = row.version
    BY <1>1, <1>3, <2>1, <2>2
  <2>4. c.amount = row.top
    BY <2>3 DEF RowFollows, Coherent
  <2> QED
    BY <2>1, <2>3, <2>4 DEF Tops
<1> QED
  BY <1>4, <1>5

(* A statement with one bid of an auction at most lands: every row it      *)
(* touches follows its bids again.                                         *)
LEMMA LandedFollows ==
    ASSUME IInv, RowsFollow, NEW rows \in SUBSET BidRow, IsFiniteSet(rows), Existing(rows, auctions),
           OnePerAuction(rows), Linked(rows), Insertable(bids, rows), Apply(rows),
           \A b \in rows, c \in bids : b.id # c.id
    PROVE  /\ IsFiniteSet(bids')
           /\ \A a \in Auctions : RowFollows(auctions'[a], BidsOf(bids', a))
<1>1. bids' = bids \cup rows /\ IsFiniteSet(bids')
  BY FS_Union DEF Apply, RowsFollow
<1>2. PICK pick \in Picks(rows) : auctions' = Updated(pick)
  BY DEF Apply
<1>3. auctions \in [Auctions -> AuctionRow] /\ bids \in SUBSET BidRow
  BY DEF IInv, TypeOK
<1>4. ASSUME NEW a \in Auctions, ~ \E b \in rows : b.auction = a
      PROVE  RowFollows(auctions'[a], BidsOf(bids', a))
  <2>1. BidsOf(bids', a) = BidsOf(bids, a)
    BY <1>1, <1>4 DEF BidsOf
  <2>2. a \notin DOMAIN pick
    BY <1>2, <1>4 DEF Picks
  <2>3. auctions'[a] = auctions[a]
    BY <1>2, <2>2 DEF Updated
  <2> QED
    BY <2>1, <2>3 DEF RowsFollow
<1>5. ASSUME NEW b \in rows
      PROVE  RowFollows(auctions'[b.auction], BidsOf(bids', b.auction))
  <2> DEFINE a == b.auction
             old == BidsOf(bids, a)
  <2>1. a \in Auctions /\ auctions[a] \in AuctionRow /\ b \in BidRow
    BY <1>3 DEF BidRow
  <2>2. old \in SUBSET BidRow /\ IsFiniteSet(old) /\ RowFollows(auctions[a], old)
    BY <1>3, <2>1, FS_Subset DEF BidsOf, RowsFollow
  <2>3. BidsOf(bids', a) = old \cup {b}
    BY <1>1 DEF BidsOf, OnePerAuction
  <2>4. auctions'[a] = Topped(auctions[a], b)
    <3>1. a \in DOMAIN pick /\ pick[a] \in rows /\ pick[a].auction = a
      BY <1>2 DEF Picks
    <3>2. pick[a] = b
      BY <3>1 DEF OnePerAuction
    <3> QED
      BY <1>2, <2>1, <3>1, <3>2 DEF Updated, Topped
  <2>5. \A c, d \in old : c.seq = d.seq => c = d
    BY DEF BidsOf, IInv, SequenceChained, NoCollision, Collide
  <2>6. \A c \in old : c.seq # b.seq
    BY DEF BidsOf, Insertable, Collide
  <2>7. Opens(b) \/ \E c \in old : Beats(b, c)
    <3>1. Opens(b) \/ \E c \in bids \cup rows : Beats(b, c)
      BY DEF Linked
    <3>2. ASSUME NEW c \in rows, Beats(b, c) PROVE FALSE
      <4>1. c = b
        BY <3>2 DEF Beats, OnePerAuction
      <4>2. b.seq \in Nat
        BY <2>1 DEF BidRow
      <4> QED
        BY <3>2, <4>1, <4>2 DEF Beats
    <3> QED
      BY <3>1, <3>2 DEF BidsOf, Beats
  <2>8. auctions[a].status # "absent"
    BY DEF Existing
  <2> HIDE DEF old, a
  <2>9. Tops(auctions[a], b)
    BY <2>1, <2>2, <2>5, <2>6, <2>7, <2>8, LinkedTops
  <2>10. RowFollows(Topped(auctions[a], b), old \cup {b})
    BY <2>1, <2>2, <2>9, ToppedFollows
  <2> QED
    BY <2>3, <2>4, <2>10 DEF a
<1> QED
  BY <1>1, <1>4, <1>5

(* Statements are still of rows that exist when a row changes otherwise.   *)
LEMMA StillExisting ==
    ASSUME NEW rows \in SUBSET BidRow, Existing(rows, auctions),
           \A a \in Auctions : auctions[a].status # "absent" => auctions'[a].status # "absent"
    PROVE  Existing(rows, auctions')
BY DEF Existing, BidRow

(* Where neither table moves, batches are let go of, whole or to Postgres. *)
LEMMA QuietFollows ==
    ASSUME TypeOK, RowsFollow, UNCHANGED <<auctions, bids>>,
           \A a \in Auctions : mem'[a] # Unknown => auctions[a].status # "absent",
           \A s \in Shards : batch'[s] = {} \/ batch'[s] = batch[s],
           OneAcceptPerBatch, \A rows \in limbo' : rows \in limbo \/ \E s \in Shards : rows = batch[s]
    PROVE  RowsFollow'
<1>1. ASSUME NEW s \in Shards PROVE IsFiniteSet(batch'[s]) /\ Existing(batch'[s], auctions')
  BY FS_EmptySet DEF RowsFollow, Existing
<1>2. ASSUME NEW rows \in limbo' PROVE IsFiniteSet(rows) /\ Existing(rows, auctions') /\ OnePerAuction(rows)
  BY DEF RowsFollow, Existing, OneAcceptPerBatch
<1> QED
  BY <1>1, <1>2 DEF RowsFollow

(* The tables move, and no row disappears. *)
LEMMA MovedFollows ==
    ASSUME TypeOK, RowsFollow, IsFiniteSet(bids'),
           \A a \in Auctions : /\ RowFollows(auctions'[a], BidsOf(bids', a))
                               /\ auctions[a].status # "absent" => auctions'[a].status # "absent",
           mem' = mem, batch' = batch, limbo' \subseteq limbo
    PROVE  RowsFollow'
<1>1. ASSUME NEW s \in Shards PROVE Existing(batch[s], auctions')
  BY StillExisting DEF RowsFollow, TypeOK
<1>2. ASSUME NEW rows \in limbo PROVE Existing(rows, auctions')
  BY StillExisting DEF RowsFollow, TypeOK
<1> QED
  BY <1>1, <1>2 DEF RowsFollow, Existing

LEMMA RowsFollowStep ==
    ASSUME IInv, WrittenOnce, RowsFollow, OneAcceptPerBatch, [Next]_vars
    PROVE  RowsFollow'
<1>0. TypeOK
  BY DEF IInv
<1>1. CASE UNCHANGED <<auctions, bids, mem, batch, limbo>>
  BY <1>0, <1>1, QuietFollows DEF RowsFollow
<1>2. ASSUME NEW s \in Shards, Hydrate(s) PROVE RowsFollow'
  <2>1. \A a \in Auctions : mem'[a] # Unknown => auctions[a].status # "absent"
    BY <1>0, <1>2 DEF Hydrate, RowsFollow, TypeOK
  <2> QED
    BY <1>0, <1>2, <2>1, QuietFollows DEF Hydrate
<1>3. ASSUME NEW s \in Shards, Accept(s) PROVE RowsFollow'
  <2>1. PICK row : row.auction = hand[s].auction /\ batch' = [batch EXCEPT ![s] = @ \cup {row}]
    BY <1>3, AcceptAdds
  <2>2. hand[s].auction \in Auctions /\ mem[hand[s].auction] # Unknown
    BY <1>0, <1>3 DEF Accept, TypeOK, Request
  <2>3. auctions[row.auction].status # "absent"
    BY <2>1, <2>2 DEF RowsFollow
  <2>4. IsFiniteSet(batch'[s]) /\ Existing(batch'[s], auctions) /\ \A t \in Shards \ {s} : batch'[t] = batch[t]
    <3>1. batch'[s] = batch[s] \cup {row} /\ \A t \in Shards \ {s} : batch'[t] = batch[t]
      BY <1>0, <2>1 DEF TypeOK
    <3> QED
      BY <2>3, <3>1, FS_AddElement DEF RowsFollow, Existing
  <2>5. \A a \in Auctions : mem'[a] # Unknown => auctions[a].status # "absent"
    BY <1>0, <1>3, <2>2 DEF Accept, RowsFollow, TypeOK
  <2>6. UNCHANGED <<auctions, bids, limbo>>
    BY <1>3 DEF Accept
  <2>7. \A t \in Shards : IsFiniteSet(batch'[t]) /\ Existing(batch'[t], auctions')
    BY <2>4, <2>6 DEF RowsFollow
  <2> QED
    BY <2>5, <2>6, <2>7 DEF RowsFollow
<1>4. ASSUME NEW s \in Shards, Land(s) PROVE RowsFollow'
  <2>1. /\ batch[s] \in SUBSET BidRow /\ IsFiniteSet(batch[s]) /\ Existing(batch[s], auctions)
        /\ OnePerAuction(batch[s]) /\ Linked(batch[s]) /\ Insertable(bids, batch[s]) /\ Apply(batch[s])
        /\ \A b \in batch[s], c \in bids : b.id # c.id
    BY <1>0, <1>4 DEF Land, RowsFollow, OneAcceptPerBatch, IInv, BatchesLinked, WrittenOnce, Written, TypeOK
  <2>2. /\ IsFiniteSet(bids')
        /\ \A a \in Auctions : RowFollows(auctions'[a], BidsOf(bids', a))
    BY <2>1, LandedFollows
  <2>3. \A a \in Auctions : auctions'[a].status = auctions[a].status
    BY <1>0, <2>1, ApplyKeepsStatus
  <2> QED
    BY <1>0, <1>4, <2>2, <2>3, MovedFollows DEF Land
<1>5. ASSUME NEW s \in Shards, Abort(s) \/ CommitError(s) \/ CommitReplyLost(s) PROVE RowsFollow'
  <2>1. Fail(s) /\ UNCHANGED <<auctions, bids>> /\ limbo' \subseteq limbo \cup {batch[s]}
    BY <1>5 DEF Abort, CommitError, CommitReplyLost
  <2>2. \A a \in Auctions : mem'[a] # Unknown => auctions[a].status # "absent"
    BY <2>1 DEF Fail, RowsFollow
  <2>3. \A t \in Shards : batch'[t] = {} \/ batch'[t] = batch[t]
    BY <1>0, <2>1 DEF Fail, TypeOK
  <2> QED
    BY <1>0, <2>1, <2>2, <2>3, QuietFollows
<1>6. ASSUME NEW s \in Shards, CommitReply(s) PROVE RowsFollow'
  <2>1. \A t \in Shards : batch'[t] = {} \/ batch'[t] = batch[t]
    BY <1>0, <1>6 DEF CommitReply, TypeOK
  <2>2. UNCHANGED <<auctions, bids, limbo, mem>>
    BY <1>6 DEF CommitReply
  <2> QED
    BY <1>0, <2>1, <2>2, QuietFollows DEF RowsFollow
<1>7. ASSUME NEW rows \in limbo, LimboLands(rows) PROVE RowsFollow'
  <2>1. /\ rows \in SUBSET BidRow /\ IsFiniteSet(rows) /\ Existing(rows, auctions)
        /\ OnePerAuction(rows) /\ Linked(rows) /\ Insertable(bids, rows) /\ Apply(rows)
        /\ \A b \in rows, c \in bids : b.id # c.id
    BY <1>0, <1>7 DEF LimboLands, RowsFollow, IInv, BatchesLinked, WrittenOnce, TypeOK
  <2>2. /\ IsFiniteSet(bids')
        /\ \A a \in Auctions : RowFollows(auctions'[a], BidsOf(bids', a))
    BY <2>1, LandedFollows
  <2>3. \A a \in Auctions : auctions'[a].status = auctions[a].status
    BY <1>0, <2>1, ApplyKeepsStatus
  <2> QED
    BY <1>0, <1>7, <2>2, <2>3, MovedFollows DEF LimboLands
<1>8. ASSUME NEW rows \in limbo, LimboDies(rows) PROVE RowsFollow'
  BY <1>0, <1>8, QuietFollows DEF LimboDies, RowsFollow
<1>9. CASE Restart
  <2>1. /\ UNCHANGED <<auctions, bids>> /\ \A a \in Auctions : mem'[a] = Unknown
        /\ \A s \in Shards : batch'[s] = {}
        /\ \A rows \in limbo' : rows \in limbo \/ \E s \in Shards : rows = batch[s]
    BY <1>9 DEF Restart
  <2> QED
    BY <1>0, <2>1, QuietFollows
<1>10. ASSUME NEW a \in Auctions, Create(a) PROVE RowsFollow'
  <2>1. auctions' = [auctions EXCEPT ![a] = FreshRow] /\ auctions[a].status = "absent"
        /\ UNCHANGED <<bids, mem, batch, limbo>>
    BY <1>10 DEF Create
  <2>2. BidsOf(bids, a) = {}
    BY <2>1 DEF RowsFollow, RowFollows
  <2>3. RowFollows(FreshRow, {})
    BY FS_EmptySet DEF RowFollows, Coherent, RowOfSomeBid, FreshRow
  <2>4. \A b \in Auctions : /\ RowFollows(auctions'[b], BidsOf(bids', b))
                            /\ auctions[b].status # "absent" => auctions'[b].status # "absent"
    BY <1>0, <2>1, <2>2, <2>3 DEF RowsFollow, FreshRow, TypeOK
  <2> QED
    BY <1>0, <2>1, <2>4, MovedFollows DEF RowsFollow
<1>11. ASSUME NEW a \in Auctions, CloseRow(a) PROVE RowsFollow'
  <2>1. auctions' = [auctions EXCEPT ![a].status = "closed"] /\ UNCHANGED <<bids, mem, batch, limbo>>
    BY <1>11 DEF CloseRow
  <2>2. RowFollows([auctions[a] EXCEPT !.status = "closed"], BidsOf(bids, a))
    BY <1>0 DEF RowsFollow, RowFollows, Coherent, RowOfSomeBid, AuctionRow, TypeOK
  <2>3. \A b \in Auctions : /\ RowFollows(auctions'[b], BidsOf(bids', b))
                            /\ auctions[b].status # "absent" => auctions'[b].status # "absent"
    BY <1>0, <2>1, <2>2 DEF RowsFollow, TypeOK, AuctionRow
  <2> QED
    BY <1>0, <2>1, <2>3, MovedFollows DEF RowsFollow
<1>12. \/ \E r \in Request : Place(r)
       \/ \E s \in Shards : \/ Take(s) \/ InboxDrained(s) \/ HydrateMiss(s) \/ HydrateError(s)
                            \/ RejectClosed(s) \/ RejectTooLow(s)
       \/ Tick \/ UNCHANGED vars
       => UNCHANGED <<auctions, bids, mem, batch, limbo>>
  BY DEF Place, Call, Enqueue, GiveUp, Take, InboxDrained, HydrateMiss, HydrateError, RejectClosed,
         RejectTooLow, Answers, Tick, vars
<1> QED
  BY <1>1, <1>2, <1>3, <1>4, <1>5, <1>6, <1>7, <1>8, <1>9, <1>10, <1>11, <1>12
     DEF Next, Run, Decide, Commit

(* WinnerAndVersionCoherent, of every behaviour in which no batch ever     *)
(* holds two bids of one auction - however commits fail, land late, are    *)
(* given up or outlive a restart.  What the UPDATE of a batch lacks is     *)
(* just what the comment over commit takes for granted.                    *)
THEOREM CoherentUnlessTwice == Spec /\ []OneAcceptPerBatch => []WinnerAndVersionCoherent
<1>1. Init => RowsFollow
  <2> SUFFICES ASSUME Init PROVE RowsFollow
    OBVIOUS
  <2>1. bids = {} /\ limbo = {} /\ auctions \in [Auctions -> {NoRow, FreshRow}]
        /\ \A a \in Auctions : mem[a] = Unknown
    BY DEF Init
  <2>2. \A a \in Auctions : RowFollows(auctions[a], BidsOf(bids, a))
    BY <2>1, EmptyFollows DEF TablesFollow
  <2>3. \A s \in Shards : IsFiniteSet(batch[s]) /\ Existing(batch[s], auctions)
    BY FS_EmptySet DEF Init, Existing
  <2> QED
    BY <2>1, <2>2, <2>3, FS_EmptySet DEF RowsFollow
<1>2. IInv /\ WrittenOnce /\ RowsFollow /\ OneAcceptPerBatch /\ [Next]_vars => RowsFollow'
  BY RowsFollowStep
<1>3. RowsFollow => WinnerAndVersionCoherent
  BY DEF RowsFollow, RowFollows, WinnerAndVersionCoherent
<1> QED
  BY <1>1, <1>2, <1>3, Inductive, NothingWrittenTwice, PTL DEF Spec

(* The calls somebody waits for: with their callers, queued, in a hand or  *)
(* in a batch.                                                             *)
UnderWay == calling \cup UNION {Cmds(s) : s \in Shards}

OneCallPerAuction == \A r, q \in UnderWay : r.auction = q.auction => r = q

(* So it is in every behaviour in which an auction never has two calls     *)
(* under way - and two callers at once is what it takes to break it.       *)
THEOREM CoherentOneByOne == Spec /\ []OneCallPerAuction => []WinnerAndVersionCoherent
<1>1. OnePlace /\ OneCallPerAuction => OneAcceptPerBatch
  <2> SUFFICES ASSUME OnePlace, OneCallPerAuction, NEW s \in Shards,
                      NEW b \in batch[s], NEW c \in batch[s], b.auction = c.auction
               PROVE  b = c
    BY DEF OneAcceptPerBatch, OnePerAuction
  <2>1. RequestOf(b) \in UnderWay /\ RequestOf(c) \in UnderWay
    BY DEF UnderWay, Cmds
  <2>2. RequestOf(b) = RequestOf(c)
    BY <2>1 DEF OneCallPerAuction, RequestOf
  <2>3. b.id = c.id
    BY <2>2 DEF RequestOf
  <2> QED
    BY <2>3 DEF OnePlace, OnceEach
<1> QED
  BY <1>1, CoherentUnlessTwice, AlwaysOnePlace, PTL

----------------------------------------------------------------------------
(* I4, "nenhum lance apos o fechamento".  Accept reads the clock twice, so *)
(* a stamp may be later than the end - by no more than the time between    *)
(* the two readings, however late its statement lands.                     *)

InTime(rows) == \A b \in rows : \E drift \in Drifts : b.created - drift < EndsAt

StampedInTime == InTime(Written) /\ \A s \in Shards : InTime(batch[s])

(* Every stamp, in the table, on its way to it or in a batch, lies before  *)
(* the end but for the time between the two readings of decide.            *)
THEOREM StampsAreInTime == Spec => []StampedInTime
<1>1. Init => StampedInTime
  BY DEF Init, StampedInTime, InTime, Written
<1>2. TypeOK /\ StampedInTime /\ [Next]_vars => StampedInTime'
  <2> SUFFICES ASSUME TypeOK, StampedInTime, [Next]_vars PROVE StampedInTime'
    OBVIOUS
  <2>1. ASSUME NEW s \in Shards, Accept(s) PROVE StampedInTime'
    <3> DEFINE a == hand[s].auction
    <3>1. PICK row : /\ batch' = [batch EXCEPT ![s] = @ \cup {row}]
                     /\ \E drift \in Drifts : row.created = ShardNow(a) + drift
      BY <2>1, AcceptAdds
    <3>2. PICK drift \in Drifts : row.created = ShardNow(a) + drift
      BY <3>1
    <3>3. a \in Auctions /\ mem[a] \in MemState
      BY <2>1 DEF Accept, TypeOK, Request
    <3>4. ShardNow(a) \in Int /\ ShardNow(a) < EndsAt /\ drift \in Nat
      <4>1. ShardNow(a) \in Int
        <5>1. mem[a].skew \in Skews
          BY <3>3 DEF MemState
        <5>2. clock \in Nat
          BY DEF TypeOK
        <5>3. mem[a].skew \in Int
          BY <5>1, SkewsAreErrors
        <5> QED
          BY <5>2, <5>3 DEF ShardNow
      <4>2. ~ (ShardNow(a) >= EndsAt)
        BY <2>1 DEF Accept, IsClosed
      <4> QED
        BY <4>1, <4>2, EndsAtIsAnInstant, DriftsAreDelays
    <3> HIDE DEF a
    <3>5. row.created - drift < EndsAt
      BY <3>2, <3>4
    <3>6. UNCHANGED <<bids, limbo>> /\ batch'[s] = batch[s] \cup {row}
          /\ \A t \in Shards \ {s} : batch'[t] = batch[t]
      BY <2>1, <3>1 DEF Accept, TypeOK
    <3> QED
      BY <3>5, <3>6 DEF StampedInTime, InTime, Written
  <2>2. CASE /\ \A b \in Written' : b \in Written \/ \E s \in Shards : b \in batch[s]
             /\ \A s \in Shards : batch'[s] = {} \/ batch'[s] = batch[s]
    BY <2>2 DEF StampedInTime, InTime
  <2>3. ASSUME NEW s \in Shards, Land(s) PROVE StampedInTime'
    <3>1. bids' = bids \cup batch[s] /\ UNCHANGED <<limbo, batch>>
      BY <2>3 DEF Land, Apply
    <3> QED
      BY <2>2, <3>1 DEF Written
  <2>4. ASSUME NEW s \in Shards, Abort(s) \/ CommitError(s) \/ CommitReplyLost(s) \/ CommitReply(s)
        PROVE  StampedInTime'
    <3>1. /\ bids' = bids /\ limbo' \in {limbo, limbo \cup {batch[s]}}
          /\ batch' = [batch EXCEPT ![s] = {}]
      BY <2>4 DEF Abort, CommitError, CommitReplyLost, CommitReply, Fail
    <3>2. \A b \in Written' : b \in Written \/ b \in batch[s]
      BY <3>1 DEF Written
    <3>3. \A t \in Shards : batch'[t] = {} \/ batch'[t] = batch[t]
      BY <3>1 DEF TypeOK
    <3> QED
      BY <2>2, <3>2, <3>3
  <2>5. ASSUME NEW rows \in limbo, LimboLands(rows) \/ LimboDies(rows) PROVE StampedInTime'
    <3>1. Written' \subseteq Written /\ batch' = batch
      BY <2>5 DEF LimboLands, LimboDies, Apply, Written
    <3> QED
      BY <2>2, <3>1
  <2>6. CASE Restart
    <3>1. /\ bids' = bids /\ \A s \in Shards : batch'[s] = {}
          /\ \A rows \in limbo' : rows \in limbo \/ \E s \in Shards : rows = batch[s]
      BY <2>6 DEF Restart
    <3> QED
      BY <2>2, <3>1 DEF Written
  <2>7. CASE UNCHANGED <<bids, limbo, batch>>
    BY <2>2, <2>7 DEF Written
  <2>8. \/ \E r \in Request : Place(r)
        \/ \E s \in Shards : \/ Take(s) \/ Hydrate(s) \/ HydrateMiss(s) \/ HydrateError(s)
                             \/ RejectClosed(s) \/ RejectTooLow(s) \/ InboxDrained(s)
        \/ \E a \in Auctions : Create(a) \/ CloseRow(a)
        \/ Tick \/ UNCHANGED vars
        => UNCHANGED <<bids, limbo, batch>>
    BY DEF Place, Call, Enqueue, GiveUp, Take, Hydrate, HydrateMiss, HydrateError, RejectClosed,
           RejectTooLow, Answers, InboxDrained, Create, CloseRow, Tick, vars
  <2> QED
    BY <2>1, <2>3, <2>4, <2>5, <2>6, <2>7, <2>8 DEF Next, Run, Decide, Commit
<1> QED
  BY <1>1, <1>2, TypeCorrect, PTL DEF Spec

----------------------------------------------------------------------------
(* MinNextBid adds two int64.  What it is applied to, in the tables and in *)
(* the map, is the starting bid or an amount somebody bid: the sum fits    *)
(* whenever those do.                                                      *)
THEOREM MinNextBidIsBounded ==
    ASSUME NEW Most \in Nat, MinNextBid(StartingBid) <= Most,
           \A amount \in Amounts : MinNextBid(amount) <= Most
    PROVE  Spec => [](\A a \in Auctions :
                         /\ MinNextBid(auctions[a].top) <= Most
                         /\ mem[a] # Unknown => MinNextBid(mem[a].top) <= Most)
<1> DEFINE Fits == \A a \in Auctions : /\ MinNextBid(auctions[a].top) <= Most
                                       /\ mem[a] # Unknown => MinNextBid(mem[a].top) <= Most
<1>1. ASSUME IInv, NEW a \in Auctions
      PROVE  MinNextBid(auctions[a].top) <= Most
  BY <1>1 DEF IInv, TypeOK, RowIsSomeBid, RowOfSomeBid, BidsOf, BidRow
<1>2. ASSUME IInv, NEW a \in Auctions, mem[a] # Unknown
      PROVE  MinNextBid(mem[a].top) <= Most
  <2>1. mem[a].top = StartingBid \/ \E b \in BidRow : b.amount = mem[a].top
    BY <1>2, ShardOfRoutes DEF IInv, TypeOK, MemoryNeverAhead, Backed
  <2> QED
    BY <2>1 DEF BidRow
<1>3. IInv => Fits
  BY <1>1, <1>2
<1> HIDE DEF Fits
<1>4. Spec => []Fits
  BY <1>3, Inductive, PTL
<1> QED
  BY <1>4 DEF Fits

----------------------------------------------------------------------------
(* The safety half of EveryCallAnswered: a call that was not answered is   *)
(* somewhere, and where it is somebody can move.                           *)

AnsweredIds == {x.req.id : x \in answered}

InThere(i) == i \in CallingIds \/ \E s \in Shards : i \in ShardIds(s)

NoneLost == \A i \in called : InThere(i) \/ i \in AnsweredIds

IdleIsEmpty == \A s \in Shards : stage[s] = "idle" => batch[s] = {}

(* What the goroutine of a shard can do, written out: with a command in    *)
(* its hand it decides, with one in its inbox it takes it, and a batch it  *)
(* sends, and answers.                                                     *)
CanRun(s) ==
    \/ hand[s] # NoRequest
    \/ stage[s] \in {"open", "exec", "done"}
    \/ inbox[s] # <<>>

LEMMA ToldIsAnswered ==
    ASSUME NEW r, NEW o, Refused(r, o) \in answered'
    PROVE  r.id \in AnsweredIds'
<1>1. Refused(r, o).req = r
  BY DEF Refused
<1> QED
  BY <1>1 DEF AnsweredIds

(* A call goes from the place where it is to another, or is answered. *)
LEMMA MovingLosesNone ==
    ASSUME NoneLost, called' = called, answered \subseteq answered',
           \A i \in CallingIds : InThere(i)' \/ i \in AnsweredIds',
           \A s \in Shards : \A i \in ShardIds(s) : InThere(i)' \/ i \in AnsweredIds'
    PROVE  NoneLost'
<1>1. AnsweredIds \subseteq AnsweredIds'
  BY DEF AnsweredIds
<1> QED
  BY <1>1 DEF NoneLost, InThere

(* A shard changes what it holds, the callers stay. *)
LEMMA ShardLosesNone ==
    ASSUME NoneLost, NEW s \in Shards, UNCHANGED <<called, calling>>, answered \subseteq answered',
           \A t \in Shards \ {s} : /\ inbox'[t] = inbox[t]
                                   /\ hand'[t] = hand[t]
                                   /\ batch'[t] = batch[t],
           \A i \in ShardIds(s) : i \in ShardIds(s)' \/ i \in AnsweredIds'
    PROVE  NoneLost'
<1>1. CallingIds' = CallingIds
  BY DEF CallingIds
<1>2. \A t \in Shards \ {s} : ShardIds(t)' = ShardIds(t)
  BY DEF ShardIds, QueuedIds, HandIds, BatchIds
<1> QED
  BY <1>1, <1>2, MovingLosesNone DEF InThere

LEMMA CallersLoseNone ==
    ASSUME TypeOK, NoneLost, NEW r \in Request, Place(r)
    PROVE  NoneLost'
<1>1. CASE Call(r)
  <2>1. UNCHANGED <<inbox, hand, batch, answered>> /\ calling' = calling \cup {r} /\ called' = called \cup {r.id}
    BY <1>1 DEF Call
  <2>2. CallingIds' = CallingIds \cup {r.id} /\ AnsweredIds' = AnsweredIds
        /\ \A s \in Shards : ShardIds(s)' = ShardIds(s)
    BY <2>1 DEF CallingIds, AnsweredIds, ShardIds, QueuedIds, HandIds, BatchIds
  <2> QED
    BY <2>1, <2>2 DEF NoneLost, InThere
<1>2. CASE Enqueue(r)
  <2> DEFINE s == ShardOf[r.auction]
  <2>1. s \in Shards /\ inbox[s] \in Seq(Request)
    BY ShardOfRoutes DEF Request, TypeOK
  <2>2. /\ calling' = calling \ {r} /\ inbox' = [inbox EXCEPT ![s] = Append(@, r)]
        /\ UNCHANGED <<called, hand, batch, answered>>
    BY <1>2 DEF Enqueue
  <2> HIDE DEF s
  <2>3. /\ inbox'[s] = Append(inbox[s], r)
        /\ \A t \in Shards \ {s} : inbox'[t] = inbox[t]
    BY <2>1, <2>2 DEF TypeOK
  <2>4. /\ \A n \in DOMAIN inbox[s] : n \in DOMAIN inbox'[s] /\ inbox'[s][n] = inbox[s][n]
        /\ Len(inbox[s]) + 1 \in DOMAIN inbox'[s] /\ inbox'[s][Len(inbox[s]) + 1] = r
    BY <2>1, <2>3
  <2>5. \A i \in QueuedIds(s) \cup {r.id} : i \in QueuedIds(s)'
    BY <2>4 DEF QueuedIds
  <2>6. \A i \in CallingIds : i \in CallingIds' \/ i = r.id
    BY <2>2 DEF CallingIds
  <2>7. \A t \in Shards : ShardIds(t) \subseteq ShardIds(t)'
    BY <2>2, <2>3, <2>5 DEF ShardIds, QueuedIds, HandIds, BatchIds
  <2>8. r.id \in ShardIds(s)'
    BY <2>5 DEF ShardIds
  <2> QED
    BY <2>1, <2>2, <2>6, <2>7, <2>8, MovingLosesNone DEF InThere
<1>3. CASE GiveUp(r)
  <2>1. /\ calling' = calling \ {r} /\ answered' = answered \cup {Refused(r, "Cancelled")}
        /\ UNCHANGED <<called, inbox, hand, batch>>
    BY <1>3 DEF GiveUp
  <2>2. \A i \in CallingIds : i \in CallingIds' \/ i \in AnsweredIds'
    <3>1. r.id \in AnsweredIds'
      BY <2>1, ToldIsAnswered
    <3> QED
      BY <2>1, <3>1 DEF CallingIds
  <2>3. \A t \in Shards : ShardIds(t)' = ShardIds(t)
    BY <2>1 DEF ShardIds, QueuedIds, HandIds, BatchIds
  <2> QED
    BY <2>1, <2>2, <2>3, MovingLosesNone DEF InThere
<1> QED
  BY <1>1, <1>2, <1>3 DEF Place

LEMMA TakeLosesNone ==
    ASSUME TypeOK, NoneLost, NEW s \in Shards, Take(s)
    PROVE  NoneLost'
<1>1. /\ inbox[s] \in Seq(Request) /\ inbox[s] # <<>> /\ hand[s] = NoRequest
      /\ inbox'[s] = Tail(inbox[s]) /\ hand'[s] = Head(inbox[s])
      /\ \A t \in Shards \ {s} : inbox'[t] = inbox[t] /\ hand'[t] = hand[t]
      /\ UNCHANGED <<called, calling, batch, answered>>
  BY DEF Take, TypeOK
<1>2. ASSUME NEW n \in DOMAIN inbox[s]
      PROVE  inbox[s][n].id \in QueuedIds(s)' \cup HandIds(s)'
  <2>1. CASE n = 1
    <3>1. hand'[s] = inbox[s][n] /\ hand'[s] \in Request
      BY <1>1, <2>1
    <3> QED
      BY <3>1, NoRequestIsNotARequest DEF HandIds
  <2>2. CASE n # 1
    <3>1. n - 1 \in DOMAIN inbox'[s] /\ inbox'[s][n - 1] = inbox[s][n]
      BY <1>1, <1>2, <2>2
    <3> QED
      BY <3>1 DEF QueuedIds
  <2> QED
    BY <2>1, <2>2
<1>3. HandIds(s) = {} /\ BatchIds(s)' = BatchIds(s)
  BY <1>1 DEF HandIds, BatchIds
<1>4. QueuedIds(s) \subseteq QueuedIds(s)' \cup HandIds(s)'
  BY <1>2 DEF QueuedIds
<1>5. \A i \in ShardIds(s) : i \in ShardIds(s)'
  BY <1>3, <1>4 DEF ShardIds
<1> QED
  BY <1>1, <1>5, ShardLosesNone

LEMMA DecideLosesNone ==
    ASSUME TypeOK, NoneLost, NEW s \in Shards, Decide(s)
    PROVE  NoneLost'
<1>1. ASSUME NEW o, Answers(s, o), UNCHANGED <<called, calling, inbox>>
      PROVE  NoneLost'
  <2>1. /\ answered' = answered \cup {Refused(hand[s], o)} /\ batch' = batch
        /\ \A t \in Shards \ {s} : hand'[t] = hand[t]
    BY <1>1 DEF Answers, TypeOK
  <2>2. \A i \in HandIds(s) : i \in AnsweredIds'
    BY <2>1, ToldIsAnswered DEF HandIds
  <2>3. QueuedIds(s)' = QueuedIds(s) /\ BatchIds(s)' = BatchIds(s)
    BY <1>1, <2>1 DEF QueuedIds, BatchIds
  <2>4. \A i \in ShardIds(s) : i \in ShardIds(s)' \/ i \in AnsweredIds'
    BY <2>2, <2>3 DEF ShardIds
  <2> QED
    BY <1>1, <2>1, <2>4, ShardLosesNone
<1>2. CASE Accept(s)
  <2>1. PICK row : batch' = [batch EXCEPT ![s] = @ \cup {row}] /\ row.id = hand[s].id
    BY <1>2, AcceptAdds
  <2>2. /\ batch'[s] = batch[s] \cup {row}
        /\ \A t \in Shards \ {s} : hand'[t] = hand[t] /\ batch'[t] = batch[t]
        /\ UNCHANGED <<called, calling, inbox, answered>>
    BY <1>2, <2>1 DEF Accept, TypeOK
  <2>3. QueuedIds(s)' = QueuedIds(s) /\ BatchIds(s)' = BatchIds(s) \cup {hand[s].id}
    BY <2>1, <2>2 DEF QueuedIds, BatchIds
  <2>4. \A i \in ShardIds(s) : i \in ShardIds(s)'
    BY <2>3 DEF ShardIds, HandIds
  <2> QED
    BY <2>2, <2>4, ShardLosesNone
<1> QED
  BY <1>1, <1>2 DEF Decide, HydrateMiss, HydrateError, RejectClosed, RejectTooLow

LEMMA CommitLosesNone ==
    ASSUME TypeOK, NoneLost, NEW s \in Shards, Commit(s)
    PROVE  NoneLost'
<1>1. CASE Land(s)
  <2>1. UNCHANGED <<called, calling, inbox, hand, batch, answered>>
    BY <1>1 DEF Land
  <2>2. ShardIds(s)' = ShardIds(s)
    BY <2>1 DEF ShardIds, QueuedIds, HandIds, BatchIds
  <2> QED
    BY <2>1, <2>2, ShardLosesNone
<1>2. ASSUME batch' = [batch EXCEPT ![s] = {}], answered \subseteq answered',
             UNCHANGED <<called, calling, inbox, hand>>,
             \A b \in batch[s] : \E x \in answered' : x.req.id = b.id
      PROVE  NoneLost'
  <2>1. \A i \in BatchIds(s) : i \in AnsweredIds'
    BY <1>2 DEF BatchIds, AnsweredIds
  <2>2. QueuedIds(s)' = QueuedIds(s) /\ HandIds(s)' = HandIds(s)
    BY <1>2 DEF QueuedIds, HandIds
  <2>3. \A i \in ShardIds(s) : i \in ShardIds(s)' \/ i \in AnsweredIds'
    BY <2>1, <2>2 DEF ShardIds
  <2>4. \A t \in Shards \ {s} : batch'[t] = batch[t]
    BY <1>2 DEF TypeOK
  <2> QED
    BY <1>2, <2>3, <2>4, ShardLosesNone
<1>3. CASE CommitReply(s)
  <2>1. \A b \in batch[s] : Accepted(b) \in answered' /\ Accepted(b).req.id = b.id
    BY <1>3 DEF CommitReply, Accepted, RequestOf
  <2> QED
    BY <1>2, <1>3, <2>1 DEF CommitReply
<1>4. CASE Abort(s) \/ CommitError(s) \/ CommitReplyLost(s)
  <2>1. Fail(s) /\ UNCHANGED <<called, calling, inbox, hand>>
    BY <1>4 DEF Abort, CommitError, CommitReplyLost
  <2>2. \A b \in batch[s] : /\ Refused(RequestOf(b), "Error") \in answered'
                            /\ Refused(RequestOf(b), "Error").req.id = b.id
    BY <2>1 DEF Fail, Refused, RequestOf
  <2> QED
    BY <1>2, <2>1, <2>2 DEF Fail
<1> QED
  BY <1>1, <1>3, <1>4 DEF Commit

LEMMA RestartLosesNone ==
    ASSUME TypeOK, NoneLost, Restart
    PROVE  NoneLost'
<1>1. called' = called /\ answered \subseteq answered'
      /\ \A r \in calling \cup UNION {Cmds(s) : s \in Shards} : Refused(r, "Lost") \in answered'
  BY DEF Restart
<1>2. \A r \in calling \cup UNION {Cmds(s) : s \in Shards} : r.id \in AnsweredIds'
  BY <1>1, ToldIsAnswered
<1>3. \A i \in CallingIds : i \in AnsweredIds'
  BY <1>2 DEF CallingIds
<1>4. ASSUME NEW s \in Shards, NEW i \in ShardIds(s)
      PROVE  i \in AnsweredIds'
  <2>1. \E r \in Cmds(s) : r.id = i
    <3>1. CASE i \in QueuedIds(s)
      BY <3>1 DEF QueuedIds, Cmds
    <3>2. CASE i \in HandIds(s)
      BY <3>2 DEF HandIds, Cmds
    <3>3. CASE i \in BatchIds(s)
      <4>1. PICK b \in batch[s] : b.id = i
        BY <3>3 DEF BatchIds
      <4>2. RequestOf(b).id = i /\ RequestOf(b) \in Cmds(s)
        BY <4>1 DEF RequestOf, Cmds
      <4> QED
        BY <4>2
    <3> QED
      BY <3>1, <3>2, <3>3 DEF ShardIds
  <2> QED
    BY <1>2, <2>1
<1> QED
  BY <1>1, <1>3, <1>4, MovingLosesNone

(* No call is ever forgotten: until it is answered it is with its caller,  *)
(* in an inbox, in a hand or in a batch - and AlwaysOnePlace says that it  *)
(* is in one of them only.                                                 *)
THEOREM NoCallIsForgotten == Spec => []NoneLost
<1>1. Init => NoneLost
  BY DEF Init, NoneLost
<1>2. TypeOK /\ NoneLost /\ [Next]_vars => NoneLost'
  <2> SUFFICES ASSUME TypeOK, NoneLost, [Next]_vars PROVE NoneLost'
    OBVIOUS
  <2>1. ASSUME UNCHANGED <<called, calling, inbox, hand, batch, answered>> PROVE NoneLost'
    BY <2>1 DEF NoneLost, InThere, AnsweredIds, CallingIds, ShardIds, QueuedIds, HandIds, BatchIds
  <2>2. \/ \E s \in Shards : Hydrate(s) \/ InboxDrained(s)
        \/ \E rows \in limbo : LimboLands(rows) \/ LimboDies(rows)
        \/ \E a \in Auctions : Create(a) \/ CloseRow(a)
        \/ Tick \/ UNCHANGED vars
        => UNCHANGED <<called, calling, inbox, hand, batch, answered>>
    BY DEF Hydrate, InboxDrained, LimboLands, LimboDies, Create, CloseRow, Tick, vars
  <2> QED
    BY <2>1, <2>2, CallersLoseNone, TakeLosesNone, DecideLosesNone, CommitLosesNone,
       RestartLosesNone DEF Next, Run
<1> QED
  BY <1>1, <1>2, TypeCorrect, PTL DEF Spec

(* A shard that is idle has answered everything it accepted. *)
LEMMA IdleStep == TypeOK /\ IdleIsEmpty /\ [Next]_vars => IdleIsEmpty'
<1> SUFFICES ASSUME TypeOK, IdleIsEmpty, [Next]_vars PROVE IdleIsEmpty'
  OBVIOUS
<1>1. ASSUME NEW s \in Shards, NEW rows, NEW st \in AfterDecision(s, rows),
             batch'[s] = rows, stage' = [stage EXCEPT ![s] = st],
             \A t \in Shards \ {s} : batch'[t] = batch[t]
      PROVE  IdleIsEmpty'
  <2>1. st = "idle" => rows = {}
    BY <1>1 DEF AfterDecision
  <2>2. stage'[s] = st /\ \A t \in Shards \ {s} : stage'[t] = stage[t]
    BY <1>1 DEF TypeOK
  <2> QED
    BY <1>1, <2>1, <2>2 DEF IdleIsEmpty
<1>2. ASSUME NEW s \in Shards, Accept(s) PROVE IdleIsEmpty'
  <2>1. PICK row : batch' = [batch EXCEPT ![s] = @ \cup {row}]
    BY <1>2, AcceptAdds
  <2>2. \A t \in Shards \ {s} : batch'[t] = batch[t]
    BY <2>1 DEF TypeOK
  <2> QED
    BY <1>1, <1>2, <2>2 DEF Accept
<1>3. ASSUME NEW s \in Shards, NEW o, Answers(s, o) PROVE IdleIsEmpty'
  BY <1>1, <1>3 DEF Answers
<1>4. ASSUME NEW s \in Shards, InboxDrained(s) \/ Land(s) PROVE IdleIsEmpty'
  BY <1>4 DEF InboxDrained, Land, IdleIsEmpty, TypeOK
<1>5. ASSUME NEW s \in Shards, Abort(s) \/ CommitError(s) \/ CommitReplyLost(s) \/ CommitReply(s)
      PROVE  IdleIsEmpty'
  BY <1>5 DEF Abort, CommitError, CommitReplyLost, CommitReply, Fail, IdleIsEmpty, TypeOK
<1>6. CASE Restart
  BY <1>6 DEF Restart, IdleIsEmpty
<1>7. CASE UNCHANGED <<batch, stage>>
  BY <1>7 DEF IdleIsEmpty
<1>8. \/ \E r \in Request : Place(r)
      \/ \E s \in Shards : Take(s) \/ Hydrate(s)
      \/ \E rows \in limbo : LimboLands(rows) \/ LimboDies(rows)
      \/ \E a \in Auctions : Create(a) \/ CloseRow(a)
      \/ Tick \/ UNCHANGED vars
      => UNCHANGED <<batch, stage>>
  BY DEF Place, Call, Enqueue, GiveUp, Take, Hydrate, LimboLands, LimboDies, Create, CloseRow,
         Tick, vars
<1> QED
  BY <1>2, <1>3, <1>4, <1>5, <1>6, <1>7, <1>8
     DEF Next, Run, Decide, Commit, HydrateMiss, HydrateError, RejectClosed, RejectTooLow

(* Nobody waits for a shard that waits for nobody: a call that was not     *)
(* answered can be enqueued, or the shard of its auction can run.          *)
THEOREM NoShardStalls ==
    Spec => [](\A i \in called \ AnsweredIds :
                  \/ \E r \in calling : r.id = i /\ Len(inbox[ShardOf[r.auction]]) < InboxCap
                  \/ \E s \in Shards : CanRun(s) /\ (i \in ShardIds(s) \/ Len(inbox[s]) >= InboxCap))
<1> DEFINE Moving(i) ==
       \/ \E r \in calling : r.id = i /\ Len(inbox[ShardOf[r.auction]]) < InboxCap
       \/ \E s \in Shards : CanRun(s) /\ (i \in ShardIds(s) \/ Len(inbox[s]) >= InboxCap)
<1>1. ASSUME TypeOK, IdleIsEmpty, NEW s \in Shards, NEW i \in ShardIds(s)
      PROVE  CanRun(s)
  <2>1. i \in QueuedIds(s) => inbox[s] # <<>>
    BY DEF QueuedIds
  <2>2. i \in HandIds(s) => hand[s] # NoRequest
    BY DEF HandIds
  <2>3. i \in BatchIds(s) => stage[s] # "idle" /\ stage[s] \in Stages
    BY <1>1 DEF BatchIds, IdleIsEmpty, TypeOK
  <2> QED
    BY <1>1, <2>1, <2>2, <2>3 DEF ShardIds, CanRun, Stages
<1>2. ASSUME TypeOK, NEW r \in calling, NEW s, s = ShardOf[r.auction], ~(Len(inbox[s]) < InboxCap)
      PROVE  s \in Shards /\ CanRun(s) /\ Len(inbox[s]) >= InboxCap
  <2>1. s \in Shards /\ inbox[s] \in Seq(Request)
    BY <1>2, ShardOfRoutes DEF TypeOK, Request
  <2>2. Len(inbox[s]) \in Nat /\ InboxCap \in Nat \ {0}
    BY <2>1, CapsArePositive
  <2>3. Len(inbox[s]) >= InboxCap /\ Len(inbox[s]) # 0
    BY <1>2, <2>2
  <2>4. inbox[s] # <<>>
    BY <2>3
  <2> QED
    BY <2>1, <2>3, <2>4 DEF CanRun
<1>3. TypeOK /\ IdleIsEmpty /\ NoneLost => \A i \in called \ AnsweredIds : Moving(i)
  <2> SUFFICES ASSUME TypeOK, IdleIsEmpty, NoneLost, NEW i \in called \ AnsweredIds
               PROVE  Moving(i)
    OBVIOUS
  <2>1. CASE i \in CallingIds
    <3>1. PICK r \in calling : r.id = i
      BY <2>1 DEF CallingIds
    <3> QED
      BY <1>2, <3>1
  <2>2. ASSUME NEW s \in Shards, i \in ShardIds(s) PROVE Moving(i)
    BY <1>1, <2>2
  <2> QED
    BY <2>1, <2>2 DEF NoneLost, InThere
<1>4. Init => IdleIsEmpty
  BY DEF Init, IdleIsEmpty
<1> HIDE DEF Moving
<1>5. Spec => [](\A i \in called \ AnsweredIds : Moving(i))
  BY <1>3, <1>4, IdleStep, TypeCorrect, NoCallIsForgotten, PTL DEF Spec
<1> QED
  BY <1>5 DEF Moving

(* Of the contract, as an invariant: one answer to a call, a 201 shows a   *)
(* row of the table, and a call that was rejected has none, whatever was   *)
(* given up to Postgres.                                                   *)
THEOREM AnswersAreHonest == Spec => []Honest(answered, bids)
<1>1. AcceptedIsDurable /\ OnePlace => Honest(answered, bids)
  BY DEF AcceptedIsDurable, OnePlace, ToldOnce, Honest, Written
<1> QED
  BY <1>1, AcceptsAreDurable, AlwaysOnePlace, PTL
=============================================================================
