--------------------------- MODULE PessimisticProofs ---------------------------
(***************************************************************************)
(* Proofs about Pessimistic, for every set of auctions, calls, amounts and *)
(* keys, every pool size and every clock.                                  *)
(***************************************************************************)
EXTENDS Pessimistic, EngineLemmas

USE DEF tables

(* A call that found its row has read it, before and after it locks it.    *)
ReadsKept == \A i \in Ids : pc[i] = "waiting" => read[i] \in Read

TypeInv == TypeOK /\ ReadsKept

(* The bid of a call that wrote is a row of bids. *)
LEMMA NewBidType ==
    ASSUME TypeOK, NEW i \in Ids, pc[i] # "idle"
    PROVE  /\ NewBid(i) \in BidRow
           /\ NewBid(i).id = i
           /\ NewBid(i).auction = req[i].auction
           /\ req[i].auction \in Auctions
<1>1. req[i] \in Request /\ req[i].auction \in Auctions /\ began[i] \in Int
  BY DEF TypeOK, Request
<1>2. auctions[req[i].auction].version + 1 \in Nat \ {0}
  BY <1>1 DEF TypeOK, AuctionRow
<1> QED
  BY <1>1, <1>2 DEF NewBid, BidRow, Request

(* Where a call goes when its caller leaves. *)
LEMMA AbandonedSteps ==
    ASSUME NEW step \in Steps
    PROVE  /\ Abandoned(step) \in Steps
           /\ step # "idle" => Abandoned(step) \in {"dropped", "doubt", "over"}
           /\ Abandoned(step) = "doubt" => step \in {"wrote", "doubt"}
           /\ Abandoned(step) = "idle" => step = "idle"
           /\ step \in {"wrote", "doubt"} => Abandoned(step) = "doubt"
           /\ step \in {"committed", "over"} => Abandoned(step) = "over"
BY DEF Steps, Abandoned

(* What the end of a transaction leaves: the locks of the others.          *)
LEMMA EndsType ==
    ASSUME TypeInv, NEW i \in Ids, NEW step \in {"committed", "over"}, Ends(i, step),
           auctions' \in [Auctions -> AuctionRow], bids' \subseteq BidRow,
           answered' \subseteq Answer, pc[i] # "idle", UNCHANGED <<clock, req, began>>
    PROVE  TypeInv'
<1>1. /\ pc' = [pc EXCEPT ![i] = step]
      /\ read' = [read EXCEPT ![i] = NoRead]
      /\ lock' = [a \in Auctions |-> IF lock[a] = i THEN Free ELSE lock[a]]
  BY DEF Ends
<1>2. /\ pc' \in [Ids -> Steps] /\ read' \in [Ids -> Read \cup {NoRead}]
      /\ lock' \in [Auctions -> Ids \cup {Free}]
  BY <1>1 DEF TypeInv, TypeOK, Steps
<1>3. ASSUME NEW j \in Ids
      PROVE  /\ pc'[j] # "idle" => req'[j] \in Request /\ req'[j].id = j
             /\ pc'[j] \in {"locked", "wrote", "doubt"} => read'[j] \in Read /\ lock'[req'[j].auction] = j
             /\ pc'[j] = "waiting" => read'[j] \in Read
  <2>1. CASE j = i
    BY <1>1, <2>1 DEF TypeInv, TypeOK
  <2>2. CASE j # i
    <3>1. pc'[j] = pc[j] /\ read'[j] = read[j] /\ req'[j] = req[j]
      BY <1>1, <2>2 DEF TypeInv, TypeOK
    <3>2. pc[j] # "idle" => req[j].auction \in Auctions
      BY DEF TypeInv, TypeOK, Request
    <3> QED
      BY <1>1, <2>2, <3>1, <3>2 DEF TypeInv, TypeOK, ReadsKept
  <2> QED
    BY <2>1, <2>2
<1> QED
  BY <1>2, <1>3 DEF TypeInv, TypeOK, ReadsKept

(* The transactions, their locks and the answers keep their types. *)
LEMMA TypeStep == TypeInv /\ [Next]_vars => TypeInv'
<1> SUFFICES ASSUME TypeInv, [Next]_vars PROVE TypeInv'
  OBVIOUS
<1>1. ASSUME NEW r \in Request, Call(r) PROVE TypeInv'
  <2>1. r.id \in Ids
    BY DEF Request
  <2> QED
    BY <1>1, <2>1 DEF Call, TypeInv, TypeOK, ReadsKept, Steps
<1>2. ASSUME NEW i \in Ids, Begin(i) PROVE TypeInv'
  BY <1>2 DEF Begin, TypeInv, TypeOK, ReadsKept, Steps
<1>3. ASSUME NEW i \in Ids, RejectNotFound(i) PROVE TypeInv'
  <2>1. Refused(req[i], "NotFound") \in Answer
    BY <1>3, RefusedIsAnswer DEF RejectNotFound, TypeInv, TypeOK, Outcomes
  <2>2. /\ answered' \subseteq Answer /\ Ends(i, "over") /\ pc[i] # "idle"
        /\ UNCHANGED <<auctions, bids, clock, req, began>>
    BY <1>3, <2>1 DEF RejectNotFound, Answers, TypeInv, TypeOK
  <2>3. auctions' \in [Auctions -> AuctionRow] /\ bids' \subseteq BidRow
    BY <2>2 DEF TypeInv, TypeOK
  <2> QED
    BY <2>2, <2>3, EndsType
<1>4. ASSUME NEW i \in Ids, Find(i) PROVE TypeInv'
  <2>1. [row |-> auctions[req[i].auction], now |-> clock] \in Read
    BY <1>4 DEF Find, TypeInv, TypeOK, Request, Read
  <2> QED
    BY <1>4, <2>1 DEF Find, TypeInv, TypeOK, ReadsKept, Steps
<1>5. ASSUME NEW i \in Ids, Lock(i) PROVE TypeInv'
  <2> DEFINE a == req[i].auction
             got == IF read[i].row = auctions[a] THEN read[i] ELSE [row |-> auctions[a], now |-> clock]
  <2>1. a \in Auctions /\ read[i] \in Read /\ got \in Read
    BY <1>5 DEF Lock, TypeInv, TypeOK, ReadsKept, Request, Read
  <2>2. /\ lock[a] = Free /\ lock' = [lock EXCEPT ![a] = i]
        /\ read' = [read EXCEPT ![i] = got] /\ pc' = [pc EXCEPT ![i] = "locked"]
        /\ UNCHANGED <<tables, clock, req, began, answered>> /\ pc[i] = "waiting"
    BY <1>5 DEF Lock
  <2> HIDE DEF got
  <2>3. ASSUME NEW j \in Ids, pc'[j] \in {"locked", "wrote", "doubt"}
        PROVE  read'[j] \in Read /\ lock'[req'[j].auction] = j
    <3>1. CASE j = i
      BY <2>1, <2>2, <3>1 DEF TypeInv, TypeOK
    <3>2. CASE j # i
      <4>1. read[j] \in Read /\ lock[req[j].auction] = j
        BY <2>2, <2>3, <3>2 DEF TypeInv, TypeOK
      <4>2. req[j].auction # a
        BY <2>2, <4>1, FreeIsNotACall
      <4> QED
        BY <2>2, <3>2, <4>1, <4>2 DEF TypeInv, TypeOK
    <3> QED
      BY <3>1, <3>2
  <2> QED
    BY <2>1, <2>2, <2>3 DEF TypeInv, TypeOK, ReadsKept, Steps
<1>6. ASSUME NEW i \in Ids, Reject(i) \/ WriteCollides(i) PROVE TypeInv'
  <2>1. PICK o \in Outcomes : Answers(Refused(req[i], o))
    BY <1>6 DEF Reject, WriteCollides, Outcomes
  <2>2. Refused(req[i], o) \in Answer
    BY <1>6, RefusedIsAnswer DEF Reject, WriteCollides, TypeInv, TypeOK
  <2>3. /\ answered' \subseteq Answer /\ Ends(i, "over") /\ pc[i] # "idle"
        /\ UNCHANGED <<auctions, bids, clock, req, began>>
    BY <1>6, <2>1, <2>2 DEF Reject, WriteCollides, Answers, TypeInv, TypeOK
  <2>4. auctions' \in [Auctions -> AuctionRow] /\ bids' \subseteq BidRow
    BY <2>3 DEF TypeInv, TypeOK
  <2> QED
    BY <2>3, <2>4, EndsType
<1>7. ASSUME NEW i \in Ids, Write(i) PROVE TypeInv'
  BY <1>7 DEF Write, TypeInv, TypeOK, ReadsKept, Steps
<1>8. ASSUME NEW i \in Ids, Commit(i) PROVE TypeInv'
  <2> DEFINE b == NewBid(i)
  <2>1. b \in BidRow /\ b.auction \in Auctions /\ b.amount \in Nat
    BY <1>8, NewBidType, AmountIsNat DEF Commit, TypeInv
  <2>2. bids' = bids \cup {b}
    BY <1>8 DEF Commit
  <2>3. auctions' = [auctions EXCEPT ![b.auction] =
                       [status |-> @.status, version |-> b.seq, top |-> b.amount, winner |-> i]]
    BY <1>8 DEF Commit
  <2>4. /\ pc[i] # "idle" /\ UNCHANGED <<clock, req, began, answered>>
        /\ \E step \in {"committed", "over"} : Ends(i, step)
    BY <1>8 DEF Commit
  <2> HIDE DEF b
  <2>5. \A row \in AuctionRow :
           [status |-> row.status, version |-> b.seq, top |-> b.amount, winner |-> i] \in AuctionRow
    BY <2>1 DEF AuctionRow, BidRow
  <2>6. auctions' \in [Auctions -> AuctionRow] /\ bids' \subseteq BidRow
    BY <2>1, <2>2, <2>3, <2>5 DEF TypeInv, TypeOK
  <2>7. answered' \subseteq Answer
    BY <2>4 DEF TypeInv, TypeOK
  <2> QED
    BY <2>4, <2>6, <2>7, EndsType
<1>9. ASSUME NEW i \in Ids, ReplyAccepted(i) PROVE TypeInv'
  <2>1. PICK b \in bids : Answers(Accepted(b))
    BY <1>9 DEF ReplyAccepted
  <2>2. Accepted(b) \in Answer
    BY AcceptedIsAnswer DEF TypeInv, TypeOK
  <2> QED
    BY <1>9, <2>1, <2>2 DEF ReplyAccepted, TypeInv, TypeOK, ReadsKept, Answers, Steps
<1>10. ASSUME NEW i \in Ids, GiveUp(i) PROVE TypeInv'
  <2>1. Refused(req[i], "Error") \in Answer /\ pc[i] \in Steps \ {"idle"}
    BY <1>10, RefusedIsAnswer DEF GiveUp, Waiting, TypeInv, TypeOK, Outcomes
  <2>2. pc' = [pc EXCEPT ![i] = Abandoned(pc[i])]
    BY <1>10 DEF GiveUp
  <2>3. /\ Abandoned(pc[i]) \in Steps \ {"idle", "waiting", "locked", "wrote"}
        /\ Abandoned(pc[i]) = "doubt" => pc[i] \in {"wrote", "doubt"}
    BY <2>1, AbandonedSteps
  <2> QED
    BY <1>10, <2>1, <2>2, <2>3 DEF GiveUp, Answers, TypeInv, TypeOK, ReadsKept
<1>11. CASE Restart
  <2>1. \A i \in Ids : Waiting(i) => Refused(req[i], "Lost") \in Answer
    BY RefusedIsAnswer DEF Waiting, TypeInv, TypeOK, Outcomes
  <2>2. ASSUME NEW i \in Ids
        PROVE  /\ pc'[i] \in Steps
               /\ pc'[i] # "idle" => pc[i] # "idle"
               /\ pc'[i] # pc[i] => pc'[i] \notin {"waiting", "locked", "wrote"}
               /\ pc'[i] = "doubt" => pc[i] \in {"wrote", "doubt"}
    <3>1. pc'[i] = IF Waiting(i) THEN Abandoned(pc[i]) ELSE pc[i]
      BY <1>11 DEF Restart
    <3>2. pc[i] \in Steps /\ (Waiting(i) => pc[i] # "idle")
      BY DEF TypeInv, TypeOK, Waiting
    <3> QED
      BY <3>1, <3>2, AbandonedSteps
  <2>3. /\ pc' = [i \in Ids |-> IF Waiting(i) THEN Abandoned(pc[i]) ELSE pc[i]]
        /\ answered' \subseteq Answer
        /\ UNCHANGED <<tables, clock, req, began, read, lock>>
    BY <1>11, <2>1 DEF Restart, TypeInv, TypeOK
  <2>4. pc' \in [Ids -> Steps]
    BY <2>2, <2>3
  <2> QED
    BY <2>2, <2>3, <2>4 DEF TypeInv, TypeOK, ReadsKept
<1>12. ASSUME NEW i \in Ids, RollBack(i) PROVE TypeInv'
  <2>1. /\ Ends(i, "over") /\ pc[i] # "idle" /\ UNCHANGED <<auctions, bids, clock, req, began, answered>>
    BY <1>12 DEF RollBack
  <2>2. auctions' \in [Auctions -> AuctionRow] /\ bids' \subseteq BidRow /\ answered' \subseteq Answer
    BY <2>1 DEF TypeInv, TypeOK
  <2> QED
    BY <2>1, <2>2, EndsType
<1>13. ASSUME NEW a \in Auctions, Create(a) \/ CloseRow(a) PROVE TypeInv'
  <2>1. auctions' \in [Auctions -> AuctionRow]
    BY <1>13, StartingBidIsCents DEF Create, CloseRow, TypeInv, TypeOK, FreshRow, AuctionRow
  <2> QED
    BY <1>13, <2>1 DEF Create, CloseRow, TypeInv, TypeOK, ReadsKept
<1>14. CASE Tick \/ UNCHANGED vars
  BY <1>14 DEF Tick, vars, TypeInv, TypeOK, ReadsKept
<1> QED
  BY <1>1, <1>2, <1>3, <1>4, <1>5, <1>6, <1>7, <1>8, <1>9, <1>10, <1>11, <1>12, <1>13, <1>14
     DEF Next, Progress

LEMMA TypeAndReads == Spec => []TypeInv
<1>1. Init => TypeInv
  BY StartingBidIsCents DEF Init, TypeInv, TypeOK, ReadsKept, Steps, NoRow, FreshRow, AuctionRow
<1> QED
  BY <1>1, TypeStep, PTL DEF Spec

(* TypeOK: who decides over a row, or wrote on it, holds its lock until    *)
(* its transaction ends, for every value of the constants.                 *)
THEOREM TypeCorrect == Spec => []TypeOK
BY TypeAndReads, PTL DEF TypeInv

----------------------------------------------------------------------------
(* The inductive invariant.  The lock is the guard: what a call decided    *)
(* over the row it read is true of the row until its transaction ends, and *)
(* so the bid it wrote is the next one; the unique indexes have seen the   *)
(* bids of the transactions that have not ended.                           *)

(* What is true of the row a call aims at, from the moment it finds it.    *)
LockIsTheGuard ==
    \A i \in Ids :
        LET row == auctions[req[i].auction] IN
        /\ pc[i] \in {"waiting", "locked", "wrote", "doubt"} => row.status # "absent"
        /\ pc[i] \in {"locked", "wrote", "doubt"} => read[i].row = row
        /\ pc[i] \in {"wrote", "doubt"} => row.status = "open" /\ MinNextBid(row.top) <= req[i].amount

(* The bids of the table were placed by calls whose transaction is over.   *)
PlacedOnce == \A b \in bids : pc[b.id] \in {"committed", "over"}

(* Who was told something left its transaction behind, if not nothing; who *)
(* was told the outcome left nothing.                                      *)
ToldIsOver ==
    \A x \in answered :
        /\ pc[x.req.id] \in {"dropped", "doubt", "over"}
        /\ x.outcome \notin {"Error", "Lost"} => pc[x.req.id] = "over"

IInv ==
    /\ TypeInv
    /\ TablesFollow(auctions, bids)
    /\ NoCollision(bids \cup Uncommitted)
    /\ Honest(answered, bids)
    /\ LockIsTheGuard
    /\ PlacedOnce
    /\ ToldIsOver

(* What a step does to a call it does not let near a row: nothing, or      *)
(* takes it out, leaving behind at most what was written.                  *)
Untouched(j) ==
    pc'[j] = pc[j] /\ req'[j] = req[j] /\ read'[j] = read[j] /\ began'[j] = began[j]

Leaves(j) ==
    /\ pc'[j] \notin {"waiting", "locked", "wrote"}
    /\ pc[j] \in {"committed", "over"} => pc'[j] \in {"committed", "over"}
    /\ pc'[j] = "doubt" =>
          /\ pc[j] \in {"wrote", "doubt"}
          /\ req'[j] = req[j] /\ read'[j] = read[j] /\ began'[j] = began[j]

(* Such steps keep what is known of the rows that are read and written.    *)
LEMMA QuietStep ==
    ASSUME IInv, UNCHANGED <<auctions, bids>>,
           \A j \in Ids : Untouched(j) \/ Leaves(j)
    PROVE  /\ TablesFollow(auctions, bids)'
           /\ NoCollision(bids \cup Uncommitted)'
           /\ LockIsTheGuard'
           /\ PlacedOnce'
<1>1. TablesFollow(auctions, bids)'
  BY DEF IInv
<1>2. Uncommitted' \subseteq Uncommitted
  <2>1. ASSUME NEW j \in Ids, pc'[j] \in {"wrote", "doubt"}
        PROVE  pc[j] \in {"wrote", "doubt"} /\ NewBid(j)' = NewBid(j)
    BY <2>1 DEF Untouched, Leaves, NewBid
  <2> QED
    BY <2>1 DEF Uncommitted
<1>3. NoCollision(bids \cup Uncommitted)'
  BY <1>2 DEF IInv, NoCollision
<1>4. LockIsTheGuard'
  BY DEF IInv, LockIsTheGuard, Untouched, Leaves
<1>5. PlacedOnce'
  BY OfCalls DEF IInv, TypeInv, TypeOK, PlacedOnce, Untouched, Leaves
<1> QED
  BY <1>1, <1>3, <1>4, <1>5

(* What was told stays over while no step brings a call back. *)
LEMMA ToldStays ==
    ASSUME TypeOK, ToldIsOver, NEW new, answered' = answered \cup new,
           \A j \in Ids : /\ pc[j] \in {"dropped", "doubt", "over"} => pc'[j] \in {"dropped", "doubt", "over"}
                          /\ pc[j] = "over" => pc'[j] = "over",
           \A x \in new : /\ pc'[x.req.id] \in {"dropped", "doubt", "over"}
                          /\ x.outcome \notin {"Error", "Lost"} => pc'[x.req.id] = "over"
    PROVE  ToldIsOver'
<1>1. \A x \in answered : x.req.id \in Ids
  BY OfCalls DEF TypeOK
<1> QED
  BY <1>1 DEF ToldIsOver

(* A call that is told how it ended, while it still had no answer. *)
LEMMA RefusalStep ==
    ASSUME IInv, NEW i \in Ids, pc[i] \notin {"idle", "dropped", "doubt", "over"},
           NEW o, o # "Accepted", o \in Rejections => pc[i] # "committed",
           answered' = answered \cup {Refused(req[i], o)}, bids' = bids,
           NEW step \in {"dropped", "doubt", "over"}, pc' = [pc EXCEPT ![i] = step],
           o \notin {"Error", "Lost"} => step = "over"
    PROVE  Honest(answered, bids)' /\ ToldIsOver'
<1>1. req[i].id = i /\ (\A y \in answered : y.req.id # i)
  BY DEF IInv, TypeInv, TypeOK, ToldIsOver
<1>2. o \in Rejections => \A b \in bids : b.id # i
  BY DEF IInv, PlacedOnce
<1>3. Honest(answered, bids)'
  BY <1>1, <1>2, HonestRefusal DEF IInv
<1>4. ToldIsOver'
  <2> DEFINE new == {Refused(req[i], o)}
  <2>1. \A x \in new : x.req.id = i /\ x.outcome = o
    BY <1>1 DEF Refused
  <2>2. TypeOK /\ ToldIsOver /\ pc'[i] = step /\ \A j \in Ids \ {i} : pc'[j] = pc[j]
    BY DEF IInv, TypeInv, TypeOK
  <2>3. answered' = answered \cup new
    OBVIOUS
  <2> HIDE DEF new
  <2> QED
    BY <2>1, <2>2, <2>3, ToldStays
<1> QED
  BY <1>3, <1>4

(* A step that neither adds a bid nor tells anybody anything. *)
LEMMA SilentStep ==
    ASSUME IInv, UNCHANGED <<bids, answered>>,
           \A j \in Ids : /\ pc[j] \in {"dropped", "doubt", "over"} => pc'[j] \in {"dropped", "doubt", "over"}
                          /\ pc[j] = "over" => pc'[j] = "over"
    PROVE  Honest(answered, bids)' /\ ToldIsOver'
<1>1. answered' = answered \cup {} /\ TypeOK /\ ToldIsOver
  BY DEF IInv, TypeInv
<1>2. ToldIsOver'
  BY <1>1, OfCalls DEF ToldIsOver, TypeOK
<1> QED
  BY <1>2 DEF IInv

(* The commit of a bid that was written on top of the row, under its lock. *)
LEMMA CommitStep ==
    ASSUME IInv, TypeInv', NEW i \in Ids, Commit(i)
    PROVE  IInv'
<1> DEFINE b == NewBid(i)
<1>1. TypeOK /\ pc[i] \in {"wrote", "doubt"}
  BY DEF IInv, TypeInv, Commit
<1>2. b \in BidRow /\ b.id = i /\ b.auction = req[i].auction /\ b.auction \in Auctions
  BY <1>1, NewBidType
<1>3. Tops(auctions[b.auction], b)
  BY <1>1 DEF IInv, LockIsTheGuard, Tops, NewBid
<1>4. auctions' = [auctions EXCEPT ![b.auction] = Topped(@, b)]
  BY DEF Commit, Topped, NewBid
<1>5. bids' = bids \cup {b} /\ UNCHANGED <<clock, req, began, answered>>
  BY DEF Commit
<1>6. PICK step \in {"committed", "over"} : Ends(i, step)
  BY DEF Commit
<1>7. /\ pc'[i] = step
      /\ \A j \in Ids \ {i} : pc'[j] = pc[j] /\ read'[j] = read[j] /\ req'[j] = req[j] /\ began'[j] = began[j]
  BY <1>1, <1>5, <1>6 DEF Ends, TypeOK
<1>8. pc[i] = "doubt" => step = "over"
  BY <1>1, <1>7 DEF Commit, Ends, TypeOK
<1>9. b \in Uncommitted
  BY <1>1 DEF Uncommitted
<1>10. \A j \in Ids \ {i} : pc[j] \in {"locked", "wrote", "doubt"} =>
          req[j].auction # b.auction /\ req[j].auction \in Auctions
  BY <1>1, <1>2 DEF TypeOK, Request
<1>11. \A j \in Ids \ {i} : pc[j] \in {"wrote", "doubt"} => NewBid(j)' = NewBid(j)
  <2> SUFFICES ASSUME NEW j \in Ids \ {i}, pc[j] \in {"wrote", "doubt"} PROVE NewBid(j)' = NewBid(j)
    OBVIOUS
  <2>1. auctions'[req[j].auction] = auctions[req[j].auction]
    <3> HIDE DEF b
    <3> QED
      BY <1>1, <1>4, <1>10 DEF TypeOK
  <2> QED
    BY <1>7, <2>1 DEF NewBid
<1>12. Uncommitted' \subseteq Uncommitted
  BY <1>7, <1>11 DEF Uncommitted
<1> HIDE DEF b
<1>13. TablesFollow(auctions, bids)'
  <2>1. Insertable(bids, {b})
    BY <1>9 DEF IInv, NoCollision, Insertable
  <2> QED
    BY <1>1, <1>2, <1>3, <1>4, <1>5, <2>1, PlaceFollows DEF IInv, TypeOK
<1>14. NoCollision(bids \cup Uncommitted)'
  BY <1>5, <1>9, <1>12 DEF IInv, NoCollision
<1>15. Honest(answered, bids)'
  <2>1. \A x \in answered : x.req.id = b.id => x.outcome \notin Rejections
    BY <1>1, <1>2 DEF IInv, ToldIsOver, Rejections
  <2> QED
    BY <1>5, <2>1, HonestRecord DEF IInv
<1>16. LockIsTheGuard'
  <2> SUFFICES ASSUME NEW j \in Ids, pc'[j] \in {"waiting", "locked", "wrote", "doubt"}
               PROVE  /\ auctions'[req'[j].auction].status # "absent"
                      /\ pc'[j] \in {"locked", "wrote", "doubt"} => read'[j].row = auctions'[req'[j].auction]
                      /\ pc'[j] \in {"wrote", "doubt"} =>
                            /\ auctions'[req'[j].auction].status = "open"
                            /\ MinNextBid(auctions'[req'[j].auction].top) <= req'[j].amount
    BY DEF LockIsTheGuard
  <2>1. j # i /\ pc'[j] = pc[j] /\ read'[j] = read[j] /\ req'[j] = req[j] /\ req[j].auction \in Auctions
    BY <1>1, <1>7 DEF TypeOK, Request
  <2>2. auctions'[req[j].auction].status # "absent"
    BY <1>1, <1>2, <1>3, <1>4, <2>1 DEF IInv, LockIsTheGuard, TypeOK, Topped, Tops
  <2>3. pc[j] \in {"locked", "wrote", "doubt"} => auctions'[req[j].auction] = auctions[req[j].auction]
    BY <1>1, <1>4, <1>10, <2>1 DEF TypeOK
  <2> QED
    BY <2>1, <2>2, <2>3 DEF IInv, LockIsTheGuard
<1>17. PlacedOnce'
  BY <1>1, <1>2, <1>5, <1>7, OfCalls DEF IInv, PlacedOnce, TypeOK
<1>18. ToldIsOver'
  BY <1>1, <1>5, <1>7, <1>8, OfCalls DEF IInv, ToldIsOver, TypeOK
<1> QED
  BY <1>13, <1>14, <1>15, <1>16, <1>17, <1>18 DEF IInv

(* Every step of the engine and of its surroundings. *)
LEMMA IInvStep == IInv /\ [Next]_vars => IInv'
<1> SUFFICES ASSUME IInv, [Next]_vars PROVE IInv'
  OBVIOUS
<1>0. TypeInv /\ TypeInv' /\ TypeOK
  BY TypeStep DEF IInv, TypeInv
<1>1. ASSUME NEW r \in Request, Call(r) PROVE IInv'
  <2>1. r.id \in Ids /\ pc[r.id] = "idle" /\ pc'[r.id] = "queued"
        /\ \A j \in Ids \ {r.id} : Untouched(j)
    BY <1>0, <1>1 DEF Call, TypeOK, Request, Untouched
  <2>2. \A j \in Ids : Untouched(j) \/ Leaves(j)
    BY <2>1 DEF Leaves
  <2>3. Honest(answered, bids)' /\ ToldIsOver'
    BY <1>1, <2>1, SilentStep DEF Call, Untouched
  <2> QED
    BY <1>0, <1>1, <2>2, <2>3, QuietStep DEF Call, IInv
<1>2. ASSUME NEW i \in Ids, Begin(i) PROVE IInv'
  <2>1. /\ pc[i] = "queued" /\ pc'[i] = "begun"
        /\ \A j \in Ids \ {i} : Untouched(j)
    BY <1>0, <1>2 DEF Begin, TypeOK, Untouched
  <2>2. \A j \in Ids : Untouched(j) \/ Leaves(j)
    BY <2>1 DEF Leaves
  <2>3. Honest(answered, bids)' /\ ToldIsOver'
    BY <1>2, <2>1, SilentStep DEF Begin, Untouched
  <2> QED
    BY <1>0, <1>2, <2>2, <2>3, QuietStep DEF Begin, IInv
<1>3. ASSUME NEW i \in Ids, RejectNotFound(i) \/ Reject(i) \/ WriteCollides(i) PROVE IInv'
  <2>1. PICK o : o \in {"NotFound", "Closed", "TooLow", "Error"} /\ Answers(Refused(req[i], o))
    BY <1>3 DEF RejectNotFound, Reject, WriteCollides
  <2>2. pc[i] \in {"begun", "locked"} /\ Ends(i, "over") /\ UNCHANGED <<auctions, bids, clock, req, began>>
    BY <1>3 DEF RejectNotFound, Reject, WriteCollides
  <2>3. pc' = [pc EXCEPT ![i] = "over"] /\ pc'[i] = "over" /\ \A j \in Ids \ {i} : Untouched(j)
    BY <1>0, <2>2 DEF Ends, TypeOK, Untouched
  <2>4. \A j \in Ids : Untouched(j) \/ Leaves(j)
    BY <2>3 DEF Leaves
  <2>5. Honest(answered, bids)' /\ ToldIsOver'
    BY <2>1, <2>2, <2>3, RefusalStep DEF Answers
  <2> QED
    BY <1>0, <2>2, <2>4, <2>5, QuietStep DEF IInv
<1>4. ASSUME NEW i \in Ids, Find(i) PROVE IInv'
  <2>1. /\ pc[i] = "begun" /\ pc'[i] = "waiting" /\ req' = req /\ auctions[req[i].auction].status # "absent"
        /\ \A j \in Ids \ {i} : Untouched(j)
        /\ UNCHANGED <<auctions, bids, began, answered>>
    BY <1>0, <1>4 DEF Find, TypeOK, Untouched
  <2>2. LockIsTheGuard'
    BY <2>1 DEF IInv, LockIsTheGuard, Untouched
  <2>3. Uncommitted' \subseteq Uncommitted
    BY <2>1 DEF Uncommitted, NewBid, Untouched
  <2>4. NoCollision(bids \cup Uncommitted)'
    BY <2>1, <2>3 DEF IInv, NoCollision
  <2>5. Honest(answered, bids)' /\ ToldIsOver'
    BY <2>1, SilentStep DEF Untouched
  <2>6. PlacedOnce'
    BY <1>0, <2>1, OfCalls DEF IInv, PlacedOnce, Untouched, TypeOK
  <2> QED
    BY <1>0, <2>1, <2>2, <2>4, <2>5, <2>6 DEF IInv
<1>5. ASSUME NEW i \in Ids, Lock(i) PROVE IInv'
  <2>1. /\ pc[i] = "waiting" /\ pc'[i] = "locked" /\ req' = req
        /\ read'[i].row = auctions[req[i].auction]
        /\ \A j \in Ids \ {i} : Untouched(j)
        /\ UNCHANGED <<auctions, bids, began, answered>>
    BY <1>0, <1>5 DEF Lock, TypeOK, Untouched
  <2>2. LockIsTheGuard'
    BY <2>1 DEF IInv, LockIsTheGuard, Untouched
  <2>3. Uncommitted' \subseteq Uncommitted
    BY <2>1 DEF Uncommitted, NewBid, Untouched
  <2>4. NoCollision(bids \cup Uncommitted)'
    BY <2>1, <2>3 DEF IInv, NoCollision
  <2>5. Honest(answered, bids)' /\ ToldIsOver'
    BY <2>1, SilentStep DEF Untouched
  <2>6. PlacedOnce'
    BY <1>0, <2>1, OfCalls DEF IInv, PlacedOnce, Untouched, TypeOK
  <2> QED
    BY <1>0, <2>1, <2>2, <2>4, <2>5, <2>6 DEF IInv
<1>6. ASSUME NEW i \in Ids, Write(i) PROVE IInv'
  <2>1. /\ pc[i] = "locked" /\ pc'[i] = "wrote"
        /\ ~TooLow(i) /\ ~Closed(i) /\ Insertable(bids \cup Uncommitted, {NewBid(i)})
        /\ \A j \in Ids \ {i} : pc'[j] = pc[j]
        /\ UNCHANGED <<auctions, bids, req, read, began, answered>>
    BY <1>0, <1>6 DEF Write, TypeOK
  <2>2. LockIsTheGuard'
    <3>1. MinNextBid(auctions[req[i].auction].top) <= req[i].amount
      <4>1. req[i] \in Request /\ auctions[req[i].auction] \in AuctionRow
        BY <1>0, <2>1 DEF TypeOK, Request
      <4>2. auctions[req[i].auction].top + Increment \in Int /\ req[i].amount \in Int
        BY <4>1, AmountIsNat, IncrementIsPositive DEF AuctionRow
      <4>3. ~ (req[i].amount < MinNextBid(auctions[req[i].auction].top))
        BY <2>1 DEF IInv, LockIsTheGuard, TooLow
      <4> QED
        BY <4>2, <4>3 DEF MinNextBid
    <3>2. auctions[req[i].auction].status = "open"
      <4>1. auctions[req[i].auction].status \in {"absent", "open", "closed"}
        BY <1>0, <2>1 DEF TypeOK, Request, AuctionRow
      <4> QED
        BY <2>1, <4>1 DEF IInv, LockIsTheGuard, Closed, IsClosed
    <3> QED
      BY <2>1, <3>1, <3>2 DEF IInv, LockIsTheGuard
  <2>3. Uncommitted' \subseteq Uncommitted \cup {NewBid(i)}
    BY <2>1 DEF Uncommitted, NewBid
  <2>4. NoCollision((bids \cup Uncommitted) \cup {NewBid(i)})
    BY <2>1, InsertedIsAlone DEF IInv
  <2>5. NoCollision(bids \cup Uncommitted)'
    BY <2>1, <2>3, <2>4 DEF NoCollision
  <2>6. Honest(answered, bids)' /\ ToldIsOver'
    BY <2>1, SilentStep
  <2>7. PlacedOnce'
    BY <1>0, <2>1, OfCalls DEF IInv, PlacedOnce, TypeOK
  <2> QED
    BY <1>0, <2>1, <2>2, <2>5, <2>6, <2>7 DEF IInv
<1>7. ASSUME NEW i \in Ids, Commit(i) PROVE IInv'
  BY <1>0, <1>7, CommitStep
<1>8. ASSUME NEW i \in Ids, ReplyAccepted(i) PROVE IInv'
  <2>1. PICK b \in bids : b.id = i /\ Answers(Accepted(b))
    BY <1>8 DEF ReplyAccepted
  <2>2. /\ pc[i] = "committed" /\ pc' = [pc EXCEPT ![i] = "over"]
        /\ UNCHANGED <<auctions, bids, clock, req, began, read, lock>>
        /\ pc'[i] = "over" /\ \A j \in Ids \ {i} : Untouched(j)
    BY <1>0, <1>8 DEF ReplyAccepted, TypeOK, Untouched
  <2>3. \A j \in Ids : Untouched(j) \/ Leaves(j)
    BY <2>2 DEF Leaves
  <2>4. \A y \in answered : y.req.id # i
    BY <2>2 DEF IInv, ToldIsOver
  <2>5. Honest(answered, bids)'
    BY <2>1, <2>2, <2>4, HonestAccept DEF Answers, IInv
  <2>6. ToldIsOver'
    <3> DEFINE new == {Accepted(b)}
    <3>1. \A x \in new : x.req.id = i
      BY <2>1 DEF Accepted, RequestOf
    <3>2. answered' = answered \cup new
      BY <2>1 DEF Answers
    <3>3. \A j \in Ids : j # i => pc'[j] = pc[j]
      BY <2>2 DEF Untouched
    <3> HIDE DEF new
    <3> QED
      BY <1>0, <2>2, <3>1, <3>2, <3>3, ToldStays DEF IInv
  <2> QED
    BY <1>0, <2>2, <2>3, <2>5, <2>6, QuietStep DEF IInv
<1>9. ASSUME NEW i \in Ids, GiveUp(i) PROVE IInv'
  <2>1. /\ pc[i] \in Steps \ {"idle"} /\ req[i].id = i /\ \A y \in answered : y.req.id # i
        /\ pc' = [pc EXCEPT ![i] = Abandoned(pc[i])] /\ pc'[i] = Abandoned(pc[i])
        /\ answered' = answered \cup {Refused(req[i], "Error")}
        /\ UNCHANGED <<auctions, bids, clock, req, began, read, lock>>
        /\ \A j \in Ids \ {i} : Untouched(j)
    BY <1>0, <1>9 DEF GiveUp, Waiting, Answers, TypeOK, Untouched
  <2>2. Abandoned(pc[i]) \in {"dropped", "doubt", "over"}
    BY <2>1, AbandonedSteps
  <2>3. Untouched(i) \/ Leaves(i)
    BY <2>1, <2>2, AbandonedSteps DEF Leaves, Untouched
  <2>4. Honest(answered, bids)'
    BY <2>1, HonestRefusal DEF IInv, Rejections
  <2>5. ToldIsOver'
    <3> DEFINE new == {Refused(req[i], "Error")}
    <3>1. \A x \in new : x.req.id = i /\ x.outcome = "Error"
      BY <2>1 DEF Refused
    <3>2. pc[i] = "over" => pc'[i] = "over"
      BY <2>1, AbandonedSteps
    <3>3. answered' = answered \cup new
      BY <2>1
    <3>4. \A j \in Ids : j # i => pc'[j] = pc[j]
      BY <2>1 DEF Untouched
    <3> HIDE DEF new
    <3> QED
      BY <1>0, <2>1, <2>2, <3>1, <3>2, <3>3, <3>4, ToldStays DEF IInv
  <2> QED
    BY <1>0, <2>1, <2>3, <2>4, <2>5, QuietStep DEF IInv
<1>10. CASE Restart
  <2> DEFINE new == {Refused(req[i], "Lost") : i \in {j \in Ids : Waiting(j)}}
  <2>1. \A x \in new : /\ x.outcome = "Lost" /\ x.req.id \in Ids /\ Waiting(x.req.id)
                       /\ x = Refused(req[x.req.id], "Lost")
                       /\ \A y \in answered : y.req.id # x.req.id
    BY <1>0 DEF Waiting, TypeOK, Refused
  <2>2. answered' = answered \cup new /\ UNCHANGED <<auctions, bids, clock, req, began, read, lock>>
    BY <1>10 DEF Restart
  <2>3. \A j \in Ids : /\ pc[j] \in Steps
                       /\ pc'[j] = IF Waiting(j) THEN Abandoned(pc[j]) ELSE pc[j]
                       /\ Waiting(j) => pc[j] # "idle"
    BY <1>0, <1>10 DEF Restart, TypeOK, Waiting
  <2> HIDE DEF new
  <2>4. Honest(new, bids)
    BY <2>1 DEF Honest, Rejections
  <2>5. Honest(answered, bids)'
    BY <2>1, <2>2, <2>4, HonestAnswers DEF IInv
  <2>6. \A j \in Ids : Untouched(j) \/ Leaves(j)
    BY <2>2, <2>3, AbandonedSteps DEF Untouched, Leaves
  <2>7. ToldIsOver'
    <3>1. \A j \in Ids : /\ pc[j] \in {"dropped", "doubt", "over"} => pc'[j] \in {"dropped", "doubt", "over"}
                         /\ pc[j] = "over" => pc'[j] = "over"
                         /\ Waiting(j) => pc'[j] \in {"dropped", "doubt", "over"}
      BY <2>3, AbandonedSteps
    <3> QED
      BY <1>0, <2>1, <2>2, <3>1, ToldStays DEF IInv
  <2> QED
    BY <1>0, <2>2, <2>5, <2>6, <2>7, QuietStep DEF IInv
<1>11. ASSUME NEW i \in Ids, RollBack(i) PROVE IInv'
  <2>1. /\ pc[i] \in {"dropped", "doubt"} /\ pc'[i] = "over" /\ \A j \in Ids \ {i} : Untouched(j)
        /\ UNCHANGED <<auctions, bids, answered>>
    BY <1>0, <1>11 DEF RollBack, Ends, TypeOK, Untouched
  <2>2. \A j \in Ids : Untouched(j) \/ Leaves(j)
    BY <2>1 DEF Leaves
  <2>3. Honest(answered, bids)' /\ ToldIsOver'
    BY <2>1, SilentStep DEF Untouched
  <2> QED
    BY <1>0, <2>1, <2>2, <2>3, QuietStep DEF IInv
<1>12. ASSUME NEW a \in Auctions, Create(a) \/ CloseRow(a) PROVE IInv'
  <2>1. /\ auctions[a].status # "closed" /\ (auctions[a].status # "absent" => lock[a] = Free)
        /\ auctions' \in [Auctions -> AuctionRow] /\ auctions'[a].status # "absent"
        /\ \A c \in Auctions \ {a} : auctions'[c] = auctions[c]
        /\ UNCHANGED <<bids, pc, req, read, began, answered>>
    <3>1. CASE Create(a)
      BY <1>0, <3>1 DEF Create, TypeInv, TypeOK, FreshRow
    <3>2. CASE CloseRow(a)
      <4>1. auctions[a] \in AuctionRow /\ auctions' = [auctions EXCEPT ![a].status = "closed"]
        BY <1>0, <3>2 DEF CloseRow, TypeOK
      <4>2. [auctions[a] EXCEPT !.status = "closed"].status = "closed"
        BY <4>1 DEF AuctionRow
      <4>3. auctions'[a].status = "closed"
        BY <1>0, <4>1, <4>2 DEF TypeOK
      <4> QED
        BY <1>0, <3>2, <4>1, <4>3 DEF CloseRow, TypeInv, TypeOK
    <3> QED
      BY <1>12, <3>1, <3>2
  <2>2. TablesFollow(auctions', bids')
    BY <1>0, <1>12, CreateFollows, CloseFollows DEF Create, CloseRow, IInv, TypeOK
  <2>3. \A j \in Ids : /\ pc[j] \in {"waiting", "locked", "wrote", "doubt"} => req[j].auction \in Auctions
                       /\ pc[j] \in {"locked", "wrote", "doubt"} => req[j].auction # a
    <3>1. \A j \in Ids : pc[j] \in {"locked", "wrote", "doubt"} =>
             lock[req[j].auction] = j /\ auctions[req[j].auction].status # "absent"
      BY <1>0 DEF IInv, LockIsTheGuard, TypeOK
    <3> QED
      BY <1>0, <2>1, <3>1, FreeIsNotACall DEF TypeOK, Request
  <2>4. LockIsTheGuard'
    BY <2>1, <2>3 DEF IInv, LockIsTheGuard
  <2>5. Uncommitted' = Uncommitted
    BY <2>1, <2>3 DEF Uncommitted, NewBid
  <2> QED
    BY <1>0, <2>1, <2>2, <2>4, <2>5 DEF IInv, PlacedOnce, ToldIsOver
<1>13. CASE Tick \/ UNCHANGED vars
  <2>1. UNCHANGED <<auctions, bids, answered>> /\ \A j \in Ids : Untouched(j)
    BY <1>13 DEF Tick, vars, Untouched
  <2>2. Honest(answered, bids)' /\ ToldIsOver'
    BY <2>1, SilentStep DEF Untouched
  <2> QED
    BY <1>0, <2>1, <2>2, QuietStep DEF IInv
<1> QED
  BY <1>1, <1>2, <1>3, <1>4, <1>5, <1>6, <1>7, <1>8, <1>9, <1>10, <1>11, <1>12, <1>13
     DEF Next, Progress

(* The inductive invariant, for every value of the constants. *)
THEOREM Inductive == Spec => []IInv
<1>1. Init => IInv
  <2> SUFFICES ASSUME Init PROVE IInv
    OBVIOUS
  <2>1. TypeInv
    BY StartingBidIsCents DEF Init, TypeInv, TypeOK, ReadsKept, Steps, NoRow, FreshRow, AuctionRow
  <2>2. Uncommitted = {} /\ bids = {} /\ answered = {}
    BY DEF Init, Uncommitted
  <2>3. TablesFollow(auctions, bids)
    BY <2>2, EmptyFollows DEF Init
  <2> QED
    BY <2>1, <2>2, <2>3
       DEF Init, IInv, NoCollision, Honest, LockIsTheGuard, PlacedOnce, ToldIsOver
<1> QED
  BY <1>1, IInvStep, PTL DEF Spec

(* WinnerAndVersionCoherent: I3 of the checker holds at every moment.      *)
THEOREM AlwaysCoherent == Spec => []WinnerAndVersionCoherent
<1>1. IInv => WinnerAndVersionCoherent
  BY DEF IInv, TablesFollow, RowFollows, WinnerAndVersionCoherent
<1> QED
  BY <1>1, Inductive, PTL

(* LockedReadStaysTrue: the unguarded UPDATE writes over the row that was  *)
(* decided upon, also when the client left before the COMMIT.              *)
THEOREM TheLockIsTheGuard == Spec => []LockedReadStaysTrue
<1>1. IInv => LockedReadStaysTrue
  BY DEF IInv, LockIsTheGuard, LockedReadStaysTrue
<1> QED
  BY <1>1, Inductive, PTL

(* ClosedIsFinal: neither the UPDATE nor the INSERT of a bid looks at the  *)
(* status, and yet none lands on an auction that closerd closed.           *)
THEOREM NothingAfterTheClose == Spec => ClosedIsFinal
<1>1. IInv /\ [Next]_vars =>
        [\A a \in Auctions : auctions[a].status = "closed" =>
            auctions'[a] = auctions[a] /\ BidsOf(bids', a) = BidsOf(bids, a)]_vars
  <2> SUFFICES ASSUME IInv, Next, NEW a \in Auctions, auctions[a].status = "closed"
               PROVE  auctions'[a] = auctions[a] /\ BidsOf(bids', a) = BidsOf(bids, a)
    OBVIOUS
  <2>1. ASSUME NEW i \in Ids, Commit(i)
        PROVE  auctions'[a] = auctions[a] /\ BidsOf(bids', a) = BidsOf(bids, a)
    <3>1. NewBid(i).auction = req[i].auction /\ req[i].auction # a
      BY <2>1 DEF Commit, IInv, LockIsTheGuard, NewBid
    <3> QED
      BY <2>1, <3>1 DEF Commit, BidsOf, IInv, TypeInv, TypeOK
  <2>2. ASSUME NEW c \in Auctions, Create(c) \/ CloseRow(c)
        PROVE  auctions'[a] = auctions[a] /\ BidsOf(bids', a) = BidsOf(bids, a)
    BY <2>2 DEF Create, CloseRow, BidsOf, IInv, TypeInv, TypeOK
  <2>3. CASE UNCHANGED tables
    BY <2>3
  <2> QED
    BY <2>1, <2>2, <2>3
       DEF Next, Progress, Call, Begin, RejectNotFound, Find, Lock, Reject, Write, WriteCollides,
           ReplyAccepted, RollBack, GiveUp, Restart, Tick
<1> QED
  BY <1>1, Inductive, PTL DEF Spec, ClosedIsFinal

(* Each step adds to one of the two things the contract sees, if any. *)
LEMMA OneAtATime ==
    ASSUME [Next]_vars
    PROVE  \/ bids' = bids /\ answered \subseteq answered'
           \/ answered' = answered /\ bids \subseteq bids'
<1>1. ASSUME NEW i \in Ids, Commit(i) PROVE answered' = answered /\ bids \subseteq bids'
  BY <1>1 DEF Commit
<1>2. ASSUME NEW i \in Ids, Begin(i) \/ Find(i) \/ Lock(i) \/ Write(i) \/ RollBack(i)
      PROVE  UNCHANGED <<bids, answered>>
  BY <1>2 DEF Begin, Find, Lock, Write, RollBack
<1>3. ASSUME NEW i \in Ids,
             RejectNotFound(i) \/ Reject(i) \/ WriteCollides(i) \/ ReplyAccepted(i) \/ GiveUp(i)
      PROVE  bids' = bids /\ answered \subseteq answered'
  BY <1>3 DEF RejectNotFound, Reject, WriteCollides, ReplyAccepted, GiveUp, Answers
<1>4. ASSUME NEW r \in Request, Call(r) PROVE UNCHANGED <<bids, answered>>
  BY <1>4 DEF Call
<1>5. CASE Restart
  BY <1>5 DEF Restart
<1>6. ASSUME NEW a \in Auctions, Create(a) \/ CloseRow(a) PROVE UNCHANGED <<bids, answered>>
  BY <1>6 DEF Create, CloseRow
<1>7. CASE Tick \/ UNCHANGED vars
  BY <1>7 DEF Tick, vars
<1> QED
  BY <1>1, <1>2, <1>3, <1>4, <1>5, <1>6, <1>7 DEF Next, Progress

(* ImplementsEngine: the pessimistic engine keeps the contract of package  *)
(* bid, whoever leaves and wherever the process dies.                      *)
THEOREM KeepsTheContract == Spec => ImplementsEngine
<1>1. Init => Engine!Init
  BY DEF Init, Engine!Init
<1>2. IInv /\ IInv' /\ [Next]_vars => [Engine!Next]_<<bids, answered>>
  <2> SUFFICES ASSUME IInv, IInv', [Next]_vars, ~ UNCHANGED <<bids, answered>>
               PROVE  Engine!Next
    OBVIOUS
  <2>1. CASE bids' = bids /\ answered \subseteq answered'
    BY <2>1 DEF IInv, Honest, Engine!Next, Engine!Reply, Engine!Rejections, Engine!Accepted,
                Rejections, Accepted, Engine!RequestOf, RequestOf
  <2>2. CASE answered' = answered /\ bids \subseteq bids'
    <3>1. Engine!Chained(bids')
      BY DEF IInv, TablesFollow, Chained, Opens, Beats, MinNextBid,
             Engine!Chained, Engine!Opens, Engine!Beats, Engine!MinNextBid
    <3>2. Engine!NoCollision(bids')
      BY DEF IInv, TablesFollow, NoCollision, Collide, Engine!NoCollision, Engine!Collide
    <3>3. \A b \in bids', x \in answered : x.req.id = b.id => x.outcome \notin Engine!Rejections
      BY <2>2 DEF IInv, Honest, Rejections, Engine!Rejections
    <3> QED
      BY <2>2, <3>1, <3>2, <3>3 DEF Engine!Next, Engine!Record
  <2> QED
    BY <2>1, <2>2, OneAtATime
<1> QED
  BY <1>1, <1>2, Inductive, PTL DEF Spec, ImplementsEngine, Engine!Spec

----------------------------------------------------------------------------
(* I4, "nenhum lance apos o fechamento": a bid carries the instant its     *)
(* transaction began, before the clock the closing rule looked at.         *)

BeganInTime(i) ==
    /\ pc[i] = "begun" => began[i] <= clock
    /\ pc[i] \in {"waiting", "locked"} => began[i] <= clock /\ began[i] <= read[i].now
    /\ pc[i] \in {"wrote", "doubt"} => began[i] < EndsAt

DecidedInTime ==
    /\ \A b \in bids : b.created < EndsAt
    /\ \A i \in Ids : BeganInTime(i)

(* Whoever does not move on, or lets go, stays in time. *)
LEMMA StillInTime ==
    ASSUME TypeInv, NEW i \in Ids, BeganInTime(i), began'[i] = began[i], read'[i] = read[i],
           clock' \in Nat, clock <= clock',
           \/ pc'[i] = pc[i] \/ pc'[i] \in {"queued", "committed", "over", "dropped"}
           \/ pc[i] \in {"wrote", "doubt"} /\ pc'[i] = "doubt"
    PROVE  BeganInTime(i)'
<1>1. clock \in Nat /\ began[i] \in Int
  BY DEF TypeInv, TypeOK
<1> QED
  BY <1>1 DEF BeganInTime

(* I4 of the pessimistic engine: created_at is the now() of a transaction  *)
(* that began before the end, also of a bid accepted behind a long wait.   *)
THEOREM NoBidAfterTheEnd == Spec => [](\A b \in bids : b.created < EndsAt)
<1>1. Init => DecidedInTime
  BY DEF Init, DecidedInTime, BeganInTime
<1>2. TypeInv /\ TypeInv' /\ DecidedInTime /\ [Next]_vars => DecidedInTime'
  <2> SUFFICES ASSUME TypeInv, TypeInv', DecidedInTime, [Next]_vars PROVE DecidedInTime'
    OBVIOUS
  <2>0. /\ clock \in Nat /\ began \in [Ids -> Int] /\ pc \in [Ids -> Steps]
        /\ \A i \in Ids : pc[i] \in {"waiting", "locked", "wrote", "doubt"} => read[i].now \in Int
    BY DEF TypeInv, TypeOK, ReadsKept, Read
  <2>1. ASSUME NEW i \in Ids, Begin(i) PROVE DecidedInTime'
    BY <2>0, <2>1 DEF Begin, DecidedInTime, BeganInTime
  <2>2. ASSUME NEW i \in Ids, Find(i) PROVE DecidedInTime'
    <3>1. read'[i].now = clock /\ \A j \in Ids \ {i} : read'[j] = read[j]
      BY <2>2 DEF Find, TypeInv, TypeOK
    <3> QED
      BY <2>0, <2>2, <3>1 DEF Find, DecidedInTime, BeganInTime
  <2>3. ASSUME NEW i \in Ids, Lock(i) PROVE DecidedInTime'
    <3>1. read'[i].now \in {read[i].now, clock} /\ \A j \in Ids \ {i} : read'[j] = read[j]
      BY <2>3 DEF Lock, TypeInv, TypeOK
    <3>2. UNCHANGED <<bids, began, clock>> /\ pc' = [pc EXCEPT ![i] = "locked"] /\ pc[i] = "waiting"
      BY <2>3 DEF Lock
    <3> QED
      BY <2>0, <3>1, <3>2 DEF DecidedInTime, BeganInTime
  <2>4. ASSUME NEW i \in Ids, Write(i) PROVE DecidedInTime'
    <3>1. read[i].now < EndsAt
      BY <2>0, <2>4, EndsAtIsAnInstant DEF Write, Closed, IsClosed
    <3> QED
      BY <2>0, <2>4, <3>1, EndsAtIsAnInstant DEF Write, DecidedInTime, BeganInTime
  <2>5. ASSUME NEW i \in Ids, RejectNotFound(i) \/ Reject(i) \/ WriteCollides(i) \/ RollBack(i)
        PROVE  DecidedInTime'
    <3>1. /\ pc' = [pc EXCEPT ![i] = "over"] /\ UNCHANGED <<bids, began, clock>>
          /\ \A j \in Ids \ {i} : read'[j] = read[j]
      BY <2>5 DEF RejectNotFound, Reject, WriteCollides, RollBack, Ends, TypeInv, TypeOK
    <3> QED
      BY <2>0, <3>1 DEF DecidedInTime, BeganInTime
  <2>6. ASSUME NEW i \in Ids, Commit(i) PROVE DecidedInTime'
    <3>1. /\ bids' = bids \cup {NewBid(i)} /\ NewBid(i).created = began[i] /\ pc[i] \in {"wrote", "doubt"}
          /\ pc'[i] \in {"committed", "over"} /\ UNCHANGED <<began, clock>>
          /\ \A j \in Ids \ {i} : pc'[j] = pc[j] /\ read'[j] = read[j]
      BY <2>6 DEF Commit, Ends, NewBid, TypeInv, TypeOK
    <3> QED
      BY <2>0, <3>1 DEF DecidedInTime, BeganInTime
  <2>7. ASSUME NEW i \in Ids, GiveUp(i) \/ ReplyAccepted(i) PROVE DecidedInTime'
    <3>1. /\ \/ pc' = [pc EXCEPT ![i] = "over"]
             \/ pc' = [pc EXCEPT ![i] = Abandoned(@)] /\ pc[i] # "idle"
          /\ UNCHANGED <<bids, began, read, clock>>
      BY <2>7 DEF GiveUp, ReplyAccepted, Waiting
    <3>2. \A j \in Ids \ {i} : pc'[j] = pc[j]
      BY <2>0, <3>1
    <3>3. \/ pc'[i] \in {"over", "dropped"}
          \/ pc[i] \in {"wrote", "doubt"} /\ pc'[i] = "doubt"
      <4>1. \/ pc'[i] = "over"
            \/ pc'[i] = Abandoned(pc[i]) /\ pc[i] \in Steps /\ pc[i] # "idle"
        BY <2>0, <3>1
      <4> QED
        BY <4>1, AbandonedSteps
    <3>4. \A j \in Ids : BeganInTime(j)'
      BY <2>0, <3>1, <3>2, <3>3, StillInTime DEF DecidedInTime
    <3> QED
      BY <3>1, <3>4 DEF DecidedInTime
  <2>8. CASE Restart
    <3>1. /\ \A j \in Ids : pc'[j] = IF Waiting(j) THEN Abandoned(pc[j]) ELSE pc[j]
          /\ UNCHANGED <<bids, began, read, clock>>
      BY <2>8 DEF Restart
    <3>2. \A j \in Ids : \/ pc'[j] = pc[j] \/ pc'[j] \in {"over", "dropped"}
                         \/ pc[j] \in {"wrote", "doubt"} /\ pc'[j] = "doubt"
      BY <2>0, <3>1, AbandonedSteps DEF Waiting
    <3>3. \A j \in Ids : BeganInTime(j)'
      BY <2>0, <3>1, <3>2, StillInTime DEF DecidedInTime
    <3> QED
      BY <3>1, <3>3 DEF DecidedInTime
  <2>9. CASE UNCHANGED <<bids, began, read, pc>> /\ clock' \in Nat /\ clock <= clock'
    BY <2>9, StillInTime DEF DecidedInTime
  <2>10. Tick \/ (\E a \in Auctions : Create(a) \/ CloseRow(a)) \/ UNCHANGED vars
         => UNCHANGED <<bids, began, read, pc>> /\ clock' \in Nat /\ clock <= clock'
    BY <2>0 DEF Tick, Create, CloseRow, vars
  <2>11. ASSUME NEW r \in Request, Call(r) PROVE DecidedInTime'
    <3>1. pc' = [pc EXCEPT ![r.id] = "queued"] /\ UNCHANGED <<bids, began, read, clock>>
      BY <2>11 DEF Call
    <3>2. \A j \in Ids : pc'[j] \in {pc[j], "queued"}
      BY <2>0, <3>1
    <3>3. \A j \in Ids : BeganInTime(j)'
      BY <2>0, <3>1, <3>2, StillInTime DEF DecidedInTime
    <3> QED
      BY <3>1, <3>3 DEF DecidedInTime
  <2> QED
    BY <2>1, <2>2, <2>3, <2>4, <2>5, <2>6, <2>7, <2>8, <2>9, <2>10, <2>11 DEF Next, Progress
<1>3. DecidedInTime => \A b \in bids : b.created < EndsAt
  BY DEF DecidedInTime
<1> QED
  BY <1>1, <1>2, <1>3, TypeAndReads, PTL DEF Spec

(* MinNextBid adds two int64: the engine applies it to the top of a locked *)
(* row, the starting bid or an amount somebody bid, so it fits if those do.*)
THEOREM MinNextBidIsBounded ==
    ASSUME NEW Most \in Nat, MinNextBid(StartingBid) <= Most,
           \A amount \in Amounts : MinNextBid(amount) <= Most
    PROVE  Spec => [](\A a \in Auctions : MinNextBid(auctions[a].top) <= Most)
<1> DEFINE Fits == \A a \in Auctions : MinNextBid(auctions[a].top) <= Most
<1>1. IInv => Fits
  BY TopIsAnAmount DEF IInv, TypeInv, TypeOK, TablesFollow, RowFollows, BidRow
<1> HIDE DEF Fits
<1>2. Spec => []Fits
  BY <1>1, Inductive, PTL
<1> QED
  BY <1>2 DEF Fits

----------------------------------------------------------------------------
(* No deadlock, of the three queues without a timeout: whoever is under    *)
(* way can move, or waits for a transaction further on than itself, so     *)
(* that somebody always moves.  CanMove is what enables Progress, written  *)
(* out: a place in the pool, the lock, and an index that can tell.         *)

UnderWay(i) == pc[i] \notin {"idle", "over"}

Full == Cardinality({j \in Ids : pc[j] \in Connected}) >= PoolSize

(* The INSERT can tell: its bid collides with none, or with a durable one. *)
Decided(i) == Insertable(bids \cup Uncommitted, {NewBid(i)}) \/ ~Insertable(bids, {NewBid(i)})

CanMove(i) ==
    \/ pc[i] = "queued" /\ ~Full
    \/ pc[i] = "waiting" /\ lock[req[i].auction] = Free
    \/ pc[i] = "locked" /\ (Closed(i) \/ TooLow(i) \/ Decided(i))
    \/ pc[i] = "committed" /\ \E b \in bids : b.id = i
    \/ pc[i] \in {"begun", "wrote", "dropped", "doubt"}

(* The three queues: for a connection, for a row, and for a key that a     *)
(* transaction wrote and may still give back.                              *)
WaitsFor(i, j) ==
    \/ pc[i] = "queued" /\ Full /\ pc[j] \in Connected
    \/ pc[i] = "waiting" /\ lock[req[i].auction] = j
    \/ /\ pc[i] = "locked" /\ ~Closed(i) /\ ~TooLow(i) /\ ~Decided(i)
       /\ pc[j] \in {"wrote", "doubt"} /\ Collide(NewBid(i), NewBid(j))

(* How far a transaction is. *)
Rank(step) ==
    CASE step \in {"idle", "queued"}    -> 0
      [] step \in {"begun", "waiting"}  -> 1
      [] step = "locked"                -> 2
      [] OTHER                          -> 3

WaitsForwards ==
    \A i \in Ids :
        /\ UnderWay(i) => CanMove(i) \/ \E j \in Ids : WaitsFor(i, j)
        /\ \A j \in Ids : WaitsFor(i, j) => UnderWay(j) /\ Rank(pc[i]) < Rank(pc[j])

(* A row is locked by a transaction that has not ended, and a commit that  *)
(* was not answered yet has its bid in the table.                          *)
Holders ==
    /\ \A a \in Auctions : lock[a] # Free => pc[lock[a]] \in {"locked", "wrote", "doubt", "dropped"}
    /\ \A i \in Ids : pc[i] = "committed" => \E b \in bids : b.id = i

(* A transaction that ends holds no lock; the others go on. *)
LEMMA EndsHolders ==
    ASSUME TypeInv, Holders, NEW i \in Ids, NEW step, Ends(i, step),
           bids \subseteq bids', step = "committed" => \E b \in bids' : b.id = i
    PROVE  Holders'
<1>1. /\ pc' = [pc EXCEPT ![i] = step] /\ pc \in [Ids -> Steps]
      /\ \A a \in Auctions : lock'[a] # Free => lock'[a] = lock[a] /\ lock[a] # i
      /\ \A a \in Auctions : lock[a] # Free => lock[a] \in Ids
  BY DEF Ends, TypeInv, TypeOK
<1> QED
  BY <1>1 DEF Holders

LEMMA HoldersStep == TypeInv /\ Holders /\ [Next]_vars => Holders'
<1> SUFFICES ASSUME TypeInv, Holders, [Next]_vars PROVE Holders'
  OBVIOUS
<1>0. /\ pc \in [Ids -> Steps] /\ lock \in [Auctions -> Ids \cup {Free}]
      /\ \A i \in Ids : pc[i] # "idle" => req[i].auction \in Auctions
  BY DEF TypeInv, TypeOK, Request
<1>1. ASSUME NEW r \in Request, Call(r) PROVE Holders'
  <2>1. r.id \in Ids /\ pc[r.id] = "idle" /\ pc' = [pc EXCEPT ![r.id] = "queued"] /\ UNCHANGED <<lock, bids>>
    BY <1>1 DEF Call, Request
  <2> QED
    BY <1>0, <2>1 DEF Holders
<1>2. ASSUME NEW i \in Ids, Begin(i) \/ Find(i) PROVE Holders'
  <2>1. /\ pc[i] \in {"queued", "begun"} /\ UNCHANGED <<lock, bids>>
        /\ \E step \in {"begun", "waiting"} : pc' = [pc EXCEPT ![i] = step]
    BY <1>2 DEF Begin, Find
  <2> QED
    BY <1>0, <2>1 DEF Holders
<1>3. ASSUME NEW i \in Ids, Lock(i) PROVE Holders'
  <2>1. /\ pc[i] = "waiting" /\ pc' = [pc EXCEPT ![i] = "locked"] /\ bids' = bids
        /\ lock' = [lock EXCEPT ![req[i].auction] = i] /\ lock[req[i].auction] = Free
    BY <1>3 DEF Lock
  <2> QED
    BY <1>0, <2>1 DEF Holders
<1>4. ASSUME NEW i \in Ids, Write(i) PROVE Holders'
  BY <1>0, <1>4 DEF Write, Holders
<1>5. ASSUME NEW i \in Ids, RejectNotFound(i) \/ Reject(i) \/ WriteCollides(i) \/ RollBack(i)
      PROVE  Holders'
  BY <1>5, EndsHolders DEF RejectNotFound, Reject, WriteCollides, RollBack
<1>6. ASSUME NEW i \in Ids, Commit(i) PROVE Holders'
  <2>1. NewBid(i) \in bids' /\ NewBid(i).id = i /\ bids \subseteq bids'
    BY <1>6 DEF Commit, NewBid
  <2>2. Ends(i, "committed") \/ Ends(i, "over")
    BY <1>6 DEF Commit
  <2> QED
    BY <2>1, <2>2, EndsHolders
<1>7. ASSUME NEW i \in Ids, ReplyAccepted(i) PROVE Holders'
  BY <1>0, <1>7 DEF ReplyAccepted, Holders
<1>8. ASSUME NEW left \in SUBSET Ids, UNCHANGED <<lock, bids>>, \A i \in left : pc[i] # "idle",
             \A i \in Ids : pc'[i] = IF i \in left THEN Abandoned(pc[i]) ELSE pc[i]
      PROVE  Holders'
  <2>1. \A i \in Ids : /\ pc[i] \in {"locked", "wrote", "doubt", "dropped"} =>
                             pc'[i] \in {"locked", "wrote", "doubt", "dropped"}
                       /\ pc'[i] = "committed" => pc[i] = "committed"
    BY <1>0, <1>8 DEF Abandoned, Steps
  <2> QED
    BY <1>0, <1>8, <2>1 DEF Holders
<1>9. ASSUME NEW i \in Ids, GiveUp(i) PROVE Holders'
  <2>1. /\ pc[i] # "idle" /\ UNCHANGED <<lock, bids>>
        /\ \A j \in Ids : pc'[j] = IF j \in {i} THEN Abandoned(pc[j]) ELSE pc[j]
    BY <1>0, <1>9 DEF GiveUp, Waiting
  <2> QED
    BY <1>8, <2>1
<1>10. CASE Restart
  <2> DEFINE left == {i \in Ids : Waiting(i)}
  <2>1. /\ UNCHANGED <<lock, bids>> /\ \A i \in left : pc[i] # "idle"
        /\ \A j \in Ids : pc'[j] = IF j \in left THEN Abandoned(pc[j]) ELSE pc[j]
    BY <1>0, <1>10 DEF Restart, Waiting
  <2> HIDE DEF left
  <2>2. left \in SUBSET Ids
    BY DEF left
  <2> QED
    BY <1>8, <2>1, <2>2
<1>11. CASE UNCHANGED <<pc, lock, bids>>
  BY <1>11 DEF Holders
<1>12. (\E a \in Auctions : Create(a) \/ CloseRow(a)) \/ Tick \/ UNCHANGED vars => UNCHANGED <<pc, lock, bids>>
  BY DEF Create, CloseRow, Tick, vars
<1> QED
  BY <1>1, <1>2, <1>3, <1>4, <1>5, <1>6, <1>7, <1>9, <1>10, <1>11, <1>12 DEF Next, Progress

(* The chains of waiting all lead forwards: pool, row and key never wait   *)
(* for one another in a circle, whatever is given up, rolled back, left in *)
(* doubt or restarted.                                                     *)
THEOREM NoCircularWait == Spec => []WaitsForwards
<1>1. Init => Holders
  BY DEF Init, Holders
<1>2. ASSUME TypeInv, Holders, NEW i \in Ids, UnderWay(i), ~CanMove(i)
      PROVE  \E j \in Ids : WaitsFor(i, j)
  <2>1. pc[i] \in {"queued", "waiting", "locked"}
    BY <1>2 DEF TypeInv, TypeOK, Steps, UnderWay, CanMove, Holders
  <2>2. CASE pc[i] = "queued"
    <3>1. Full
      BY <1>2, <2>2 DEF CanMove
    <3>2. {j \in Ids : pc[j] \in Connected} # {}
      BY <3>1, PoolSizeIsPositive, FS_EmptySet DEF Full
    <3> QED
      BY <2>2, <3>1, <3>2 DEF WaitsFor
  <2>3. CASE pc[i] = "waiting"
    <3>1. lock[req[i].auction] \in Ids
      BY <1>2, <2>3 DEF CanMove, TypeInv, TypeOK, Request
    <3> QED
      BY <2>3, <3>1 DEF WaitsFor
  <2>4. CASE pc[i] = "locked"
    <3>1. ~Closed(i) /\ ~TooLow(i) /\ ~Decided(i)
      BY <1>2, <2>4 DEF CanMove
    <3>2. PICK c \in Uncommitted : Collide(NewBid(i), c) /\ c # NewBid(i)
      BY <3>1 DEF Decided, Insertable
    <3>3. PICK j \in Ids : pc[j] \in {"wrote", "doubt"} /\ c = NewBid(j)
      BY <3>2 DEF Uncommitted
    <3> QED
      BY <2>4, <3>1, <3>2, <3>3 DEF WaitsFor
  <2> QED
    BY <2>1, <2>2, <2>3, <2>4
<1>3. ASSUME TypeInv, Holders, NEW i \in Ids, NEW j \in Ids, WaitsFor(i, j)
      PROVE  UnderWay(j) /\ Rank(pc[i]) < Rank(pc[j])
  <2>1. CASE pc[i] = "queued" /\ pc[j] \in Connected
    BY <2>1 DEF Connected, UnderWay, Rank
  <2>2. CASE pc[i] = "waiting" /\ lock[req[i].auction] = j
    <3>1. req[i].auction \in Auctions /\ j # Free
      BY <1>3, <2>2, FreeIsNotACall DEF TypeInv, TypeOK, Request
    <3>2. pc[j] \in {"locked", "wrote", "doubt", "dropped"}
      BY <1>3, <2>2, <3>1 DEF Holders
    <3> QED
      BY <2>2, <3>2 DEF UnderWay, Rank
  <2>3. CASE pc[i] = "locked" /\ pc[j] \in {"wrote", "doubt"}
    BY <2>3 DEF UnderWay, Rank
  <2> QED
    BY <1>3, <2>1, <2>2, <2>3 DEF WaitsFor
<1>4. TypeInv /\ Holders => WaitsForwards
  BY <1>2, <1>3 DEF WaitsForwards
<1> QED
  BY <1>1, <1>4, HoldersStep, TypeAndReads, PTL DEF Spec

(* As long as a call is under way, some call can move. *)
THEOREM SomebodyMoves ==
    Spec => []((\E i \in Ids : UnderWay(i)) => \E i \in Ids : CanMove(i))
<1> DEFINE Moves == (\E i \in Ids : UnderWay(i)) => \E i \in Ids : CanMove(i)
<1>1. ASSUME WaitsForwards, NEW i \in Ids, UnderWay(i)
      PROVE  \E j \in Ids : CanMove(j)
  <2>1. ASSUME NEW j \in Ids, UnderWay(j), ~CanMove(j)
        PROVE  \E k \in Ids : UnderWay(k) /\ Rank(pc[j]) < Rank(pc[k])
    BY <1>1, <2>1 DEF WaitsForwards
  <2>2. \A j \in Ids : Rank(pc[j]) \in 0..3
    BY DEF Rank
  <2>3. SUFFICES ASSUME \A j \in Ids : ~CanMove(j) PROVE FALSE
    OBVIOUS
  <2>4. PICK j \in Ids : UnderWay(j) /\ Rank(pc[j]) >= 1
    BY <1>1, <2>1, <2>2, <2>3
  <2>5. PICK k \in Ids : UnderWay(k) /\ Rank(pc[k]) >= 2
    BY <2>1, <2>2, <2>3, <2>4
  <2>6. PICK m \in Ids : UnderWay(m) /\ Rank(pc[m]) >= 3
    BY <2>1, <2>2, <2>3, <2>5
  <2> QED
    BY <2>1, <2>2, <2>3, <2>6
<1>2. WaitsForwards => Moves
  BY <1>1
<1> HIDE DEF Moves
<1>3. Spec => []Moves
  BY <1>2, NoCircularWait, PTL
<1> QED
  BY <1>3 DEF Moves

(* Of the contract, as an invariant: one answer to a call, a 201 shows a   *)
(* row of the table, and a call that was rejected has none.                *)
THEOREM AnswersAreHonest == Spec => []Honest(answered, bids)
<1>1. IInv => Honest(answered, bids)
  BY DEF IInv
<1> QED
  BY <1>1, Inductive, PTL
=============================================================================
