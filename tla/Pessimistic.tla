------------------------------ MODULE Pessimistic ------------------------------
(***************************************************************************)
(* The pessimistic engine, internal/bid/pessimistic: one transaction per   *)
(* bid, that locks the row of the auction, decides over it in Go, writes   *)
(* without any guard and commits.                                          *)
(*                                                                         *)
(* A call queues twice: for one of the pool's connections, and behind the  *)
(* row lock.  With an idempotency key it may queue a third time, inside    *)
(* the INSERT, behind a transaction that wrote the same key and has not    *)
(* ended.  A caller that leaves closes its connection; Postgres rolls the  *)
(* transaction back when it notices, or commits it when the COMMIT was     *)
(* already on its way.                                                     *)
(***************************************************************************)
EXTENDS AuctionDB

CONSTANTS
    PoolSize,   \* connections of auctiond's pool
    MaxClock,   \* bound on the database clock
    NoRequest,
    NoRead,     \* the call has not read the row
    Free        \* nobody holds the lock

ASSUME PoolSizeIsPositive == PoolSize \in Nat \ {0}
ASSUME MaxClockIsAnInstant == MaxClock \in Nat
ASSUME NoRequestIsNotARequest == NoRequest \notin Request
ASSUME FreeIsNotACall == Free \notin Ids

VARIABLES
    auctions,   \* table auctions, as committed
    bids,       \* table bids, as committed
    clock,      \* the database clock
    pc,         \* per call, where its transaction is
    req,        \* per call, its BidRequest
    began,      \* per call, transaction_timestamp()
    read,       \* per call, what the locked read returns
    lock,       \* per auction, the transaction holding its row
    answered    \* the answers given

tables == <<auctions, bids>>
vars == <<auctions, bids, clock, pc, req, began, read, lock, answered>>

Engine == INSTANCE BidEngine WITH bids <- bids, answered <- answered

(* "queued": for a connection.  "begun": the transaction is open.          *)
(* "waiting": the row is found, its lock is not granted yet.  "locked":    *)
(* to decide.  "wrote": the bid is written, the COMMIT is next.            *)
(* "committed": durable, the answer is next.  "dropped" and "doubt": the   *)
(* caller left a transaction without, or perhaps with, its COMMIT sent.    *)
Steps == {"idle", "queued", "begun", "waiting", "locked", "wrote", "committed",
          "dropped", "doubt", "over"}

Connected == {"begun", "waiting", "locked", "wrote"}

Read == [row: AuctionRow, now: Int]

TypeOK ==
    /\ auctions \in [Auctions -> AuctionRow]
    /\ bids \subseteq BidRow
    /\ clock \in Nat
    /\ pc \in [Ids -> Steps]
    /\ req \in [Ids -> Request \cup {NoRequest}]
    /\ began \in [Ids -> Int]
    /\ read \in [Ids -> Read \cup {NoRead}]
    /\ lock \in [Auctions -> Ids \cup {Free}]
    /\ answered \subseteq Answer
    /\ \A i \in Ids :
          /\ pc[i] # "idle" => req[i] \in Request /\ req[i].id = i
          /\ pc[i] \in {"locked", "wrote", "doubt"} =>
                read[i] \in Read /\ lock[req[i].auction] = i

Init ==
    /\ auctions \in [Auctions -> {NoRow, FreshRow}]
    /\ bids = {}
    /\ clock = 0
    /\ pc = [i \in Ids |-> "idle"]
    /\ req = [i \in Ids |-> NoRequest]
    /\ began = [i \in Ids |-> 0]
    /\ read = [i \in Ids |-> NoRead]
    /\ lock = [a \in Auctions |-> Free]
    /\ answered = {}

(* The caller is still there. *)
Waiting(i) == pc[i] # "idle" /\ \A x \in answered : x.req.id # i

Answers(x) == answered' = answered \cup {x}

(* The transaction ends, one way or the other: its lock is released. *)
Ends(i, step) ==
    /\ pc' = [pc EXCEPT ![i] = step]
    /\ read' = [read EXCEPT ![i] = NoRead]
    /\ lock' = [a \in Auctions |-> IF lock[a] = i THEN Free ELSE lock[a]]

----------------------------------------------------------------------------
Call(r) ==
    /\ pc[r.id] = "idle"
    /\ req' = [req EXCEPT ![r.id] = r]
    /\ pc' = [pc EXCEPT ![r.id] = "queued"]
    /\ UNCHANGED <<tables, clock, began, read, lock, answered>>

(* pool.Begin. *)
Begin(i) ==
    /\ pc[i] = "queued"
    /\ Cardinality({j \in Ids : pc[j] \in Connected}) < PoolSize
    /\ pc' = [pc EXCEPT ![i] = "begun"]
    /\ began' = [began EXCEPT ![i] = clock]
    /\ UNCHANGED <<tables, clock, req, read, lock, answered>>

(* SELECT ... FOR UPDATE finds no row. *)
RejectNotFound(i) ==
    /\ pc[i] = "begun"
    /\ auctions[req[i].auction].status = "absent"
    /\ Ends(i, "over")
    /\ Answers(Refused(req[i], "NotFound"))
    /\ UNCHANGED <<tables, clock, req, began>>

(* It finds one: the columns and clock_timestamp() are evaluated below the *)
(* node that locks.                                                        *)
Find(i) ==
    LET row == auctions[req[i].auction] IN
    /\ pc[i] = "begun"
    /\ row.status # "absent"
    /\ read' = [read EXCEPT ![i] = [row |-> row, now |-> clock]]
    /\ pc' = [pc EXCEPT ![i] = "waiting"]
    /\ UNCHANGED <<tables, clock, req, began, lock, answered>>

(* Mutant: the read takes no lock. *)
LockNothing(i) ==
    LET row == auctions[req[i].auction] IN
    /\ pc[i] = "waiting"
    /\ lock[req[i].auction] = Free
    /\ read' = [read EXCEPT ![i] = IF @.row = row THEN @ ELSE [row |-> row, now |-> clock]]
    /\ pc' = [pc EXCEPT ![i] = "locked"]
    /\ UNCHANGED <<tables, clock, req, began, lock, answered>>

(* The lock is granted.  A row that changed meanwhile is read again, clock *)
(* included; one that did not is returned as it was found.                 *)
Lock(i) ==
    LET a == req[i].auction
        row == auctions[a]
    IN
    /\ pc[i] = "waiting"
    /\ lock[a] = Free
    /\ lock' = [lock EXCEPT ![a] = i]
    /\ read' = [read EXCEPT ![i] = IF @.row = row THEN @ ELSE [row |-> row, now |-> clock]]
    /\ pc' = [pc EXCEPT ![i] = "locked"]
    /\ UNCHANGED <<tables, clock, req, began, answered>>

Closed(i) == IsClosed(read[i].row.status, read[i].now)
TooLow(i) == req[i].amount < MinNextBid(read[i].row.top)

(* Mutant: the rejection returns without the deferred Rollback. *)
RejectKeepsTheLock(i) ==
    /\ pc[i] = "locked"
    /\ \/ Closed(i) /\ Answers(Refused(req[i], "Closed"))
       \/ ~Closed(i) /\ TooLow(i) /\ Answers(Refused(req[i], "TooLow"))
    /\ pc' = [pc EXCEPT ![i] = "over"]
    /\ UNCHANGED <<tables, clock, req, began, read, lock>>

(* Rejected over the locked row, and rolled back. *)
Reject(i) ==
    /\ pc[i] = "locked"
    /\ \/ Closed(i) /\ Answers(Refused(req[i], "Closed"))
       \/ ~Closed(i) /\ TooLow(i) /\ Answers(Refused(req[i], "TooLow"))
    /\ Ends(i, "over")
    /\ UNCHANGED <<tables, clock, req, began>>

(* The bid placeBid inserts: the row cannot have moved, so version + 1 is  *)
(* that of the locked read.  created_at defaults to now().                 *)
NewBid(i) ==
    [id |-> i, auction |-> req[i].auction, amount |-> req[i].amount,
     key |-> req[i].key, seq |-> auctions[req[i].auction].version + 1,
     created |-> began[i]]

(* Bids written by transactions that have not ended. *)
Uncommitted == {NewBid(j) : j \in {k \in Ids : pc[k] \in {"wrote", "doubt"}}}

(* Mutant: whatever the read said, the bid is written. *)
WriteUnguarded(i) ==
    /\ pc[i] = "locked"
    /\ Insertable(bids \cup Uncommitted, {NewBid(i)})
    /\ pc' = [pc EXCEPT ![i] = "wrote"]
    /\ UNCHANGED <<tables, clock, req, began, read, lock, answered>>

(* placeBid, which waits for a transaction that wrote the same key. *)
Write(i) ==
    /\ pc[i] = "locked" /\ ~Closed(i) /\ ~TooLow(i)
    /\ Insertable(bids \cup Uncommitted, {NewBid(i)})
    /\ pc' = [pc EXCEPT ![i] = "wrote"]
    /\ UNCHANGED <<tables, clock, req, began, read, lock, answered>>

(* The unique index on the key refuses it. *)
WriteCollides(i) ==
    /\ pc[i] = "locked" /\ ~Closed(i) /\ ~TooLow(i)
    /\ ~Insertable(bids, {NewBid(i)})
    /\ Ends(i, "over")
    /\ Answers(Refused(req[i], "Error"))
    /\ UNCHANGED <<tables, clock, req, began>>

(* The transaction commits, whoever still waits for it. *)
Commit(i) ==
    LET b == NewBid(i) IN
    /\ pc[i] \in {"wrote", "doubt"}
    /\ bids' = bids \cup {b}
    /\ auctions' = [auctions EXCEPT ![b.auction] =
                       [status |-> @.status, version |-> b.seq,
                        top |-> b.amount, winner |-> i]]
    /\ Ends(i, IF pc[i] = "wrote" THEN "committed" ELSE "over")
    /\ UNCHANGED <<clock, req, began, answered>>

(* Mutant: the 201 does not wait for the COMMIT. *)
ReplyBeforeCommit(i) ==
    /\ pc[i] = "wrote"
    /\ Answers(Accepted(NewBid(i)))
    /\ pc' = [pc EXCEPT ![i] = "doubt"]
    /\ UNCHANGED <<tables, clock, req, began, read, lock>>

ReplyAccepted(i) ==
    /\ pc[i] = "committed"
    /\ \E b \in bids : b.id = i /\ Answers(Accepted(b))
    /\ pc' = [pc EXCEPT ![i] = "over"]
    /\ UNCHANGED <<tables, clock, req, began, read, lock>>

----------------------------------------------------------------------------
(* Where a call whose caller left is: nowhere when it had no transaction   *)
(* open, else in the hands of Postgres.                                    *)
Abandoned(step) ==
    CASE step \in {"queued", "committed"}         -> "over"
      [] step \in {"begun", "waiting", "locked"}  -> "dropped"
      [] step = "wrote"                           -> "doubt"
      [] OTHER                                    -> step

(* The client disconnects, or the connection to Postgres breaks. *)
GiveUp(i) ==
    /\ Waiting(i)
    /\ Answers(Refused(req[i], "Error"))
    /\ pc' = [pc EXCEPT ![i] = Abandoned(@)]
    /\ UNCHANGED <<tables, clock, req, began, read, lock>>

(* auctiond is killed: it keeps nothing between calls. *)
Restart ==
    /\ \E i \in Ids : Waiting(i)
    /\ answered' = answered \cup {Refused(req[i], "Lost") : i \in {j \in Ids : Waiting(j)}}
    /\ pc' = [i \in Ids |-> IF Waiting(i) THEN Abandoned(pc[i]) ELSE pc[i]]
    /\ UNCHANGED <<tables, clock, req, began, read, lock>>

(* Postgres notices that the client of a transaction is gone. *)
RollBack(i) ==
    /\ pc[i] \in {"dropped", "doubt"}
    /\ Ends(i, "over")
    /\ UNCHANGED <<tables, clock, req, began, answered>>

(* POST /auctions. *)
Create(a) ==
    /\ auctions[a].status = "absent"
    /\ auctions' = [auctions EXCEPT ![a] = FreshRow]
    /\ UNCHANGED <<bids, clock, pc, req, began, read, lock, answered>>

(* closerd's UPDATE needs the same row lock, for the time of a statement. *)
CloseRow(a) ==
    /\ auctions[a].status = "open"
    /\ clock >= EndsAt
    /\ lock[a] = Free
    /\ auctions' = [auctions EXCEPT ![a].status = "closed"]
    /\ UNCHANGED <<bids, clock, pc, req, began, read, lock, answered>>

Tick ==
    /\ clock < MaxClock
    /\ clock' = clock + 1
    /\ UNCHANGED <<tables, pc, req, began, read, lock, answered>>

----------------------------------------------------------------------------
Progress(i) ==
    \/ Begin(i) \/ RejectNotFound(i) \/ Find(i) \/ Lock(i)
    \/ Reject(i) \/ Write(i) \/ WriteCollides(i) \/ Commit(i) \/ ReplyAccepted(i)
    \/ RollBack(i)

Next ==
    \/ \E r \in Request : Call(r)
    \/ \E i \in Ids : Progress(i) \/ GiveUp(i)
    \/ Restart
    \/ \E a \in Auctions : Create(a) \/ CloseRow(a)
    \/ Tick

Spec == Init /\ [][Next]_vars

(* The pool and the lock serve their queues in order, a statement that is  *)
(* granted what it waits for ends, and Postgres notices a closed           *)
(* connection.                                                             *)
FairSpec == Spec /\ \A i \in Ids : WF_vars(Progress(i))

----------------------------------------------------------------------------
(* I3 of the checker at every moment: the published version, top and       *)
(* winner are those of the last bid.                                       *)
WinnerAndVersionCoherent ==
    \A a \in Auctions : Coherent(auctions[a], BidsOf(bids, a))

(* "The lock is the guard": what was decided over the locked read is still *)
(* true of the row when the unguarded UPDATE and the COMMIT run.           *)
LockedReadStaysTrue ==
    \A i \in Ids : pc[i] \in {"locked", "wrote", "doubt"} =>
        read[i].row = auctions[req[i].auction]

(* Once closerd closed an auction its winner is final, although the write  *)
(* of a bid looks at neither the status nor the end.                       *)
ClosedIsFinal ==
    [][\A a \in Auctions : auctions[a].status = "closed" =>
          auctions'[a] = auctions[a] /\ BidsOf(bids', a) = BidsOf(bids, a)]_vars

(* The engine keeps the contract of package bid. *)
ImplementsEngine == Engine!Spec

(* Three queues and no lock_timeout, and still every call ends: whoever    *)
(* holds a connection, a row or a key needs nothing held by who waits.     *)
EveryCallAnswered ==
    \A i \in Ids : pc[i] # "idle" ~> \E x \in answered : x.req.id = i

----------------------------------------------------------------------------
(* What the repository says and the code does not do.                      *)

(* At or after the end, and still queued behind the lock of the row.       *)
Late(i) ==
    /\ pc[i] = "waiting" /\ clock >= EndsAt
    /\ lock[req[i].auction] \notin {Free, i}

(* "clock_timestamp() is evaluated during the execution of the statement,  *)
(* after the wait" (decision 27): a call that is still waiting for the     *)
(* lock when the auction ends never becomes a bid.  It is evaluated before *)
(* the wait, and stays as it was if nobody changes the row meanwhile.      *)
DecidedAfterTheWait ==
    \A i \in Ids : [](Late(i) => [](\A b \in bids : b.id # i))
=============================================================================
