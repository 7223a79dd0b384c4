------------------------------ MODULE Optimistic ------------------------------
(***************************************************************************)
(* The optimistic engine, internal/bid/optimistic: one guarded statement   *)
(* per bid, and a second one to name the reason when the first matched     *)
(* nothing.                                                                *)
(*                                                                         *)
(* Postgres runs the statement in READ COMMITTED: its snapshot and now()   *)
(* are those of its start, it then waits for the row lock, and the WHERE   *)
(* is evaluated once more on the row it finds.  Between the two, other     *)
(* bids and closerd commit.  A caller may leave at any moment; what it     *)
(* sent may still run.                                                     *)
(***************************************************************************)
EXTENDS AuctionDB

CONSTANTS
    Versions,   \* values of expectedVersion
    NoVersion,  \* expectedVersion absent
    MaxClock,   \* bound on the database clock
    NoRequest,
    NoStmt      \* the call has no statement in Postgres

ASSUME VersionsAreNaturals == Versions \subseteq Nat
ASSUME NoVersionIsNotAVersion == NoVersion \notin Versions
ASSUME MaxClockIsAnInstant == MaxClock \in Nat
ASSUME NoRequestIsNotARequest == NoRequest \notin Request

VARIABLES
    auctions,   \* table auctions
    bids,       \* table bids
    clock,      \* the database clock
    pc,         \* per call, where PlaceBid is
    req,        \* per call, its BidRequest
    expected,   \* per call, req.ExpectedVersion
    stmt,       \* per call, what its statement saw when it started
    answered    \* the answers given

tables == <<auctions, bids>>
vars == <<auctions, bids, clock, pc, req, expected, stmt, answered>>

Engine == INSTANCE BidEngine WITH bids <- bids, answered <- answered

(* "running": placeBid is in Postgres, maybe behind a lock.  "landed",     *)
(* "missed", "failed": it committed a row, it matched none, a unique index *)
(* refused it.                                                             *)
Steps == {"idle", "running", "landed", "missed", "failed", "over"}

Stmt == [row: AuctionRow, now: Int]

(* No call without a version ever reaches Postgres. *)
TypeOK ==
    /\ auctions \in [Auctions -> AuctionRow]
    /\ bids \subseteq BidRow
    /\ clock \in Nat
    /\ pc \in [Ids -> Steps]
    /\ req \in [Ids -> Request \cup {NoRequest}]
    /\ expected \in [Ids -> Versions \cup {NoVersion}]
    /\ stmt \in [Ids -> Stmt \cup {NoStmt}]
    /\ answered \subseteq Answer
    /\ \A i \in Ids :
          /\ pc[i] # "idle" => req[i] \in Request /\ req[i].id = i
          /\ pc[i] \notin {"idle", "over"} => expected[i] \in Versions
          /\ pc[i] = "running" => stmt[i] \in Stmt

Init ==
    /\ auctions \in [Auctions -> {NoRow, FreshRow}]
    /\ bids = {}
    /\ clock = 0
    /\ pc = [i \in Ids |-> "idle"]
    /\ req = [i \in Ids |-> NoRequest]
    /\ expected = [i \in Ids |-> NoVersion]
    /\ stmt = [i \in Ids |-> NoStmt]
    /\ answered = {}

(* The caller is still there. *)
Waiting(i) == pc[i] # "idle" /\ \A x \in answered : x.req.id # i

Answers(i, x) ==
    /\ answered' = answered \cup {x}
    /\ pc' = [pc EXCEPT ![i] = "over"]

----------------------------------------------------------------------------
(* Mutant: a request without a version goes on. *)
CallWithoutTheCheck(r, version) ==
    /\ pc[r.id] = "idle"
    /\ req' = [req EXCEPT ![r.id] = r]
    /\ expected' = [expected EXCEPT ![r.id] = version]
    /\ stmt' = [stmt EXCEPT ![r.id] = [row |-> auctions[r.auction], now |-> clock]]
    /\ pc' = [pc EXCEPT ![r.id] = "running"]
    /\ UNCHANGED <<tables, clock, answered>>

(* PlaceBid sends placeBid, whose snapshot and now() are taken when it     *)
(* starts; waiting for a connection before that fixes nothing.             *)
Call(r, version) ==
    /\ pc[r.id] = "idle"
    /\ req' = [req EXCEPT ![r.id] = r]
    /\ expected' = [expected EXCEPT ![r.id] = version]
    /\ \/ /\ version = NoVersion
          /\ Answers(r.id, Refused(r, "Invalid"))
          /\ UNCHANGED stmt
       \/ /\ version # NoVersion
          /\ stmt' = [stmt EXCEPT ![r.id] = [row |-> auctions[r.auction], now |-> clock]]
          /\ pc' = [pc EXCEPT ![r.id] = "running"]
          /\ UNCHANGED answered
    /\ UNCHANGED <<tables, clock>>

(* Mutant: the client's version is not compared. *)
MatchesAnyVersion(row, i) ==
    /\ row.status = "open"
    /\ stmt[i].now < EndsAt
    /\ MinNextBid(row.top) <= req[i].amount

(* Mutant: the column written by closerd is not looked at. *)
MatchesAnyStatus(row, i) ==
    /\ row.status # "absent"
    /\ row.version = expected[i]
    /\ stmt[i].now < EndsAt
    /\ MinNextBid(row.top) <= req[i].amount

(* Mutant: neither version nor amount in the WHERE. *)
MatchesAnything(row, i) ==
    /\ row.status = "open"
    /\ stmt[i].now < EndsAt

(* The WHERE of placeBid. *)
Matches(row, i) ==
    /\ row.status = "open"
    /\ row.version = expected[i]
    /\ stmt[i].now < EndsAt
    /\ MinNextBid(row.top) <= req[i].amount

(* It must hold of the snapshot and, once the lock is granted, of the row. *)
Chosen(i) == Matches(stmt[i].row, i) /\ Matches(auctions[req[i].auction], i)

(* The row the INSERT writes: seq is the version the UPDATE returned. *)
NewBid(i) ==
    [id |-> i, auction |-> req[i].auction, amount |-> req[i].amount,
     key |-> req[i].key, seq |-> auctions[req[i].auction].version + 1,
     created |-> stmt[i].now]

(* The statement is no longer in Postgres. *)
Ends(i, step) ==
    /\ pc' = [pc EXCEPT ![i] = step]
    /\ stmt' = [stmt EXCEPT ![i] = NoStmt]

Wins(i) ==
    LET a == req[i].auction IN
    /\ pc[i] = "running"
    /\ Chosen(i)
    /\ Insertable(bids, {NewBid(i)})
    /\ bids' = bids \cup {NewBid(i)}
    /\ auctions' = [auctions EXCEPT ![a] =
                       [status |-> @.status, version |-> @.version + 1,
                        top |-> req[i].amount, winner |-> i]]
    /\ Ends(i, "landed")
    /\ UNCHANGED <<clock, req, expected, answered>>

Misses(i) ==
    /\ pc[i] = "running"
    /\ ~Chosen(i)
    /\ Ends(i, "missed")
    /\ UNCHANGED <<tables, clock, req, expected, answered>>

Collides(i) ==
    /\ pc[i] = "running"
    /\ Chosen(i)
    /\ ~Insertable(bids, {NewBid(i)})
    /\ Ends(i, "failed")
    /\ UNCHANGED <<tables, clock, req, expected, answered>>

ReplyAccepted(i) ==
    /\ pc[i] = "landed" /\ Waiting(i)
    /\ \E b \in bids : b.id = i /\ Answers(i, Accepted(b))
    /\ UNCHANGED <<tables, clock, req, expected, stmt>>

ReplyFailed(i) ==
    /\ pc[i] = "failed" /\ Waiting(i)
    /\ Answers(i, Refused(req[i], "Error"))
    /\ UNCHANGED <<tables, clock, req, expected, stmt>>

(* classify's switch; the order of its cases is the code's. *)
Reason(row, i) ==
    IF row.status = "absent" THEN "NotFound"
    ELSE IF IsClosed(row.status, clock) THEN "Closed"
    ELSE IF row.version # expected[i] THEN "Conflict"
    ELSE IF req[i].amount < MinNextBid(row.top) THEN "TooLow"
    ELSE "Conflict"

(* Mutant: a conflict is retried here, with the version the caller sent. *)
ClassifyRetries(i) ==
    LET row == auctions[req[i].auction] IN
    /\ pc[i] = "missed" /\ Waiting(i)
    /\ IF Reason(row, i) = "Conflict"
       THEN /\ stmt' = [stmt EXCEPT ![i] = [row |-> row, now |-> clock]]
            /\ pc' = [pc EXCEPT ![i] = "running"]
            /\ UNCHANGED answered
       ELSE /\ Answers(i, Refused(req[i], Reason(row, i)))
            /\ UNCHANGED stmt
    /\ UNCHANGED <<tables, clock, req, expected>>

(* The second SELECT has a snapshot and a now() of its own. *)
Classify(i) ==
    /\ pc[i] = "missed" /\ Waiting(i)
    /\ Answers(i, Refused(req[i], Reason(auctions[req[i].auction], i)))
    /\ UNCHANGED <<tables, clock, req, expected, stmt>>

(* Mutant: giving up is reported as a lost race. *)
GiveUpAsConflict(i) ==
    /\ Waiting(i)
    /\ answered' = answered \cup {Refused(req[i], "Conflict")}
    /\ pc' = [pc EXCEPT ![i] = IF @ = "running" THEN @ ELSE "over"]
    /\ UNCHANGED <<tables, clock, req, expected, stmt>>

(* The client disconnects or the connection to Postgres breaks, before,    *)
(* during or after either statement.  placeBid runs on if it is there.     *)
GiveUp(i) ==
    /\ Waiting(i)
    /\ answered' = answered \cup {Refused(req[i], "Error")}
    /\ pc' = [pc EXCEPT ![i] = IF @ = "running" THEN @ ELSE "over"]
    /\ UNCHANGED <<tables, clock, req, expected, stmt>>

(* A statement nobody waits for is cancelled. *)
Cancelled(i) ==
    /\ pc[i] = "running" /\ ~Waiting(i)
    /\ Ends(i, "over")
    /\ UNCHANGED <<tables, clock, req, expected, answered>>

(* auctiond is killed: it keeps nothing between calls, so all it loses is  *)
(* the calls in flight.                                                    *)
Restart ==
    /\ \E i \in Ids : Waiting(i)
    /\ answered' = answered \cup {Refused(req[i], "Lost") : i \in {j \in Ids : Waiting(j)}}
    /\ pc' = [i \in Ids |-> IF Waiting(i) /\ pc[i] # "running" THEN "over" ELSE pc[i]]
    /\ UNCHANGED <<tables, clock, req, expected, stmt>>

----------------------------------------------------------------------------
(* POST /auctions, closerd and the clock. *)

Create(a) ==
    /\ auctions[a].status = "absent"
    /\ auctions' = [auctions EXCEPT ![a] = FreshRow]
    /\ UNCHANGED <<bids, clock, pc, req, expected, stmt, answered>>

CloseRow(a) ==
    /\ auctions[a].status = "open"
    /\ clock >= EndsAt
    /\ auctions' = [auctions EXCEPT ![a].status = "closed"]
    /\ UNCHANGED <<bids, clock, pc, req, expected, stmt, answered>>

Tick ==
    /\ clock < MaxClock
    /\ clock' = clock + 1
    /\ UNCHANGED <<tables, pc, req, expected, stmt, answered>>

----------------------------------------------------------------------------
Progress(i) ==
    \/ Wins(i) \/ Misses(i) \/ Collides(i)
    \/ ReplyAccepted(i) \/ ReplyFailed(i) \/ Classify(i)

Next ==
    \/ \E r \in Request, version \in Versions \cup {NoVersion} : Call(r, version)
    \/ \E i \in Ids : Progress(i) \/ GiveUp(i) \/ Cancelled(i)
    \/ Restart
    \/ \E a \in Auctions : Create(a) \/ CloseRow(a)
    \/ Tick

Spec == Init /\ [][Next]_vars

(* A statement in Postgres ends, since the lock it waits for is held by    *)
(* statements that end, and its result travels back.                       *)
FairSpec == Spec /\ \A i \in Ids : WF_vars(Progress(i))

----------------------------------------------------------------------------
(* I3 of the checker at every moment, not only when the cell is over: the  *)
(* published version, top and winner are those of the last bid, whatever   *)
(* was interleaved between the statements of the callers.                  *)
WinnerAndVersionCoherent ==
    \A a \in Auctions : Coherent(auctions[a], BidsOf(bids, a))

(* Of the callers that aimed at one version of an auction, one at most is  *)
(* accepted, and it takes the next place of the sequence.                  *)
OneWinnerPerVersion ==
    \A x, y \in answered :
        x.outcome = "Accepted" =>
            /\ x.seq = expected[x.req.id] + 1
            /\ y.outcome = "Accepted" /\ y.req.auction = x.req.auction
               /\ expected[y.req.id] = expected[x.req.id] => x = y

(* Once closerd closed an auction its winner is final: a statement that    *)
(* started before the end and waited for the lock finds the row closed.    *)
ClosedIsFinal ==
    [][\A a \in Auctions : auctions[a].status = "closed" =>
          auctions'[a] = auctions[a] /\ BidsOf(bids', a) = BidsOf(bids, a)]_vars

(* The engine keeps the contract of package bid. *)
ImplementsEngine == Engine!Spec

(* Every call ends: the UPDATE, or the reason it matched nothing. *)
EveryCallAnswered ==
    \A i \in Ids : pc[i] # "idle" ~> \E x \in answered : x.req.id = i
=============================================================================
