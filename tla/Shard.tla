-------------------------------- MODULE Shard --------------------------------
(***************************************************************************)
(* The single-writer engine, internal/bid/shard.                           *)
(*                                                                         *)
(* Every shard is one goroutine with an inbox and the in-memory state of   *)
(* the auctions routed to it.  It takes a command, hydrates the auction on *)
(* a miss, decides in memory, gathers the accepts in a batch, and commits  *)
(* the batch with one statement; only then it answers the accepts.         *)
(*                                                                         *)
(* The statement runs in Postgres: it may land, be refused by a unique     *)
(* index, or its outcome may not reach the shard before commitTimeout, in  *)
(* which case it may still land later (limbo) - even after the process     *)
(* that sent it was killed and another one took its place.                 *)
(***************************************************************************)
EXTENDS AuctionDB, Sequences

CONSTANTS
    Shards,
    ShardOf,    \* shardFor, as a function of the auction
    InboxCap,   \* inboxCap
    BatchMax,   \* batchMax
    Skews,      \* errors the offset measured at hydration may carry
    Drifts,     \* how far the clock moves between an accept's two readings
    MaxClock,   \* bound on the database clock
    NoRequest,
    Unknown     \* the auction is not in the shard's map

ASSUME ShardOfRoutes == ShardOf \in [Auctions -> Shards]
ASSUME CapsArePositive == InboxCap \in Nat \ {0} /\ BatchMax \in Nat \ {0}
ASSUME SkewsAreErrors == Skews \subseteq Int
ASSUME DriftsAreDelays == Drifts \subseteq Nat
ASSUME MaxClockIsAnInstant == MaxClock \in Nat
ASSUME NoRequestIsNotARequest == NoRequest \notin Request

VARIABLES
    auctions,   \* table auctions
    bids,       \* table bids
    clock,      \* the database clock
    limbo,      \* statements whose fate their shard gave up waiting for
    called,     \* ids of the calls made so far
    calling,    \* calls between the stamp and the enqueue
    inbox,      \* per shard, the channel
    hand,       \* per shard, the command being decided
    mem,        \* per auction, the auctionState in its shard's map
    batch,      \* per shard, the accepted bids not answered yet
    stage,      \* per shard, where run() is
    answered    \* the answers given

tables == <<auctions, bids, limbo>>
callers == <<called, calling>>
vars == <<auctions, bids, clock, limbo, called, calling, inbox, hand, mem,
          batch, stage, answered>>

Engine == INSTANCE BidEngine WITH bids <- bids, answered <- answered

(* "idle": blocked on the inbox.  "open": accumulating a batch.  "exec":   *)
(* the statement is on its way.  "done": it landed, the reply is not read. *)
Stages == {"idle", "open", "exec", "done"}

(* skew is the error of the offset, not the offset: 0 is a perfect one. *)
MemState == [version: Nat, top: Nat, status: {"open", "closed"}, skew: Skews]

TypeOK ==
    /\ auctions \in [Auctions -> AuctionRow]
    /\ bids \subseteq BidRow
    /\ clock \in Nat
    /\ limbo \subseteq SUBSET BidRow
    /\ called \subseteq Ids
    /\ calling \subseteq Request
    /\ inbox \in [Shards -> Seq(Request)]
    /\ hand \in [Shards -> Request \cup {NoRequest}]
    /\ mem \in [Auctions -> MemState \cup {Unknown}]
    /\ batch \in [Shards -> SUBSET BidRow]
    /\ stage \in [Shards -> Stages]
    /\ answered \subseteq Answer

Init ==
    /\ auctions \in [Auctions -> {NoRow, FreshRow}]
    /\ bids = {}
    /\ clock = 0
    /\ limbo = {}
    /\ called = {}
    /\ calling = {}
    /\ inbox = [s \in Shards |-> <<>>]
    /\ hand = [s \in Shards |-> NoRequest]
    /\ mem = [a \in Auctions |-> Unknown]
    /\ batch = [s \in Shards |-> {}]
    /\ stage = [s \in Shards |-> "idle"]
    /\ answered = {}

----------------------------------------------------------------------------
(* The callers of PlaceBid.                                                *)

Call(r) ==
    /\ r.id \notin called
    /\ called' = called \cup {r.id}
    /\ calling' = calling \cup {r}
    /\ UNCHANGED <<tables, clock, inbox, hand, mem, batch, stage, answered>>

Enqueue(r) ==
    LET s == ShardOf[r.auction] IN
    /\ r \in calling
    /\ Len(inbox[s]) < InboxCap
    /\ inbox' = [inbox EXCEPT ![s] = Append(@, r)]
    /\ calling' = calling \ {r}
    /\ UNCHANGED <<tables, clock, called, hand, mem, batch, stage, answered>>

(* Mutant: a caller may leave once its command is in the inbox. *)
GiveUpWhileQueued(r) ==
    /\ \E s \in Shards : \E i \in DOMAIN inbox[s] : inbox[s][i] = r
    /\ answered' = answered \cup {Refused(r, "Cancelled")}
    /\ UNCHANGED <<tables, clock, callers, inbox, hand, mem, batch, stage>>

(* The context ended while the select was waiting for room in the inbox. *)
GiveUp(r) ==
    /\ r \in calling
    /\ calling' = calling \ {r}
    /\ answered' = answered \cup {Refused(r, "Cancelled")}
    /\ UNCHANGED <<tables, clock, called, inbox, hand, mem, batch, stage>>

----------------------------------------------------------------------------
(* The goroutine of shard s.                                               *)

Take(s) ==
    /\ stage[s] \in {"idle", "open"}
    /\ hand[s] = NoRequest
    /\ inbox[s] # <<>>
    /\ hand' = [hand EXCEPT ![s] = Head(inbox[s])]
    /\ inbox' = [inbox EXCEPT ![s] = Tail(inbox[s])]
    /\ UNCHANGED <<tables, clock, callers, mem, batch, stage, answered>>

(* Where run() is after a decision: the first accept opens the batch; a    *)
(* full batch is committed, and so is one older than lingerMax once one    *)
(* more command has been decided.                                          *)
AfterDecision(s, gathered) ==
    IF gathered = {} THEN {"idle"}
    ELSE IF Cardinality(gathered) >= BatchMax THEN {"exec"}
    ELSE IF stage[s] = "idle" THEN {"open"}
    ELSE {"open", "exec"}

Answers(s, outcome) ==
    /\ answered' = answered \cup {Refused(hand[s], outcome)}
    /\ hand' = [hand EXCEPT ![s] = NoRequest]
    /\ \E st \in AfterDecision(s, batch[s]) : stage' = [stage EXCEPT ![s] = st]
    /\ UNCHANGED batch

(* Mutant: an auction with no row is cached as one. *)
HydrateCachesAbsence(s) ==
    LET a == hand[s].auction IN
    /\ hand[s] # NoRequest
    /\ mem[a] = Unknown
    /\ mem' = [mem EXCEPT ![a] = [version |-> 0, top |-> 0, skew |-> 0,
                                 status  |-> auctions[a].status]]
    /\ UNCHANGED <<tables, clock, callers, inbox, hand, batch, stage, answered>>

(* A miss in the map: one SELECT on the shard's own goroutine. *)
Hydrate(s) ==
    LET a == hand[s].auction IN
    /\ hand[s] # NoRequest
    /\ mem[a] = Unknown
    /\ auctions[a].status # "absent"
    /\ \E skew \in Skews :
          mem' = [mem EXCEPT ![a] = [version |-> auctions[a].version,
                                     top     |-> auctions[a].top,
                                     status  |-> auctions[a].status,
                                     skew    |-> skew]]
    /\ UNCHANGED <<tables, clock, callers, inbox, hand, batch, stage, answered>>

HydrateMiss(s) ==
    /\ hand[s] # NoRequest
    /\ mem[hand[s].auction] = Unknown
    /\ auctions[hand[s].auction].status = "absent"
    /\ Answers(s, "NotFound")
    /\ UNCHANGED <<tables, clock, callers, inbox, mem>>

HydrateError(s) ==
    /\ hand[s] # NoRequest
    /\ mem[hand[s].auction] = Unknown
    /\ Answers(s, "Error")
    /\ UNCHANGED <<tables, clock, callers, inbox, mem>>

(* The database clock as the shard estimates it. *)
ShardNow(a) == clock + mem[a].skew

RejectClosed(s) ==
    LET a == hand[s].auction IN
    /\ hand[s] # NoRequest
    /\ mem[a] # Unknown
    /\ IsClosed(mem[a].status, ShardNow(a))
    /\ Answers(s, "Closed")
    /\ UNCHANGED <<tables, clock, callers, inbox, mem>>

RejectTooLow(s) ==
    LET a == hand[s].auction IN
    /\ hand[s] # NoRequest
    /\ mem[a] # Unknown
    /\ ~IsClosed(mem[a].status, ShardNow(a))
    /\ hand[s].amount < MinNextBid(mem[a].top)
    /\ Answers(s, "TooLow")
    /\ UNCHANGED <<tables, clock, callers, inbox, mem>>

(* The accept: version and top move in memory, the command enters the      *)
(* batch.  createdAt is a second reading of the clock, which may have      *)
(* moved on since the closing rule read it.                                *)
Accept(s) ==
    LET r == hand[s]
        a == r.auction
    IN
    /\ r # NoRequest
    /\ mem[a] # Unknown
    /\ ~IsClosed(mem[a].status, ShardNow(a))
    /\ r.amount >= MinNextBid(mem[a].top)
    /\ \E drift \in Drifts :
          LET row == [id |-> r.id, auction |-> a, amount |-> r.amount, key |-> r.key,
                      seq |-> mem[a].version + 1, created |-> ShardNow(a) + drift]
          IN  batch' = [batch EXCEPT ![s] = @ \cup {row}]
    /\ mem' = [mem EXCEPT ![a] = [version |-> @.version + 1, top |-> r.amount,
                                  status |-> @.status, skew |-> @.skew]]
    /\ \E st \in AfterDecision(s, batch'[s]) : stage' = [stage EXCEPT ![s] = st]
    /\ hand' = [hand EXCEPT ![s] = NoRequest]
    /\ UNCHANGED <<tables, clock, callers, inbox, answered>>

(* Mutant: the batch waits until it is full. *)
DrainedWaitsForFull(s) ==
    /\ stage[s] = "open"
    /\ Cardinality(batch[s]) >= BatchMax
    /\ stage' = [stage EXCEPT ![s] = "exec"]
    /\ UNCHANGED <<tables, clock, callers, inbox, hand, mem, batch, answered>>

(* The select found the inbox empty. *)
InboxDrained(s) ==
    /\ stage[s] = "open"
    /\ hand[s] = NoRequest
    /\ inbox[s] = <<>>
    /\ stage' = [stage EXCEPT ![s] = "exec"]
    /\ UNCHANGED <<tables, clock, callers, inbox, hand, mem, batch, answered>>

----------------------------------------------------------------------------
(* commit and the statement it sends.                                      *)

(* UPDATE ... FROM unnest updates a row once.  When the batch holds two    *)
(* bids of one auction, which of the two it takes is Postgres's choice.    *)
Picks(rows) ==
    {pick \in [{b.auction : b \in rows} -> rows] :
        \A a \in DOMAIN pick : pick[a].auction = a}

(* Mutant: version + 1, as the other two engines write it. *)
UpdatedByOne(pick) ==
    [a \in Auctions |->
        IF a \in DOMAIN pick
        THEN [auctions[a] EXCEPT !.version = @ + 1, !.top = pick[a].amount,
                                 !.winner = pick[a].id]
        ELSE auctions[a]]

(* Mutant: the status in memory is written back. *)
UpdatedReopens(pick) ==
    [a \in Auctions |->
        IF a \in DOMAIN pick
        THEN [status |-> "open", version |-> pick[a].seq,
              top |-> pick[a].amount, winner |-> pick[a].id]
        ELSE auctions[a]]

Updated(pick) ==
    [a \in Auctions |->
        IF a \in DOMAIN pick
        THEN [status  |-> auctions[a].status,   \* no guard on status or ends_at
              version |-> pick[a].seq,
              top     |-> pick[a].amount,
              winner  |-> pick[a].id]
        ELSE auctions[a]]

Apply(rows) ==
    /\ bids' = bids \cup rows
    /\ \E pick \in Picks(rows) : auctions' = Updated(pick)

(* The statement commits. *)
Land(s) ==
    /\ stage[s] = "exec"
    /\ Insertable(bids, batch[s])
    /\ Apply(batch[s])
    /\ stage' = [stage EXCEPT ![s] = "done"]
    /\ UNCHANGED <<clock, limbo, callers, inbox, hand, mem, batch, answered>>

(* Mutant: nothing is evicted. *)
FailKeepsMemory(s) ==
    /\ mem' = mem
    /\ answered' = answered \cup {Refused(RequestOf(b), "Error") : b \in batch[s]}
    /\ batch' = [batch EXCEPT ![s] = {}]
    /\ stage' = [stage EXCEPT ![s] = "idle"]

(* Mutant: only the auction of one bid of the batch is evicted. *)
FailEvictsOne(s) ==
    /\ \E b \in batch[s] : mem' = [mem EXCEPT ![b.auction] = Unknown]
    /\ answered' = answered \cup {Refused(RequestOf(b), "Error") : b \in batch[s]}
    /\ batch' = [batch EXCEPT ![s] = {}]
    /\ stage' = [stage EXCEPT ![s] = "idle"]

(* Every auction the failed batch touched is evicted, every command in it  *)
(* gets the error.                                                         *)
Fail(s) ==
    /\ mem' = [a \in Auctions |->
                  IF \E b \in batch[s] : b.auction = a THEN Unknown ELSE mem[a]]
    /\ answered' = answered \cup {Refused(RequestOf(b), "Error") : b \in batch[s]}
    /\ batch' = [batch EXCEPT ![s] = {}]
    /\ stage' = [stage EXCEPT ![s] = "idle"]

(* A unique index refuses the statement, all of it. *)
Abort(s) ==
    /\ stage[s] = "exec"
    /\ ~Insertable(bids, batch[s])
    /\ Fail(s)
    /\ UNCHANGED <<tables, clock, callers, inbox, hand>>

(* Exec returns an error before the statement committed: it never reached  *)
(* Postgres, or commitTimeout passed and it is still running there.        *)
CommitError(s) ==
    /\ stage[s] = "exec"
    /\ Fail(s)
    /\ limbo' \in {limbo, limbo \cup {batch[s]}}
    /\ UNCHANGED <<auctions, bids, clock, callers, inbox, hand>>

(* The statement committed and its reply was lost. *)
CommitReplyLost(s) ==
    /\ stage[s] = "done"
    /\ Fail(s)
    /\ UNCHANGED <<tables, clock, callers, inbox, hand>>

(* Mutant: the 201 leaves with the decision, before the statement. *)
ReplyBeforeCommit(s) ==
    /\ stage[s] \in {"exec", "done"}
    /\ answered' = answered \cup {Accepted(b) : b \in batch[s]}
    /\ batch' = [batch EXCEPT ![s] = {}]
    /\ stage' = [stage EXCEPT ![s] = "idle"]
    /\ UNCHANGED <<tables, clock, callers, inbox, hand, mem>>

(* Exec returned nil: every command of the batch gets its 201. *)
CommitReply(s) ==
    /\ stage[s] = "done"
    /\ answered' = answered \cup {Accepted(b) : b \in batch[s]}
    /\ batch' = [batch EXCEPT ![s] = {}]
    /\ stage' = [stage EXCEPT ![s] = "idle"]
    /\ UNCHANGED <<tables, clock, callers, inbox, hand, mem>>

(* A statement nobody waits for any more commits, or is refused or lost. *)
LimboLands(rows) ==
    /\ rows \in limbo
    /\ Insertable(bids, rows)
    /\ Apply(rows)
    /\ limbo' = limbo \ {rows}
    /\ UNCHANGED <<clock, callers, inbox, hand, mem, batch, stage, answered>>

LimboDies(rows) ==
    /\ rows \in limbo
    /\ limbo' = limbo \ {rows}
    /\ UNCHANGED <<auctions, bids, clock, callers, inbox, hand, mem, batch, stage, answered>>

----------------------------------------------------------------------------
(* The process and its surroundings.                                       *)

Cmds(s) == {inbox[s][i] : i \in DOMAIN inbox[s]}
           \cup ({hand[s]} \ {NoRequest}) \cup {RequestOf(b) : b \in batch[s]}

(* auctiond is killed and started again: New finds nothing in memory, the  *)
(* connections of the callers are reset, and the statements on their way   *)
(* may or may not have reached Postgres.                                   *)
Restart ==
    /\ answered' = answered \cup
          {Refused(r, "Lost") : r \in calling \cup UNION {Cmds(s) : s \in Shards}}
    /\ \E sent \in SUBSET {batch[s] : s \in {t \in Shards : stage[t] = "exec"}} :
          limbo' = limbo \cup sent
    /\ calling' = {}
    /\ inbox' = [s \in Shards |-> <<>>]
    /\ hand' = [s \in Shards |-> NoRequest]
    /\ mem' = [a \in Auctions |-> Unknown]
    /\ batch' = [s \in Shards |-> {}]
    /\ stage' = [s \in Shards |-> "idle"]
    /\ UNCHANGED <<auctions, bids, clock, called>>

(* POST /auctions. *)
Create(a) ==
    /\ auctions[a].status = "absent"
    /\ auctions' = [auctions EXCEPT ![a] = FreshRow]
    /\ UNCHANGED <<bids, clock, limbo, callers, inbox, hand, mem, batch, stage, answered>>

(* closerd: the guarded UPDATE of closing.Materializer. *)
CloseRow(a) ==
    /\ auctions[a].status = "open"
    /\ clock >= EndsAt
    /\ auctions' = [auctions EXCEPT ![a].status = "closed"]
    /\ UNCHANGED <<bids, clock, limbo, callers, inbox, hand, mem, batch, stage, answered>>

Tick ==
    /\ clock < MaxClock
    /\ clock' = clock + 1
    /\ UNCHANGED <<tables, callers, inbox, hand, mem, batch, stage, answered>>

----------------------------------------------------------------------------
Decide(s) ==
    \/ HydrateMiss(s) \/ HydrateError(s)
    \/ RejectClosed(s) \/ RejectTooLow(s) \/ Accept(s)

Commit(s) == Land(s) \/ Abort(s) \/ CommitError(s) \/ CommitReplyLost(s) \/ CommitReply(s)

Run(s) == Take(s) \/ Hydrate(s) \/ Decide(s) \/ InboxDrained(s) \/ Commit(s)

Place(r) == Call(r) \/ Enqueue(r) \/ GiveUp(r)

Next ==
    \/ \E r \in Request : Place(r)
    \/ \E s \in Shards : Run(s)
    \/ \E rows \in limbo : LimboLands(rows) \/ LimboDies(rows)
    \/ Restart
    \/ \E a \in Auctions : Create(a) \/ CloseRow(a)
    \/ Tick

Spec == Init /\ [][Next]_vars

(* The goroutine of a shard is always runnable and Go's scheduler runs it; *)
(* hydrateTimeout and commitTimeout bound its two waits on Postgres; a     *)
(* sender blocked on a channel that keeps having room is served.  Nothing  *)
(* obliges a caller to call, a clock to tick or a process to die.          *)
Fairness ==
    /\ \A s \in Shards : WF_vars(Run(s))
    /\ \A r \in Request : WF_vars(Enqueue(r))

FairSpec == Spec /\ Fairness

----------------------------------------------------------------------------
(* Safety.                                                                 *)

(* I1 and I2 of the checker: at every moment the bids of an auction form   *)
(* one sequence with no hole, no repetition and no bid short of the        *)
(* increment, although the engine decides in memory, without a WHERE, and  *)
(* statements may land after the shard gave up on them.                    *)
SequenceChained == Chained(bids) /\ NoCollision(bids)

(* "201 means durable" (commit, decision 8): an accept is answered with    *)
(* the place its row has in bids, never before the row is there.           *)
AcceptedIsDurable ==
    \A x \in answered : x.outcome = "Accepted" =>
        \E b \in bids : Accepted(b) = x

(* "The memory must never sit ahead of the database" (the eviction in      *)
(* commit): what the map knows of an auction is the state left by a bid    *)
(* that is in the table or in the shard's open batch - so nothing else     *)
(* once the batch is answered, however its commit ended.                   *)
Backed(a) ==
    \/ mem[a].version = 0 /\ mem[a].top = StartingBid
    \/ \E b \in bids \cup batch[ShardOf[a]] :
          b.auction = a /\ b.seq = mem[a].version /\ b.amount = mem[a].top

MemoryNeverAhead == \A a \in Auctions : mem[a] # Unknown => Backed(a)

(* The published row of an auction is always one that a recorded bid left  *)
(* behind: version, top and winner never mix two bids.                     *)
RowIsSomeBid == \A a \in Auctions : RowOfSomeBid(auctions[a], BidsOf(bids, a))

(* What makes the above inductive: every bid waiting to be written, even   *)
(* by a forgotten statement, beats a bid of the table or of its own batch, *)
(* so that whichever statement lands next extends the sequence.            *)
Linked(rows) ==
    \A b \in rows : Opens(b) \/ \E c \in bids \cup rows : Beats(b, c)

BatchesLinked ==
    /\ \A s \in Shards : Linked(batch[s])
    /\ \A rows \in limbo : Linked(rows)

(* A statement that landed is in the table until its batch is answered.    *)
DoneMeansLanded == \A s \in Shards : stage[s] = "done" => batch[s] \subseteq bids

(* A command is only ever decided by the shard that owns its auction.      *)
Routed ==
    \A s \in Shards :
        /\ \A i \in DOMAIN inbox[s] : ShardOf[inbox[s][i].auction] = s
        /\ hand[s] # NoRequest => ShardOf[hand[s].auction] = s

(* The inductive invariant.                                                *)
IInv ==
    /\ TypeOK
    /\ SequenceChained
    /\ AcceptedIsDurable
    /\ MemoryNeverAhead
    /\ RowIsSomeBid
    /\ BatchesLinked
    /\ DoneMeansLanded
    /\ Routed

(* The engine keeps the contract of package bid.                           *)
ImplementsEngine == Engine!Spec

(* closerd's verdict is final: a batch decided before the end and written  *)
(* after it moves the top of a closed auction but never reopens it.        *)
ClosedStaysClosed ==
    [][\A a \in Auctions :
          auctions[a].status = "closed" => auctions'[a].status = "closed"]_vars

(* Whoever calls PlaceBid gets an answer: the shard, its inbox and its     *)
(* batches never leave a caller waiting, whatever Postgres does.           *)
EveryCallAnswered ==
    \A i \in Ids : i \in called ~> \E x \in answered : x.req.id = i

----------------------------------------------------------------------------
(* What the repository says and the code does not do.                      *)

(* I3 of the checker, "vencedor e versao coerentes", at every moment.      *)
(* commit relies on a batch never holding two bids of one auction; it can. *)
WinnerAndVersionCoherent ==
    \A a \in Auctions : Coherent(auctions[a], BidsOf(bids, a))

(* "A 422 resent stays 422, since minNextBid only grows" (idem/store.go):  *)
(* once a bid was refused as too low, no bid of that auction is accepted   *)
(* that does not exceed it.  The shard refuses against memory that a       *)
(* failed commit takes back.                                               *)
TooLowStaysTooLow ==
    [][\A s \in Shards, x \in answered : \A b \in batch'[s] \ batch[s] :
          x.outcome = "TooLow" /\ x.req.auction = b.auction
             => b.amount > x.req.amount]_vars

(* materializer.go: "the winner is already in the row, written by the      *)
(* engines in the same statement that accepted the bid, and this stamps    *)
(* the end rather than deciding the result".  The shard accepts over the   *)
(* status it hydrated and writes without looking at that of the row: the   *)
(* bids and the row of an auction that closerd closed still change.        *)
ClosedIsFinal ==
    [][\A a \in Auctions : auctions[a].status = "closed" =>
          auctions'[a] = auctions[a] /\ BidsOf(bids', a) = BidsOf(bids, a)]_vars

(* I4 of the checker: created_at is "the offset-corrected instant of the   *)
(* decision" (sql.go), and so never after the end.  decide reads the clock *)
(* once for the rule and once more for the stamp.                          *)
NoBidAfterTheEnd == \A b \in bids : b.created <= EndsAt
=============================================================================
