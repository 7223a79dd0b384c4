# Formal model of bid-storm

bid-storm is an auction back end with three interchangeable bid engines over one
Postgres and one Redis, and a benchmark around it. This directory models both: the
three engines against one contract, the idempotency middleware in front of them and
what it promises to its callers, the pipeline that closes expired auctions, the load
generator over that promise, the checker that judges a cell, and the scripts and the
aggregator that make a matrix of cells. TLC checks small instances; TLAPS proves, for
every value of the constants, every safety property and refinement the runs check, and some
that go further: that the queues of the pessimistic engine never form a circle, that no call
is forgotten, and under which conditions on the callers the comment on batches that section 4 refutes is true.

Contents: [1 the system](#1-the-system) ·
[2 modules and code](#2-modules-and-code) ·
[3 runs](#3-runs) ·
[4 where the code and its documentation disagree](#4-where-the-code-and-its-documentation-disagree) ·
[5 proofs](#5-proofs) ·
[6 what is left out](#6-what-is-left-out) ·
[7 plan](#7-plan)

## 1 The system

### Components

| component | source | state it keeps | operations | what makes it correct |
|---|---|---|---|---|
| contract of an engine | `internal/bid/engine.go`, `outcome.go` | none | `PlaceBid(req)` | a 201 is durable; a refusal is final; one answer per call |
| schema | `migrations/` | tables `auctions`, `bids`; unique `(auction_id, seq)`; partial unique `idempotency_key` | none of its own | no two bids share a place or a key |
| optimistic engine | `internal/bid/optimistic` | none | one guarded CTE; `classify` when it matched nothing | the row agrees with the history; one winner per version |
| pessimistic engine | `internal/bid/pessimistic`, `internal/db/pool.go` | the pool | BEGIN, `FOR UPDATE`, decision in Go, unguarded write, COMMIT | what was decided under the lock is still true at the write |
| shard engine | `internal/bid/shard` | per shard an inbox, a map of auction states, an open batch | hydrate, decide, gather, commit, evict | memory never ahead of the database; 201 only after the commit; one chained sequence |
| HTTP API | `internal/httpapi` | none | outcome to status and body | faithful mapping |
| idempotency middleware | `internal/idem` | hash `idem:<key>` in Redis, with an expiry | `Claim` (a Lua script), `Finish` (a pipeline) | one key, one bid, one answer; a key is never taken for good |
| sweep (`Expirer`) | `internal/closing/expirer.go`, `internal/stream/stream.go` | suppression window, in memory | query expired auctions each second, `EnsureGroup`, `XADD` | every expired auction is announced until it is closed |
| closing worker | `internal/stream/consumer.go`, `internal/closing/materializer.go`, `cmd/closerd` | consumer group and pending list, in Redis | `XAUTOCLAIM`, `XREADGROUP`, guarded UPDATE, classification, `XACK`, dead letter | closes nothing early, nothing twice, and in the end everything |
| auction store | `internal/store` | table `auctions` | create, get | nothing beyond the schema |
| processes | `cmd/auctiond`, `cmd/closerd` | wiring | boot, SIGTERM, kill | nothing durable is lost |
| checker | `cmd/checker` | none | I1 to I8 over a finished cell | reports each violation, and no other |
| matrix aggregator | `cmd/matrix` | none | R1 to R9 over result directories | refuses an unpublishable matrix |
| bidder | `bench/bid-storm.js` | per VU, the retry loop | bid, retry with the same key, count | its counters agree with the rows |
| scripts | `bench/*.sh`, `chaos/*.sh` | result directories | run, resume and purge cells; inject faults | a stale cell never passes for a green one |
| seed, configuration, metrics, test support, deployment | the rest | - | - | - |

### How they interact

    bidder --HTTP--> idem.Middleware --call--> httpapi.PlaceBid --call--> engine
                       |      ^                                             |
                  Claim|      |Finish                                       | SQL
                       v      |                                             v
                      Redis --+            auctiond.Expirer --SELECT--> Postgres
                        ^                        |                          ^
                        +-------- XADD ----------+                          |
                        +--- XAUTOCLAIM, XREADGROUP, XACK --- closerd --UPDATE

auctiond and closerd share nothing but Postgres and Redis. closerd writes the
rows the engines decide over, which is why each engine module contains `CloseRow`,
and why the optimistic WHERE and the pessimistic lock have to hold against it.
The shard engine does not look at it at all: it knows the status it hydrated.

The benchmark meets the system at two ends:

    run-matrix.sh --> run-cell.sh --> k6 (bid-storm.js) --HTTP--> auctiond
          |               |                |                         |
          |               |                v                         v
          |               v           client.json                Postgres
          |           env.json             |                         |
          |               |                +------> cmd/checker <----+
          |               |                              |
          v               v                              v
      cmd/matrix <------ one directory per cell <-- checker.json

The bidder counts what it was told, the checker compares those counts with the rows,
and the aggregator publishes a matrix only when every directory says the same
experiment.

### What is hard

* **Interleaving in Postgres.** READ COMMITTED evaluates a WHERE on a snapshot
  and again on the row it finds behind the lock; `now()` stays that of the start;
  `clock_timestamp()` below a locking node is not evaluated again when the row did
  not change.
* **Statements without a caller.** A call that times out, a client that leaves and
  a process that dies leave statements running in Postgres. They may land after
  the next decision was taken.
* **Memory ahead of the database.** The shard decides the next bid over accepts
  that are not durable yet.
* **A Redis client that repeats commands.** go-redis sends a command again when
  its reply does not arrive, also `Claim` and `Finish`, which are not idempotent.
* **Redis without persistence**, which may come back empty between any two commands.
* **At-least-once delivery** over a stream that is trimmed below entries still pending, and a
  group that is recreated.
* **A client that only knows what it heard.** A bidder retries under the same key,
  sends duplicates on purpose, gives up, and is cut off; an answer may be lost while
  its bid is durable, or becomes so later. The checker has to tell a lost bid from a
  lost answer with two numbers of the client.
* **Hours of measurement on a working machine.** The matrix is interrupted and resumed
  over half-written directories while the tree it is built from is being edited.

`PROJECT.json` lists the hazards, each at its line and with the properties aimed at it.

## 2 Modules and code

| module | models | lines |
|---|---|---|
| `AuctionDB` | rows of `auctions` and `bids`, unique indexes, `MinNextBid`, `IsClosed`, the predicates behind I1, I2 and I3 | 115 |
| `BidEngine` | the contract of package `bid`, as an abstract specification | 45 |
| `Shard` | `internal/bid/shard` | 532 |
| `Optimistic` | `internal/bid/optimistic` | 300 |
| `Pessimistic` | `internal/bid/pessimistic` and the pool | 331 |
| `KeyedBids` | what `POST /bids` promises under `X-Idempotency-Key`, as an abstract specification | 76 |
| `Idempotency` | `internal/idem` and the Redis client under it | 395 |
| `Closing` | `Expirer`, stream, `Consumer`, `Materializer`, the two resets of a cell | 569 |
| `Checker` | `cmd/checker`: I1, I5, I6, I7 and the exit code, as operators | 85 |
| `Bidder` | `bench/bid-storm.js`, over `KeyedBids` and judged by `Checker` | 315 |
| `Matrix` | `bench/run-matrix.sh`, `run-cell.sh`, `env.sh`, `cmd/matrix` | 280 |
| `MC*` | instances for TLC | |
| `EngineLemmas` | lemmas that the proofs about the engines share | |
| `ShardProofs`, `OptimisticProofs`, `PessimisticProofs`, `IdempotencyProofs`, `ClosingProofs`, `BidderProofs`, `MatrixProofs` | theorems | |

The modules also hold the mutants: alternative definitions with one plausible bug
each, marked "Mutant". They belong to no specification; substituting one for the
definition that follows it breaks the property `PROJECT.json` pairs it with.

**`BidEngine`** has two variables, the table `bids` and the set of answers given.
`Record` lets bids become durable, several at once, as long as the history stays
chained and free of collisions and no call that was rejected is recorded.
`Reply` answers calls: "Accepted" only for a durable bid and with its place in the
sequence, a rejection only for a call that is not recorded, one answer per call.
An error promises nothing, which is what the code says of it. `Shard`, `Optimistic`
and `Pessimistic` each declare `Engine == INSTANCE BidEngine` (their `bids` and
`answered` are those of the contract) and check `ImplementsEngine == Engine!Spec`.
`Idempotency` puts the same contract behind the middleware: `EngineLands`,
`Accepts`, `Rejects`, `Fails` and `LimboLands` are what a caller can observe of any
of the three.

**`Shard`.** `calling`, `inbox`, `hand` follow a command from `PlaceBid` into the
goroutine; `mem` is the shard's map, `batch` the accepts not answered yet, `stage`
the position of `run`. `Hydrate`, `RejectClosed`, `RejectTooLow`, `Accept` are the
branches of `decide`; `AfterDecision` is the select that fills a batch, commits it
when full and when older than `lingerMax`. `commit` is split where the world can
intervene: the statement lands (`Land`) or is refused (`Abort`); its error comes
before (`CommitError`) or after it landed (`CommitReplyLost`); only then
`CommitReply`. A statement given up at `commitTimeout` goes to `limbo`, from which
it may land at any later time, into another process's history. `UPDATE ... FROM
unnest` updates a row once although two rows of the batch join it: `Picks` is the
choice Postgres has. The clock offset is modelled as the *error* it carries (`Skews`).

**`Optimistic`.** A call freezes its snapshot and `now()` (`stmt`) and later
commits only if the WHERE holds of the snapshot *and* of the row it finds. `Reason`
is `classify` over a row read later still.

**`Pessimistic`.** A call queues for a connection, finds the row, is granted the
lock, decides, writes, commits. `Lock` keeps the instant of `Find` when the row did
not change meanwhile, as Postgres does. The INSERT waits for an uncommitted row
with the same key. A caller that leaves hands its transaction to Postgres ("dropped",
or "doubt" once the COMMIT may be on its way).

**`Idempotency`.** `ClaimRuns` is the Lua script, whole. `FinishStep` runs *one*
command of the pipeline, because Redis interleaves pipelines of different clients;
`ClaimRetries` and `FinishRetries` are the client's repetition. `lapses` is a
history variable: how many marks were lost under a request that was not through.

**`KeyedBids`** has the durable bids with their keys, the key of each request, and what
its caller was told. A 201 is about a durable bid of the request's key, and a 201 that
is no replay about its own; a request that was refused, turned away (425) or replayed
never leaves a bid of its own, then or later; one key has one bid. A 503 and silence
promise nothing. `Idempotency` declares `Promise == INSTANCE KeyedBids WITH ...`, where
a request exists once it arrived (`Told`), and implements it: checked by TLC, proved by
TLAPS. `Bidder` stands on the other side of the same specification
(`Service == INSTANCE KeyedBids`): a client that is right over `KeyedBids` is right over
the middleware and any engine that keeps its contract.

**`Closing`.** The sweep is `EnsureGroup`, `Query`, `Publish` per id, `PassEnds`.
Entries sit in `backlog` (no consumer was given them), in `hand` (the last read or
claim), in `left` (pending, their consumer will not come back to them) and, after
`claimMinIdle`, in `idle`, where the next XAUTOCLAIM finds them. They are bags,
since two copies of one id are two entries. `midway` is the cursor of XAUTOCLAIM.
`Add` is the XADD with MAXLEN: a full stream drops its oldest entry, which is one that was
delivered as long as there is one. If that one was acknowledged (`settled` counts those still
in the stream) nobody notices. If it was not, its id stays pending without an entry: one of the
`ghosts`, or, while closerd has it in memory, one of the `torn` entries of the hand, whose
message is handled and acknowledged all the same. `Claim` hands idle entries over and drops
ghosts, both within COUNT (`Passes`), as the XAUTOCLAIM of Redis 7 does, the version of
`docker-compose.yaml`. Which of the delivered entries is the oldest is not kept: any may be.
A malformed payload names one entry, so that two of them are two payloads.
`Flush` is the FLUSHALL of `run-cell.sh` and a Redis that restarts empty, `Truncate` that of
`cmd/seed`.
`handle` is `CloseRow`, `Classify`, `Bury`, `Ack`, each of which `HandleFails` may
cut short with its effect done, not done, or yet to come (`limbo`).

**`Checker`** has no state: its operators take a set of rows, a record of counters and
the flags of the cell, as `invariants.go` and `client.go` do. `Side` is the comparison by
direction of I5, `Execute` the exit code.

**`Bidder`.** `vu` is where the loop of a VU stands: `Attempt` is the head of the retry
loop and `http.post`, or the first half of `http.batch`; `Duplicate` the second half;
`Receive` waits for the batch and runs `reduceResponses` (`Reduce`) and the decision to
accept, to end or to retry; `PostReplay` and `ReceiveReplay` are `demonstrateReplay`;
`Exhaust` is `MAX_RETRIES` or the deadline; `Stop` is the end of the scenario with
iterations in flight, by `gracefulStop` or by the SIGINT of the budget. A lost answer
and a timeout are an answer that is never told: `Receive` goes on without it, and
`Land` may still come. Only `Lose`, which exists to judge the checker and is no
behaviour of the system, takes rows away. The counters are those of `client.json`.

**`Matrix`.** A cell is its three files. Loads are numbered so that the properties can
ask which measurement a file is from; `built` and `moved` in `env.json` are ghosts, which
the file does not have. `Start` is `preflight`, `Skip` and `Build` the two branches of the
loop, `Load`, `Record` and `Check` the parts of `run-cell.sh`, `Abort` whatever stops the
script between any two of them. `Refused` is what `cmd/matrix` can find in what the scripts
write: R1, R2, R4, R6 and R9. `MoveTree` and `SetPool` are whoever works on the machine,
while the script runs too.

## 3 Runs

All configurations are exhaustive; nothing is simulated.

| run | instance | what it shows |
|---|---|---|
| `shard_batches` | 1 shard, 2 auctions, 3 calls, 2 amounts, 1 key or none, inbox and batch of 2 | `SequenceChained`, `AcceptedIsDurable`, `MemoryNeverAhead`, `RowIsSomeBid`, and that the shard implements `BidEngine`, through aborts, lost replies, forgotten statements and kills |
| `shard_live` | 2 shards, 2 auctions, 2 calls, clock 0..2, offset errors -1..1 | every call is answered; no late batch reopens a closed auction |
| `optimistic` | 1 auction, 2 calls, 3 amounts, versions 0, 1 or none, clock 0..2 | `WinnerAndVersionCoherent`, `OneWinnerPerVersion`, `ClosedIsFinal`, the contract, and that every call ends |
| `pessimistic` | 1 auction, 3 calls, 2 connections | `LockedReadStaysTrue`, `WinnerAndVersionCoherent`, `ClosedIsFinal`, the contract |
| `pessimistic_live` | 2 auctions, 2 calls, 1 connection, 1 key | the queues for connections, rows and keys never form a circle |
| `idempotency` | 3 requests, 1 key or none, 2 tries per command | `OneBidPerKey`, `StoredAnswerIsFinal`, `DuplicatesCostAMark`, `MarksExpire`, and that the middleware implements `KeyedBids` |
| `closing` | 1 auction, 2 malformed entries, read and stream of 2, 2 faults | `NeverClosedEarly`, `ClosedAtNeverMoves`, `BuriedOrTrimmed`, `ExpiredIsClosed`, `PendingIsDrained` |
| `closing_sweep` | 2 auctions, LIMIT 1, stream and read of 1, 1 fault | neither the limit, nor trimming, nor suppression starves an expired auction |
| `bench` | 2 VUs, 2 auctions, 1 iteration each, 2 retries, 1 lost row | `NoFalseLoss`: I5 never accuses a database that kept everything; `LossIsReported`: no excuse hides more losses than there were errors; `CleanCellPasses`: the counters agree with the rows |
| `matrix` | 1 cell and its control, 2 pools, 2 rates, 3 loads, 2 moves of the tree | `PublishedIsOneExperiment`, `GreenIsKept` |
| `shard_winner`, `shard_refusal` | 1 shard, 1 auction, 3 calls, batch of 2 | section 4 |

### Bounds, and why they suffice for the interesting cases

* *Calls.* Three calls are the least that fill a batch with two bids of one auction
  and leave a third to be decided over memory, a re-hydration or a forgotten
  statement; two of them can share the key. In `optimistic` two calls are enough
  for every pairwise race, since a call sees of the others only the row and the
  indexes; `pessimistic` has three, so that two wait behind one lock.
* *Amounts* are small naturals around the increment: too low, exact, enough. In the
  shard runs the starting bid is 0, so that the first bid needs 1 and the second 2.
* *Clock.* `MaxClock` bounds `Tick`; `EndsAt` = 1 lies within it, so that calls start
  before the end and finish after it. `shard_batches` has `MaxClock` = 0: the end is
  the subject of `shard_live`.
* *`MaxTries`* = 2: a command runs and runs once more. The proofs have no bound.
* *`MaxFaults`* in `Closing` bounds every failure together, in any combination and
  order. Two are needed to meet a failure during the recovery from another. It is
  also what "failures end" means in the liveness properties.
* *`MaxLen`, `ReadCount`, `Limit`* are 1 or 2, so that trimming, of entries that were
  delivered too, a read that strands a second entry and a query that does not return
  everything are routine. *`Malformed`* has two payloads in `closing`, so that burying one
  does not hide the loss of the other.
* *`MaxIterations`* = 1, *`MaxRetries`* = 2: an iteration shares nothing with the next of
  its VU but the counters and the table, and for those a second VU is as good; the proofs
  have any number. Two
  attempts are the least with a retry, and with a duplicate three requests of one key.
  One lost row and a VU that confirmed it are the least loss there is.
* *`Last`* = 2: a cell and the control that repeats it are the least matrix that can be
  incoherent, half measured or drifted. *`MaxLoads`* = 3: one cell is measured twice.
  *`MaxMoves`* = 2: away from a commit and back to a clean tree. *`Rates`* = {4, 6} are
  further apart than `controlRefuse`, from either side.
* *Symmetry* over calls in `shard_batches`, `pessimistic` and `idempotency`, over VUs and
  over auctions in `bench`, where no liveness property is checked.
* *Deadlock.* `shard_batches`, `shard_live`, `closing` and `closing_sweep` check it.
  The others end when every call or iteration is through, or when the bounds on loads
  and moves are reached, where the real system would wait for the next request or the
  next person, and say `CHECK_DEADLOCK FALSE`.

### Fairness

* `Shard`: weak fairness of each shard's goroutine (always runnable; its two waits on
  Postgres end at `hydrateTimeout` and `commitTimeout`), and of a sender on a channel
  that has room.
* `Optimistic`, `Pessimistic`: weak fairness of each call's own progress: a statement
  that is granted its lock ends, queues are served in order, Postgres notices a closed
  connection.
* `Closing`: weak fairness of the sweep (a ticker), of the loop of closerd, of its
  restart (by whoever operates it: compose does not, `chaos/inject.sh` does after each
  kill), of the two real-time windows, which pass.
* `Bidder` and `Matrix` state none: their properties are safety properties.
* Never fair: callers, kills, Redis losses, lost replies, statements in limbo, ticks
  of the clock, creations.

## 4 Where the code and its documentation disagree

Each of two runs checks one sentence of the repository, and TLC refutes it.

1. **`shard_winner`** (`internal/bid/shard/shard.go:204`). The comment above `commit`
   says a batch never holds two accepts of one auction, so the UPDATE needs no
   deduplication. That holds for one bidder, which waits for its answer; several
   bidders put several commands in one inbox, and `run` decides them into one batch.
   Postgres updates the row once, from either: the row may keep version, top and
   winner of the earlier bid while `bids` has both. Invariant I3 of the checker fails.
   `SequenceChained` still holds, because the unique index on `(auction_id, seq)`
   refuses what is decided over such a row after a re-hydration.
   `RowIsSomeBid`, proved, is what remains: the row is *some* bid, never a mixture.
   The comment is wrong in its premise only. `CoherentUnlessTwice` proves I3 of every
   behaviour whose batches hold one accept of an auction at most, through lost replies,
   forgotten statements, restarts and closes; `CoherentOneByOne` gives a condition on the
   callers that implies it.
2. **`shard_refusal`** (`internal/idem/store.go:115`). "A 422 resent stays 422, since
   minNextBid only grows": under the shard engine a refusal is decided over memory
   that a failed commit takes back, and the same amount is accepted afterwards.
   No accepted bid is harmed by it; the justification for not storing refusals is.

Five more sentences are stated as properties of their modules, and are refuted too. They have a configuration each, but are not among the runs of `PROJECT.json`: what
the project holds the code to is the property beside them that is true.

| property | configuration | what holds instead |
|---|---|---|
| `Shard!ClosedIsFinal` | `MCShardClosing.cfg`, 10 states | `ClosedStaysClosed` |
| `Shard!NoBidAfterTheEnd` | `MCShardStamp.cfg`, 8 states | theorem `StampsAreInTime` |
| `Pessimistic!DecidedAfterTheWait` | `MCPessimisticWait.cfg`, 16 states | `ClosedIsFinal` |
| `Closing!MalformedIsBuried` | `MCClosingTrim.cfg`, 14 states | `BuriedOrTrimmed` |
| `Matrix!BuiltFromItsCommit` | `MCMatrixCommit.cfg`, 12 states | `PublishedIsOneExperiment` |

* **`ClosedIsFinal` of the shard** (`internal/bid/shard/shard.go:157`). "The winner is already in the row
  ... and this stamps the end rather than deciding the result" (`materializer.go:89`, and
  `docs/decisoes/etapa-4.md:32`), from which the checker concludes that no bid entered after
  the auction was closed (`invariants.go:157`). The shard decides over the status it hydrated
  and its statement looks at neither status nor end: a batch on its way when closerd closes the
  row moves version, top and winner afterwards. What remains is that the auction is not
  reopened. In the other two engines `ClosedIsFinal` holds, and is proved.
* **`NoBidAfterTheEnd`** (`shard.go:186`). `created_at` is "the offset-corrected instant of the
  decision" (`shard/sql.go:16`), so that I4 never fails a bid accepted in time
  (`docs/decisoes/etapa-3.md:55`). `decide` reads the clock twice: a bid of the last moment
  may be stamped after `ends_at`. `Drifts` is the time between the readings, {0, 2} here
  and {0} in the runs. `StampsAreInTime` proves that a stamp is late by no more than that time.
* **`DecidedAfterTheWait`** (`internal/bid/pessimistic/sql.go:18`). `clock_timestamp()` is
  evaluated "after the wait" (`docs/decisoes/etapa-2.md:47`). Postgres computes the columns
  of a `SELECT ... FOR UPDATE` below the node that locks, and again only if the row changed:
  behind a transaction that rejects or rolls back, a call that waited past the end is accepted
  over the instant from before its wait. The row is still open then, so `ClosedIsFinal` holds,
  and `created_at`, the instant of the BEGIN, hides it from I4.
* **`MalformedIsBuried`** (`internal/stream/stream.go:101`). "The dead letter is the only place
  this entry may end" (`consumer.go:185`). MAXLEN takes delivered entries too, and XAUTOCLAIM
  drops their ids: a malformed entry whose reply was lost, or that was delivered before a kill, may
  vanish unburied. An auction that loses its entry so is published again, a malformed payload
  is not. It takes 100,000 entries published while one is pending. `BuriedOrTrimmed`,
  proved, says that there is no other way.
* **`BuiltFromItsCommit`** (`bench/env.sh:40`). "Two cells built from different commits are not
  one matrix" (`cmd/matrix/main.go:406`). The commit that R4 compares is read when the load of
  a cell is over, auctiond was built before it (`run-matrix.sh:263`): a commit made in between
  is published as measured. `PublishedIsOneExperiment` excepts exactly these cells.

Others are wider than the code and are not stated:

* `internal/stream/consumer.go:46`, "at any instant at most one entry is unacknowledged":
  one read delivers up to `readCount`. `PendingIsDrained` shows that the recovery copes.
* `internal/idem/store.go:38`, "Busy: another request under this key is executing": a
  claim whose reply was lost is sent again and meets its own mark. `MarksExpire` shows
  that the key is not taken for good.
* `cmd/checker/client.go:145`, an accept that vanished "moves" count, watermark or density:
  a row that nobody was told of can stand in for it one for one, which is why
  `LossIsReported` asks for more losses than there were errors and abandoned bids.
* A bid that ends in a 503 and lands later makes I5 fail in a cell without an injection,
  although nothing was lost. `CleanCellPasses` therefore speaks of cells whose bids were
  all accepted or met no error.

## 5 Proofs

The modules named `...Proofs` are checked by TLAPS to the last leaf. They use the ASSUMEs
of their modules and no others: constants are natural numbers where they count, the shard
of an auction is a shard, and a marker (`NoKey`, `NoRequest`, `NoFile`, ...) is outside the
sets it marks. No bound is used. One set has to be finite, the VUs of the bidder
(`VUsAreFinite`), because the counters of k6 are compared with cardinalities; that the
tables of rows and the holders of a mark are finite is proved where it is needed.
Every inductive invariant was checked with TLC before it was proved. They are not among
the runs, since the theorem says more.

### The three engines

`EngineLemmas` has what the engines share. `TablesFollow`: the history is one chain without
a collision, and each row is what its last bid left. It survives the three things that
happen to the tables, a bid on top of the last one (`PlaceFollows`), a creation
(`CreateFollows`) and a close (`CloseFollows`). `Honest`: an answer with a 201 names a bid of
the table, a rejection names a call without one, and no call has two answers.

| theorem | of `ShardProofs` | of `OptimisticProofs` | of `PessimisticProofs` |
|---|---|---|---|
| `TypeCorrect` | `[]TypeOK` | `[]TypeOK` | `[]TypeOK` |
| `Inductive` | `[]IInv` | `[]IInv` | `[]IInv` |
| history | `AlwaysChained`: `[]SequenceChained` | `AlwaysCoherent`: `[]WinnerAndVersionCoherent` | `AlwaysCoherent`: `[]WinnerAndVersionCoherent` |
| answers | `AcceptsAreDurable`: `[]AcceptedIsDurable` | `OneWinner`: `[]OneWinnerPerVersion` | |
| memory, lock | `MemoryIsBacked`: `[]MemoryNeverAhead` | | `TheLockIsTheGuard`: `[]LockedReadStaysTrue` |
| row | `RowsAreBids`: `[]RowIsSomeBid` | | |
| close | `NothingReopens`: `ClosedStaysClosed` | `NothingAfterTheClose`: `ClosedIsFinal` | `NothingAfterTheClose`: `ClosedIsFinal` |
| contract | `KeepsTheContract`: `ImplementsEngine` | `KeepsTheContract`: `ImplementsEngine` | `KeepsTheContract`: `ImplementsEngine` |

**Shard.** None of the four safety invariants is inductive. `IInv` adds
* `BatchesLinked`: every bid waiting to be written - in a batch, or in a forgotten
  statement - opens its auction, or beats a bid of the table or of its own batch. So
  whichever statement lands next, in whatever order, extends a chain; that two of
  them do not take the same place is the work of the unique index (`Insertable`).
  Because the table only grows, a link into the table is never lost; because a batch
  is written whole or not at all, neither is a link inside it.
* `DoneMeansLanded`: a batch whose statement landed is in the table until it is
  answered, which is why a 201 is durable and why, after the answer, what memory
  knows is backed by the table rather than by the batch.
* `Routed`: a command is decided by the shard that owns its auction, so that a
  failing shard evicts the memory that its own batch backs and no other.

The step proof has a lemma per kind of operation (`ApplyExtends` for a statement that
lands, `FailKeepsTruth` for the ways a commit ends in an error, `AcceptKeepsTruth`,
`AnswersKeepsTruth`, `ReplyKeepsTruth`, `RestartKeepsTruth`) and one step per action.

`TablesFollow` is not true of this engine (section 4), so the contract takes another way:
`OnePlace`, proved as `AlwaysOnePlace`. A call is with its caller, in one inbox, in one hand
or in one batch, and in none of them once it was told something; what is in the table or
still on its way there was decided; and a call that was rejected has no bid in either. That
last part is what makes a rejection final: an error may be followed by a row, from a
forgotten statement, a refusal may not. `Land` and the late landing map to `Record`,
`CommitReply`, the refusals, the failures and the restart to `Reply`.

What is proved of the shard beyond the properties of the runs:

| theorem | statement |
|---|---|
| `NothingWrittenTwice` | `Spec => []WrittenOnce`: a bid is in one statement at most, and not in the table and in a statement that may still land |
| `CoherentUnlessTwice` | `Spec /\ []OneAcceptPerBatch => []WinnerAndVersionCoherent` |
| `CoherentOneByOne` | `Spec /\ []OneCallPerAuction => []WinnerAndVersionCoherent` |
| `NoCallIsForgotten` | a call that was not answered is with its caller or in a shard |
| `NoShardStalls` | such a call can be enqueued, or a shard that holds it, or whose inbox keeps it out, has a step to take |
| `StampsAreInTime` | I4, up to the time between the two readings of the clock |

The two `Coherent...` theorems rest on `RowsFollow`: each row is what the last bid of its
history left, and no statement on its way has two bids of an auction. The step that matters
is a statement that lands, late or not, over whatever landed meanwhile. Memory may be behind,
since a forgotten statement can land after its auction was hydrated again, so the
decision says nothing; but `BatchesLinked` gives the bid a predecessor in the table, the unique
index says that its own place is free, and the sequence has no hole, which leaves one place:
the next one over the row (`LinkedTops`). With two bids of an auction in one statement the same is
true of the first of them only, and the row may keep it.
Their hypotheses are true of behaviours: TLC explores 657,524 states of `shard_batches` that keep
`OneAcceptPerBatch`, of 669,380. `NoShardStalls` is the safety half of `EveryCallAnswered`. It
writes out when a shard can run (`CanRun`); that this is what enables `Run` is beyond the prover
and was compared by TLC in every state of `shard_batches` and of `shard_live`.

**Optimistic.** Only the guarded statement and the operations on auctions touch the tables.
The statement commits when the row it finds behind the lock matches, so the bid tops the
row as it is *then*, and `PlaceFollows` applies; what the snapshot said is not needed for
coherence. `PlacedOnce` says that a bid sits on the version its call expected, and
`OneWinner` follows from that and the unique index on the sequence. For `ClosedIsFinal` the
second evaluation is the whole argument, for the contract it is that `classify` answers a
call that has no row and whose statement is through (`ToldIsOver`).

**Pessimistic.** The write has no guard, so its invariant carries the decision across the
statements: `LockIsTheGuard` says that between the locked read and the end of the
transaction the row is the one that was read, open while a bid is written, and still
beaten by that bid. It needs from the types that a call past its read holds the lock of
its row, the callers that left ("doubt") included. The unique index on keys has to hold
of the rows that are not committed as well (`NoCollision(bids \cup Uncommitted)`), since the
INSERT of one call waits for, and collides with, the row of another. The pool has no part
in any of this.

It has one in the absence of deadlock. A transaction waits in three queues without a timeout:
for a connection, for the lock of a row, and, at the INSERT, for a row with its key that another
transaction wrote and may still roll back. `NoCircularWait` proves that whoever is under way can move,
or waits for a transaction that is further on than itself (`Rank`: before the lock, behind it,
written), which gives `SomebodyMoves` for any number of calls and any size of the pool: a
connection is only waited for without holding anything, a row without having written, and a
transaction that wrote waits for nobody. It rests on `Holders`, that a lock is held by a
transaction that has not ended, whatever became of its caller. `CanMove` is what enables
`Progress`, written out; TLC compared the two in every state of `pessimistic` and
`pessimistic_live`. That the waits end is `EveryCallAnswered`, and stays with TLC.

**All three.** `AnswersAreHonest` is the contract as an invariant: one answer to a call, a 201 shows
a row, a call that was rejected has none. `NoBidAfterTheEnd` is I4 of the optimistic and the
pessimistic engine. `MinNextBidIsBounded` says that `MinNextBid` is only ever applied to the
starting bid or to an amount somebody bid, in the tables and in the memory of the shard: if
their sums with the increment fit in int64 then so does every sum the engine computes.

### The middleware (`IdempotencyProofs`)

| theorem | statement |
|---|---|
| `TypeCorrect` | `Spec => []TypeOK` |
| `MarksAlwaysExpire` | `Spec => []MarksExpire` |
| `Inductive` | `Spec => []IInv` |
| `OneKeyOneBid` | `Spec => []OneBidPerKey` |
| `AnswersAreFinal` | `Spec => StoredAnswerIsFinal` |
| `KeepsThePromise` | `Spec => ImplementsKeyedBids` |
| `DuplicatesArePaidFor` | `Spec => []DuplicatesCostAMark` |

`OneBidPerKey` speaks of answers already given. Its `IInv` says the same of every
answer still on its way: an entry in Redis, a "replay" verdict travelling to the
middleware, an engine that landed its bid, and the rest of a pipeline all name a
durable bid of their key. Since `bids` has one bid per key (the partial unique index,
whatever Redis forgets), two different sources cannot disagree; that is also the whole
argument of `AnswersAreFinal`, whose hard case is a late `HSET` over an entry that
another request stored.

`KeepsThePromise` maps by `Told`: `Arrive` is `Send`, `EngineLands` and `LimboLands` are `Land`,
`Accepts` is `Create`, `Replay` is `Replay`, `TurnAway` and `Rejects` are `Refuse`, `ClaimFails` and
`Fails` are `Fail`; everything else tells nobody anything and is a stutter, the whole of Redis
included. Beyond `IInv` it needs `Traceless`: a request that the engine has not decided
left no bid and no statement behind, and a statement that was left behind is of a
request that was told nothing or 503. That is where "never leaves a bid of its own, then
or later" comes from, and why a replay cannot be of the request's own bid.

`DuplicatesArePaidFor` counts. `Accounts` compares the requests that took the mark of a key
and have not released it with the mark in Redis (one or none) and the marks that were
lost: a claim that goes through adds one to both sides, a release takes one from both at
most, an expiry or a restart of Redis moves the mark to the other side of the sum. The
repetitions of go-redis are what makes it hard: a pipeline that runs again releases nothing
of its own any more, and may release the mark of a later request, which is counted as
lost. The same induction shows that the holders are finite.

### Closing (`ClosingProofs`)

| theorem | statement |
|---|---|
| `Inductive` | `Spec => []IInv` |
| `TypeCorrect` | `Spec => []TypeOK` |
| `NoEarlyClose` | `Spec => []NeverClosedEarly` |
| `ClosedOnce` | `Spec => ClosedAtNeverMoves` |
| `LostOnlyTrimmed` | `Spec => BuriedOrTrimmed` |

`NoEarlyClose` and `ClosedOnce` are about the row and the clock: whoever asks, and from whichever stream,
what is written is the WHERE of the one UPDATE, in closerd or in a statement that it
left behind. `LostOnlyTrimmed` follows the entries, which are bags, through `backlog`, `hand`, `left`
and `idle`. The bag of the pending entries (`PendingOf`) only grows, but for three kinds of step: an
acknowledgement, a flush, which takes the group along, and trimming. The acknowledgement takes
away the message in hand, and `Handling` says of that message that `bury` already wrote it, if
it is malformed and still listed. Trimming takes an entry that nobody has in hand away from the
bag and adds a ghost in the same step (`TrimKeeps`), which is the second disjunct of the property;
what it tears from the hand stays pending until `handle` is through, and
`Done` either buried it or leaves a ghost. So a payload that is pending no more is accounted for in the step
in which it goes, and a ghost that is dropped later was counted when it was made. `IInv` is
`Sound`, the types and `Handling`, and `Counted`, which says of the bags that they are finite.

`Counted` is there because ghosts are counted, and because `hand` has no more entries than one
read or claim gives, which `TypeCorrect` states. The size of a bag is the cardinality of the set of its numbered copies
(`Size`, `Entries`), so that the lemmas about finite sets apply where a sum over the bag would
take an induction: what was read is a part of the stream, numbered by its places
(`BagOfIsWithin`), what was claimed has at most `ReadCount` (`ClaimableIsWithin`), and whatever
leaves the hand leaves a part of it (`PartIsWithin`).

### The bidder and the checker (`BidderProofs`)

| theorem | statement |
|---|---|
| `TypeCorrect` | `Spec => []TypeOK` |
| `Inductive` | `Spec => []IInv` |
| `NeverCriesWolf` | `Spec => []NoFalseLoss` |
| `EveryLossIsReported` | `Spec => []LossIsReported` |
| `CleanCellsPass` | `Spec => []CleanCellPasses` |

They hold of any number of VUs, iterations, retries and lost rows over any service that keeps
the promise of `KeyedBids`, which `KeepsThePromise` shows of the middleware. `IInv` keeps three
accounts.
* *The rows* (`Rows`, `Dense`): one for a logical bid, of a request that was not refused, with
  the sequence of each auction dense. A bid that was accepted has one, in the table or among
  the lost, below the highest sequence its VU saw.
* *The ends* (`EndsCounted`): `accepted` counts the logical bids that ended so; a request that
  was told 503 or nothing, and whose bid was neither accepted nor abandoned, was counted as
  an error (`Failed`). So every row that nobody was told of can be charged to an error or to
  an abandoned iteration, which is the comparison of I5 in both directions.
* *The duplicates* (`DuplicatesCounted`): an injection is of an iteration that was selected,
  and the VUs that still owe theirs (`Owing`) are among the selected. I7 reads these counters.

`Loops` and `Paces` say where the loop of a VU stands, which decides what a step may count. The
theorems then compare cardinalities by injections: of accepted bids into committed rows (no
false loss), of the rows nobody was told of into failed requests and abandoned bids (no
hidden loss), and of all rows into accepted bids (a clean cell).

### The matrix (`MatrixProofs`)

| theorem | statement |
|---|---|
| `Inductive` | `Spec => []IInv` |
| `TypeCorrect` | `Spec => []TypeOK` |
| `AlwaysOneExperiment` | `Spec => []PublishedIsOneExperiment` |
| `GreenStays` | `Spec => GreenIsKept` |
| `ADeadEndIsForGood` | `Spec => [](DeadEnd => []DeadEnd) /\ [][DeadEnd => published' = published]_vars` |

An artefact is published from the files as they are, so its theorem rests on what the
files of one cell say of one another after any interruption: `Wrapped` (a report stands
beside the files it was made from; a cell was built from the commit it names unless the
tree moved) and, of the cell the script is about, `Underway` (there are no files but those of
this load, because `Build` emptied the directory). `BuiltIsTree` connects the image with the
tree while the script runs. `GreenStays` needs `NothingGreenAhead`: without RESUME the script
started over an empty directory, and the cells still to come are not green. `ADeadEndIsForGood` is its
price. The tree or the shell may move under the script, so that a cell comes out green and dirty,
or green over another commit or pool than its neighbour; `cell_green` looks at the report only,
and from then on no command leads to an artefact. TLC reaches each of the three kinds.

### Model-checked only

* Liveness (`EveryCallAnswered` of the three engines, `ExpiredIsClosed`, `PendingIsDrained`):
  its proofs need ENABLED and the fairness of actions, which TLAPS does not support.
  `SomebodyMoves` and `NoShardStalls` are as far as safety goes towards the first.
* The sentences of section 4, which are refuted.

## 6 What is left out

* *Checker*: I2 and I3 are predicates of `AuctionDB`, which the engines are checked against
  in every state, not only when a cell is over; I8 is `NeverClosedEarly` in `Closing`. I4
  is proved of the optimistic and the pessimistic engine (theorems `NoBidAfterTheEnd`), and
  refuted of the shard (section 4). SQL, reading of files and rendering are left out.
* *Aggregator*: the markdown, the graph and the rates of a row. R3 (a chaos cell), R5 (a
  directory that holds another cell), R7 (a missing or zero field) and R8 (no accepted bid)
  refuse what the loop of `run-matrix.sh` never writes.
* *Bidder*: what a VU learns of an auction between attempts (`stateOf`, `absorb`) and its
  backoff; a refusal with 409 or 422 is simply one that is retried. Ranking of auctions,
  seeds and latencies.
* *Cell scripts*: warm-up and the watch on the generator's CPU
  (an input of I6, `saturated`).
* *Observation*: metrics, logs, `InboxDepths`, the lock-wait and batch observers,
  `GroupInfo`, the `attempts` counter of a claim. No behaviour depends on them.
* *Wording*: bodies, headers, JSON, rendering, identity. A response is its status and the
  bid it is about.
* *Width of integers*: amounts and instants are unbounded. `MinNextBid` of an auction
  near the top of int64 would wrap; a hazard lists it, and `MinNextBidIsBounded` says
  which amounts are enough to rule it out. The handler does not refuse the others.
* *HTTP drain at shutdown*: a stop of auctiond is a kill, of which it is a special case.
  The stop of closerd is modelled, because it decides what stays pending.
* *Order of the messages of one read*: `Handle` takes them in any order, of which the
  code's is one.
* *Approximate trimming*: `MAXLEN ~` removes whole nodes of the stream and may leave it longer;
  the model removes one entry at a time at the limit. The dead letter stream has the same limit;
  `dead` is what it was given.
* *Several closerd processes*: the repository runs one. What a second one could do to a
  row is what `LimboCloses` does.
* *Row-lock waits of the shard's statement*: a statement is one step. Its duration is
  the difference between `Accept` and `Land`.

Not modelled, with the reason:

* *Chaos scripts*: they perform, from outside, the kills, flushes and cuts that the modules
  have as actions; their own logic is the timing of an injection.
* *Configuration*: parsing of the environment at boot; its values are the CONSTANTS.
* *Metrics*: observers that nothing reads back.
* *Test support and the conformance suite* (`internal/testsupport`, `enginetest`): tests. What
  the suite asks of an engine is `BidEngine`.

## 7 Plan

Built: the contract, the three engines, the middleware and its promise, the closing
pipeline, bidder, checker and matrix, and proofs of every safety property and refinement
the runs check (section 5). What would come next:

1. *Composition.* `Idempotency` over a detailed engine instead of the contract, on the
   smallest instance; `Closing` together with the shard engine, for what happens to
   the winner of an auction that closes over an open batch.
2. *Proofs across modules.* What `BidEngine` and `KeyedBids` imply is proved of each
   implementation (`AnswersAreHonest`, `OneKeyOneBid`) rather than once of the abstract module.
3. *Integers.* `MinNextBid` with its width, once the handler bounds an amount.

Modules in the order they are best read: `AuctionDB`, `BidEngine`, `Shard`, `Optimistic`,
`Pessimistic`, `KeyedBids`, `Idempotency`, `Closing`, `Checker`, `Bidder`, `Matrix`, then the
proofs.

To repeat a check: `tlc -config MCShardBatches.cfg MCShard`; a proof:
`tlapm ShardProofs.tla`. The proofs of the bidder and of the shard take some minutes.
