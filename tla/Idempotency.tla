----------------------------- MODULE Idempotency -----------------------------
(***************************************************************************)
(* The idempotency middleware, internal/idem, between POST /bids and       *)
(* whichever engine the process runs.                                      *)
(*                                                                         *)
(* A request with a key claims the entry of that key in Redis with one     *)
(* atomic script: it replays a stored 201, is turned away while a mark is  *)
(* set, or sets the mark and passes to the engine.  When the handler       *)
(* returns, a pipeline stores the 201 and releases the mark.  The Redis    *)
(* client runs either again when the reply does not arrive; entries        *)
(* expire; Redis and auctiond may be killed.  The last line of defence is  *)
(* the unique index on bids.idempotency_key.                               *)
(*                                                                         *)
(* The engine is its contract (BidEngine): it lands the bid and accepts,   *)
(* or rejects it, or fails and the bid may still land later.               *)
(***************************************************************************)
EXTENDS Integers, Sequences, FiniteSets, Functions

CONSTANTS
    Ids,        \* requests; a request names the bid and the body it may get
    Keys,       \* idempotency keys
    NoKey,      \* the header is absent
    NoBody,     \* nothing stored
    MaxTries    \* how often the Redis client sends one command

ASSUME NoKeyIsNotAKey == NoKey \notin Keys
ASSUME NoBodyIsNotABody == NoBody \notin Ids
ASSUME MaxTriesIsPositive == MaxTries \in Nat \ {0}

VARIABLES
    entry,      \* per key, the hash at idem:<key>
    bids,       \* the accepted bids in Postgres, with their keys
    limbo,      \* bids of failed calls whose statement may still land
    pc,         \* per request, where it is
    key,        \* per request, its key
    tries,      \* per request, how often its current command was sent
    verdict,    \* per request, what the script returned
    todo,       \* per request, what is left of its pipeline
    response,   \* per request, what the handler wrote to the caller
    lapses      \* history: marks lost before their request was through

redis == <<entry, lapses>>
postgres == <<bids, limbo>>
vars == <<entry, bids, limbo, pc, key, tries, verdict, todo, response, lapses>>

(* "claiming": the script is on its way.  "claimed": its reply is.         *)
(* "engine": in the engine.  "landed": the bid is durable and the engine   *)
(* has not said so.  "finishing": the deferred pipeline.                   *)
Steps == {"idle", "claiming", "claimed", "engine", "landed", "finishing", "over"}

(* ttl: an expiry is set on the hash.  attempts is only a metric.          *)
Entry == [busy: BOOLEAN, done: Ids \cup {NoBody}, ttl: BOOLEAN]
NoEntry == [busy |-> FALSE, done |-> NoBody, ttl |-> FALSE]

Verdict == [kind: {"none", "go", "replay", "busy"}, body: Ids \cup {NoBody}]
NoVerdict == [kind |-> "none", body |-> NoBody]

Statuses == {"none", "created", "replayed", "early", "rejected", "unavailable"}
Response == [status: Statuses, body: Ids \cup {NoBody}]
Of(status) == [status |-> status, body |-> NoBody]

Bid == [id: Ids, key: Keys \cup {NoKey}]
BidOf(i) == [id |-> i, key |-> key[i]]

(* The two pipelines of Finish. *)
StoreAndRelease == <<"hset", "hdel", "pexpire">>
Release == <<"hdel">>

TypeOK ==
    /\ entry \in [Keys -> Entry]
    /\ bids \subseteq Bid
    /\ limbo \subseteq Ids
    /\ pc \in [Ids -> Steps]
    /\ key \in [Ids -> Keys \cup {NoKey}]
    /\ tries \in [Ids -> 1..MaxTries]
    /\ verdict \in [Ids -> Verdict]
    /\ todo \in [Ids -> Seq({"hset", "hdel", "pexpire"})]
    /\ response \in [Ids -> Response]
    /\ lapses \in [Keys -> Nat]
    /\ \A i \in Ids : pc[i] \in {"claiming", "claimed", "finishing"} => key[i] \in Keys

Init ==
    /\ entry = [k \in Keys |-> NoEntry]
    /\ bids = {}
    /\ limbo = {}
    /\ pc = [i \in Ids |-> "idle"]
    /\ key = [i \in Ids |-> NoKey]
    /\ tries = [i \in Ids |-> 1]
    /\ verdict = [i \in Ids |-> NoVerdict]
    /\ todo = [i \in Ids |-> <<>>]
    /\ response = [i \in Ids |-> Of("none")]
    /\ lapses = [k \in Keys |-> 0]

----------------------------------------------------------------------------
(* The claim.                                                              *)

(* Mutant: a request without the header is claimed for too. *)
ArriveClaimsAnyway(i, k) ==
    /\ pc[i] = "idle"
    /\ key' = [key EXCEPT ![i] = k]
    /\ pc' = [pc EXCEPT ![i] = "claiming"]
    /\ UNCHANGED <<redis, postgres, tries, verdict, todo, response>>

(* Without the header the middleware is a pass-through. *)
Arrive(i, k) ==
    /\ pc[i] = "idle"
    /\ key' = [key EXCEPT ![i] = k]
    /\ pc' = [pc EXCEPT ![i] = IF k = NoKey THEN "engine" ELSE "claiming"]
    /\ UNCHANGED <<redis, postgres, tries, verdict, todo, response>>

Stored(k) == entry[k].done # NoBody

Verdicts(i, kind, body) ==
    /\ pc' = [pc EXCEPT ![i] = "claimed"]
    /\ verdict' = [verdict EXCEPT ![i] = [kind |-> kind, body |-> body]]
    /\ UNCHANGED <<postgres, key, tries, todo, response, lapses>>

(* Mutant: PEXPIRE is left to Finish. *)
ClaimWithoutExpiry(i) ==
    LET e == entry[key[i]] IN
    /\ pc[i] = "claiming"
    /\ \/ Stored(key[i]) /\ Verdicts(i, "replay", e.done) /\ UNCHANGED entry
       \/ ~Stored(key[i]) /\ e.busy /\ Verdicts(i, "busy", NoBody) /\ UNCHANGED entry
       \/ /\ ~Stored(key[i]) /\ ~e.busy /\ Verdicts(i, "go", NoBody)
          /\ entry' = [entry EXCEPT ![key[i]].busy = TRUE]

(* Mutant: the mark is set and never looked at. *)
ClaimIgnoresTheMark(i) ==
    LET e == entry[key[i]] IN
    /\ pc[i] = "claiming"
    /\ \/ Stored(key[i]) /\ Verdicts(i, "replay", e.done) /\ UNCHANGED entry
       \/ /\ ~Stored(key[i]) /\ Verdicts(i, "go", NoBody)
          /\ entry' = [entry EXCEPT ![key[i]] = [busy |-> TRUE, done |-> NoBody, ttl |-> TRUE]]

(* The Lua script, which Redis runs without interleaving anything. *)
ClaimRuns(i) ==
    LET e == entry[key[i]] IN
    /\ pc[i] = "claiming"
    /\ \/ Stored(key[i]) /\ Verdicts(i, "replay", e.done) /\ UNCHANGED entry
       \/ ~Stored(key[i]) /\ e.busy /\ Verdicts(i, "busy", NoBody) /\ UNCHANGED entry
       \/ /\ ~Stored(key[i]) /\ ~e.busy /\ Verdicts(i, "go", NoBody)
          /\ entry' = [entry EXCEPT ![key[i]] = [busy |-> TRUE, done |-> NoBody, ttl |-> TRUE]]

(* The reply does not arrive and the client sends the script again. *)
ClaimRetries(i) ==
    /\ pc[i] = "claimed" /\ tries[i] < MaxTries
    /\ pc' = [pc EXCEPT ![i] = "claiming"]
    /\ tries' = [tries EXCEPT ![i] = @ + 1]
    /\ verdict' = [verdict EXCEPT ![i] = NoVerdict]
    /\ UNCHANGED <<redis, postgres, key, todo, response>>

(* The middleware answers by itself: the engine never hears of it. *)
Aborts(i, answer) ==
    /\ pc' = [pc EXCEPT ![i] = "over"]
    /\ response' = [response EXCEPT ![i] = answer]
    /\ verdict' = [verdict EXCEPT ![i] = NoVerdict]
    /\ tries' = [tries EXCEPT ![i] = 1]
    /\ UNCHANGED <<redis, postgres, key, todo>>

(* The client is out of tries or the request's context ended, whether or   *)
(* not the script ran: the middleware fails closed.                        *)
ClaimFails(i) ==
    /\ pc[i] \in {"claiming", "claimed"}
    /\ Aborts(i, Of("unavailable"))

Replay(i) ==
    /\ pc[i] = "claimed" /\ verdict[i].kind = "replay"
    /\ Aborts(i, [status |-> "replayed", body |-> verdict[i].body])

TurnAway(i) ==
    /\ pc[i] = "claimed" /\ verdict[i].kind = "busy"
    /\ Aborts(i, Of("early"))

Pass(i) ==
    /\ pc[i] = "claimed" /\ verdict[i].kind = "go"
    /\ pc' = [pc EXCEPT ![i] = "engine"]
    /\ verdict' = [verdict EXCEPT ![i] = NoVerdict]
    /\ tries' = [tries EXCEPT ![i] = 1]
    /\ UNCHANGED <<redis, postgres, key, todo, response>>

----------------------------------------------------------------------------
(* The engine, from outside.                                               *)

(* The partial unique index lets the row in. *)
KeyIsFree(i) == key[i] = NoKey \/ \A b \in bids : b.key # key[i]

EngineLands(i) ==
    /\ pc[i] = "engine"
    /\ KeyIsFree(i)
    /\ bids' = bids \cup {BidOf(i)}
    /\ pc' = [pc EXCEPT ![i] = "landed"]
    /\ UNCHANGED <<redis, limbo, key, tries, verdict, todo, response>>

(* A statement whose call failed, or whose process died, commits. *)
LimboLands(i) ==
    /\ i \in limbo
    /\ KeyIsFree(i)
    /\ bids' = bids \cup {BidOf(i)}
    /\ limbo' = limbo \ {i}
    /\ UNCHANGED <<redis, pc, key, tries, verdict, todo, response>>

(* The handler wrote its response, which reaches the caller now, when the  *)
(* handler returns or never; the deferred Finish is next.                  *)
Returns(i, answer, pipeline) ==
    /\ response' = [response EXCEPT ![i] = answer]
    /\ todo' = [todo EXCEPT ![i] = IF key[i] = NoKey THEN <<>> ELSE pipeline]
    /\ pc' = [pc EXCEPT ![i] = IF key[i] = NoKey THEN "over" ELSE "finishing"]
    /\ UNCHANGED <<redis, key, tries, verdict>>

Accepts(i) ==
    /\ pc[i] = "landed"
    /\ Returns(i, [status |-> "created", body |-> i], StoreAndRelease)
    /\ UNCHANGED postgres

(* Mutant: an engine that ran out of time answers as if it had decided. *)
RejectsUndecided(i) ==
    /\ pc[i] = "engine"
    /\ Returns(i, Of("rejected"), Release)
    /\ limbo' \in {limbo, limbo \cup {i}}
    /\ UNCHANGED bids

(* 400, 404, 409, 410 and 422. *)
Rejects(i) ==
    /\ pc[i] = "engine"
    /\ Returns(i, Of("rejected"), Release)
    /\ UNCHANGED postgres

(* Mutant: whatever the handler wrote is stored. *)
FailsAndStores(i) ==
    /\ pc[i] \in {"engine", "landed"}
    /\ Returns(i, Of("unavailable"), StoreAndRelease)
    /\ limbo' \in {limbo, limbo \cup ({i} \cap {j \in Ids : pc[j] = "engine"})}
    /\ UNCHANGED bids

(* 503: a lost connection, the index, the end of the request's context, or *)
(* a panic.  The statement may be running still.                           *)
Fails(i) ==
    /\ pc[i] \in {"engine", "landed"}
    /\ Returns(i, Of("unavailable"), Release)
    /\ limbo' \in {limbo, limbo \cup ({i} \cap {j \in Ids : pc[j] = "engine"})}
    /\ UNCHANGED bids

----------------------------------------------------------------------------
(* Finish.                                                                 *)

(* Mutant: a request with nothing to store deletes the hash. *)
ExecutedDeletes(cmd, e, i) ==
    CASE cmd = "hset"    -> [e EXCEPT !.done = i]
      [] cmd = "hdel"    -> IF e.done = i THEN [e EXCEPT !.busy = FALSE] ELSE NoEntry
      [] cmd = "pexpire" -> [e EXCEPT !.ttl = e # NoEntry]

(* A command of the pipeline against the hash.  HSET creates a missing     *)
(* hash, without an expiry; the other two leave it missing.                *)
Executed(cmd, e, i) ==
    CASE cmd = "hset"    -> [e EXCEPT !.done = i]
      [] cmd = "hdel"    -> [e EXCEPT !.busy = FALSE]
      [] cmd = "pexpire" -> [e EXCEPT !.ttl = e # NoEntry]

(* The commands of a pipeline run in order, with those of other clients in *)
(* between.  A repeated HDEL may release the mark of another request.      *)
FinishStep(i) ==
    LET k == key[i]
        cmd == Head(todo[i])
    IN
    /\ pc[i] = "finishing" /\ todo[i] # <<>>
    /\ entry' = [entry EXCEPT ![k] = Executed(cmd, @, i)]
    /\ lapses' = [lapses EXCEPT ![k] =
                     IF cmd = "hdel" /\ tries[i] > 1 /\ entry[k].busy THEN @ + 1 ELSE @]
    /\ todo' = [todo EXCEPT ![i] = Tail(@)]
    /\ UNCHANGED <<postgres, pc, key, tries, verdict, response>>

(* No reply: the client sends the whole pipeline again. *)
FinishRetries(i) ==
    /\ pc[i] = "finishing" /\ tries[i] < MaxTries
    /\ todo' = [todo EXCEPT ![i] =
                   IF response[i].status = "created" THEN StoreAndRelease ELSE Release]
    /\ tries' = [tries EXCEPT ![i] = @ + 1]
    /\ UNCHANGED <<redis, postgres, pc, key, verdict, response>>

(* The reply came, or the client gave up with part of the pipeline not     *)
(* run, which the middleware only logs.                                    *)
FinishEnds(i) ==
    /\ pc[i] = "finishing"
    /\ pc' = [pc EXCEPT ![i] = "over"]
    /\ todo' = [todo EXCEPT ![i] = <<>>]
    /\ tries' = [tries EXCEPT ![i] = 1]
    /\ UNCHANGED <<redis, postgres, key, verdict, response>>

----------------------------------------------------------------------------
(* Redis and the processes.                                                *)

(* The time to live of a hash runs out: thirty seconds after a claim, five *)
(* minutes after an accept.                                                *)
Expire(k) ==
    /\ entry[k].ttl
    /\ entry' = [entry EXCEPT ![k] = NoEntry]
    /\ lapses' = [lapses EXCEPT ![k] = IF entry[k].busy THEN @ + 1 ELSE @]
    /\ UNCHANGED <<postgres, pc, key, tries, verdict, todo, response>>

(* Redis restarts empty. *)
RedisRestarts ==
    /\ \E k \in Keys : entry[k] # NoEntry
    /\ entry' = [k \in Keys |-> NoEntry]
    /\ lapses' = [k \in Keys |-> IF entry[k].busy THEN lapses[k] + 1 ELSE lapses[k]]
    /\ UNCHANGED <<postgres, pc, key, tries, verdict, todo, response>>

(* auctiond is killed: nobody finishes, and the statements on their way    *)
(* may still land.                                                         *)
Crash ==
    /\ \E i \in Ids : pc[i] \notin {"idle", "over"}
    /\ pc' = [i \in Ids |-> IF pc[i] = "idle" THEN "idle" ELSE "over"]
    /\ \E sent \in SUBSET {i \in Ids : pc[i] = "engine"} : limbo' = limbo \cup sent
    /\ verdict' = [i \in Ids |-> NoVerdict]
    /\ todo' = [i \in Ids |-> <<>>]
    /\ tries' = [i \in Ids |-> 1]
    /\ UNCHANGED <<redis, bids, key, response>>

----------------------------------------------------------------------------
Claim(i) ==
    \/ ClaimRuns(i) \/ ClaimRetries(i) \/ ClaimFails(i)
    \/ Replay(i) \/ TurnAway(i) \/ Pass(i)

CallEngine(i) == EngineLands(i) \/ Accepts(i) \/ Rejects(i) \/ Fails(i)

Finish(i) == FinishStep(i) \/ FinishRetries(i) \/ FinishEnds(i)

Next ==
    \/ \E i \in Ids, k \in Keys \cup {NoKey} : Arrive(i, k)
    \/ \E i \in Ids : Claim(i) \/ CallEngine(i) \/ LimboLands(i) \/ Finish(i)
    \/ \E k \in Keys : Expire(k)
    \/ RedisRestarts
    \/ Crash

Spec == Init /\ [][Next]_vars

----------------------------------------------------------------------------
(* The promise of the key: every 201 given under one key, from the engine  *)
(* or replayed, is about one and the same bid, and that bid is durable     *)
(* under that key - whatever expires, is lost, repeated or killed between  *)
(* the requests that carry it.                                             *)
OneBidPerKey ==
    /\ \A i \in Ids : response[i].status \in {"created", "replayed"} =>
          [id |-> response[i].body, key |-> key[i]] \in bids
    /\ \A b, c \in bids : b.key = c.key /\ b.key # NoKey => b = c

(* A stored 201 outlives every pipeline that runs after it: neither a late *)
(* Finish of a request that lost its mark, nor a repeated one, replaces it *)
(* or takes it back.                                                       *)
StoredAnswerIsFinal ==
    [][\A k \in Keys :
          Stored(k) /\ todo' # todo => entry'[k].done = entry[k].done]_vars

(* The mark is a lock on the key: the engine runs two requests of one key  *)
(* side by side only when a mark expired, was lost with Redis, or was      *)
(* released by a repeated pipeline, once for each request too many.        *)
Executing(k) == {i \in Ids : key[i] = k /\ pc[i] \in {"engine", "landed"}}

DuplicatesCostAMark ==
    \A k \in Keys : Cardinality(Executing(k)) <= 1 + lapses[k]

(* "The key stays taken for 30s instead of forever": whoever took the mark *)
(* and wherever it died, whatever was repeated or lost on the way, Redis   *)
(* releases the key in the end.                                            *)
MarksExpire == \A k \in Keys : entry[k].busy => entry[k].ttl

(* What makes OneBidPerKey inductive: whatever will still answer with a    *)
(* 201, or store one - an entry, a verdict on its way, the rest of a       *)
(* pipeline, an engine that landed - speaks of a durable bid of its key.   *)
Durable(i, k) == [id |-> i, key |-> k] \in bids

StoredIsDurable == \A k \in Keys : Stored(k) => Durable(entry[k].done, k)

Honest(i) ==
    /\ pc[i] = "idle" => verdict[i].kind = "none"
    /\ pc[i] \notin {"finishing", "over"} => response[i].status = "none"
    /\ pc[i] = "landed" => Durable(i, key[i])
    /\ verdict[i].kind = "replay" => Durable(verdict[i].body, key[i])
    /\ response[i].status = "created" => response[i].body = i
    /\ "hset" \in Range(todo[i]) => response[i].status = "created"

IInv == TypeOK /\ OneBidPerKey /\ StoredIsDurable /\ \A i \in Ids : Honest(i)

----------------------------------------------------------------------------
(* The promise of the header, whatever happens between the middleware,     *)
(* Redis, the engine and Postgres: each 201 is about a durable bid of its  *)
(* own key, and a request that was refused, turned away or replayed never  *)
(* leaves a bid behind.  A request exists for KeyedBids once it arrived.   *)
Told(i) ==
    IF pc[i] = "idle" THEN [status |-> "unsent", body |-> NoBody] ELSE response[i]

Promise == INSTANCE KeyedBids WITH
    bids <- bids, key <- key, response <- [i \in Ids |-> Told(i)]

ImplementsKeyedBids == Promise!Spec
=============================================================================
