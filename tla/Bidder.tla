------------------------------- MODULE Bidder -------------------------------
(***************************************************************************)
(* The load generator, bench/bid-storm.js, in front of the service and of  *)
(* the table the checker reads: what may k6 count, over every delivery,    *)
(* loss and retry of its requests, and does cmd/checker tell a lost bid    *)
(* from it.                                                                *)
(*                                                                         *)
(* The service is KeyedBids, so what is shown here holds in front of any   *)
(* engine behind the idempotency middleware.  A logical bid is an          *)
(* iteration of a VU; its idempotency key is the iteration.  Against all   *)
(* that, and only to judge the checker, the database may lose rows that    *)
(* were committed.                                                         *)
(***************************************************************************)
EXTENDS Checker

CONSTANTS
    VUs,            \* virtual users
    Auctions,
    MaxIterations,  \* bound on the iterations of a VU
    MaxRetries,     \* MAX_RETRIES
    MaxLosses,      \* bound on the rows the database loses
    NoKey, NoBody

ASSUME VUsAreFinite == IsFiniteSet(VUs)
ASSUME MaxIterationsIsPositive == MaxIterations \in Nat \ {0}
ASSUME MaxRetriesIsPositive == MaxRetries \in Nat \ {0}
ASSUME MaxLossesIsNatural == MaxLosses \in Nat

(* duplicateMode: one logical bid in ten carries a duplicate, sent next to *)
(* its first attempt or after its accept.                                  *)
Modes == {"once", "concurrent", "replay"}

Bids == [vu: VUs, iter: 1..MaxIterations]
Ids == [bid: Bids, n: 1..MaxRetries + 1]

ASSUME NoKeyIsNoBid == NoKey \notin Bids
ASSUME NoBodyIsNoRequest == NoBody \notin Ids

VARIABLES
    rows,       \* table bids, as cmd/checker finds it
    lost,       \* committed rows that the database lost
    key,        \* per request, its X-Idempotency-Key
    response,   \* per request, what the service tells
    plan,       \* per logical bid, its auction and its mode
    vu,         \* per VU, where its loop is
    ends,       \* per logical bid, how it ended
    c,          \* the counters, as client.json reports them
    cut         \* SIGINT ended the load: env.json says interrupted

k6 == <<plan, vu, ends, c, cut>>
vars == <<rows, lost, key, response, k6>>

Committed == rows \cup lost

Service ==
    INSTANCE KeyedBids WITH
        Keys <- Bids,
        bids <- {[id |-> b.id, key |-> b.key] : b \in Committed},
        key <- key, response <- response

Counters ==
    {"accepted", "maxSeqSeen", "error", "attempts", "replayed", "inFlight",
     "selected", "injected", "closed", "invalid"}

(* "batch": the second request of a batch is due.  "demonstrating": the    *)
(* replay is due, or was sent.                                             *)
Steps == {"ready", "batch", "waiting", "demonstrating", "over"}
Ends == {"open", "accepted", "terminal", "exhausted", "abandoned"}

TypeOK ==
    /\ rows \subseteq [id: Ids, key: Bids, auction: Auctions, seq: Nat]
    /\ lost \subseteq [id: Ids, key: Bids, auction: Auctions, seq: Nat]
    /\ key \in [Ids -> Bids \cup {NoKey}]
    /\ \A i \in Ids : response[i].body \in Ids \cup {NoBody}
    /\ plan \in [Bids -> [auction: Auctions, mode: Modes]]
    /\ vu \in [VUs -> [pc: Steps, iter: 1..MaxIterations, attempt: 0..MaxRetries,
                       sent: 0..MaxRetries + 1, out: SUBSET Ids]]
    /\ \A v \in VUs : \A i \in vu[v].out : key[i].vu = v /\ key[i].iter = vu[v].iter
    /\ ends \in [Bids -> Ends]
    /\ c \in [Counters -> Nat]
    /\ cut \in BOOLEAN

Fresh == [pc |-> "ready", iter |-> 1, attempt |-> 0, sent |-> 0, out |-> {}]

Init ==
    /\ rows = {} /\ lost = {}
    /\ Service!Init
    /\ plan \in [Bids -> [auction: Auctions, mode: Modes]]
    /\ vu = [v \in VUs |-> Fresh]
    /\ ends = [b \in Bids |-> "open"]
    /\ c = [x \in Counters |-> 0]
    /\ cut = FALSE

----------------------------------------------------------------------------
(* One iteration of a VU.                                                  *)

Current(v) == [vu |-> v, iter |-> vu[v].iter]
Mode(v) == plan[Current(v)].mode
NextId(v) == [bid |-> Current(v), n |-> vu[v].sent + 1]

(* Mutant: a key per request. *)
KeyPerRequest(i) == [vu |-> i.bid.vu, iter |-> i.n]

(* bidKey: one key per logical bid, whatever is sent for it. *)
BidKey(i) == i.bid

(* Counts n samples more of each counter of ns. *)
Plus(ns) == [x \in Counters |-> c[x] + IF x \in DOMAIN ns THEN ns[x] ELSE 0]

Sends(v, step) ==
    /\ UNCHANGED <<rows, lost>>
    /\ Service!Send(NextId(v), BidKey(NextId(v)))
    /\ vu' = [vu EXCEPT ![v].pc = step, ![v].sent = @ + 1,
                        ![v].out = @ \cup {NextId(v)}]

(* The head of the retry loop and http.post, or the first half of          *)
(* http.batch.                                                             *)
Attempt(v) ==
    LET first == vu[v].attempt = 0
        doubles == first /\ Mode(v) = "concurrent" IN
    /\ vu[v].pc = "ready" /\ vu[v].attempt < MaxRetries
    /\ Sends(v, IF doubles THEN "batch" ELSE "waiting")
    /\ c' = Plus([attempts |-> 1,
                  selected |-> IF first /\ Mode(v) # "once" THEN 1 ELSE 0,
                  injected |-> IF doubles THEN 1 ELSE 0])
    /\ UNCHANGED <<plan, ends, cut>>

Duplicate(v) ==
    /\ vu[v].pc = "batch"
    /\ Sends(v, "waiting")
    /\ UNCHANGED <<plan, ends, c, cut>>

(* demonstrateReplay sends the accepted request once more. *)
PostReplay(v) ==
    /\ vu[v].pc = "demonstrating" /\ vu[v].out = {}
    /\ Sends(v, "demonstrating")
    /\ c' = Plus([injected |-> 1])
    /\ UNCHANGED <<plan, ends, cut>>

(* The next iteration of the scenario, if it has time for one. *)
Leaves(v) ==
    vu' = [vu EXCEPT ![v] =
              IF @.iter < MaxIterations THEN [Fresh EXCEPT !.iter = vu[v].iter + 1]
              ELSE [Fresh EXCEPT !.iter = vu[v].iter, !.pc = "over"]]

(* The requests that are answered; the others time out, or lose their      *)
(* answer: status 0.                                                       *)
Heard(v) == {i \in vu[v].out : response[i] # Service!Unanswered}

OfStatus(S, status) == {i \in S : response[i].status = status}
Wins(S) == OfStatus(S, "created") \cup OfStatus(S, "replayed")

(* Mutant: a request without an answer goes uncounted. *)
ErrorsAnswered(v, S) == Cardinality(OfStatus(S, "unavailable"))

(* errored of a batch: the 503s, and status 0. *)
Errors(v, S) == Cardinality(OfStatus(S, "unavailable")) + Cardinality(vu[v].out \ S)

(* Mutant: each 201 of a batch is an accept. *)
AcceptsEach(S) == Cardinality(Wins(S))

(* Of the 201s of a batch one is the accept of the logical bid. *)
Accepts(S) == IF Wins(S) = {} THEN 0 ELSE 1

(* seq, in the body of a 201. *)
SeqOf(i) == (CHOOSE b \in Committed : b.id = response[i].body).seq

(* reduceResponses, over the answers of S; the bids of shut were refused   *)
(* with 410.  The refusals with 409 and 422 are only retried.              *)
Reduce(v, S, shut) ==
    LET first == CHOOSE i \in Wins(S) : \A j \in Wins(S) : i.n <= j.n
        seq == IF Wins(S) = {} THEN 0 ELSE SeqOf(first)
    IN c' = [Plus([accepted |-> Accepts(S), error |-> Errors(v, S),
                   replayed |-> Cardinality(OfStatus(S, "replayed")),
                   inFlight |-> Cardinality(OfStatus(S, "early")),
                   closed |-> Cardinality(shut)])
             EXCEPT !.maxSeqSeen = Max({c.maxSeqSeen, seq})]

Accepted(v, S, shut) ==
    /\ Wins(S) # {}
    /\ Reduce(v, S, shut)
    /\ ends' = [ends EXCEPT ![Current(v)] = "accepted"]
    /\ IF Mode(v) = "replay"
       THEN vu' = [vu EXCEPT ![v].pc = "demonstrating", ![v].out = {}]
       ELSE Leaves(v)

Terminal(S, shut) == shut # {} \/ OfStatus(S, "unavailable") # {}

Terminates(v, S, shut) ==
    /\ Wins(S) = {} /\ Terminal(S, shut)
    /\ Reduce(v, S, shut)
    /\ ends' = [ends EXCEPT ![Current(v)] = "terminal"]
    /\ Leaves(v)

Retries(v, S) ==
    /\ Wins(S) = {} /\ ~Terminal(S, {})
    /\ Reduce(v, S, {})
    /\ vu' = [vu EXCEPT ![v].pc = "ready", ![v].attempt = @ + 1, ![v].out = {}]
    /\ UNCHANGED ends

Receive(v) ==
    /\ vu[v].pc = "waiting"
    /\ \/ \E shut \in SUBSET OfStatus(Heard(v), "rejected") :
             Accepted(v, Heard(v), shut) \/ Terminates(v, Heard(v), shut)
       \/ Retries(v, Heard(v))
    /\ UNCHANGED <<rows, lost, key, response, plan, cut>>

(* Whatever is not a replay of the same body is an error. *)
ReceiveReplay(v) ==
    /\ vu[v].pc = "demonstrating" /\ vu[v].out # {}
    /\ LET replays == Cardinality(OfStatus(Heard(v), "replayed")) IN
       c' = Plus([replayed |-> replays, error |-> 1 - replays,
                  inFlight |-> Cardinality(OfStatus(Heard(v), "early"))])
    /\ Leaves(v)
    /\ UNCHANGED <<rows, lost, key, response, plan, ends, cut>>

(* MAX_RETRIES, or BID_DEADLINE. *)
Exhaust(v) ==
    /\ vu[v].pc = "ready" /\ vu[v].attempt > 0
    /\ ends' = [ends EXCEPT ![Current(v)] = "exhausted"]
    /\ Leaves(v)
    /\ UNCHANGED <<rows, lost, key, response, plan, c, cut>>

(* The load ends with iterations in flight: the gracefulStop of the        *)
(* scenario runs out, or the budget of the harness does (sigint).          *)
Stop(sigint) ==
    /\ \E v \in VUs : vu[v].pc # "over"
    /\ vu' = [v \in VUs |-> [vu[v] EXCEPT !.pc = "over", !.out = {}]]
    /\ ends' = [b \in Bids |->
                   IF /\ ends[b] = "open" /\ b = Current(b.vu)
                      /\ vu[b.vu].attempt > 0 \/ vu[b.vu].out # {}
                   THEN "abandoned" ELSE ends[b]]
    /\ cut' = sigint
    /\ UNCHANGED <<rows, lost, key, response, plan, c>>

----------------------------------------------------------------------------
(* The service and the database.                                           *)

Seqs(a) == {b.seq : b \in {r \in rows : r.auction = a}}

(* A bid is committed, with the next seq of its auction. *)
Land(i) ==
    LET a == plan[i.bid].auction IN
    /\ response[i] # Service!Unsent
    /\ rows' = rows \cup {[id |-> i, key |-> key[i], auction |-> a,
                           seq |-> 1 + Max({0} \cup Seqs(a))]}
    /\ lost' = lost
    /\ Service!Land(i)
    /\ UNCHANGED k6

(* An answer that nobody waits for any more is not told.                   *)
Answer(i) ==
    /\ i \in vu[i.bid.vu].out
    /\ UNCHANGED <<rows, lost, k6>>
    /\ \/ Service!Create(i) \/ Service!Fail(i)
       \/ \E body \in Ids : Service!Replay(i, body)
       \/ \E status \in {"early", "rejected"} : Service!Refuse(i, status)

(* The database loses the last row of an auction. *)
Lose(b) ==
    /\ Cardinality(lost) < MaxLosses
    /\ b.seq = Max(Seqs(b.auction))
    /\ rows' = rows \ {b}
    /\ lost' = lost \cup {b}
    /\ UNCHANGED <<key, response, k6>>

Over == \A v \in VUs : vu[v].pc = "over"

(* The cell is over, its requests may still run. *)
Next ==
    \/ \E v \in VUs :
          \/ Attempt(v) \/ Duplicate(v) \/ Receive(v)
          \/ PostReplay(v) \/ ReceiveReplay(v) \/ Exhaust(v)
    \/ \E sigint \in BOOLEAN : Stop(sigint)
    \/ \E i \in Ids : Land(i) \/ Answer(i)
    \/ \E b \in rows : Lose(b)

Spec == Init /\ [][Next]_vars

----------------------------------------------------------------------------
(* Properties.                                                             *)

OfEnd(e) == {b \in Bids : ends[b] = e}

(* I5 never cries wolf: as long as the database keeps what it committed,   *)
(* it is not behind what the clients were told, in count or in watermark,  *)
(* whatever was duplicated, lost, retried or interrupted on the way        *)
(* (client.go:131, :150, bid-storm.js:216).                                *)
NoFalseLoss ==
    lost = {} => Durability(rows, c, TRUE) # "FAIL"

(* I5 tells a loss from chaos and from an interruption: more confirmed     *)
(* bids gone than there were errors and abandoned iterations is a failure  *)
(* under any excuse (client.go:124, :171).                                 *)
LossIsReported ==
    LET confirmed == {b \in lost : ends[b.key] = "accepted"} IN
    /\ Over
    /\ Cardinality(confirmed) > c.error + Cardinality(OfEnd("abandoned"))
    => \A excuse \in BOOLEAN : Durability(rows, c, excuse) = "FAIL"

(* Transport recovery makes every durable write observable: a cell that    *)
(* lost nothing, abandoned nothing, and whose bids were all accepted or    *)
(* met no error, satisfies I1, I5 and I7 without an excuse; and without an *)
(* error, and with a replay seen, it is green (client.go:171, main.go:     *)
(* execute).                                                               *)
CleanCellPasses ==
    LET verdicts == {Density(rows), OneKeyEach(rows, NoKey),
                     Durability(rows, c, FALSE)} IN
    /\ Over /\ lost = {} /\ OfEnd("abandoned") = {}
    /\ c.error = 0 \/ Bids = OfEnd("accepted")
    => /\ verdicts = {"OK"}
       /\ c.error = 0 /\ c.replayed > 0 =>
            Execute("intact",
                    verdicts \cup {CellValidity(c, FALSE, FALSE, FALSE)}) = ExitOK
=============================================================================
