------------------------------- MODULE Closing -------------------------------
(***************************************************************************)
(* The closing of expired auctions: the sweep of auctiond                  *)
(* (internal/closing.Expirer) publishes to a Redis stream                  *)
(* (internal/stream) the ids of auctions that are open and expired, and    *)
(* the one loop of closerd (stream.Consumer) reads them and closes their   *)
(* rows (closing.Materializer).                                            *)
(*                                                                         *)
(* Entries are delivered again after a kill, a failure or a lost           *)
(* acknowledgement, lost with Redis, and trimmed from the stream whether   *)
(* they were delivered or not.  The sweep goes on publishing what stays    *)
(* open and expired, at most once per suppression window.                  *)
(***************************************************************************)
EXTENDS Integers, Sequences, FiniteSets, Bags

CONSTANTS
    Auctions,
    Malformed,  \* payloads that parse refuses, one for each such entry
    EndsAt,     \* auctions.ends_at
    NotClosed,  \* auctions.closed_at IS NULL
    NoMessage,
    Limit,      \* LIMIT of expiredSQL
    MaxLen,     \* maxLen of the stream
    ReadCount,  \* readCount
    MaxClock,   \* bound on the database clock
    MaxFaults   \* bound on the failures of one behaviour

ASSUME MalformedIsNoAuction == Malformed \cap Auctions = {}
ASSUME NoMessageIsNoPayload == NoMessage \notin Auctions \cup Malformed
ASSUME EndsAtIsAnInstant == EndsAt \in Nat /\ MaxClock \in Nat
ASSUME NotClosedIsNoInstant == NotClosed \notin Nat
ASSUME BoundsArePositive == {Limit, MaxLen, ReadCount} \subseteq Nat \ {0}
ASSUME FaultsAreCounted == MaxFaults \in Nat

VARIABLES
    auctions,   \* table auctions
    clock,      \* the database clock
    window,     \* per auction, its place in Expirer.published
    pass,       \* where scan is
    found,      \* ids this pass still has to publish
    group,      \* the consumer group exists
    backlog,    \* entries no consumer was given
    left,       \* entries given to a consumer that handles them no more
    idle,       \* those of them nobody touched for claimMinIdle
    settled,    \* how many entries of the stream are pending no more
    ghosts,     \* how many pending ids have no entry in the stream
    dead,       \* payloads the dead letter stream was given
    at,         \* where the loop of closerd is
    midway,     \* its cursor into the pending list is not at the start
    hand,       \* entries of the last read or claim not handled yet
    listed,     \* Redis has them in the pending list of the group
    torn,       \* those of them the stream has trimmed since
    msg,        \* the one being handled
    step,       \* where handle is
    limbo,      \* UPDATEs nobody waits for that may still run
    faults      \* failures so far

sweep == <<window, pass, found>>
kept == <<left, idle, settled, ghosts>>
stream == <<group, backlog, kept, dead>>
loop == <<at, midway, hand, listed, msg, step>>
closerd == <<loop, torn>>
vars == <<auctions, clock, window, pass, found, group, backlog, left, idle, settled,
          ghosts, dead, at, midway, hand, listed, torn, msg, step, limbo, faults>>

Payload == Auctions \cup Malformed

(* "gone": removed by the reset between two cells of the benchmark.        *)
AuctionRow == [status: {"absent", "open", "closed", "gone"}, closed: Nat \cup {NotClosed}]

(* An entry is its payload; two of the same payload are two copies in a    *)
(* bag.  The payloads under the ids of the pending list: what was left is  *)
(* in the stream, what is in the hand is in closerd's memory as well.      *)
Pending == left (+) idle (+) IF listed THEN hand ELSE EmptyBag

One(what) == SetToBag({what})

BagOf(seq) ==
    [e \in {seq[i] : i \in DOMAIN seq} |-> Cardinality({i \in DOMAIN seq : seq[i] = e})]

PayloadBag(bag) == IsABag(bag) /\ BagToSet(bag) \subseteq Payload

(* The entries of a bag, each copy by itself, and how many there are.      *)
Entries(bag) == UNION {{what} \X (1..bag[what]) : what \in BagToSet(bag)}
Size(bag) == Cardinality(Entries(bag))

TypeOK ==
    /\ auctions \in [Auctions -> AuctionRow]
    /\ clock \in 0..MaxClock
    /\ window \in [Auctions -> {"out", "fresh", "old"}]
    /\ pass \in {"idle", "ensured", "publishing"}
    /\ found \subseteq Auctions
    /\ group \in BOOLEAN
    /\ backlog \in Seq(Payload) /\ Len(backlog) <= MaxLen
    /\ PayloadBag(left) /\ PayloadBag(idle)
    /\ settled \in Nat /\ ghosts \in Nat
    /\ dead \subseteq Payload
    /\ at \in {"down", "claim", "read", "work"}
    /\ midway \in BOOLEAN
    /\ PayloadBag(hand) /\ Size(hand) <= ReadCount
    /\ listed \in BOOLEAN
    /\ PayloadBag(torn) /\ torn \sqsubseteq hand
    /\ msg \in BagToSet(hand) \cup {NoMessage}
    /\ step \in {"none", "close", "classify", "bury", "ack"}
    /\ limbo \subseteq Auctions
    /\ faults \in 0..MaxFaults

Init ==
    /\ auctions = [a \in Auctions |-> [status |-> "absent", closed |-> NotClosed]]
    /\ clock = 0
    /\ window = [a \in Auctions |-> "out"]
    /\ pass = "idle"
    /\ found = {}
    /\ group = FALSE
    /\ backlog = <<>>
    /\ left = EmptyBag
    /\ idle = EmptyBag
    /\ settled = 0
    /\ ghosts = 0
    /\ dead = {}
    /\ at = "claim"
    /\ midway = FALSE
    /\ hand = EmptyBag
    /\ listed = FALSE
    /\ torn = EmptyBag
    /\ msg = NoMessage
    /\ step = "none"
    /\ limbo = {}
    /\ faults = 0

Fault == faults < MaxFaults /\ faults' = faults + 1

----------------------------------------------------------------------------
(* Expirer.scan, one pass per tick.                                        *)

Open(a) == auctions[a].status = "open"
Expired(a) == Open(a) /\ clock >= EndsAt

(* Mutant: the group is created at boot only. *)
EnsureNothing ==
    /\ pass = "idle"
    /\ pass' = "ensured"
    /\ UNCHANGED <<auctions, clock, window, found, stream, closerd, limbo, faults>>

EnsureGroup ==
    /\ pass = "idle"
    /\ pass' = "ensured"
    /\ group' = TRUE
    /\ UNCHANGED <<auctions, clock, window, found, backlog, kept, dead,
                   closerd, limbo, faults>>

(* Mutant: the window is never pruned. *)
PrunedNever == window

(* Ids that have been in the window for suppressFor leave it. *)
Pruned == [a \in Auctions |-> IF window[a] = "old" THEN "out" ELSE window[a]]

(* The query, the pruning, and the ids the window does not suppress.  Ties *)
(* in ends_at come in any order.                                           *)
Query ==
    /\ pass = "ensured"
    /\ pass' = "publishing"
    /\ window' = Pruned
    /\ \E rows \in SUBSET {a \in Auctions : Expired(a)} :
          /\ \/ Cardinality(rows) = Limit
             \/ Cardinality(rows) < Limit /\ rows = {a \in Auctions : Expired(a)}
          /\ found' = {a \in rows : window'[a] = "out"}
    /\ UNCHANGED <<auctions, clock, stream, closerd, limbo, faults>>

(* The database does not answer: this pass is over. *)
QueryFails ==
    /\ pass = "ensured"
    /\ Fault
    /\ pass' = "idle"
    /\ UNCHANGED <<auctions, clock, window, found, stream, closerd, limbo>>

(* What is in the stream of the hand, and the length of the stream.        *)
Held == IF listed THEN hand (-) torn ELSE EmptyBag
XLen == settled + Size(left) + Size(idle) + Size(Held) + Len(backlog)

(* The oldest entry goes.  It is one that was delivered, acknowledged or   *)
(* not, if there is one; an id in the pending list stays there without it. *)
TrimDelivered ==
    \/ /\ settled > 0
       /\ settled' = settled - 1
       /\ UNCHANGED <<left, idle, ghosts, torn>>
    \/ \E what \in BagToSet(left) :
          /\ left' = left (-) One(what)
          /\ ghosts' = ghosts + 1
          /\ UNCHANGED <<idle, settled, torn>>
    \/ \E what \in BagToSet(idle) :
          /\ idle' = idle (-) One(what)
          /\ ghosts' = ghosts + 1
          /\ UNCHANGED <<left, settled, torn>>
    \/ \E what \in BagToSet(Held) :
          /\ torn' = torn (+) One(what)
          /\ UNCHANGED kept

(* Mutant: without MAXLEN. *)
AddUntrimmed(what) ==
    /\ backlog' = IF group THEN Append(backlog, what) ELSE backlog
    /\ UNCHANGED <<kept, torn>>

(* XADD with MAXLEN.  A stream without a group keeps the entry from the    *)
(* group that will be created at its end.                                  *)
Add(what) ==
    \/ /\ ~group
       /\ settled' = IF settled < MaxLen THEN settled + 1 ELSE settled
       /\ UNCHANGED <<backlog, left, idle, ghosts, torn>>
    \/ /\ group /\ Len(backlog) < MaxLen
       /\ backlog' = Append(backlog, what)
       /\ IF XLen < MaxLen THEN UNCHANGED <<kept, torn>> ELSE TrimDelivered
    \/ /\ group /\ Len(backlog) = MaxLen
       /\ backlog' = Append(Tail(backlog), what)
       /\ UNCHANGED <<kept, torn>>

Publish(a) ==
    /\ a \in found
    /\ Add(a)
    /\ window' = [window EXCEPT ![a] = "fresh"]
    /\ found' = found \ {a}
    /\ UNCHANGED <<auctions, clock, pass, group, dead, loop, limbo, faults>>

(* The XADD fails, with or without an entry in the stream. *)
PublishFails(a) ==
    /\ a \in found
    /\ Fault
    /\ Add(a) \/ UNCHANGED <<backlog, kept, torn>>
    /\ found' = found \ {a}
    /\ UNCHANGED <<auctions, clock, window, pass, group, dead, loop, limbo>>

PassEnds ==
    /\ pass = "publishing" /\ found = {}
    /\ pass' = "idle"
    /\ UNCHANGED <<auctions, clock, window, found, stream, closerd, limbo, faults>>

(* suppressFor passes. *)
Age(a) ==
    /\ window[a] = "fresh"
    /\ window' = [window EXCEPT ![a] = "old"]
    /\ UNCHANGED <<auctions, clock, pass, found, stream, closerd, limbo, faults>>

----------------------------------------------------------------------------
(* Consumer.Run.                                                           *)

Takes(entries) ==
    /\ hand' = entries
    /\ torn' = EmptyBag
    /\ listed' = TRUE
    /\ at' = "work"
    /\ UNCHANGED <<msg, step>>

(* Mutant: an entry is claimed once, and never when it is left again. *)
ClaimNothing ==
    /\ at = "claim" /\ group
    /\ at' = "read"
    /\ UNCHANGED <<auctions, clock, sweep, stream, midway, hand, listed, torn, msg, step, limbo, faults>>

(* Some of the idle entries, at most readCount. *)
Claimable ==
    {some \in UNION {[what -> 1..ReadCount] : what \in SUBSET BagToSet(idle)} :
        some \sqsubseteq idle /\ Size(some) <= ReadCount}

(* What XAUTOCLAIM goes through: it hands over idle entries, and drops     *)
(* from the pending list the ids whose entry was trimmed; both count.      *)
Passes(some, lost) ==
    /\ Size(some) + lost <= ReadCount
    /\ idle' = idle (-) some
    /\ ghosts' = ghosts - lost

(* XAUTOCLAIM, and on to the read when it handed nothing over.  The cursor *)
(* of a full reply hides what it passed from the next claim, that starts   *)
(* over.  It needs the group; without it the loop pauses here.             *)
Claim ==
    /\ at = "claim" /\ group
    /\ \E some \in Claimable, lost \in 0..ghosts :
          /\ Passes(some, lost)
          /\ midway' \in {FALSE, Size(some) + lost = ReadCount}
          /\ (some = idle /\ lost = ghosts) \/ midway \/ midway'
          /\ \/ some # EmptyBag /\ Takes(some)
             \/ /\ some = EmptyBag
                /\ at' = "read"
                /\ UNCHANGED <<hand, listed, torn, msg, step>>
    /\ UNCHANGED <<auctions, clock, sweep, group, backlog, left, settled, dead, limbo, faults>>

(* The reply of XAUTOCLAIM is lost: what it claimed is idle no more. *)
ClaimLost ==
    /\ at = "claim" /\ group
    /\ Fault
    /\ \E some \in Claimable, lost \in 0..ghosts :
          /\ Passes(some, lost)
          /\ left' = left (+) some
    /\ UNCHANGED <<auctions, clock, sweep, group, backlog, settled, dead, closerd, limbo>>

Given == IF Len(backlog) < ReadCount THEN Len(backlog) ELSE ReadCount

Delivered == BagOf(SubSeq(backlog, 1, Given))
Undelivered == SubSeq(backlog, Given + 1, Len(backlog))

(* XREADGROUP, and back to the claim when the block ends with nothing to   *)
(* read or the group is missing.                                           *)
Read ==
    /\ at = "read"
    /\ \/ /\ backlog = <<>>
          /\ at' = "claim"
          /\ UNCHANGED <<backlog, hand, listed, torn, msg, step>>
       \/ /\ backlog # <<>>
          /\ backlog' = Undelivered
          /\ Takes(Delivered)
    /\ UNCHANGED <<auctions, clock, sweep, midway, group, kept, dead, limbo, faults>>

(* The reply of XREADGROUP is lost: delivered, to nobody. *)
ReadLost ==
    /\ at = "read" /\ backlog # <<>>
    /\ Fault
    /\ left' = left (+) Delivered
    /\ backlog' = Undelivered
    /\ at' = "claim"
    /\ UNCHANGED <<auctions, clock, sweep, group, idle, settled, ghosts, dead, midway, hand,
                   listed, torn, msg, step, limbo>>

(* process: the next message, in the order of the model's choice. *)
Handle(what) ==
    /\ at = "work" /\ msg = NoMessage /\ BagIn(what, hand)
    /\ msg' = what
    /\ step' = IF what \in Malformed THEN "bury" ELSE "close"
    /\ UNCHANGED <<auctions, clock, sweep, stream, at, midway, hand, listed, torn, limbo, faults>>

(* handle returned.  Without an acknowledgement the id stays pending, with *)
(* its entry if the stream still has it; an entry acknowledged stays in    *)
(* the stream.  A flush took the id of a message in hand too.              *)
Done(acknowledged) ==
    /\ hand' = hand (-) One(msg)
    /\ msg' = NoMessage
    /\ step' = "none"
    /\ at' = IF hand' = EmptyBag THEN "claim" ELSE "work"
    /\ \/ /\ BagIn(msg, Held)
          /\ left' = IF acknowledged THEN left ELSE left (+) One(msg)
          /\ settled' = IF acknowledged THEN settled + 1 ELSE settled
          /\ UNCHANGED <<ghosts, torn>>
       \/ /\ BagIn(msg, torn)
          /\ torn' = torn (-) One(msg)
          /\ ghosts' = IF acknowledged THEN ghosts ELSE ghosts + 1
          /\ UNCHANGED <<left, settled>>
       \/ ~listed /\ UNCHANGED <<left, settled, ghosts, torn>>
    /\ UNCHANGED <<midway, listed, idle>>

GoesOn(next) == step' = next /\ UNCHANGED <<at, midway, hand, listed, torn, msg, kept>>

(* Mutant: without status = 'open'. *)
ClosesAgain(a) == auctions[a].status \in {"open", "closed"} /\ clock >= EndsAt

(* Mutant: without ends_at <= clock_timestamp(). *)
ClosesEarly(a) == Open(a)

(* The WHERE of closeSQL. *)
Closes(a) == Open(a) /\ clock >= EndsAt

Stamp(a) == auctions' = [auctions EXCEPT ![a] = [status |-> "closed", closed |-> clock]]

(* closeSQL. *)
CloseRow ==
    /\ step = "close"
    /\ \/ Closes(msg) /\ Stamp(msg) /\ GoesOn("ack")
       \/ ~Closes(msg) /\ GoesOn("classify") /\ UNCHANGED auctions
    /\ UNCHANGED <<clock, sweep, group, backlog, dead, limbo, faults>>

(* classifySQL: already closed, gone or early end the message.  A row that *)
(* is open and expired by now does not, and the entry is left pending.     *)
Classify ==
    /\ step = "classify"
    /\ \/ ~Expired(msg) /\ GoesOn("ack")
       \/ Expired(msg) /\ Done(FALSE)
    /\ UNCHANGED <<auctions, clock, sweep, group, backlog, dead, limbo, faults>>

(* Mutant: the acknowledgement does not wait for the dead letter. *)
BuryLater ==
    /\ step = "bury"
    /\ GoesOn("ack")
    /\ UNCHANGED <<auctions, clock, sweep, group, backlog, dead, limbo, faults>>

(* The XADD to the dead letter stream. *)
Bury ==
    /\ step = "bury"
    /\ dead' = dead \cup {msg}
    /\ GoesOn("ack")
    /\ UNCHANGED <<auctions, clock, sweep, group, backlog, limbo, faults>>

Ack ==
    /\ step = "ack"
    /\ Done(TRUE)
    /\ UNCHANGED <<auctions, clock, sweep, group, backlog, dead, limbo, faults>>

(* Postgres or Redis fails under handle, and the message is left behind;   *)
(* what handle was doing may have been done, or be done later.             *)
HandleFails ==
    /\ msg # NoMessage
    /\ Fault
    /\ \/ Done(FALSE) /\ UNCHANGED <<dead, limbo>>
       \/ step = "close" /\ limbo' = limbo \cup {msg} /\ Done(FALSE) /\ UNCHANGED dead
       \/ step = "bury" /\ dead' = dead \cup {msg} /\ Done(FALSE) /\ UNCHANGED limbo
       \/ step = "ack" /\ Done(TRUE) /\ UNCHANGED <<dead, limbo>>
    /\ UNCHANGED <<auctions, clock, sweep, group, backlog>>

LimboCloses(a) ==
    /\ a \in limbo
    /\ limbo' = limbo \ {a}
    /\ \/ Closes(a) /\ Stamp(a)
       \/ ~Closes(a) /\ UNCHANGED auctions
    /\ UNCHANGED <<clock, sweep, stream, closerd, faults>>

Leaves ==
    /\ at' = "down"
    /\ midway' = FALSE
    /\ hand' = EmptyBag
    /\ torn' = EmptyBag
    /\ left' = left (+) Held
    /\ ghosts' = ghosts + Size(torn)
    /\ msg' = NoMessage
    /\ step' = "none"
    /\ UNCHANGED <<listed, idle, settled>>

(* SIGTERM: the message in hand is finished, the rest is left. *)
Stop ==
    /\ at # "down" /\ msg = NoMessage
    /\ Fault
    /\ Leaves
    /\ UNCHANGED <<auctions, clock, sweep, group, backlog, dead, limbo>>

Kill ==
    /\ at # "down" /\ msg # NoMessage
    /\ Fault
    /\ Leaves
    /\ limbo' \in {limbo, limbo \cup IF step = "close" THEN {msg} ELSE {}}
    /\ UNCHANGED <<auctions, clock, sweep, group, backlog, dead>>

(* closerd is started again, under another name in the group. *)
Boot ==
    /\ at = "down"
    /\ at' = "claim"
    /\ UNCHANGED <<auctions, clock, sweep, stream, midway, hand, listed, torn, msg, step, limbo, faults>>

(* claimMinIdle passes for an entry nobody touches. *)
GrowIdle(what) ==
    /\ BagIn(what, left)
    /\ left' = left (-) One(what)
    /\ idle' = idle (+) One(what)
    /\ UNCHANGED <<auctions, clock, sweep, group, backlog, settled, ghosts, dead,
                   closerd, limbo, faults>>

----------------------------------------------------------------------------
(* The surroundings.                                                       *)

(* Redis restarts empty, or the reset between two cells flushes it. *)
Flush ==
    /\ group
    /\ Fault
    /\ group' = FALSE
    /\ backlog' = <<>>
    /\ left' = EmptyBag /\ idle' = EmptyBag /\ dead' = {}
    /\ settled' = 0 /\ ghosts' = 0
    /\ listed' = FALSE /\ torn' = EmptyBag
    /\ UNCHANGED <<auctions, clock, sweep, at, midway, hand, msg, step, limbo>>

(* auctiond is killed and boots: the window is the process's own, and the  *)
(* boot ensures the group too.                                             *)
AuctiondRestarts ==
    /\ Fault
    /\ pass' = "idle"
    /\ found' = {}
    /\ window' = [a \in Auctions |-> "out"]
    /\ group' = TRUE
    /\ UNCHANGED <<auctions, clock, backlog, kept, dead, closerd, limbo>>

(* An entry that the sweep did not write: malformed, or before its time.   *)
(* A malformed payload is that of one entry, so that each is told apart.   *)
Fabricate(what) ==
    /\ group
    /\ what \in Malformed =>
          /\ what \notin dead /\ what \notin {backlog[i] : i \in DOMAIN backlog}
          /\ ~BagIn(what, left (+) idle (+) hand)
    /\ Fault
    /\ Add(what)
    /\ UNCHANGED <<auctions, clock, sweep, group, dead, loop, limbo>>

Create(a) ==
    /\ auctions[a].status = "absent"
    /\ auctions' = [auctions EXCEPT ![a].status = "open"]
    /\ UNCHANGED <<clock, sweep, stream, closerd, limbo, faults>>

(* The TRUNCATE of the reset between two cells. *)
Truncate ==
    /\ Fault
    /\ auctions' = [a \in Auctions |-> [status |-> "gone", closed |-> NotClosed]]
    /\ UNCHANGED <<clock, sweep, stream, closerd, limbo>>

Tick ==
    /\ clock < MaxClock
    /\ clock' = clock + 1
    /\ UNCHANGED <<auctions, sweep, stream, closerd, limbo, faults>>

----------------------------------------------------------------------------
Scan == EnsureGroup \/ Query \/ (\E a \in Auctions : Publish(a)) \/ PassEnds

Consume ==
    \/ Claim \/ Read \/ (\E what \in Payload : Handle(what))
    \/ CloseRow \/ Classify \/ Bury \/ Ack

Faulty ==
    \/ \E a \in Auctions : PublishFails(a)
    \/ QueryFails \/ ReadLost \/ ClaimLost \/ HandleFails \/ Stop \/ Kill \/ Flush \/ AuctiondRestarts \/ Truncate
    \/ \E what \in Payload : Fabricate(what)

Next ==
    \/ Scan \/ Consume \/ Boot \/ Faulty
    \/ \E a \in Auctions : Age(a) \/ LimboCloses(a) \/ Create(a)
    \/ \E what \in Payload : GrowIdle(what)
    \/ Tick

Spec == Init /\ [][Next]_vars

(* The ticker of the sweep and the loop of closerd always run again, the   *)
(* two windows are real time, and somebody starts a closerd that ended.    *)
(* Failures end (MaxFaults): neither half promises progress during one.    *)
FairSpec ==
    /\ Spec
    /\ WF_vars(Scan) /\ WF_vars(Consume) /\ WF_vars(Boot)
    /\ \A a \in Auctions : WF_vars(Age(a))
    /\ \A what \in Payload : WF_vars(GrowIdle(what))

----------------------------------------------------------------------------
(* "Incapable of closing early, whatever the message says": no repetition, *)
(* fabrication or delay of a message closes an auction before its end.     *)
NeverClosedEarly ==
    \A a \in Auctions : auctions[a].status = "closed" => auctions[a].closed >= EndsAt

(* "closed_at never moves": the second delivery, the second process or the *)
(* statement of a dead one find the row closed.                            *)
ClosedAtNeverMoves ==
    [][\A a \in Auctions : auctions[a].status = "closed" =>
          auctions'[a] = auctions[a] \/ auctions'[a].status = "gone"]_vars

Copies(what, bag) == IF BagIn(what, bag) THEN bag[what] ELSE 0
FewerPending(what) == Copies(what, Pending') < Copies(what, Pending)

(* "The dead letter is the only place this entry may end, and losing it    *)
(* silently would erase the evidence": a malformed entry leaves the group  *)
(* only after its payload reached the dead letter stream.                  *)
MalformedIsBuried ==
    [][\A what \in Malformed : FewerPending(what) /\ group' => what \in dead']_vars

(* What the code gives: whatever fails in between, a malformed entry that  *)
(* was delivered is lost unburied only when the stream trimmed it, and its *)
(* id is then pending without an entry.                                    *)
BuriedOrTrimmed ==
    [][\A what \in Malformed :
          FewerPending(what) /\ group' => what \in dead' \/ ghosts' > ghosts]_vars

(* "A lost entry, a restarted Redis and a recreated group all heal with no *)
(* recovery code": once failures end, an auction that is open and expired  *)
(* is closed.                                                              *)
ExpiredIsClosed == \A a \in Auctions : Expired(a) ~> ~Open(a)

(* What was delivered is acknowledged in the end, in whosever hand it was, *)
(* or dropped with its entry: the pending list is not non-empty for good.  *)
NothingPending == Pending = EmptyBag /\ ghosts = 0
PendingIsDrained == ~NothingPending ~> NothingPending

=============================================================================
