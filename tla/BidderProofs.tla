---------------------------- MODULE BidderProofs ----------------------------
(***************************************************************************)
(* The bidder and the verdicts of the checker on it, for any number of     *)
(* VUs, auctions, iterations and retries and any loss of rows.             *)
(*                                                                         *)
(* Three accounts make the argument.  The rows: one for a logical bid,     *)
(* numbered densely per auction (Rows).  The ends: a logical bid was       *)
(* accepted once and its row is known, and a request that was not heard    *)
(* or was told 503 is an error (Ends, Failed).  The duplicates: one is     *)
(* injected for a bid that was selected before (Owing).                    *)
(***************************************************************************)
EXTENDS Bidder, FiniteSetTheorems, WellFoundedInduction, TLAPS

Row == [id: Ids, key: Bids, auction: Auctions, seq: Nat]

Quiet == {"unsent", "none", "early", "rejected", "unavailable"}
Won == {"created", "replayed"}

Sent(i) == response[i].status # "unsent"

RowsOf(a) == {r \in rows : r.auction = a}

(* What the service told, and what it can still tell. *)
Request(i) ==
    /\ response[i].status \in Quiet => response[i].body = NoBody
    /\ Sent(i) => key[i] = i.bid
    /\ response[i].status \in Won => \E r \in Committed : r.id = response[i].body /\ r.key = i.bid
    /\ response[i].status = "replayed" => response[i].body # i

Types ==
    /\ rows \subseteq Row /\ lost \subseteq Row
    /\ key \in [Ids -> Bids \cup {NoKey}]
    /\ response \in [Ids -> [status: Quiet \cup Won, body: Ids \cup {NoBody}]]
    /\ plan \in [Bids -> [auction: Auctions, mode: Modes]]
    /\ vu \in [VUs -> [pc: Steps, iter: 1..MaxIterations, attempt: 0..MaxRetries,
                       sent: 0..MaxRetries + 1, out: SUBSET Ids]]
    /\ ends \in [Bids -> Ends]
    /\ c \in [Counters -> Nat]
    /\ cut \in BOOLEAN

(* A logical bid has one row, of a request that was not refused. *)
Rows ==
    /\ IsFiniteSet(rows) /\ IsFiniteSet(lost) /\ rows \cap lost = {}
    /\ \A r \in Committed :
          /\ r.key = r.id.bid
          /\ response[r.id].status \in {"none", "unavailable", "created"}
    /\ \A q, r \in Committed : q.key = r.key => q = r

(* The seqs of an auction are those the checker expects. *)
Dense ==
    /\ \A q, r \in rows : q.auction = r.auction /\ q.seq = r.seq => q = r
    /\ \A a \in Auctions : Seqs(a) = 1..Cardinality(RowsOf(a))

(* The loop of a VU: how much it sent, and for what it still waits. *)
Loop(v) ==
    /\ vu[v].pc \in {"ready", "over"} => vu[v].out = {}
    /\ vu[v].pc = "ready" =>
          vu[v].sent = vu[v].attempt + IF Mode(v) = "concurrent" /\ vu[v].attempt > 0 THEN 1 ELSE 0
    /\ vu[v].pc = "batch" => Mode(v) = "concurrent" /\ vu[v].attempt = 0 /\ vu[v].sent = 1
    /\ vu[v].pc = "waiting" =>
          /\ vu[v].attempt < MaxRetries
          /\ vu[v].sent = vu[v].attempt + 1 + IF Mode(v) = "concurrent" THEN 1 ELSE 0
          /\ Mode(v) = "concurrent" \/ \E i \in Ids : vu[v].out = {i}
    /\ vu[v].pc = "demonstrating" =>
          /\ Mode(v) = "replay" /\ vu[v].attempt < MaxRetries
          /\ vu[v].sent = vu[v].attempt + 1 + IF vu[v].out = {} THEN 0 ELSE 1
          /\ vu[v].out = {} \/ \E i \in Ids : vu[v].out = {i}
    /\ \A i \in vu[v].out : i.bid = Current(v) /\ Sent(i)

(* The logical bid of a loop is open until it is accepted or given up. *)
Pace(v) ==
    /\ vu[v].pc \in {"ready", "batch", "waiting"} => ends[Current(v)] = "open"
    /\ vu[v].pc = "demonstrating" => ends[Current(v)] = "accepted"
    /\ \A n \in 1..MaxIterations : n > vu[v].iter => ends[[vu |-> v, iter |-> n]] = "open"

(* The requests whose answer was awaited in vain, or was 503. *)
Failed ==
    {i \in Ids : /\ response[i].status \in {"none", "unavailable"}
                 /\ i \notin vu[i.bid.vu].out
                 /\ ends[i.bid] \notin {"accepted", "abandoned"}}

(* What the counters know of the ends. *)
EndsCounted ==
    /\ c.accepted = Cardinality(OfEnd("accepted"))
    /\ Cardinality(Failed) <= c.error
    /\ c.maxSeqSeen \in {0} \cup {r.seq : r \in Committed}
    /\ \A b \in OfEnd("accepted") : \E r \in Committed : r.key = b /\ r.seq <= c.maxSeqSeen
    /\ \A i \in Ids : response[i].status \in Won /\ i \notin vu[i.bid.vu].out =>
          ends[i.bid] \in {"accepted", "abandoned"}

(* The VUs that still have to demonstrate a replay they were selected for. *)
Owes(v) ==
    /\ Mode(v) = "replay"
    /\ \/ vu[v].pc = "ready" /\ vu[v].attempt > 0
       \/ vu[v].pc = "waiting"
       \/ vu[v].pc = "demonstrating" /\ vu[v].out = {}

Owing == {v \in VUs : Owes(v)}

(* The VUs that sent a duplicate in their iteration. *)
Doubled(v) ==
    \/ /\ Mode(v) = "concurrent"
       /\ vu[v].pc # "over"
       /\ vu[v].pc = "ready" => vu[v].attempt > 0
    \/ vu[v].pc = "demonstrating" /\ vu[v].out # {}

DuplicatesCounted ==
    /\ c.injected + Cardinality(Owing) <= c.selected /\ c.selected <= c.attempts
    /\ c.invalid = 0
    /\ c.replayed > 0 => c.injected > 0 \/ c.error > 0
    /\ \A v \in VUs : Doubled(v) => c.injected > 0

Requests == \A i \in Ids : Request(i)
Loops == \A v \in VUs : Loop(v)
Paces == \A v \in VUs : Pace(v)

IInv ==
    /\ Types
    /\ Requests
    /\ Rows
    /\ Dense
    /\ Loops
    /\ Paces
    /\ EndsCounted
    /\ DuplicatesCounted

----------------------------------------------------------------------------
(* Sets of numbers and of bids.                                            *)

(* A finite set of numbers that is not empty has a greatest: of the finite *)
(* sets that have none take one with the fewest members, and leave out a   *)
(* member.                                                                 *)
LEMMA FiniteHasMax ==
    ASSUME NEW S \in SUBSET Nat, IsFiniteSet(S), S # {}
    PROVE  \E m \in S : \A y \in S : m >= y
<1> DEFINE Bad == {T \in SUBSET Nat : IsFiniteSet(T) /\ T # {} /\ ~ \E m \in T : \A y \in T : m >= y}
           Sizes == {n \in Nat : \E T \in Bad : Cardinality(T) = n}
<1> SUFFICES ASSUME S \in Bad PROVE FALSE
  BY Zenon
<1>1. Sizes \subseteq Nat /\ Sizes # {}
  BY FS_CardinalityType
<1>2. PICK n \in Sizes : \A k \in Sizes : ~ (<<k, n>> \in OpToRel(<, Nat))
  <2> HIDE DEF Sizes
  <2> QED
    BY <1>1, NatLessThanWellFounded, WFMin, Zenon
<1>3. \A k \in Sizes : ~ (k < n)
  <2> HIDE DEF Sizes
  <2> QED
    BY <1>1, <1>2 DEF OpToRel
<1>4. PICK T \in Bad : Cardinality(T) = n
  OBVIOUS
<1>5. PICK x \in T : x \in Nat
  BY <1>4
<1> DEFINE U == T \ {x}
<1>6. IsFiniteSet(U) /\ Cardinality(U) = n - 1 /\ n \in Nat
  BY <1>4, <1>5, FS_RemoveElement, FS_CardinalityType
<1>7. Cardinality(U) \in Nat
  BY <1>6, FS_CardinalityType
<1>8. U \notin Bad
  <2>1. ASSUME U \in Bad PROVE n - 1 \in Sizes
    BY <2>1, <1>6, <1>7
  <2> QED
    BY <2>1, <1>3, <1>6
<1>9. CASE U = {}
  <2>1. T = {x}
    BY <1>9, <1>5
  <2> QED
    BY <2>1, <1>4, <1>5
<1>10. CASE U # {}
  <2>1. PICK m \in U : \A y \in U : m >= y
    BY <1>10, <1>8, <1>6, <1>4
  <2>2. \A y \in T : y \in Nat /\ (y = x \/ y \in U)
    BY <1>4
  <2>3. CASE m >= x
    <3>1. m \in T /\ \A y \in T : m >= y
      BY <2>1, <2>2, <2>3
    <3> QED
      BY <3>1, <1>4
  <2>4. CASE ~ (m >= x)
    <3>1. \A y \in T : x >= y
      <4> SUFFICES ASSUME NEW y \in T PROVE x >= y
        OBVIOUS
      <4>1. CASE y = x
        BY <4>1, <1>5
      <4>2. CASE y \in U
        BY <4>2, <2>1, <2>2, <2>4, <1>5
      <4> QED
        BY <4>1, <4>2, <2>2
    <3> QED
      BY <3>1, <1>4, <1>5
  <2> QED
    BY <2>3, <2>4
<1> QED
  BY <1>9, <1>10

LEMMA MaxIs ==
    ASSUME NEW S \in SUBSET Nat, NEW m \in S, \A y \in S : m >= y
    PROVE  Max(S) = m
<1>1. Max(S) \in S /\ \A y \in S : Max(S) >= y
  BY DEF Max
<1>2. Max(S) \in Nat /\ m \in Nat /\ m >= Max(S) /\ Max(S) >= m
  BY <1>1
<1> HIDE DEF Max
<1> QED
  BY <1>2, SMT

LEMMA MaxBounds ==
    ASSUME NEW S \in SUBSET Nat, IsFiniteSet(S), S # {}
    PROVE  Max(S) \in S /\ \A y \in S : Max(S) >= y
BY FiniteHasMax DEF Max

LEMMA MaxOfTwo ==
    ASSUME NEW m \in Nat, NEW n \in Nat
    PROVE  Max({m, n}) \in {m, n} /\ Max({m, n}) >= m /\ Max({m, n}) >= n
<1>1. CASE m >= n
  BY <1>1, MaxIs
<1>2. CASE n >= m
  BY <1>2, MaxIs
<1> QED
  BY <1>1, <1>2

LEMMA BidsAreFinite == IsFiniteSet(Bids) /\ IsFiniteSet(Ids)
<1>1. IsFiniteSet(VUs \X (1..MaxIterations))
  <2>1. IsFiniteSet(1..MaxIterations)
    BY MaxIterationsIsPositive, FS_Interval
  <2> QED
    BY <2>1, VUsAreFinite, FS_Product, Zenon
<1>2. IsFiniteSet(Bids)
  <2> DEFINE f == [p \in VUs \X (1..MaxIterations) |-> [vu |-> p[1], iter |-> p[2]]]
  <2>1. f \in Surjection(VUs \X (1..MaxIterations), Bids)
    <3>1. f \in [VUs \X (1..MaxIterations) -> Bids]
      BY DEF Bids
    <3>2. ASSUME NEW b \in Bids PROVE \E p \in VUs \X (1..MaxIterations) : f[p] = b
      <4>1. <<b.vu, b.iter>> \in VUs \X (1..MaxIterations) /\ f[<<b.vu, b.iter>>] = b
        BY DEF Bids
      <4> QED
        BY <4>1, Zenon
    <3> HIDE DEF f
    <3> QED
      BY <3>1, <3>2 DEF Surjection
  <2> QED
    BY <1>1, <2>1, FS_Surjection, Zenon
<1>3. IsFiniteSet(Bids \X (1..MaxRetries + 1))
  <2>1. IsFiniteSet(1..MaxRetries + 1)
    BY MaxRetriesIsPositive, FS_Interval
  <2> QED
    BY <2>1, <1>2, FS_Product, Zenon
<1>4. IsFiniteSet(Ids)
  <2> DEFINE f == [p \in Bids \X (1..MaxRetries + 1) |-> [bid |-> p[1], n |-> p[2]]]
  <2>1. f \in Surjection(Bids \X (1..MaxRetries + 1), Ids)
    <3>1. f \in [Bids \X (1..MaxRetries + 1) -> Ids]
      BY DEF Ids
    <3>2. ASSUME NEW i \in Ids PROVE \E p \in Bids \X (1..MaxRetries + 1) : f[p] = i
      <4>1. <<i.bid, i.n>> \in Bids \X (1..MaxRetries + 1) /\ f[<<i.bid, i.n>>] = i
        BY DEF Ids
      <4> QED
        BY <4>1, Zenon
    <3> HIDE DEF f
    <3> QED
      BY <3>1, <3>2 DEF Surjection
  <2> QED
    BY <1>3, <2>1, FS_Surjection, Zenon
<1> QED
  BY <1>2, <1>4

LEMMA DisjointSum ==
    ASSUME NEW S, NEW T, IsFiniteSet(S), IsFiniteSet(T), S \cap T = {}
    PROVE  IsFiniteSet(S \cup T) /\ Cardinality(S \cup T) = Cardinality(S) + Cardinality(T)
<1>1. /\ IsFiniteSet(S \cup T)
      /\ Cardinality(S \cup T) = Cardinality(S) + Cardinality(T) - Cardinality(S \cap T)
  BY FS_Union
<1>2. Cardinality(S \cap T) = 0 /\ Cardinality(S) \in Nat /\ Cardinality(T) \in Nat
  BY FS_EmptySet, FS_CardinalityType
<1> QED
  BY <1>1, <1>2

(* A set whose members have each a member of its own in a finite set is no *)
(* larger than it.                                                         *)
LEMMA NoLarger ==
    ASSUME NEW S, NEW T, IsFiniteSet(T), NEW f \in [S -> T],
           \A x, y \in S : f[x] = f[y] => x = y
    PROVE  IsFiniteSet(S) /\ Cardinality(S) <= Cardinality(T)
<1>1. f \in Injection(S, T)
  BY DEF Injection, IsInjective
<1> QED
  BY <1>1, FS_Injection

----------------------------------------------------------------------------
(* The service and the database.                                           *)

LEMMA CurrentIsBid ==
    ASSUME Types, NEW v \in VUs
    PROVE  /\ Current(v) \in Bids /\ Current(v).vu = v /\ Current(v).iter = vu[v].iter
           /\ vu[v].iter \in 1..MaxIterations
BY DEF Types, Current, Bids

(* Nothing is found or told, so nothing is to be shown of it.              *)
LEMMA TableStays ==
    ASSUME Requests, Rows, Dense, UNCHANGED <<rows, lost, key, response>>
    PROVE  Requests' /\ Rows' /\ Dense'
BY DEF Requests, Request, Sent, Rows, Dense, Committed, Seqs, RowsOf

LEMMA ClientStays ==
    ASSUME Types, Loops, Paces, DuplicatesCounted, UNCHANGED k6,
           \A i \in Ids : Sent(i) => Sent(i)'
    PROVE  Loops' /\ Paces' /\ DuplicatesCounted'
<1>1. UNCHANGED <<plan, vu, ends, c>>
  BY DEF k6
<1>2. Loops'
  <2> SUFFICES ASSUME NEW v \in VUs PROVE Loop(v)'
    BY DEF Loops
  <2>1. vu[v].out \subseteq Ids
    BY DEF Types
  <2> QED
    BY <2>1, <1>1 DEF Loops, Loop, Mode, Current
<1>3. Paces'
  BY <1>1 DEF Paces, Pace, Current
<1>4. DuplicatesCounted'
  BY <1>1 DEF DuplicatesCounted, Owing, Owes, Doubled, Mode, Current
<1> QED
  BY <1>2, <1>3, <1>4

(* The seqs of an auction and the row that comes next.                     *)
LEMMA NextSeq ==
    ASSUME Types, Rows, Dense, NEW a \in Auctions
    PROVE  /\ IsFiniteSet(RowsOf(a)) /\ Cardinality(RowsOf(a)) \in Nat
           /\ Max({0} \cup Seqs(a)) = Cardinality(RowsOf(a))
           /\ Seqs(a) # {} => Max(Seqs(a)) = Cardinality(RowsOf(a))
<1> DEFINE n == Cardinality(RowsOf(a))
<1>1. IsFiniteSet(RowsOf(a)) /\ n \in Nat
  <2>1. RowsOf(a) \subseteq rows
    BY DEF RowsOf
  <2> QED
    BY <2>1, FS_Subset, FS_CardinalityType DEF Rows
<1>2. Seqs(a) = 1..n
  BY DEF Dense
<1> HIDE DEF n
<1>3. Max({0} \cup 1..n) = n
  <2>1. {0} \cup 1..n \in SUBSET Nat /\ n \in {0} \cup 1..n /\ \A y \in {0} \cup 1..n : n >= y
    BY <1>1
  <2> QED
    BY <2>1, MaxIs, Zenon
<1>4. 1..n # {} => Max(1..n) = n
  <2> SUFFICES ASSUME 1..n # {} PROVE Max(1..n) = n
    OBVIOUS
  <2>1. 1..n \in SUBSET Nat /\ n \in 1..n /\ \A y \in 1..n : n >= y
    BY <1>1
  <2> QED
    BY <2>1, MaxIs, Zenon
<1> QED
  BY <1>1, <1>2, <1>3, <1>4 DEF n

LEMMA LandStep ==
    ASSUME IInv, NEW i \in Ids, Land(i)
    PROVE  IInv'
<1> USE DEF IInv
<1> DEFINE a == plan[i.bid].auction
           n == Cardinality(RowsOf(a))
           r == [id |-> i, key |-> i.bid, auction |-> a, seq |-> n + 1]
<1>1. /\ response[i].status \in {"none", "unavailable"}
      /\ \A b \in Committed : b.id # i /\ (b.key = key[i] => key[i] = NoKey)
      /\ UNCHANGED <<lost, key, response, plan, vu, ends, c, cut, k6>>
      /\ rows' = rows \cup {[id |-> i, key |-> key[i], auction |-> a, seq |-> 1 + Max({0} \cup Seqs(a))]}
  <2>1. \A b \in Committed : LET x == [id |-> b.id, key |-> b.key] IN
            x.id # i /\ (x.key = key[i] => key[i] = NoKey)
    BY DEF Land, Service!Land
  <2> QED
    BY <2>1 DEF Land, Service!Land, k6
<1>2. i.bid \in Bids /\ a \in Auctions /\ i.bid # NoKey
  BY NoKeyIsNoBid DEF Types, Ids
<1>3. key[i] = i.bid
  BY <1>1 DEF Requests, Request, Sent
<1>4. IsFiniteSet(RowsOf(a)) /\ n \in Nat /\ Max({0} \cup Seqs(a)) = n
  BY <1>2, NextSeq
<1>5. rows' = rows \cup {r}
  <2>1. 1 + n = n + 1
    BY <1>4
  <2> QED
    BY <1>1, <1>3, <1>4, <2>1
<1>6. r.id = i /\ r.key = i.bid /\ r.auction = a /\ r.seq = n + 1 /\ r \in Row
  BY <1>2, <1>4 DEF Row
<1> HIDE DEF r
<1>7. /\ Committed' = Committed \cup {r}
      /\ \A b \in Committed : b.id # i /\ b.key # i.bid
  BY <1>1, <1>2, <1>3, <1>5 DEF Committed
<1>8. Types'
  BY <1>1, <1>5, <1>6 DEF Types, Row
<1>9. Requests'
  BY <1>1, <1>7 DEF Requests, Request, Sent
<1>10. Rows'
  <2>1. IsFiniteSet(rows') /\ IsFiniteSet(lost')
    <3>1. IsFiniteSet(rows) /\ IsFiniteSet(lost)
      BY DEF Rows
    <3> QED
      <4>1. IsFiniteSet(rows \cup {r})
        BY <3>1, FS_AddElement
      <4> QED
        BY <4>1, <3>1, <1>1, <1>5
  <2>2. rows' \cap lost' = {}
    BY <1>1, <1>5, <1>6, <1>7 DEF Rows, Committed
  <2>3. ASSUME NEW q \in Committed'
        PROVE  q.key = q.id.bid /\ response'[q.id].status \in {"none", "unavailable", "created"}
    BY <1>1, <1>6, <1>7 DEF Rows
  <2>4. \A q, s \in Committed' : q.key = s.key => q = s
    BY <1>6, <1>7 DEF Rows
  <2> QED
    BY <2>1, <2>2, <2>3, <2>4 DEF Rows
<1>11. Dense'
  <2>1. RowsOf(a)' = RowsOf(a) \cup {r} /\ r \notin RowsOf(a)
    BY <1>1, <1>5, <1>6, <1>7 DEF RowsOf, Committed
  <2>2. Cardinality(RowsOf(a)') = n + 1
    BY <2>1, <1>4, FS_AddElement
  <2>3. Seqs(a)' = Seqs(a) \cup {n + 1}
    BY <1>1, <1>5, <1>6 DEF Seqs
  <2>4. Seqs(a) = 1..n
    BY <1>2 DEF Dense
  <2>5. Seqs(a)' = 1..Cardinality(RowsOf(a)')
    BY <2>2, <2>3, <2>4, <1>4
  <2>6. ASSUME NEW o \in Auctions, o # a PROVE RowsOf(o)' = RowsOf(o) /\ Seqs(o)' = Seqs(o)
    BY <2>6, <1>1, <1>5, <1>6 DEF RowsOf, Seqs
  <2>7. ASSUME NEW q \in rows, q.auction = a PROVE q.seq # n + 1
    <3>1. q.seq \in Seqs(a)
      BY <2>7 DEF Seqs
    <3> QED
      BY <3>1, <2>4, <1>4
  <2>8. \A q, s \in rows' : q.auction = s.auction /\ q.seq = s.seq => q = s
    BY <2>7, <1>5, <1>6 DEF Dense
  <2>9. \A o \in Auctions : Seqs(o)' = 1..Cardinality(RowsOf(o)')
    <3>1. a' = a
      BY <1>1
    <3> HIDE DEF a
    <3> QED
      BY <3>1, <2>5, <2>6 DEF Dense
  <2> QED
    BY <2>8, <2>9 DEF Dense
<1>12. Loops' /\ Paces' /\ DuplicatesCounted'
  BY <1>1, ClientStays DEF Sent
<1>13. EndsCounted'
  <2>1. OfEnd("accepted")' = OfEnd("accepted") /\ Failed' = Failed
    BY <1>1 DEF OfEnd, Failed
  <2> QED
    BY <2>1, <1>1, <1>7 DEF EndsCounted
<1> QED
  BY <1>8, <1>9, <1>10, <1>11, <1>12, <1>13

LEMMA AnswerStep ==
    ASSUME IInv, NEW i \in Ids, Answer(i)
    PROVE  IInv'
<1> USE DEF IInv
<1>1. /\ i \in vu[i.bid.vu].out /\ response[i].status = "none"
      /\ UNCHANGED <<rows, lost, key, plan, vu, ends, c, cut, k6>>
  BY DEF Answer, k6, Service!Create, Service!Fail, Service!Replay, Service!Refuse, Service!Tells,
         Service!Unanswered
<1>2. PICK status, body :
          /\ response' = [response EXCEPT ![i] = [status |-> status, body |-> body]]
          /\ \/ status = "created" /\ body = i /\ \E r \in Committed : r.id = i /\ r.key = key[i]
             \/ status = "unavailable" /\ body = NoBody
             \/ /\ status = "replayed" /\ body \in Ids /\ body # i
                /\ \E r \in Committed : r.id = body /\ r.key = key[i]
             \/ /\ status \in {"early", "rejected"} /\ body = NoBody
                /\ \A r \in Committed : ~ (r.id = i /\ r.key = key[i])
  <2>1. CASE Service!Create(i)
    BY <2>1 DEF Service!Create, Service!Tells, Service!Durable
  <2>2. CASE Service!Fail(i)
    BY <2>2 DEF Service!Fail, Service!Tells
  <2>3. CASE \E b \in Ids : Service!Replay(i, b)
    <3>1. PICK b \in Ids : Service!Replay(i, b)
      BY <2>3
    <3>2. /\ response' = [response EXCEPT ![i] = [status |-> "replayed", body |-> b]]
          /\ b # i
          /\ \E r \in Committed : r.id = b /\ r.key = key[i]
      BY <3>1 DEF Service!Replay, Service!Tells, Service!Durable
    <3> QED
      BY <3>2
  <2>4. CASE \E s \in {"early", "rejected"} : Service!Refuse(i, s)
    BY <2>4 DEF Service!Refuse, Service!Tells, Service!Durable
  <2> QED
    BY <2>1, <2>2, <2>3, <2>4 DEF Answer
<1>3. /\ response'[i] = [status |-> status, body |-> body]
      /\ \A j \in Ids \ {i} : response'[j] = response[j]
  BY <1>2 DEF Types
<1>4. key[i] = i.bid /\ i.bid \in Bids
  BY <1>1 DEF Requests, Request, Sent, Ids
<1>5. Committed' = Committed
  BY <1>1 DEF Committed
<1>6. Types'
  <2>1. /\ status \in Quiet \cup Won
        /\ body \in Ids \cup {NoBody}
    BY <1>2 DEF Quiet, Won
  <2>2. response' \in [Ids -> [status: Quiet \cup Won, body: Ids \cup {NoBody}]]
    BY <2>1, <1>2 DEF Types
  <2> QED
    BY <2>2, <1>1 DEF Types
<1>7. Requests'
  <2> SUFFICES ASSUME NEW j \in Ids PROVE Request(j)'
    BY DEF Requests
  <2>1. CASE j = i
    BY <2>1, <1>1, <1>2, <1>3, <1>4, <1>5, NoBodyIsNoRequest DEF Request, Quiet, Won
  <2>2. CASE j # i
    BY <2>2, <1>1, <1>3, <1>5 DEF Requests, Request, Sent
  <2> QED
    BY <2>1, <2>2
<1>8. Rows'
  <2>1. ASSUME NEW q \in Committed
        PROVE  response'[q.id].status \in {"none", "unavailable", "created"}
    <3>0. q.id \in Ids /\ q.key = q.id.bid
      BY DEF Rows, Committed, Types, Row
    <3>1. CASE q.id # i
      BY <3>0, <3>1, <1>3 DEF Rows
    <3>2. CASE q.id = i
      <4>1. q.key = key[i]
        BY <3>0, <3>2, <1>4
      <4>2. status \in {"created", "unavailable"}
        <5>1. ASSUME NEW r \in Committed, r.id = body, r.key = key[i], body # i PROVE FALSE
          BY <5>1, <4>1, <3>2 DEF Rows
        <5> QED
          BY <5>1, <4>1, <3>2, <1>2
      <4> QED
        BY <4>2, <3>2, <1>3
    <3> QED
      BY <3>1, <3>2
  <2> QED
    BY <2>1, <1>1, <1>5 DEF Rows
<1>9. Dense'
  BY <1>1 DEF Dense, Seqs, RowsOf
<1>10. Loops' /\ Paces' /\ DuplicatesCounted'
  <2>1. \A j \in Ids : Sent(j) => Sent(j)'
    BY <1>2, <1>3 DEF Sent
  <2> QED
    BY <2>1, <1>1, ClientStays
<1>11. EndsCounted'
  <2>1. OfEnd("accepted")' = OfEnd("accepted")
    BY <1>1 DEF OfEnd
  <2>2. Failed' = Failed
    <3> SUFFICES ASSUME NEW j \in Ids PROVE j \in Failed' <=> j \in Failed
      BY DEF Failed
    <3>1. CASE j = i
      BY <3>1, <1>1 DEF Failed
    <3>2. CASE j # i
      BY <3>2, <1>1, <1>3 DEF Failed
    <3> QED
      BY <3>1, <3>2
  <2>3. ASSUME NEW j \in Ids, response'[j].status \in Won, j \notin vu'[j.bid.vu].out
        PROVE  ends'[j.bid] \in {"accepted", "abandoned"}
    BY <2>3, <1>1, <1>3 DEF EndsCounted
  <2> QED
    BY <2>1, <2>2, <2>3, <1>1, <1>5 DEF EndsCounted
<1> QED
  BY <1>6, <1>7, <1>8, <1>9, <1>10, <1>11

LEMMA LoseStep ==
    ASSUME IInv, NEW b \in rows, Lose(b)
    PROVE  IInv'
<1> USE DEF IInv
<1> DEFINE a == b.auction
           n == Cardinality(RowsOf(a))
<1>1. /\ rows' = rows \ {b} /\ lost' = lost \cup {b} /\ b.seq = Max(Seqs(a))
      /\ UNCHANGED <<key, response, plan, vu, ends, c, cut, k6>>
  BY DEF Lose, k6
<1>2. Committed' = Committed
  BY <1>1 DEF Committed
<1>3. b \in Row /\ a \in Auctions /\ b.seq \in Seqs(a)
  BY DEF Types, Row, Seqs
<1>4. IsFiniteSet(RowsOf(a)) /\ n \in Nat /\ b.seq = n
  BY <1>1, <1>3, NextSeq
<1>5. Types'
  BY <1>1, <1>3 DEF Types
<1>6. Requests'
  BY <1>1, <1>2 DEF Requests, Request, Sent
<1>7. Rows'
  <2>1. IsFiniteSet(rows \ {b}) /\ IsFiniteSet(lost \cup {b})
    BY FS_RemoveElement, FS_AddElement DEF Rows
  <2>2. (rows \ {b}) \cap (lost \cup {b}) = {}
    BY DEF Rows
  <2> QED
    BY <2>1, <2>2, <1>1, <1>2 DEF Rows
<1>8. Dense'
  <2> HIDE DEF a
  <2>1. RowsOf(a) \ {b} = {r \in rows' : r.auction = a} /\ b \in RowsOf(a)
    BY <1>1 DEF RowsOf, a
  <2>2. Cardinality(RowsOf(a) \ {b}) = n - 1
    BY <2>1, <1>4, FS_RemoveElement
  <2>3. Seqs(a) = 1..n
    BY <1>3 DEF Dense
  <2>4. {r.seq : r \in RowsOf(a) \ {b}} = (1..n) \ {n}
    <3>1. Seqs(a) = {r.seq : r \in RowsOf(a)}
      BY DEF Seqs, RowsOf
    <3>2. ASSUME NEW r \in RowsOf(a), r.seq = n PROVE r = b
      BY <3>2, <1>4 DEF Dense, RowsOf, a
    <3> QED
      BY <3>1, <3>2, <2>3, <1>4
  <2>5. {r.seq : r \in RowsOf(a) \ {b}} = 1..Cardinality(RowsOf(a) \ {b})
    <3>1. (1..n) \ {n} = 1..(n - 1)
      BY <1>4
    <3> QED
      BY <3>1, <2>2, <2>4
  <2>6. ASSUME NEW o \in Auctions
        PROVE  {r.seq : r \in {q \in rows' : q.auction = o}} = 1..Cardinality({q \in rows' : q.auction = o})
    <3>1. CASE o = a
      BY <3>1, <2>1, <2>5
    <3>2. CASE o # a
      <4>1. {q \in rows' : q.auction = o} = RowsOf(o)
        BY <3>2, <1>1 DEF RowsOf, a
      <4>2. {r.seq : r \in RowsOf(o)} = Seqs(o)
        BY DEF Seqs, RowsOf
      <4> QED
        BY <4>1, <4>2 DEF Dense
    <3> QED
      BY <3>1, <3>2
  <2>7. \A q, s \in rows' : q.auction = s.auction /\ q.seq = s.seq => q = s
    BY <1>1 DEF Dense
  <2> QED
    BY <2>6, <2>7 DEF Dense, Seqs, RowsOf
<1>9. Loops' /\ Paces' /\ DuplicatesCounted'
  BY <1>1, ClientStays DEF Sent
<1>10. EndsCounted'
  <2>1. OfEnd("accepted")' = OfEnd("accepted") /\ Failed' = Failed
    BY <1>1 DEF OfEnd, Failed
  <2> QED
    BY <2>1, <1>1, <1>2 DEF EndsCounted
<1> QED
  BY <1>5, <1>6, <1>7, <1>8, <1>9, <1>10

----------------------------------------------------------------------------
(* A VU sends.                                                             *)

LEMMA OthersLoop ==
    ASSUME Types, Loops, NEW w \in VUs, vu'[w] = vu[w], UNCHANGED plan,
           \A i \in Ids : Sent(i) => Sent(i)'
    PROVE  Loop(w)'
<1>1. vu[w].out \subseteq Ids
  BY DEF Types
<1> QED
  BY <1>1 DEF Loops, Loop, Mode, Current

LEMMA OthersPace ==
    ASSUME Types, Paces, NEW w \in VUs, vu'[w] = vu[w],
           \A b \in Bids : b.vu = w => ends'[b] = ends[b]
    PROVE  Pace(w)'
<1>1. \A n \in 1..MaxIterations : [vu |-> w, iter |-> n] \in Bids /\ [vu |-> w, iter |-> n].vu = w
  BY DEF Bids
<1>2. Current(w) \in Bids /\ Current(w).vu = w
  BY CurrentIsBid
<1> QED
  BY <1>1, <1>2 DEF Paces, Pace, Current

LEMMA FailedIsFinite ==
    IsFiniteSet(Failed) /\ IsFiniteSet(Failed') /\ Cardinality(Failed) \in Nat /\ Cardinality(Failed') \in Nat
<1>1. Failed \subseteq Ids /\ Failed' \subseteq Ids
  BY DEF Failed
<1>2. IsFiniteSet(Failed) /\ IsFiniteSet(Failed')
  BY <1>1, BidsAreFinite, FS_Subset
<1> QED
  BY <1>2, FS_CardinalityType

LEMMA NoNewFailure ==
    ASSUME Types, EndsCounted, Failed' \subseteq Failed, c' \in [Counters -> Nat], c'.error >= c.error
    PROVE  Cardinality(Failed') <= c'.error
<1>1. Cardinality(Failed') <= Cardinality(Failed)
  BY FailedIsFinite, FS_Subset
<1>2. c.error \in Nat /\ c'.error \in Nat
  BY DEF Types, Counters
<1> QED
  BY <1>1, <1>2, FailedIsFinite DEF EndsCounted

LEMMA SendsStep ==
    ASSUME IInv, NEW v \in VUs, NEW step \in {"batch", "waiting", "demonstrating"}, Sends(v, step),
           vu[v].pc \in {"ready", "batch", "demonstrating"},
           step = "demonstrating" <=> vu[v].pc = "demonstrating",
           vu[v].sent \in 0..MaxRetries,
           UNCHANGED <<plan, ends, cut>>, c' \in [Counters -> Nat],
           c'.accepted = c.accepted, c'.error = c.error, c'.maxSeqSeen = c.maxSeqSeen
    PROVE  /\ Types' /\ Requests' /\ Rows' /\ Dense' /\ Paces' /\ EndsCounted'
           /\ NextId(v) \in Ids
           /\ vu'[v] = [pc |-> step, iter |-> vu[v].iter, attempt |-> vu[v].attempt,
                        sent |-> vu[v].sent + 1, out |-> vu[v].out \cup {NextId(v)}]
           /\ \A w \in VUs \ {v} : vu'[w] = vu[w] /\ Loop(w)'
           /\ \A i \in Ids : Sent(i) => Sent(i)'
           /\ response'[NextId(v)].status = "none"
<1> USE DEF IInv
<1> DEFINE i == NextId(v)
<1>1. /\ UNCHANGED <<rows, lost>>
      /\ response[i] = Service!Unsent
      /\ key' = [key EXCEPT ![i] = i.bid]
      /\ response' = [response EXCEPT ![i] = Service!Unanswered]
      /\ vu' = [vu EXCEPT ![v].pc = step, ![v].sent = @ + 1, ![v].out = @ \cup {i}]
  BY DEF Sends, Service!Send, BidKey
<1>2. Current(v) \in Bids /\ Current(v).vu = v /\ MaxRetries \in Nat
  BY CurrentIsBid, MaxRetriesIsPositive
<1>3. i \in Ids /\ i.bid = Current(v)
  BY <1>2 DEF NextId, Ids
<1> HIDE DEF i
<1>4. response[i].status = "unsent"
  BY <1>1 DEF Service!Unsent
<1>5. /\ response'[i] = [status |-> "none", body |-> NoBody]
      /\ key'[i] = i.bid
      /\ \A j \in Ids \ {i} : response'[j] = response[j] /\ key'[j] = key[j]
  BY <1>1, <1>3 DEF Types, Service!Unanswered
<1>6. /\ vu'[v] = [pc |-> step, iter |-> vu[v].iter, attempt |-> vu[v].attempt,
                   sent |-> vu[v].sent + 1, out |-> vu[v].out \cup {i}]
      /\ \A w \in VUs \ {v} : vu'[w] = vu[w]
  BY <1>1 DEF Types
<1>7. Committed' = Committed
  BY <1>1 DEF Committed
<1>8. Types'
  <2>1. response' \in [Ids -> [status: Quiet \cup Won, body: Ids \cup {NoBody}]]
    BY <1>1 DEF Types, Service!Unanswered, Quiet
  <2>2. key' \in [Ids -> Bids \cup {NoKey}]
    BY <1>1, <1>2, <1>3 DEF Types
  <2>3. vu' \in [VUs -> [pc: Steps, iter: 1..MaxIterations, attempt: 0..MaxRetries,
                         sent: 0..MaxRetries + 1, out: SUBSET Ids]]
    <3>1. vu[v].sent + 1 \in 0..MaxRetries + 1 /\ step \in Steps
      BY <1>2 DEF Steps
    <3> QED
      BY <3>1, <1>1, <1>3 DEF Types
  <2> QED
    BY <2>1, <2>2, <2>3, <1>1 DEF Types
<1>9. Requests'
  <2> SUFFICES ASSUME NEW j \in Ids PROVE Request(j)'
    BY DEF Requests
  <2>1. CASE j = i
    BY <2>1, <1>5 DEF Request, Won
  <2>2. CASE j # i
    BY <2>2, <1>5, <1>7 DEF Requests, Request, Sent
  <2> QED
    BY <2>1, <2>2
<1>10. Rows'
  <2>1. ASSUME NEW q \in Committed
        PROVE  q.id \in Ids /\ q.id # i
    BY <1>4 DEF Rows, Committed, Types, Row
  <2> QED
    BY <2>1, <1>1, <1>5, <1>7 DEF Rows
<1>11. Dense'
  BY <1>1 DEF Dense, Seqs, RowsOf
<1>12. \A j \in Ids : Sent(j) => Sent(j)'
  BY <1>5 DEF Sent
<1>13. \A w \in VUs \ {v} : Loop(w)'
  BY <1>6, <1>12, OthersLoop
<1>14. Paces'
  <2> SUFFICES ASSUME NEW w \in VUs PROVE Pace(w)'
    BY DEF Paces
  <2>1. CASE w = v
    BY <2>1, <1>6 DEF Paces, Pace, Current
  <2>2. CASE w # v
    BY <2>2, <1>6, OthersPace
  <2> QED
    BY <2>1, <2>2
<1>15. EndsCounted'
  <2>1. OfEnd("accepted")' = OfEnd("accepted")
    BY DEF OfEnd
  <2>2. ASSUME NEW j \in Ids PROVE /\ j.bid.vu \in VUs
                                   /\ vu[j.bid.vu].out \subseteq vu'[j.bid.vu].out
                                   /\ j = i => j \in vu'[j.bid.vu].out
    BY <1>2, <1>3, <1>6 DEF Ids, Bids
  <2>3. Failed' \subseteq Failed
    BY <2>2, <1>5 DEF Failed
  <2>5. Cardinality(Failed') <= c'.error
    <3>1. c.error \in Nat
      BY DEF Types, Counters
    <3> QED
      BY <3>1, <2>3, NoNewFailure
  <2>6. ASSUME NEW j \in Ids, response'[j].status \in Won, j \notin vu'[j.bid.vu].out
        PROVE  ends'[j.bid] \in {"accepted", "abandoned"}
    BY <2>6, <2>2, <1>5 DEF EndsCounted, Won
  <2> QED
    BY <2>1, <2>5, <2>6, <1>7 DEF EndsCounted
<1>16. response'[i].status = "none"
  BY <1>5
<1> QED
  BY <1>3, <1>6, <1>8, <1>9, <1>10, <1>11, <1>12, <1>13, <1>14, <1>15, <1>16 DEF i

(* One VU changes what is owed by one at most. *)
LEMMA OwingStep ==
    ASSUME Types, NEW v \in VUs, UNCHANGED plan, \A w \in VUs \ {v} : vu'[w] = vu[w]
    PROVE  /\ Cardinality(Owing) \in Nat /\ Cardinality(Owing') \in Nat
           /\ Cardinality(Owing') =
                 Cardinality(Owing) + (IF Owes(v)' THEN 1 ELSE 0) - (IF Owes(v) THEN 1 ELSE 0)
<1> DEFINE O == Owing \ {v}
<1>1. \A w \in VUs \ {v} : Owes(w)' <=> Owes(w)
  BY DEF Owes, Mode, Current
<1>2. O = Owing' \ {v} /\ v \notin O
  BY <1>1 DEF Owing
<1>3. IsFiniteSet(O) /\ IsFiniteSet(Owing) /\ IsFiniteSet(Owing')
  <2>1. Owing \subseteq VUs /\ Owing' \subseteq VUs /\ O \subseteq VUs
    BY DEF Owing
  <2> QED
    BY <2>1, VUsAreFinite, FS_Subset, Zenon
<1>4. Cardinality(O) \in Nat /\ Cardinality(Owing) \in Nat /\ Cardinality(Owing') \in Nat
  BY <1>3, FS_CardinalityType
<1>5. Cardinality(O \cup {v}) = Cardinality(O) + 1
  BY <1>2, <1>3, FS_AddElement
<1>6. Cardinality(Owing) = Cardinality(O) + (IF Owes(v) THEN 1 ELSE 0)
  <2>1. Owing = IF Owes(v) THEN O \cup {v} ELSE O
    BY DEF Owing
  <2> QED
    BY <2>1, <1>4, <1>5
<1>7. Cardinality(Owing') = Cardinality(O) + (IF Owes(v)' THEN 1 ELSE 0)
  <2>1. Owing' = IF Owes(v)' THEN O \cup {v} ELSE O
    <3>1. Owes(v)' => v \in Owing'
      BY DEF Owing
    <3>2. ~ Owes(v)' => v \notin Owing'
      BY DEF Owing
    <3> QED
      BY <3>1, <3>2, <1>2, Zenon
  <2> QED
    BY <2>1, <1>4, <1>5
<1> HIDE DEF O
<1> QED
  BY <1>4, <1>6, <1>7

(* A step of one VU keeps the account of the duplicates. *)
LEMMA CountedStep ==
    ASSUME Types, DuplicatesCounted, NEW v \in VUs, UNCHANGED plan,
           \A w \in VUs \ {v} : vu'[w] = vu[w],
           c' \in [Counters -> Nat], c'.invalid = c.invalid,
           c'.injected >= c.injected, c'.error >= c.error,
           c'.injected - c.injected + (IF Owes(v)' THEN 1 ELSE 0) - (IF Owes(v) THEN 1 ELSE 0)
              <= c'.selected - c.selected,
           c'.selected - c.selected <= c'.attempts - c.attempts,
           c'.replayed > c.replayed => c'.injected > 0 \/ c'.error > 0,
           c'.replayed >= c.replayed,
           Doubled(v)' => c'.injected > 0
    PROVE  DuplicatesCounted'
<1>1. /\ Cardinality(Owing) \in Nat /\ Cardinality(Owing') \in Nat
      /\ Cardinality(Owing') =
            Cardinality(Owing) + (IF Owes(v)' THEN 1 ELSE 0) - (IF Owes(v) THEN 1 ELSE 0)
  BY OwingStep
<1>2. /\ c.injected \in Nat /\ c.selected \in Nat /\ c.attempts \in Nat
      /\ c.error \in Nat /\ c.replayed \in Nat
      /\ c'.injected \in Nat /\ c'.selected \in Nat /\ c'.attempts \in Nat
      /\ c'.error \in Nat /\ c'.replayed \in Nat
  BY DEF Types, Counters
<1>3. \A w \in VUs \ {v} : Doubled(w)' <=> Doubled(w)
  BY DEF Doubled, Mode, Current
<1>4. \A w \in VUs : Doubled(w)' => c'.injected > 0
  BY <1>2, <1>3 DEF DuplicatesCounted
<1>5. c'.injected + Cardinality(Owing') <= c'.selected /\ c'.selected <= c'.attempts
  BY <1>1, <1>2 DEF DuplicatesCounted
<1>6. c'.replayed > 0 => c'.injected > 0 \/ c'.error > 0
  BY <1>2 DEF DuplicatesCounted
<1> QED
  BY <1>4, <1>5, <1>6 DEF DuplicatesCounted

LEMMA AttemptStep ==
    ASSUME IInv, NEW v \in VUs, Attempt(v)
    PROVE  IInv'
<1> USE DEF IInv
<1> DEFINE first == vu[v].attempt = 0
           doubles == first /\ Mode(v) = "concurrent"
           step == IF doubles THEN "batch" ELSE "waiting"
           i == NextId(v)
<1>1. /\ vu[v].pc = "ready" /\ vu[v].attempt < MaxRetries
      /\ Sends(v, step)
      /\ c' = Plus([attempts |-> 1,
                    selected |-> IF first /\ Mode(v) # "once" THEN 1 ELSE 0,
                    injected |-> IF doubles THEN 1 ELSE 0])
      /\ UNCHANGED <<plan, ends, cut>>
  BY DEF Attempt
<1>2. /\ c' \in [Counters -> Nat]
      /\ c'.accepted = c.accepted /\ c'.error = c.error /\ c'.maxSeqSeen = c.maxSeqSeen
      /\ c'.replayed = c.replayed /\ c'.invalid = c.invalid /\ c'.attempts = c.attempts + 1
      /\ c'.selected = c.selected + IF first /\ Mode(v) # "once" THEN 1 ELSE 0
      /\ c'.injected = c.injected + IF doubles THEN 1 ELSE 0
  <2> HIDE DEF doubles, first
  <2> QED
    BY <1>1 DEF Plus, Counters, Types
<1>3. /\ vu[v].sent = vu[v].attempt + IF Mode(v) = "concurrent" /\ vu[v].attempt > 0 THEN 1 ELSE 0
      /\ vu[v].out = {} /\ vu[v].attempt \in Nat /\ MaxRetries \in Nat
      /\ ends[Current(v)] = "open" /\ Mode(v) \in Modes
  BY <1>1, CurrentIsBid, MaxRetriesIsPositive DEF Loops, Loop, Paces, Pace, Types, Mode
<1>4. vu[v].sent \in 0..MaxRetries
  BY <1>1, <1>3
<1>5. step \in {"batch", "waiting", "demonstrating"} /\ step # "demonstrating"
  OBVIOUS
<1> HIDE DEF step
<1>6. /\ Types' /\ Requests' /\ Rows' /\ Dense' /\ Paces' /\ EndsCounted'
      /\ i \in Ids
      /\ vu'[v] = [pc |-> step, iter |-> vu[v].iter, attempt |-> vu[v].attempt,
                   sent |-> vu[v].sent + 1, out |-> vu[v].out \cup {i}]
      /\ \A w \in VUs \ {v} : vu'[w] = vu[w] /\ Loop(w)'
      /\ response'[i].status = "none"
  BY <1>1, <1>2, <1>4, <1>5, SendsStep
<1> DEFINE w == vu'[v]
<1>7. /\ w.pc = step /\ w.iter = vu[v].iter /\ w.attempt = vu[v].attempt
      /\ w.sent = vu[v].sent + 1 /\ w.out = {i} /\ i.bid = Current(v)
      /\ Current(v)' = Current(v) /\ Mode(v)' = Mode(v)
  BY <1>1, <1>3, <1>6 DEF NextId, Mode, Current
<1>8. Loop(v)'
  <2>1. \A j \in w.out : j.bid = Current(v)' /\ Sent(j)'
    BY <1>6, <1>7 DEF Sent
  <2>2. \E j \in Ids : w.out = {j}
    BY <1>6, <1>7
  <2> HIDE DEF w, i
  <2> QED
    BY <2>1, <2>2, <1>1, <1>3, <1>7 DEF Loop, w, step
<1>9. Loops'
  BY <1>6, <1>8 DEF Loops
<1>10. DuplicatesCounted'
  <2>0. /\ c.injected \in Nat /\ c.selected \in Nat /\ c.attempts \in Nat /\ c.error \in Nat
        /\ c.replayed \in Nat
    BY DEF Types, Counters
  <2>1. Owes(v)' <=> Mode(v) = "replay"
    BY <1>5, <1>7, <1>3 DEF Owes, step
  <2>2. Owes(v) <=> Mode(v) = "replay" /\ ~first
    BY <1>1, <1>3 DEF Owes
  <2>3. Doubled(v)' => c'.injected > 0
    <3> SUFFICES ASSUME Doubled(v)' PROVE c'.injected > 0
      OBVIOUS
    <3>1. Mode(v) = "concurrent"
      BY <1>5, <1>7 DEF Doubled
    <3>2. CASE first
      BY <3>1, <3>2, <2>0, <1>2
    <3>3. CASE ~first
      BY <3>1, <3>3, <2>0, <1>1, <1>2, <1>3 DEF DuplicatesCounted, Doubled
    <3> QED
      BY <3>2, <3>3
  <2>4. c'.injected - c.injected + (IF Owes(v)' THEN 1 ELSE 0) - (IF Owes(v) THEN 1 ELSE 0)
           <= c'.selected - c.selected
    <3>1. Mode(v) \in {"once", "concurrent", "replay"}
      BY <1>3 DEF Modes
    <3> HIDE DEF first
    <3> QED
      BY <3>1, <2>0, <2>1, <2>2, <1>2
  <2>5. c'.selected - c.selected <= c'.attempts - c.attempts
    <3> HIDE DEF first
    <3> QED
      BY <2>0, <1>2
  <2>6. c'.injected >= c.injected
    <3> HIDE DEF doubles
    <3> QED
      BY <2>0, <1>2
  <2>7. /\ c'.error >= c.error /\ c'.replayed >= c.replayed
        /\ c'.replayed > c.replayed => c'.injected > 0 \/ c'.error > 0
    BY <2>0, <1>2
  <2>8. /\ Types /\ DuplicatesCounted /\ UNCHANGED plan
        /\ \A u \in VUs \ {v} : vu'[u] = vu[u]
        /\ c' \in [Counters -> Nat] /\ c'.invalid = c.invalid
    BY <1>1, <1>2, <1>6
  <2> HIDE DEF IInv
  <2> QED
    BY <2>3, <2>4, <2>5, <2>6, <2>7, <2>8, CountedStep
<1> QED
  BY <1>6, <1>9, <1>10

LEMMA DuplicateStep ==
    ASSUME IInv, NEW v \in VUs, Duplicate(v)
    PROVE  IInv'
<1> USE DEF IInv
<1> DEFINE i == NextId(v)
<1>1. vu[v].pc = "batch" /\ Sends(v, "waiting") /\ UNCHANGED <<plan, ends, c, cut>>
  BY DEF Duplicate
<1>2. /\ Mode(v) = "concurrent" /\ vu[v].attempt = 0 /\ vu[v].sent = 1
      /\ vu[v].out \subseteq Ids
      /\ MaxRetries \in Nat /\ MaxRetries > 0
      /\ c' \in [Counters -> Nat]
  BY <1>1, MaxRetriesIsPositive DEF Loops, Loop, Types
<1>3. vu[v].sent \in 0..MaxRetries
  BY <1>2
<1>4. /\ Types' /\ Requests' /\ Rows' /\ Dense' /\ Paces' /\ EndsCounted'
      /\ i \in Ids
      /\ vu'[v] = [pc |-> "waiting", iter |-> vu[v].iter, attempt |-> vu[v].attempt,
                   sent |-> vu[v].sent + 1, out |-> vu[v].out \cup {i}]
      /\ \A w \in VUs \ {v} : vu'[w] = vu[w] /\ Loop(w)'
      /\ \A j \in Ids : Sent(j) => Sent(j)'
      /\ response'[i].status = "none"
  BY <1>1, <1>2, <1>3, SendsStep
<1>5. Current(v)' = Current(v) /\ Mode(v)' = Mode(v) /\ i.bid = Current(v)
  BY <1>1, <1>4 DEF NextId, Mode, Current
<1>6. Loop(v)'
  <2>1. \A j \in vu'[v].out : j.bid = Current(v)' /\ Sent(j)'
    BY <1>2, <1>4, <1>5 DEF Sent, Loops, Loop
  <2> HIDE DEF i
  <2> QED
    BY <2>1, <1>2, <1>4, <1>5 DEF Loop
<1>7. Loops'
  BY <1>4, <1>6 DEF Loops
<1>8. DuplicatesCounted'
  <2>1. ~Owes(v) /\ ~Owes(v)'
    <3>1. Mode(v) # "replay" /\ Mode(v)' # "replay"
      BY <1>2, <1>5
    <3> QED
      BY <3>1 DEF Owes
  <2>2. Doubled(v)
    BY <1>1, <1>2 DEF Doubled
  <2>3. c.injected > 0
    BY <2>2 DEF DuplicatesCounted
  <2>4. /\ c.injected \in Nat /\ c.selected \in Nat /\ c.attempts \in Nat /\ c.error \in Nat
        /\ c.replayed \in Nat
    BY DEF Types, Counters
  <2> QED
    BY <2>1, <2>3, <2>4, <1>1, <1>2, <1>4, CountedStep
<1> QED
  BY <1>4, <1>7, <1>8

LEMMA PostReplayStep ==
    ASSUME IInv, NEW v \in VUs, PostReplay(v)
    PROVE  IInv'
<1> USE DEF IInv
<1> DEFINE i == NextId(v)
<1>1. /\ vu[v].pc = "demonstrating" /\ vu[v].out = {}
      /\ Sends(v, "demonstrating") /\ c' = Plus([injected |-> 1])
      /\ UNCHANGED <<plan, ends, cut>>
  BY DEF PostReplay
<1>2. /\ Mode(v) = "replay" /\ vu[v].attempt < MaxRetries /\ vu[v].sent = vu[v].attempt + 1
      /\ vu[v].attempt \in Nat /\ MaxRetries \in Nat
  BY <1>1, MaxRetriesIsPositive DEF Loops, Loop, Types
<1>3. vu[v].sent \in 0..MaxRetries
  BY <1>2
<1>4. /\ c' \in [Counters -> Nat]
      /\ c'.accepted = c.accepted /\ c'.error = c.error /\ c'.maxSeqSeen = c.maxSeqSeen
      /\ c'.replayed = c.replayed /\ c'.invalid = c.invalid /\ c'.attempts = c.attempts
      /\ c'.selected = c.selected /\ c'.injected = c.injected + 1
  BY <1>1 DEF Plus, Counters, Types
<1>5. /\ Types' /\ Requests' /\ Rows' /\ Dense' /\ Paces' /\ EndsCounted'
      /\ i \in Ids
      /\ vu'[v] = [pc |-> "demonstrating", iter |-> vu[v].iter, attempt |-> vu[v].attempt,
                   sent |-> vu[v].sent + 1, out |-> vu[v].out \cup {i}]
      /\ \A w \in VUs \ {v} : vu'[w] = vu[w] /\ Loop(w)'
      /\ response'[i].status = "none"
  BY <1>1, <1>3, <1>4, SendsStep
<1>6. Current(v)' = Current(v) /\ Mode(v)' = Mode(v) /\ i.bid = Current(v) /\ vu'[v].out = {i}
  BY <1>1, <1>5 DEF NextId, Mode, Current
<1>7. Loop(v)'
  <2>1. \A j \in vu'[v].out : j.bid = Current(v)' /\ Sent(j)'
    BY <1>5, <1>6 DEF Sent
  <2>2. vu'[v].out # {} /\ \E j \in Ids : vu'[v].out = {j}
    BY <1>5, <1>6
  <2> HIDE DEF i
  <2> QED
    BY <2>1, <2>2, <1>2, <1>5, <1>6 DEF Loop
<1>8. Loops'
  BY <1>5, <1>7 DEF Loops
<1>9. DuplicatesCounted'
  <2>1. Owes(v) /\ ~Owes(v)'
    BY <1>1, <1>2, <1>5, <1>6 DEF Owes
  <2>2. /\ c.injected \in Nat /\ c.selected \in Nat /\ c.attempts \in Nat /\ c.error \in Nat
        /\ c.replayed \in Nat
    BY DEF Types, Counters
  <2> QED
    BY <2>1, <2>2, <1>1, <1>4, <1>5, CountedStep
<1> QED
  BY <1>5, <1>8, <1>9

----------------------------------------------------------------------------
(* A VU ends its iteration, or gives it up.                                *)

LEMMA LeavesStep ==
    ASSUME Types, Loops, Paces, NEW v \in VUs, Leaves(v), UNCHANGED <<plan, response>>,
           \A b \in Bids \ {Current(v)} : ends'[b] = ends[b]
    PROVE  /\ vu' \in [VUs -> [pc: Steps, iter: 1..MaxIterations, attempt: 0..MaxRetries,
                               sent: 0..MaxRetries + 1, out: SUBSET Ids]]
           /\ \A w \in VUs \ {v} : vu'[w] = vu[w]
           /\ vu'[v].out = {}
           /\ Loops' /\ Paces' /\ ~Owes(v)' /\ ~Doubled(v)'
<1> DEFINE n == IF vu[v].iter < MaxIterations THEN vu[v].iter + 1 ELSE vu[v].iter
           pc == IF vu[v].iter < MaxIterations THEN "ready" ELSE "over"
           new == [pc |-> pc, iter |-> n, attempt |-> 0, sent |-> 0, out |-> {}]
<1>0. vu[v].iter \in 1..MaxIterations /\ MaxIterations \in Nat /\ MaxRetries \in Nat
  BY MaxIterationsIsPositive, MaxRetriesIsPositive DEF Types
<1>1. vu' = [vu EXCEPT ![v] = new]
  <2>1. [Fresh EXCEPT !.iter = vu[v].iter + 1] =
            [pc |-> "ready", iter |-> vu[v].iter + 1, attempt |-> 0, sent |-> 0, out |-> {}]
    BY DEF Fresh
  <2>2. [Fresh EXCEPT !.iter = vu[v].iter, !.pc = "over"] =
            [pc |-> "over", iter |-> vu[v].iter, attempt |-> 0, sent |-> 0, out |-> {}]
    <3> DEFINE stopped == [pc |-> "ready", iter |-> vu[v].iter, attempt |-> 0, sent |-> 0, out |-> {}]
    <3>1. [Fresh EXCEPT !.iter = vu[v].iter] = stopped
      BY DEF Fresh
    <3>2. [stopped EXCEPT !.pc = "over"] =
            [pc |-> "over", iter |-> vu[v].iter, attempt |-> 0, sent |-> 0, out |-> {}]
      OBVIOUS
    <3>3. [Fresh EXCEPT !.iter = vu[v].iter, !.pc = "over"] =
          [[Fresh EXCEPT !.iter = vu[v].iter] EXCEPT !.pc = "over"]
      OBVIOUS
    <3> QED
      BY <3>1, <3>2, <3>3, Zenon
  <2>3. vu' = [vu EXCEPT ![v] =
                  IF vu[v].iter < MaxIterations THEN [Fresh EXCEPT !.iter = vu[v].iter + 1]
                  ELSE [Fresh EXCEPT !.iter = vu[v].iter, !.pc = "over"]]
    BY DEF Leaves
  <2>4. CASE vu[v].iter < MaxIterations
    BY <2>1, <2>3, <2>4
  <2>5. CASE ~ (vu[v].iter < MaxIterations)
    BY <2>2, <2>3, <2>5
  <2> QED
    BY <2>4, <2>5
<1>2. n \in 1..MaxIterations /\ n >= vu[v].iter /\ (pc = "ready" => n > vu[v].iter) /\ pc \in {"ready", "over"}
  BY <1>0
<1> HIDE DEF n, pc
<1>3. new \in [pc: Steps, iter: 1..MaxIterations, attempt: 0..MaxRetries,
               sent: 0..MaxRetries + 1, out: SUBSET Ids]
  BY <1>0, <1>2 DEF Steps
<1>4. vu' \in [VUs -> [pc: Steps, iter: 1..MaxIterations, attempt: 0..MaxRetries,
                       sent: 0..MaxRetries + 1, out: SUBSET Ids]]
  <2> HIDE DEF new
  <2> QED
    BY <1>1, <1>3 DEF Types
<1>5. vu'[v] = new /\ \A w \in VUs \ {v} : vu'[w] = vu[w]
  BY <1>1 DEF Types
<1>6. Loops'
  <2>1. Loop(v)'
    BY <1>2, <1>5 DEF Loop
  <2>2. \A w \in VUs \ {v} : Loop(w)'
    BY <1>5, OthersLoop DEF Sent
  <2> QED
    BY <2>1, <2>2 DEF Loops
<1>7. Paces'
  <2>1. Pace(v)'
    <3>1. ASSUME NEW m \in 1..MaxIterations, m > vu[v].iter
          PROVE  ends'[[vu |-> v, iter |-> m]] = "open"
      <4>1. [vu |-> v, iter |-> m] \in Bids \ {Current(v)}
        BY <3>1, <1>0 DEF Bids, Current
      <4> QED
        BY <4>1, <3>1 DEF Paces, Pace
    <3>2. pc = "ready" => ends'[Current(v)'] = "open"
      BY <3>1, <1>2, <1>5 DEF Current
    <3>3. \A m \in 1..MaxIterations : m > n => ends'[[vu |-> v, iter |-> m]] = "open"
      <4>1. \A m \in 1..MaxIterations : m > n => m > vu[v].iter
        BY <1>0, <1>2
      <4> QED
        BY <4>1, <3>1
    <3> QED
      BY <3>2, <3>3, <1>2, <1>5 DEF Pace
  <2>2. \A w \in VUs \ {v} : Pace(w)'
    <3>1. Current(v) \in Bids /\ Current(v).vu = v
      BY CurrentIsBid
    <3> QED
      BY <3>1, <1>5, OthersPace
  <2> QED
    BY <2>1, <2>2 DEF Paces
<1>8. ~Owes(v)' /\ ~Doubled(v)'
  BY <1>2, <1>5 DEF Owes, Doubled
<1> QED
  BY <1>4, <1>5, <1>6, <1>7, <1>8

(* The ends stay counted when nothing was heard and no iteration accepted. *)
LEMMA EndsStay ==
    ASSUME Types, EndsCounted, UNCHANGED <<rows, lost, response>>,
           c' \in [Counters -> Nat], c'.accepted = c.accepted,
           c'.error >= c.error, c'.maxSeqSeen = c.maxSeqSeen,
           OfEnd("accepted")' = OfEnd("accepted"), Failed' \subseteq Failed,
           \A i \in Ids : response[i].status \in Won /\ i \notin vu'[i.bid.vu].out =>
              ends'[i.bid] \in {"accepted", "abandoned"}
    PROVE  EndsCounted'
<1>1. Cardinality(Failed') <= c'.error
  BY NoNewFailure
<1>2. Committed' = Committed
  BY DEF Committed
<1> QED
  BY <1>1, <1>2 DEF EndsCounted

LEMMA ExhaustStep ==
    ASSUME IInv, NEW v \in VUs, Exhaust(v)
    PROVE  IInv'
<1> USE DEF IInv
<1>1. /\ vu[v].pc = "ready"
      /\ ends' = [ends EXCEPT ![Current(v)] = "exhausted"]
      /\ Leaves(v)
      /\ UNCHANGED <<rows, lost, key, response, plan, c, cut>>
  BY DEF Exhaust
<1>2. Current(v) \in Bids /\ ends[Current(v)] = "open" /\ vu[v].out = {}
  BY <1>1, CurrentIsBid DEF Loops, Loop, Paces, Pace
<1>3. /\ ends'[Current(v)] = "exhausted" /\ \A b \in Bids \ {Current(v)} : ends'[b] = ends[b]
      /\ ends' \in [Bids -> Ends]
  BY <1>1, <1>2 DEF Types, Ends
<1>4. /\ vu' \in [VUs -> [pc: Steps, iter: 1..MaxIterations, attempt: 0..MaxRetries,
                          sent: 0..MaxRetries + 1, out: SUBSET Ids]]
      /\ \A w \in VUs \ {v} : vu'[w] = vu[w]
      /\ vu'[v].out = {}
      /\ Loops' /\ Paces' /\ ~Owes(v)' /\ ~Doubled(v)'
  BY <1>1, <1>3, LeavesStep
<1>5. Types'
  BY <1>1, <1>3, <1>4 DEF Types
<1>6. Requests' /\ Rows' /\ Dense'
  BY <1>1, TableStays
<1>7. \A i \in Ids : i.bid \in Bids /\ i.bid.vu \in VUs /\ vu'[i.bid.vu].out = vu[i.bid.vu].out
  BY <1>2, <1>4 DEF Ids, Bids
<1>8. EndsCounted'
  <2>1. OfEnd("accepted")' = OfEnd("accepted")
    BY <1>2, <1>3 DEF OfEnd
  <2>2. Failed' \subseteq Failed
    BY <1>1, <1>2, <1>3, <1>7 DEF Failed
  <2>3. ASSUME NEW i \in Ids, response[i].status \in Won, i \notin vu'[i.bid.vu].out
        PROVE  ends'[i.bid] \in {"accepted", "abandoned"}
    <3>1. ends[i.bid] \in {"accepted", "abandoned"}
      BY <2>3, <1>7 DEF EndsCounted
    <3> QED
      BY <3>1, <1>2, <1>3, <1>7
  <2>4. c' \in [Counters -> Nat] /\ c'.error >= c.error /\ c.error \in Nat
    BY <1>1 DEF Types, Counters
  <2> QED
    BY <2>1, <2>2, <2>3, <2>4, <1>1, EndsStay
<1>9. DuplicatesCounted'
  <2>1. /\ c' \in [Counters -> Nat]
        /\ c.injected \in Nat /\ c.selected \in Nat /\ c.attempts \in Nat /\ c.error \in Nat
        /\ c.replayed \in Nat
    BY <1>1 DEF Types, Counters
  <2> QED
    BY <2>1, <1>1, <1>4, CountedStep
<1> QED
  BY <1>4, <1>5, <1>6, <1>8, <1>9

LEMMA ReceiveReplayStep ==
    ASSUME IInv, NEW v \in VUs, ReceiveReplay(v)
    PROVE  IInv'
<1> USE DEF IInv
<1> DEFINE replays == Cardinality(OfStatus(Heard(v), "replayed"))
           early == Cardinality(OfStatus(Heard(v), "early"))
<1>1. /\ vu[v].pc = "demonstrating" /\ vu[v].out # {}
      /\ c' = Plus([replayed |-> replays, error |-> 1 - replays, inFlight |-> early])
      /\ Leaves(v)
      /\ UNCHANGED <<rows, lost, key, response, plan, ends, cut>>
  BY DEF ReceiveReplay
<1>2. PICK i \in Ids : vu[v].out = {i}
  BY <1>1 DEF Loops, Loop
<1>3. /\ Current(v) \in Bids /\ Current(v).vu = v /\ ends[Current(v)] = "accepted"
      /\ i.bid = Current(v)
  BY <1>1, <1>2, CurrentIsBid DEF Loops, Loop, Paces, Pace
<1>4. replays \in {0, 1} /\ early \in {0, 1}
  <2>1. \A s : OfStatus(Heard(v), s) = {} \/ OfStatus(Heard(v), s) = {i}
    BY <1>2 DEF OfStatus, Heard
  <2> QED
    BY <2>1, FS_EmptySet, FS_Singleton
<1> HIDE DEF replays, early
<1>5. /\ c.injected \in Nat /\ c.selected \in Nat /\ c.attempts \in Nat /\ c.error \in Nat
      /\ c.replayed \in Nat
  BY DEF Types, Counters
<1>6. /\ c' \in [Counters -> Nat]
      /\ c'.accepted = c.accepted /\ c'.error = c.error + (1 - replays)
      /\ c'.maxSeqSeen = c.maxSeqSeen /\ c'.replayed = c.replayed + replays
      /\ c'.invalid = c.invalid /\ c'.attempts = c.attempts
      /\ c'.selected = c.selected /\ c'.injected = c.injected
  BY <1>1, <1>4 DEF Plus, Counters, Types
<1>7. /\ vu' \in [VUs -> [pc: Steps, iter: 1..MaxIterations, attempt: 0..MaxRetries,
                          sent: 0..MaxRetries + 1, out: SUBSET Ids]]
      /\ \A w \in VUs \ {v} : vu'[w] = vu[w]
      /\ vu'[v].out = {}
      /\ Loops' /\ Paces' /\ ~Owes(v)' /\ ~Doubled(v)'
  BY <1>1, LeavesStep
<1>8. Types'
  BY <1>1, <1>6, <1>7 DEF Types
<1>9. Requests' /\ Rows' /\ Dense'
  BY <1>1, TableStays
<1>10. EndsCounted'
  <2>1. OfEnd("accepted")' = OfEnd("accepted")
    BY <1>1 DEF OfEnd
  <2>2. \A j \in Ids : /\ j.bid.vu \in VUs
                       /\ j \in vu[j.bid.vu].out /\ j \notin vu'[j.bid.vu].out => j = i
    BY <1>2, <1>7 DEF Ids, Bids
  <2>3. Failed' \subseteq Failed
    BY <2>2, <1>1, <1>3 DEF Failed
  <2>4. ASSUME NEW j \in Ids, response[j].status \in Won, j \notin vu'[j.bid.vu].out
        PROVE  ends'[j.bid] \in {"accepted", "abandoned"}
    BY <2>2, <2>4, <1>1, <1>3 DEF EndsCounted
  <2>5. c'.error >= c.error
    BY <1>4, <1>5, <1>6
  <2> QED
    BY <2>1, <2>3, <2>4, <2>5, <1>1, <1>6, EndsStay
<1>11. DuplicatesCounted'
  <2>1. ~Owes(v) /\ c.injected > 0
    BY <1>1 DEF Owes, Doubled, DuplicatesCounted
  <2> QED
    BY <2>1, <1>1, <1>4, <1>5, <1>6, <1>7, CountedStep
<1> QED
  BY <1>7, <1>8, <1>9, <1>10, <1>11

LEMMA StopStep ==
    ASSUME IInv, NEW sigint \in BOOLEAN, Stop(sigint)
    PROVE  IInv'
<1> USE DEF IInv
<1> DEFINE Abandons(b) ==
               /\ ends[b] = "open" /\ b = Current(b.vu)
               /\ vu[b.vu].attempt > 0 \/ vu[b.vu].out # {}
<1>1. /\ vu' = [v \in VUs |-> [vu[v] EXCEPT !.pc = "over", !.out = {}]]
      /\ ends' = [b \in Bids |-> IF Abandons(b) THEN "abandoned" ELSE ends[b]]
      /\ cut' = sigint
      /\ UNCHANGED <<rows, lost, key, response, plan, c>>
  BY DEF Stop
<1>2. /\ vu' \in [VUs -> [pc: Steps, iter: 1..MaxIterations, attempt: 0..MaxRetries,
                          sent: 0..MaxRetries + 1, out: SUBSET Ids]]
      /\ \A v \in VUs : vu'[v].pc = "over" /\ vu'[v].out = {} /\ vu'[v].iter = vu[v].iter
  BY <1>1 DEF Types, Steps
<1>3. /\ ends' \in [Bids -> Ends]
      /\ \A b \in Bids : ends'[b] = IF Abandons(b) THEN "abandoned" ELSE ends[b]
  <2> HIDE DEF Abandons
  <2> QED
    BY <1>1 DEF Types, Ends
<1>4. Types'
  BY <1>1, <1>2, <1>3 DEF Types
<1>5. Requests' /\ Rows' /\ Dense'
  BY <1>1, TableStays
<1>6. Loops'
  BY <1>2 DEF Loops, Loop
<1>7. Paces'
  <2> SUFFICES ASSUME NEW v \in VUs, NEW n \in 1..MaxIterations, n > vu[v].iter
               PROVE  ends'[[vu |-> v, iter |-> n]] = "open"
    BY <1>2 DEF Paces, Pace
  <2>1. /\ [vu |-> v, iter |-> n] \in Bids /\ [vu |-> v, iter |-> n] # Current(v)
        /\ [vu |-> v, iter |-> n].vu = v
    BY MaxIterationsIsPositive DEF Bids, Current, Types
  <2> QED
    BY <2>1, <1>3 DEF Paces, Pace
<1>8. EndsCounted'
  <2>1. OfEnd("accepted")' = OfEnd("accepted")
    BY <1>3 DEF OfEnd
  <2>2. ASSUME NEW i \in Ids, i \in vu[i.bid.vu].out
        PROVE  ends'[i.bid] \in {"accepted", "abandoned"}
    <3>1. i.bid \in Bids /\ i.bid.vu \in VUs
      BY DEF Ids, Bids
    <3>2. i.bid = Current(i.bid.vu) /\ vu[i.bid.vu].out # {} /\ vu[i.bid.vu].pc \notin {"ready", "over"}
      BY <2>2, <3>1 DEF Loops, Loop
    <3>3. ends[i.bid] \in {"open", "accepted"}
      BY <3>1, <3>2 DEF Paces, Pace, Types, Steps
    <3> QED
      BY <3>1, <3>2, <3>3, <1>3
  <2>3. \A i \in Ids : i.bid \in Bids /\ i.bid.vu \in VUs
    BY DEF Ids, Bids
  <2>4. Failed' \subseteq Failed
    BY <2>2, <2>3, <1>1, <1>2, <1>3 DEF Failed
  <2>5. ASSUME NEW i \in Ids, response[i].status \in Won
        PROVE  ends'[i.bid] \in {"accepted", "abandoned"}
    <3>1. CASE i \in vu[i.bid.vu].out
      BY <3>1, <2>2
    <3>2. CASE i \notin vu[i.bid.vu].out
      BY <3>2, <2>3, <2>5, <1>3 DEF EndsCounted
    <3> QED
      BY <3>1, <3>2
  <2>6. c' = c /\ c \in [Counters -> Nat] /\ c.error \in Nat
    BY <1>1 DEF Types, Counters
  <2> QED
    <3>1. c' \in [Counters -> Nat] /\ c'.error >= c.error
      BY <2>6
    <3>2. c'.accepted = c.accepted /\ c'.maxSeqSeen = c.maxSeqSeen
      BY <2>6
    <3> QED
      BY <2>1, <2>4, <2>5, <3>1, <3>2, <1>1, EndsStay
<1>9. DuplicatesCounted'
  <2>1. Owing' = {} /\ \A v \in VUs : ~Doubled(v)'
    BY <1>2 DEF Owing, Owes, Doubled
  <2>2. IsFiniteSet(Owing)
    BY VUsAreFinite, FS_Subset DEF Owing
  <2>3. Cardinality(Owing') = 0 /\ Cardinality(Owing) \in Nat
    BY <2>1, <2>2, FS_EmptySet, FS_CardinalityType
  <2>4. c.injected \in Nat /\ c.selected \in Nat
    BY DEF Types, Counters
  <2>5. c' = c
    BY <1>1
  <2>6. c.injected + 0 <= c.selected /\ c.selected <= c.attempts
    BY <2>3, <2>4 DEF DuplicatesCounted
  <2> QED
    BY <2>1, <2>3, <2>5, <2>6 DEF DuplicatesCounted
<1> QED
  BY <1>4, <1>5, <1>6, <1>7, <1>8, <1>9

----------------------------------------------------------------------------
(* A VU receives.                                                          *)

(* What a VU hears of its requests is of its logical bid. *)
LEMMA HeardIsOwn ==
    ASSUME Types, Requests, Loops, NEW v \in VUs
    PROVE  /\ vu[v].out \subseteq Ids /\ IsFiniteSet(vu[v].out)
           /\ Heard(v) = {i \in vu[v].out : response[i].status # "none"}
           /\ \A i \in vu[v].out : i.bid = Current(v) /\ response[i].status \in (Quiet \cup Won) \ {"unsent"}
<1>1. vu[v].out \subseteq Ids /\ IsFiniteSet(vu[v].out)
  <2>1. vu[v].out \in SUBSET Ids
    BY DEF Types
  <2> QED
    BY <2>1, BidsAreFinite, FS_Subset
<1>2. ASSUME NEW i \in vu[v].out PROVE response[i] = Service!Unanswered <=> response[i].status = "none"
  <2>1. response[i] \in [status: Quiet \cup Won, body: Ids \cup {NoBody}]
    BY <1>1 DEF Types
  <2>2. response[i].status = "none" => response[i].body = NoBody
    BY <1>1 DEF Requests, Request, Quiet
  <2> QED
    BY <2>1, <2>2 DEF Service!Unanswered
<1>3. Heard(v) = {i \in vu[v].out : response[i].status # "none"}
  BY <1>2 DEF Heard
<1>4. \A i \in vu[v].out : i.bid = Current(v) /\ response[i].status \in (Quiet \cup Won) \ {"unsent"}
  BY <1>1 DEF Types, Loops, Loop, Sent
<1> QED
  BY <1>1, <1>3, <1>4

(* A 201 tells the row of the logical bid, whichever request it is to.     *)
LEMMA ToldIsRow ==
    ASSUME Types, Requests, Rows, NEW i \in Ids, response[i].status \in Won
    PROVE  \E r \in Committed : r.key = i.bid /\ SeqOf(i) = r.seq /\ r.seq \in Nat
<1>1. PICK r \in Committed : r.id = response[i].body /\ r.key = i.bid
  BY DEF Requests, Request
<1> DEFINE b == CHOOSE q \in Committed : q.id = response[i].body
<1>2. b \in Committed /\ b.id = r.id
  BY <1>1
<1> HIDE DEF b
<1>3. b.key = r.key
  BY <1>2 DEF Rows
<1>4. b.seq \in Nat
  BY <1>2 DEF Committed, Types, Row
<1> QED
  BY <1>1, <1>2, <1>3, <1>4 DEF SeqOf, b

LEMMA FirstOfWins ==
    ASSUME NEW S \in SUBSET Ids, S # {}
    PROVE  (CHOOSE i \in S : \A j \in S : i.n <= j.n) \in S
<1> DEFINE N == {i.n : i \in S}
<1>1. N \subseteq Nat /\ N # {}
  BY MaxRetriesIsPositive DEF Ids
<1>2. PICK n \in N : \A m \in N : ~ (<<m, n>> \in OpToRel(<, Nat))
  <2> HIDE DEF N
  <2> QED
    BY <1>1, NatLessThanWellFounded, WFMin, Zenon
<1>3. \A m \in N : n <= m
  <2> HIDE DEF N
  <2>1. \A m \in N : ~ (m < n)
    BY <1>1, <1>2 DEF OpToRel
  <2> QED
    BY <1>1, <2>1
<1>4. \E i \in S : \A j \in S : i.n <= j.n
  BY <1>2, <1>3
<1> QED
  BY <1>4

(* What reduceResponses counts. *)
LEMMA ReduceCounts ==
    ASSUME Types, Requests, Rows, Loops, NEW v \in VUs,
           NEW shut \in SUBSET Heard(v), Reduce(v, Heard(v), shut)
    PROVE  /\ c' \in [Counters -> Nat]
           /\ c'.accepted = c.accepted + Accepts(Heard(v))
           /\ c'.error = c.error + Errors(v, Heard(v)) /\ Errors(v, Heard(v)) \in Nat
           /\ c'.replayed = c.replayed + Cardinality(OfStatus(Heard(v), "replayed"))
           /\ Cardinality(OfStatus(Heard(v), "replayed")) \in Nat
           /\ c'.invalid = c.invalid /\ c'.attempts = c.attempts
           /\ c'.selected = c.selected /\ c'.injected = c.injected
           /\ c'.maxSeqSeen >= c.maxSeqSeen
           /\ Wins(Heard(v)) = {} => c'.maxSeqSeen = c.maxSeqSeen
           /\ Wins(Heard(v)) # {} =>
                 \E r \in Committed : /\ r.key = Current(v)
                                      /\ c'.maxSeqSeen \in {c.maxSeqSeen, r.seq}
                                      /\ c'.maxSeqSeen >= r.seq
<1> DEFINE S == Heard(v)
           first == CHOOSE i \in Wins(S) : \A j \in Wins(S) : i.n <= j.n
           seq == IF Wins(S) = {} THEN 0 ELSE SeqOf(first)
           replays == Cardinality(OfStatus(S, "replayed"))
           early == Cardinality(OfStatus(S, "early"))
           closed == Cardinality(shut)
           counted == Plus([accepted |-> Accepts(S), error |-> Errors(v, S), replayed |-> replays,
                            inFlight |-> early, closed |-> closed])
<1>1. c' = [counted EXCEPT !.maxSeqSeen = Max({c.maxSeqSeen, seq})]
  BY DEF Reduce
<1>2. /\ \A s : IsFiniteSet(OfStatus(S, s)) /\ Cardinality(OfStatus(S, s)) \in Nat
      /\ closed \in Nat /\ Cardinality(vu[v].out \ S) \in Nat
  <2>1. S \subseteq vu[v].out /\ IsFiniteSet(vu[v].out)
    BY HeardIsOwn
  <2>2. \A s : OfStatus(S, s) \subseteq vu[v].out
    BY <2>1 DEF OfStatus
  <2>3. shut \subseteq vu[v].out /\ vu[v].out \ S \subseteq vu[v].out
    BY <2>1
  <2>4. \A T : T \subseteq vu[v].out => IsFiniteSet(T) /\ Cardinality(T) \in Nat
    BY <2>1, FS_Subset, FS_CardinalityType
  <2> HIDE DEF S
  <2> QED
    BY <2>2, <2>3, <2>4
<1>3. Errors(v, S) \in Nat /\ Accepts(S) \in Nat /\ replays \in Nat /\ early \in Nat
  BY <1>2 DEF Errors, Accepts
<1>4. Wins(S) # {} => \E r \in Committed : r.key = Current(v) /\ seq = r.seq /\ r.seq \in Nat
  <2> SUFFICES ASSUME Wins(S) # {} PROVE \E r \in Committed : r.key = Current(v) /\ SeqOf(first) = r.seq /\ r.seq \in Nat
    BY Zenon
  <2>1. Wins(S) \in SUBSET Ids /\ \A i \in Wins(S) : i.bid = Current(v) /\ response[i].status \in Won
    BY HeardIsOwn DEF Wins, OfStatus, Won
  <2>2. first \in Wins(S)
    <3> HIDE DEF S
    <3> QED
      BY <2>1, FirstOfWins
  <2> HIDE DEF first
  <2> QED
    BY <2>1, <2>2, ToldIsRow
<1>5. seq \in Nat /\ c.maxSeqSeen \in Nat
  BY <1>4 DEF Types, Counters
<1> HIDE DEF seq, replays, early, closed, S
<1> DEFINE top == Max({c.maxSeqSeen, seq})
<1>6. top \in {c.maxSeqSeen, seq} /\ top >= c.maxSeqSeen /\ top >= seq
  BY <1>5, MaxOfTwo
<1> HIDE DEF top
<1>7. /\ counted \in [Counters -> Nat]
      /\ counted.accepted = c.accepted + Accepts(S)
      /\ counted.error = c.error + Errors(v, S)
      /\ counted.replayed = c.replayed + replays
      /\ counted.invalid = c.invalid /\ counted.attempts = c.attempts
      /\ counted.selected = c.selected /\ counted.injected = c.injected
  BY <1>2, <1>3 DEF Plus, Counters, Types
<1> HIDE DEF counted
<1>8. top \in Nat
  BY <1>5, <1>6
<1>9. /\ c' \in [Counters -> Nat]
      /\ c'.accepted = counted.accepted /\ c'.error = counted.error
      /\ c'.replayed = counted.replayed
      /\ c'.invalid = counted.invalid /\ c'.attempts = counted.attempts
      /\ c'.selected = counted.selected /\ c'.injected = counted.injected
      /\ c'.maxSeqSeen = top
  BY <1>1, <1>7, <1>8 DEF Counters, top
<1>10. Wins(S) = {} => seq = 0
  BY DEF seq, S
<1>11. Wins(S) = {} => top = c.maxSeqSeen
  BY <1>5, <1>6, <1>10
<1> QED
  BY <1>3, <1>4, <1>6, <1>7, <1>9, <1>11 DEF S, replays

(* A replay answers for a bid that another request left behind: a          *)
(* duplicate, or one whose own answer was counted as an error.             *)
LEMMA ReplayNeedsFirst ==
    ASSUME IInv, NEW v \in VUs, vu[v].pc = "waiting",
           NEW i \in vu[v].out, response[i].status = "replayed"
    PROVE  c.injected > 0 \/ c.error > 0
<1> USE DEF IInv
<1>1. i \in Ids /\ i.bid = Current(v) /\ Current(v) \in Bids /\ Current(v).vu = v
  BY HeardIsOwn, CurrentIsBid
<1>2. CASE Mode(v) = "concurrent"
  BY <1>2 DEF DuplicatesCounted, Doubled
<1>3. CASE Mode(v) # "concurrent"
  <2>1. vu[v].out = {i}
    BY <1>3 DEF Loops, Loop
  <2>2. PICK r \in Committed : r.id = response[i].body /\ r.key = i.bid
    BY <1>1 DEF Requests, Request, Won
  <2>3. r.id \in Ids /\ r.id # i /\ r.id.bid = Current(v)
        /\ response[r.id].status \in {"none", "unavailable", "created"}
    BY <2>2, <1>1 DEF Requests, Request, Rows, Committed, Types, Row
  <2>4. ends[Current(v)] = "open"
    BY DEF Paces, Pace
  <2>5. r.id \in Failed
    BY <2>1, <2>3, <2>4, <1>1 DEF Failed, EndsCounted, Won
  <2>6. Cardinality(Failed) # 0 /\ Cardinality(Failed) \in Nat
    BY <2>5, FailedIsFinite, FS_EmptySet
  <2>7. Cardinality(Failed) <= c.error /\ c.error \in Nat
    BY DEF EndsCounted, Types, Counters
  <2> QED
    BY <2>6, <2>7
<1> QED
  BY <1>2, <1>3

LEMMA ReceiveCounted ==
    ASSUME IInv, NEW v \in VUs, vu[v].pc = "waiting",
           NEW shut \in SUBSET Heard(v), Reduce(v, Heard(v), shut), UNCHANGED plan,
           \A w \in VUs \ {v} : vu'[w] = vu[w],
           Owes(v)' => Owes(v), Doubled(v)' => Doubled(v)
    PROVE  DuplicatesCounted'
<1> USE DEF IInv
<1> DEFINE replays == OfStatus(Heard(v), "replayed")
<1>1. /\ c' \in [Counters -> Nat]
      /\ c'.error = c.error + Errors(v, Heard(v)) /\ Errors(v, Heard(v)) \in Nat
      /\ c'.replayed = c.replayed + Cardinality(replays) /\ Cardinality(replays) \in Nat
      /\ c'.invalid = c.invalid /\ c'.attempts = c.attempts
      /\ c'.selected = c.selected /\ c'.injected = c.injected
  BY ReduceCounts
<1>2. /\ c.injected \in Nat /\ c.selected \in Nat /\ c.attempts \in Nat /\ c.error \in Nat
      /\ c.replayed \in Nat
  BY DEF Types, Counters
<1>3. ASSUME c'.replayed > c.replayed PROVE c.injected > 0 \/ c.error > 0
  <2>1. Cardinality(replays) # 0
    BY <1>1, <1>2, <1>3
  <2>2. PICK i \in replays : TRUE
    BY <2>1, FS_EmptySet
  <2>3. i \in vu[v].out /\ response[i].status = "replayed"
    BY <2>2 DEF OfStatus, Heard
  <2> QED
    BY <2>3, ReplayNeedsFirst
<1> HIDE DEF replays
<1>4. c'.replayed > c.replayed => c'.injected > 0 \/ c'.error > 0
  BY <1>1, <1>2, <1>3
<1>5. Doubled(v)' => c'.injected > 0
  BY <1>1 DEF DuplicatesCounted
<1>6. c'.replayed >= c.replayed /\ c'.error >= c.error
  BY <1>1, <1>2
<1> QED
  BY <1>1, <1>2, <1>4, <1>5, <1>6, CountedStep

(* The accept of a logical bid is counted, and its seq is known.           *)
LEMMA AcceptedEnds ==
    ASSUME IInv, NEW v \in VUs, vu[v].pc = "waiting",
           NEW shut \in SUBSET Heard(v), Reduce(v, Heard(v), shut), Wins(Heard(v)) # {},
           ends' = [ends EXCEPT ![Current(v)] = "accepted"],
           \A w \in VUs \ {v} : vu'[w] = vu[w], vu'[v].out = {},
           UNCHANGED <<rows, lost, response>>
    PROVE  EndsCounted'
<1> USE DEF IInv
<1> DEFINE b == Current(v)
<1>1. /\ b \in Bids /\ b.vu = v /\ ends[b] = "open"
      /\ ends'[b] = "accepted" /\ \A d \in Bids \ {b} : ends'[d] = ends[d]
  BY CurrentIsBid DEF Paces, Pace, Types
<1>2. /\ c' \in [Counters -> Nat]
      /\ c'.accepted = c.accepted + 1
      /\ c'.error = c.error + Errors(v, Heard(v)) /\ Errors(v, Heard(v)) \in Nat
      /\ c'.maxSeqSeen >= c.maxSeqSeen
  BY ReduceCounts DEF Accepts
<1>3. PICK r \in Committed : /\ r.key = b
                             /\ c'.maxSeqSeen \in {c.maxSeqSeen, r.seq}
                             /\ c'.maxSeqSeen >= r.seq
  BY ReduceCounts
<1>4. /\ c.error \in Nat /\ c.maxSeqSeen \in Nat /\ c'.maxSeqSeen \in Nat
      /\ Committed' = Committed /\ \A q \in Committed : q.seq \in Nat
  BY <1>2 DEF Types, Counters, Committed, Row
<1>5. /\ \A j \in Ids : j.bid \in Bids /\ j.bid.vu \in VUs
      /\ \A j \in Ids : j.bid # b => vu'[j.bid.vu].out = vu[j.bid.vu].out \/ j \notin vu[j.bid.vu].out
  <2>1. \A j \in Ids : j.bid \in Bids /\ j.bid.vu \in VUs
    BY DEF Ids, Bids
  <2>2. \A j \in vu[v].out : j.bid = b
    BY HeardIsOwn
  <2> QED
    BY <2>1, <2>2
<1> HIDE DEF b
<1>6. c'.accepted = Cardinality(OfEnd("accepted")')
  <2>1. OfEnd("accepted")' = OfEnd("accepted") \cup {b} /\ b \notin OfEnd("accepted")
    BY <1>1 DEF OfEnd
  <2>2. IsFiniteSet(OfEnd("accepted"))
    BY BidsAreFinite, FS_Subset DEF OfEnd
  <2>3. Cardinality(OfEnd("accepted")') = Cardinality(OfEnd("accepted")) + 1
    BY <2>1, <2>2, FS_AddElement
  <2> QED
    BY <2>3, <1>2 DEF EndsCounted
<1>7. Cardinality(Failed') <= c'.error
  <2>1. Failed' \subseteq Failed
    BY <1>1, <1>5 DEF Failed
  <2>2. c'.error >= c.error
    BY <1>2, <1>4
  <2> QED
    BY <2>1, <2>2, <1>2, NoNewFailure
<1>8. c'.maxSeqSeen \in {0} \cup {q.seq : q \in Committed}
  BY <1>3 DEF EndsCounted
<1>9. ASSUME NEW d \in OfEnd("accepted")'
      PROVE  \E q \in Committed : q.key = d /\ q.seq <= c'.maxSeqSeen
  <2>1. CASE d = b
    BY <2>1, <1>3, <1>4
  <2>2. CASE d # b
    <3>1. d \in OfEnd("accepted")
      BY <2>2, <1>1, <1>9 DEF OfEnd
    <3>2. PICK q \in Committed : q.key = d /\ q.seq <= c.maxSeqSeen
      BY <3>1 DEF EndsCounted
    <3> QED
      BY <3>2, <1>2, <1>4
  <2> QED
    BY <2>1, <2>2
<1>10. ASSUME NEW j \in Ids, response[j].status \in Won, j \notin vu'[j.bid.vu].out
       PROVE  ends'[j.bid] \in {"accepted", "abandoned"}
  BY <1>1, <1>5, <1>10 DEF EndsCounted
<1> QED
  BY <1>4, <1>6, <1>7, <1>8, <1>9, <1>10 DEF EndsCounted

(* Where nothing was won, each request that was told 503 or nothing is an  *)
(* error.                                                                  *)
LEMMA GivenUpEnds ==
    ASSUME IInv, NEW v \in VUs, vu[v].pc = "waiting",
           NEW shut \in SUBSET Heard(v), Reduce(v, Heard(v), shut), Wins(Heard(v)) = {},
           \A d \in Bids \ {Current(v)} : ends'[d] = ends[d], ends'[Current(v)] \in {"open", "terminal"},
           \A w \in VUs \ {v} : vu'[w] = vu[w], vu'[v].out = {},
           UNCHANGED <<rows, lost, response>>
    PROVE  EndsCounted'
<1> USE DEF IInv
<1> DEFINE b == Current(v)
           S == Heard(v)
           told == OfStatus(S, "unavailable")
           untold == vu[v].out \ S
<1>1. b \in Bids /\ b.vu = v /\ ends[b] = "open"
  BY CurrentIsBid DEF Paces, Pace
<1>2. /\ c' \in [Counters -> Nat]
      /\ c'.accepted = c.accepted /\ c'.maxSeqSeen = c.maxSeqSeen
      /\ c'.error = c.error + Errors(v, S)
  <2>1. c'.accepted = c.accepted + Accepts(S) /\ Accepts(S) = 0 /\ c.accepted \in Nat
    BY ReduceCounts DEF Accepts, Types, Counters
  <2> HIDE DEF S
  <2>2. c'.accepted = c.accepted
    BY <2>1
  <2> QED
    BY <2>2, ReduceCounts DEF S
<1>3. /\ vu[v].out \subseteq Ids /\ IsFiniteSet(vu[v].out)
      /\ S = {i \in vu[v].out : response[i].status # "none"}
      /\ \A i \in vu[v].out : i.bid = b /\ response[i].status \in (Quiet \cup Won) \ {"unsent"}
  BY HeardIsOwn
<1>4. \A j \in Ids : j.bid \in Bids /\ j.bid.vu \in VUs
  BY DEF Ids, Bids
<1> HIDE DEF b, S
<1>5. Failed' \subseteq Failed \cup (told \cup untold)
  <2> SUFFICES ASSUME NEW j \in Failed', j \notin Failed PROVE j \in told \cup untold
    OBVIOUS
  <2>1. /\ j \in Ids /\ response[j].status \in {"none", "unavailable"}
        /\ ends'[j.bid] \notin {"accepted", "abandoned"}
    BY DEF Failed
  <2>2. ends[j.bid] \notin {"accepted", "abandoned"}
    BY <2>1, <1>1, <1>4 DEF b
  <2>3. j \in vu[j.bid.vu].out
    BY <2>1, <2>2 DEF Failed
  <2>4. j.bid.vu = v
    BY <2>1, <2>3, <1>4 DEF Failed
  <2> QED
    BY <2>1, <2>3, <2>4, <1>3 DEF OfStatus
<1>6. Cardinality(told \cup untold) = Errors(v, S) /\ IsFiniteSet(told \cup untold)
  <2>1. told \subseteq vu[v].out /\ untold \subseteq vu[v].out /\ told \cap untold = {}
    BY <1>3 DEF OfStatus
  <2>2. IsFiniteSet(told) /\ IsFiniteSet(untold)
    BY <2>1, <1>3, FS_Subset
  <2>3. Cardinality(told) \in Nat /\ Cardinality(untold) \in Nat /\ Cardinality(told \cap untold) = 0
    BY <2>1, <2>2, FS_CardinalityType, FS_EmptySet
  <2>4. Cardinality(told \cup untold) = Cardinality(told) + Cardinality(untold) - Cardinality(told \cap untold)
        /\ IsFiniteSet(told \cup untold)
    BY <2>2, FS_Union
  <2> QED
    BY <2>3, <2>4 DEF Errors
<1> DEFINE wrong == told \cup untold
<1>7. Cardinality(Failed') <= c'.error
  <2>1. IsFiniteSet(wrong) /\ Cardinality(wrong) = Errors(v, S) /\ Failed' \subseteq Failed \cup wrong
    BY <1>5, <1>6
  <2> HIDE DEF wrong
  <2>2. /\ IsFiniteSet(Failed \cup wrong)
        /\ Cardinality(Failed \cup wrong) = Cardinality(Failed) + Cardinality(wrong) - Cardinality(Failed \cap wrong)
    BY <2>1, FailedIsFinite, FS_Union
  <2>3. Cardinality(Failed \cap wrong) \in Nat
    <3>1. IsFiniteSet(Failed \cap wrong)
      BY FailedIsFinite, FS_Intersection
    <3> QED
      BY <3>1, FS_CardinalityType
  <2>4. Cardinality(Failed') <= Cardinality(Failed \cup wrong)
    BY <2>1, <2>2, FS_Subset
  <2>5. Cardinality(wrong) \in Nat /\ c.error \in Nat /\ Cardinality(Failed) <= c.error
    BY <2>1, FS_CardinalityType DEF Types, Counters, EndsCounted
  <2> QED
    BY <2>1, <2>2, <2>3, <2>4, <2>5, <1>2, FailedIsFinite
<1>8. OfEnd("accepted")' = OfEnd("accepted")
  BY <1>1 DEF OfEnd, b
<1>9. ASSUME NEW j \in Ids, response[j].status \in Won, j \notin vu'[j.bid.vu].out
      PROVE  ends'[j.bid] \in {"accepted", "abandoned"}
  <2>1. j \notin vu[v].out
    BY <1>3, <1>9 DEF Wins, OfStatus, Won, S
  <2>2. j \notin vu[j.bid.vu].out
    BY <2>1, <1>4, <1>9
  <2>3. ends[j.bid] \in {"accepted", "abandoned"}
    BY <2>2, <1>9 DEF EndsCounted
  <2> QED
    BY <2>3, <1>1, <1>4 DEF b
<1>10. Committed' = Committed
  BY DEF Committed
<1> QED
  BY <1>2, <1>7, <1>8, <1>9, <1>10 DEF EndsCounted

LEMMA ReceiveStep ==
    ASSUME IInv, NEW v \in VUs, Receive(v)
    PROVE  IInv'
<1> USE DEF IInv
<1> DEFINE b == Current(v)
           S == Heard(v)
<1>1. vu[v].pc = "waiting" /\ UNCHANGED <<rows, lost, key, response, plan, cut>>
  BY DEF Receive
<1>2. /\ b \in Bids /\ b.vu = v /\ ends[b] = "open"
      /\ vu[v].attempt < MaxRetries /\ vu[v].attempt \in Nat /\ MaxRetries \in Nat
      /\ vu[v].sent = vu[v].attempt + 1 + IF Mode(v) = "concurrent" THEN 1 ELSE 0
      /\ vu[v] \in [pc: Steps, iter: 1..MaxIterations, attempt: 0..MaxRetries,
                    sent: 0..MaxRetries + 1, out: SUBSET Ids]
  BY <1>1, CurrentIsBid, MaxRetriesIsPositive DEF Paces, Pace, Loops, Loop, Types
<1>3. Requests' /\ Rows' /\ Dense'
  BY <1>1, TableStays
<1>4. \A i \in Ids : Sent(i) => Sent(i)'
  BY <1>1 DEF Sent
<1>5. ASSUME NEW shut \in SUBSET OfStatus(S, "rejected"), Accepted(v, S, shut)
      PROVE  IInv'
  <2>1. /\ Wins(S) # {} /\ Reduce(v, S, shut) /\ shut \in SUBSET S
        /\ ends' = [ends EXCEPT ![b] = "accepted"]
    BY <1>5 DEF Accepted, OfStatus
  <2>2. /\ ends'[b] = "accepted" /\ \A d \in Bids \ {b} : ends'[d] = ends[d]
        /\ ends' \in [Bids -> Ends] /\ c' \in [Counters -> Nat]
    BY <2>1, <1>2, ReduceCounts DEF Types, Ends
  <2>3. /\ vu' \in [VUs -> [pc: Steps, iter: 1..MaxIterations, attempt: 0..MaxRetries,
                            sent: 0..MaxRetries + 1, out: SUBSET Ids]]
        /\ \A w \in VUs \ {v} : vu'[w] = vu[w]
        /\ vu'[v].out = {}
        /\ Loops' /\ Paces' /\ (Owes(v)' => Owes(v)) /\ (Doubled(v)' => Doubled(v))
    <3>1. CASE Mode(v) = "replay"
      <4>1. vu' = [vu EXCEPT ![v].pc = "demonstrating", ![v].out = {}]
        BY <1>5, <3>1 DEF Accepted
      <4>2. /\ vu'[v] = [pc |-> "demonstrating", iter |-> vu[v].iter, attempt |-> vu[v].attempt,
                         sent |-> vu[v].sent, out |-> {}]
            /\ \A w \in VUs \ {v} : vu'[w] = vu[w]
            /\ vu' \in [VUs -> [pc: Steps, iter: 1..MaxIterations, attempt: 0..MaxRetries,
                                sent: 0..MaxRetries + 1, out: SUBSET Ids]]
        BY <4>1, <1>2 DEF Types, Steps
      <4>3. Current(v)' = b /\ Mode(v)' = Mode(v)
        BY <4>2, <1>1 DEF Current, Mode
      <4>4. Loop(v)' /\ Pace(v)'
        <5>1. Loop(v)'
          BY <4>2, <4>3, <3>1, <1>2 DEF Loop
        <5>2. Pace(v)'
          <6>1. ASSUME NEW n \in 1..MaxIterations, n > vu[v].iter
                PROVE  ends'[[vu |-> v, iter |-> n]] = "open"
            <7>1. [vu |-> v, iter |-> n] \in Bids \ {b}
              BY <6>1, <1>2 DEF Bids, Current
            <7> QED
              BY <7>1, <6>1, <2>2 DEF Paces, Pace
          <6> QED
            BY <6>1, <4>2, <4>3, <2>2 DEF Pace
        <5> QED
          BY <5>1, <5>2
      <4>5. ASSUME NEW w \in VUs \ {v} PROVE Loop(w)' /\ Pace(w)'
        BY <4>2, <4>5, <2>2, <1>1, <1>2, <1>4, OthersLoop, OthersPace
      <4>6. Loops' /\ Paces'
        BY <4>4, <4>5 DEF Loops, Paces
      <4>7. Owes(v) /\ ~Doubled(v)'
        BY <4>2, <4>3, <3>1, <1>1 DEF Owes, Doubled
      <4> QED
        BY <4>2, <4>6, <4>7
    <3>2. CASE Mode(v) # "replay"
      <4>1. Leaves(v)
        BY <1>5, <3>2 DEF Accepted
      <4> QED
        BY <4>1, <2>2, <1>1, LeavesStep
    <3> QED
      BY <3>1, <3>2
  <2>4. Types'
    BY <2>2, <2>3, <1>1 DEF Types
  <2>5. EndsCounted'
    BY <2>1, <2>3, <1>1, AcceptedEnds
  <2>6. DuplicatesCounted'
    BY <2>1, <2>3, <1>1, ReceiveCounted
  <2> QED
    BY <2>3, <2>4, <2>5, <2>6, <1>3
<1>6. ASSUME NEW shut \in SUBSET OfStatus(S, "rejected"), Terminates(v, S, shut)
      PROVE  IInv'
  <2>1. /\ Wins(S) = {} /\ Reduce(v, S, shut) /\ shut \in SUBSET S
        /\ ends' = [ends EXCEPT ![b] = "terminal"] /\ Leaves(v)
    BY <1>6 DEF Terminates, OfStatus
  <2>2. /\ ends'[b] = "terminal" /\ \A d \in Bids \ {b} : ends'[d] = ends[d]
        /\ ends' \in [Bids -> Ends] /\ c' \in [Counters -> Nat]
    BY <2>1, <1>2, ReduceCounts DEF Types, Ends
  <2>3. /\ vu' \in [VUs -> [pc: Steps, iter: 1..MaxIterations, attempt: 0..MaxRetries,
                            sent: 0..MaxRetries + 1, out: SUBSET Ids]]
        /\ \A w \in VUs \ {v} : vu'[w] = vu[w]
        /\ vu'[v].out = {}
        /\ Loops' /\ Paces' /\ ~Owes(v)' /\ ~Doubled(v)'
    BY <2>1, <2>2, <1>1, LeavesStep
  <2>4. Types'
    BY <2>2, <2>3, <1>1 DEF Types
  <2>5. EndsCounted'
    BY <2>1, <2>2, <2>3, <1>1, GivenUpEnds
  <2>6. DuplicatesCounted'
    BY <2>1, <2>3, <1>1, ReceiveCounted
  <2> QED
    BY <2>3, <2>4, <2>5, <2>6, <1>3
<1>7. ASSUME Retries(v, S)
      PROVE  IInv'
  <2>1. /\ Wins(S) = {} /\ Reduce(v, S, {}) /\ ends' = ends
        /\ vu' = [vu EXCEPT ![v].pc = "ready", ![v].attempt = @ + 1, ![v].out = {}]
    BY <1>7 DEF Retries
  <2>2. c' \in [Counters -> Nat]
    BY <2>1, ReduceCounts
  <2>3. /\ vu'[v] = [pc |-> "ready", iter |-> vu[v].iter, attempt |-> vu[v].attempt + 1,
                     sent |-> vu[v].sent, out |-> {}]
        /\ \A w \in VUs \ {v} : vu'[w] = vu[w]
        /\ vu' \in [VUs -> [pc: Steps, iter: 1..MaxIterations, attempt: 0..MaxRetries,
                            sent: 0..MaxRetries + 1, out: SUBSET Ids]]
    <3>1. vu[v].attempt + 1 \in 0..MaxRetries
      BY <1>2
    <3> QED
      BY <2>1, <3>1, <1>2 DEF Types, Steps
  <2>4. Current(v)' = b /\ Mode(v)' = Mode(v)
    BY <2>3, <1>1 DEF Current, Mode
  <2>5. Loop(v)'
    <3>1. vu'[v].sent = vu'[v].attempt + IF Mode(v)' = "concurrent" /\ vu'[v].attempt > 0 THEN 1 ELSE 0
      BY <2>3, <2>4, <1>2
    <3> QED
      BY <3>1, <2>3, <2>4 DEF Loop
  <2>6. Pace(v)'
    BY <2>1, <2>3, <2>4, <1>2 DEF Paces, Pace
  <2>7. ASSUME NEW w \in VUs \ {v} PROVE Loop(w)' /\ Pace(w)'
    BY <2>3, <2>7, <2>1, <1>1, <1>4, OthersLoop, OthersPace
  <2>8. Loops' /\ Paces'
    BY <2>5, <2>6, <2>7 DEF Loops, Paces
  <2>9. (Owes(v)' => Owes(v)) /\ (Doubled(v)' => Doubled(v))
    BY <2>3, <2>4, <1>1 DEF Owes, Doubled
  <2>10. Types'
    BY <2>1, <2>2, <2>3, <1>1 DEF Types
  <2>11. EndsCounted'
    <3>1. ends'[b] \in {"open", "terminal"} /\ {} \in SUBSET S /\ vu'[v].out = {}
      BY <2>1, <2>3, <1>2
    <3> QED
      BY <3>1, <2>1, <2>3, <1>1, GivenUpEnds
  <2>12. DuplicatesCounted'
    <3>1. {} \in SUBSET S
      OBVIOUS
    <3> QED
      BY <3>1, <2>1, <2>3, <2>9, <1>1, ReceiveCounted
  <2> QED
    BY <2>8, <2>10, <2>11, <2>12, <1>3
<1> QED
  BY <1>5, <1>6, <1>7 DEF Receive

(* k6, the service and the database keep the accounts. *)
LEMMA InvStep == IInv /\ [Next]_vars => IInv'
<1> SUFFICES ASSUME IInv, [Next]_vars PROVE IInv'
  OBVIOUS
<1>1. CASE UNCHANGED vars
  <2>1. UNCHANGED <<rows, lost, key, response, plan, vu, ends, c, cut, k6>>
    BY <1>1 DEF vars, k6
  <2>2. Types'
    BY <2>1 DEF IInv, Types
  <2>3. Requests' /\ Rows' /\ Dense'
    BY <2>1, TableStays DEF IInv
  <2>4. Loops' /\ Paces' /\ DuplicatesCounted'
    BY <2>1, ClientStays DEF IInv, Sent
  <2>5. EndsCounted'
    BY <2>1 DEF IInv, EndsCounted, OfEnd, Failed, Committed
  <2> QED
    BY <2>2, <2>3, <2>4, <2>5 DEF IInv
<1>2. ASSUME NEW v \in VUs,
             Attempt(v) \/ Duplicate(v) \/ Receive(v) \/ PostReplay(v) \/ ReceiveReplay(v) \/ Exhaust(v)
      PROVE  IInv'
  BY <1>2, AttemptStep, DuplicateStep, ReceiveStep, PostReplayStep, ReceiveReplayStep, ExhaustStep
<1>3. ASSUME NEW sigint \in BOOLEAN, Stop(sigint) PROVE IInv'
  BY <1>3, StopStep
<1>4. ASSUME NEW i \in Ids, Land(i) \/ Answer(i) PROVE IInv'
  BY <1>4, LandStep, AnswerStep
<1>5. ASSUME NEW b \in rows, Lose(b) PROVE IInv'
  BY <1>5, LoseStep
<1> QED
  BY <1>1, <1>2, <1>3, <1>4, <1>5 DEF Next

LEMMA InvInit == Init => IInv
<1> SUFFICES ASSUME Init PROVE IInv
  OBVIOUS
<1>1. /\ rows = {} /\ lost = {} /\ cut = FALSE
      /\ key = [i \in Ids |-> NoKey]
      /\ response = [i \in Ids |-> [status |-> "unsent", body |-> NoBody]]
      /\ plan \in [Bids -> [auction: Auctions, mode: Modes]]
      /\ vu = [v \in VUs |-> Fresh]
      /\ ends = [b \in Bids |-> "open"]
      /\ c = [x \in Counters |-> 0]
  BY DEF Init, Service!Init, Service!Unsent
<1>2. /\ MaxIterations \in Nat \ {0} /\ MaxRetries \in Nat
      /\ \A v \in VUs : Current(v) \in Bids /\ vu[v] = Fresh
  BY <1>1, MaxIterationsIsPositive, MaxRetriesIsPositive DEF Current, Bids, Fresh
<1>3. /\ c.accepted = 0 /\ c.error = 0 /\ c.maxSeqSeen = 0 /\ c.injected = 0 /\ c.selected = 0
      /\ c.attempts = 0 /\ c.invalid = 0 /\ c.replayed = 0
  BY <1>1 DEF Counters
<1>4. Types
  <2>1. vu \in [VUs -> [pc: Steps, iter: 1..MaxIterations, attempt: 0..MaxRetries,
                       sent: 0..MaxRetries + 1, out: SUBSET Ids]]
    <3>1. Fresh \in [pc: Steps, iter: 1..MaxIterations, attempt: 0..MaxRetries,
                    sent: 0..MaxRetries + 1, out: SUBSET Ids]
      BY <1>2 DEF Fresh, Steps
    <3> QED
      BY <3>1, <1>1
  <2>2. response \in [Ids -> [status: Quiet \cup Won, body: Ids \cup {NoBody}]]
    BY <1>1 DEF Quiet
  <2>3. ends \in [Bids -> Ends] /\ c \in [Counters -> Nat] /\ key \in [Ids -> Bids \cup {NoKey}]
    BY <1>1 DEF Ends
  <2> QED
    BY <2>1, <2>2, <2>3, <1>1 DEF Types
<1>5. Requests
  BY <1>1 DEF Requests, Request, Sent, Quiet, Won
<1>6. Rows
  BY <1>1, FS_EmptySet DEF Rows, Committed
<1>7. Dense
  <2>1. \A a \in Auctions : RowsOf(a) = {} /\ Seqs(a) = {}
    BY <1>1 DEF RowsOf, Seqs
  <2> QED
    <3>1. 1..0 = {}
      OBVIOUS
    <3>2. \A a \in Auctions : Seqs(a) = 1..Cardinality(RowsOf(a))
      BY <2>1, <3>1, FS_EmptySet
    <3> QED
      BY <3>2, <1>1 DEF Dense
<1>8. Loops
  BY <1>2 DEF Loops, Loop, Fresh
<1>9. Paces
  <2>1. \A v \in VUs, n \in 1..MaxIterations : [vu |-> v, iter |-> n] \in Bids
    BY DEF Bids
  <2> QED
    BY <2>1, <1>1, <1>2 DEF Paces, Pace, Fresh
<1>10. EndsCounted
  <2>1. OfEnd("accepted") = {} /\ Failed = {}
    BY <1>1 DEF OfEnd, Failed
  <2> QED
    BY <2>1, <1>1, <1>3, FS_EmptySet DEF EndsCounted, Won
<1>11. DuplicatesCounted
  <2>1. Owing = {} /\ \A v \in VUs : ~Doubled(v)
    BY <1>2 DEF Owing, Owes, Doubled, Fresh
  <2> QED
    BY <2>1, <1>3, FS_EmptySet DEF DuplicatesCounted
<1> QED
  BY <1>4, <1>5, <1>6, <1>7, <1>8, <1>9, <1>10, <1>11 DEF IInv

(* The accounts of the bidder and of the service behind it hold for every  *)
(* delivery, loss, retry and interruption: rows one for a logical bid,     *)
(* counters that cover every way it may end (bid-storm.js).                *)
THEOREM Inductive == Spec => []IInv
BY InvInit, InvStep, PTL DEF Spec

(* TypeOK: what the loop, the counters and the table may hold; a request a *)
(* VU waits for carries the key of the VU's own logical bid.               *)
THEOREM TypeCorrect == Spec => []TypeOK
<1>1. IInv => TypeOK
  <2> SUFFICES ASSUME IInv PROVE TypeOK
    OBVIOUS
  <2>1. \A i \in Ids : response[i].body \in Ids \cup {NoBody}
    BY DEF IInv, Types
  <2>2. ASSUME NEW v \in VUs, NEW i \in vu[v].out
        PROVE  key[i].vu = v /\ key[i].iter = vu[v].iter
    <3>1. i \in Ids /\ i.bid = Current(v) /\ Sent(i)
      BY DEF IInv, Types, Loops, Loop
    <3>2. key[i] = Current(v)
      BY <3>1 DEF IInv, Requests, Request
    <3> QED
      BY <3>2 DEF Current
  <2> QED
    BY <2>1, <2>2 DEF IInv, Types, Row, TypeOK
<1> QED
  BY <1>1, Inductive, PTL

----------------------------------------------------------------------------
(* The verdicts of the checker on the accounts.                            *)

LEMMA WatermarkIs ==
    ASSUME IInv
    PROVE  /\ Watermark(rows) \in {0} \cup {r.seq : r \in rows}
           /\ Watermark(rows) \in Nat
           /\ \A r \in rows : r.seq \in Nat /\ Watermark(rows) >= r.seq
<1> DEFINE seqs == {r.seq : r \in rows}
           f == [r \in rows |-> r.seq]
<1>1. seqs \subseteq Nat /\ \A r \in rows : r.seq \in Nat
  BY DEF IInv, Types, Row
<1>2. IsFiniteSet(rows)
  BY DEF IInv, Rows
<1>3. f \in Surjection(rows, seqs)
  BY DEF Surjection
<1>4. IsFiniteSet(seqs)
  <2> HIDE DEF f, seqs
  <2> QED
    BY <1>2, <1>3, FS_Surjection
<1>5. IsFiniteSet({0} \cup seqs)
  <2>1. IsFiniteSet(seqs \cup {0})
    <3> HIDE DEF seqs
    <3> QED
      BY <1>4, FS_AddElement
  <2>2. {0} \cup seqs = seqs \cup {0}
    OBVIOUS
  <2> QED
    BY <2>1, <2>2, Zenon
<1> DEFINE marks == {0} \cup seqs
<1>6. marks \in SUBSET Nat /\ marks # {} /\ \A r \in rows : r.seq \in marks
  BY <1>1
<1>7. Watermark(rows) = Max(marks)
  BY DEF Watermark
<1>8. IsFiniteSet(marks)
  BY <1>5
<1> HIDE DEF marks
<1>9. Max(marks) \in marks /\ \A y \in marks : Max(marks) >= y
  BY <1>6, <1>8, MaxBounds
<1> QED
  BY <1>1, <1>6, <1>7, <1>9 DEF marks

(* The rows, and the logical bids they are of.                             *)
LEMMA NoMoreRows ==
    ASSUME IInv, NEW S \in SUBSET Committed, NEW T, IsFiniteSet(T), \A r \in S : r.key \in T
    PROVE  IsFiniteSet(S) /\ Cardinality(S) <= Cardinality(T)
<1> DEFINE f == [r \in S |-> r.key]
<1>1. f \in [S -> T] /\ \A q, r \in S : f[q] = f[r] => q = r
  BY DEF IInv, Rows
<1> HIDE DEF f
<1> QED
  BY <1>1, NoLarger

LEMMA NoFewerRows ==
    ASSUME NEW S, IsFiniteSet(S), NEW T, \A b \in T : \E r \in S : r.key = b
    PROVE  IsFiniteSet(T) /\ Cardinality(T) <= Cardinality(S)
<1> DEFINE f == [b \in T |-> CHOOSE r \in S : r.key = b]
<1>1. \A b \in T : f[b] \in S /\ f[b].key = b
  OBVIOUS
<1>2. f \in [T -> S]
  BY <1>1
<1>3. \A a, b \in T : f[a] = f[b] => a = b
  BY <1>1
<1> HIDE DEF f
<1> QED
  BY <1>2, <1>3, NoLarger

LEMMA CountersAreNat ==
    ASSUME IInv
    PROVE  /\ c.accepted \in Nat /\ c.maxSeqSeen \in Nat /\ c.error \in Nat /\ c.attempts \in Nat
           /\ c.replayed \in Nat /\ c.injected \in Nat /\ c.selected \in Nat
           /\ IsFiniteSet(rows) /\ Cardinality(rows) \in Nat
           /\ \A e : IsFiniteSet(OfEnd(e)) /\ Cardinality(OfEnd(e)) \in Nat
<1>1. IsFiniteSet(rows) /\ Cardinality(rows) \in Nat
  BY FS_CardinalityType DEF IInv, Rows
<1>2. \A e : IsFiniteSet(OfEnd(e)) /\ Cardinality(OfEnd(e)) \in Nat
  <2>1. \A e : OfEnd(e) \subseteq Bids
    BY DEF OfEnd
  <2>2. \A e : IsFiniteSet(OfEnd(e))
    BY <2>1, BidsAreFinite, FS_Subset
  <2> QED
    BY <2>2, FS_CardinalityType
<1> QED
  BY <1>1, <1>2 DEF IInv, Types, Counters

(* As long as no row is lost the checker's two comparisons hold from       *)
(* below.                                                                  *)
LEMMA NothingMissing ==
    ASSUME IInv, lost = {}
    PROVE  Cardinality(rows) >= c.accepted /\ Watermark(rows) >= c.maxSeqSeen
<1>1. Committed = rows
  BY DEF Committed
<1>2. Cardinality(OfEnd("accepted")) <= Cardinality(rows)
  BY <1>1, CountersAreNat, NoFewerRows DEF IInv, EndsCounted
<1>3. c.maxSeqSeen \in {0} \cup {r.seq : r \in rows}
  BY <1>1 DEF IInv, EndsCounted
<1> QED
  BY <1>2, <1>3, CountersAreNat, WatermarkIs DEF IInv, EndsCounted

(* NoFalseLoss: a duplicated, unanswered, retried or interrupted bid never *)
(* makes I5 report a loss: whatever was told to a client is in the table,  *)
(* and is below its watermark (client.go:131, bid-storm.js).               *)
THEOREM NeverCriesWolf == Spec => []NoFalseLoss
<1>1. IInv => NoFalseLoss
  <2> SUFFICES ASSUME IInv, lost = {} PROVE Durability(rows, c, TRUE) # "FAIL"
    BY DEF NoFalseLoss
  <2>1. Side(Cardinality(rows), c.accepted, TRUE) # "FAIL"
    BY NothingMissing, CountersAreNat DEF Side
  <2>2. Side(Watermark(rows), c.maxSeqSeen, TRUE) # "FAIL"
    BY NothingMissing, CountersAreNat, WatermarkIs DEF Side
  <2> QED
    BY <2>1, <2>2 DEF Durability, Worse
<1> QED
  BY <1>1, Inductive, PTL

(* The rows of a cell that is over, of bids that were neither accepted nor *)
(* abandoned, are no more than the errors.                                 *)
LEMMA RestIsErrors ==
    ASSUME IInv, Over, NEW S \in SUBSET Committed, \A r \in S : ends[r.key] \notin {"accepted", "abandoned"}
    PROVE  IsFiniteSet(S) /\ Cardinality(S) <= c.error
<1> DEFINE f == [r \in S |-> r.id]
<1>1. ASSUME NEW r \in S PROVE r.id \in Failed
  <2>1. /\ r.id \in Ids /\ r.key = r.id.bid /\ r.id.bid.vu \in VUs
        /\ response[r.id].status \in {"none", "unavailable", "created"}
    BY DEF IInv, Rows, Committed, Types, Row, Ids, Bids
  <2>2. r.id \notin vu[r.id.bid.vu].out
    BY <2>1 DEF IInv, Loops, Loop, Over
  <2> QED
    BY <2>1, <2>2 DEF IInv, EndsCounted, Failed, Won
<1>2. f \in [S -> Failed] /\ \A q, r \in S : f[q] = f[r] => q = r
  BY <1>1 DEF IInv, Rows
<1> HIDE DEF f
<1>3. IsFiniteSet(S) /\ Cardinality(S) <= Cardinality(Failed)
  BY <1>2, FailedIsFinite, NoLarger
<1>4. Cardinality(S) \in Nat /\ Cardinality(Failed) <= c.error
  BY <1>3, FS_CardinalityType DEF IInv, EndsCounted
<1> QED
  BY <1>3, <1>4, CountersAreNat, FailedIsFinite

(* LossIsReported: when more confirmed bids are gone than there were       *)
(* errors and abandoned iterations, fewer rows are left than bids were     *)
(* accepted, and no excuse makes I5 pass: each row that was not confirmed  *)
(* is of an abandoned bid or is paid for with an error (client.go:124).    *)
THEOREM EveryLossIsReported == Spec => []LossIsReported
<1>1. IInv => LossIsReported
  <2> DEFINE confirmed == {b \in lost : ends[b.key] = "accepted"}
             kept == {r \in rows : ends[r.key] = "accepted"}
             left == {r \in rows : ends[r.key] = "abandoned"}
             rest == {r \in rows : ends[r.key] \notin {"accepted", "abandoned"}}
  <2> SUFFICES ASSUME IInv, Over,
                      Cardinality(confirmed) > c.error + Cardinality(OfEnd("abandoned")),
                      NEW excuse \in BOOLEAN
               PROVE  Durability(rows, c, excuse) = "FAIL"
    BY DEF LossIsReported
  <2>1. IsFiniteSet(rows) /\ IsFiniteSet(lost) /\ rows \cap lost = {}
        /\ \A r \in Committed : r.key \in Bids
    BY DEF IInv, Rows, Committed, Types, Row
  <2>2. /\ IsFiniteSet(confirmed) /\ IsFiniteSet(kept) /\ IsFiniteSet(left) /\ IsFiniteSet(rest)
        /\ Cardinality(confirmed) \in Nat /\ Cardinality(kept) \in Nat
        /\ Cardinality(left) \in Nat /\ Cardinality(rest) \in Nat
    <3>1. confirmed \subseteq lost /\ kept \subseteq rows /\ left \subseteq rows /\ rest \subseteq rows
      OBVIOUS
    <3> HIDE DEF confirmed, kept, left, rest
    <3>2. IsFiniteSet(confirmed) /\ IsFiniteSet(kept) /\ IsFiniteSet(left) /\ IsFiniteSet(rest)
      BY <2>1, <3>1, FS_Subset
    <3> QED
      BY <3>2, FS_CardinalityType
  <2>3. Cardinality(kept) + Cardinality(confirmed) = c.accepted
    <3>1. kept \cup confirmed \subseteq Committed /\ kept \cap confirmed = {}
      BY <2>1 DEF Committed
    <3>2. Cardinality(kept \cup confirmed) <= Cardinality(OfEnd("accepted"))
      <4>1. \A r \in kept \cup confirmed : r.key \in OfEnd("accepted")
        BY <2>1 DEF Committed, OfEnd
      <4> HIDE DEF kept, confirmed
      <4> QED
        BY <3>1, <4>1, CountersAreNat, NoMoreRows
    <3>3. Cardinality(OfEnd("accepted")) <= Cardinality(kept \cup confirmed)
      <4>1. \A b \in OfEnd("accepted") : \E r \in kept \cup confirmed : r.key = b
        BY DEF IInv, EndsCounted, Committed, OfEnd
      <4>2. IsFiniteSet(kept \cup confirmed)
        BY <2>2, FS_Union
      <4> HIDE DEF kept, confirmed
      <4> QED
        BY <4>1, <4>2, NoFewerRows
    <3> HIDE DEF kept, confirmed
    <3>4. Cardinality(kept \cup confirmed) = Cardinality(kept) + Cardinality(confirmed)
      BY <2>2, <3>1, DisjointSum
    <3> QED
      BY <2>2, <3>2, <3>3, <3>4, CountersAreNat DEF IInv, EndsCounted
  <2>4. Cardinality(left) <= Cardinality(OfEnd("abandoned"))
    <3>1. left \subseteq Committed /\ \A r \in left : r.key \in OfEnd("abandoned")
      BY <2>1 DEF Committed, OfEnd
    <3> HIDE DEF left
    <3> QED
      BY <3>1, CountersAreNat, NoMoreRows
  <2>5. Cardinality(rest) <= c.error
    <3>1. rest \subseteq Committed /\ \A r \in rest : ends[r.key] \notin {"accepted", "abandoned"}
      BY DEF Committed
    <3> HIDE DEF rest
    <3> QED
      BY <3>1, RestIsErrors
  <2>6. Cardinality(rows) = Cardinality(kept) + Cardinality(left) + Cardinality(rest)
    <3>1. rows = (kept \cup left) \cup rest /\ kept \cap left = {} /\ (kept \cup left) \cap rest = {}
      OBVIOUS
    <3> HIDE DEF kept, left, rest
    <3>2. IsFiniteSet(kept \cup left) /\ Cardinality(kept \cup left) = Cardinality(kept) + Cardinality(left)
      BY <2>2, <3>1, DisjointSum
    <3>3. Cardinality((kept \cup left) \cup rest) = Cardinality(kept \cup left) + Cardinality(rest)
      BY <2>2, <3>1, <3>2, DisjointSum
    <3> QED
      BY <2>2, <3>1, <3>2, <3>3
  <2> HIDE DEF confirmed, kept, left, rest
  <2>7. Cardinality(rows) < c.accepted
    BY <2>2, <2>3, <2>4, <2>5, <2>6, CountersAreNat
  <2>8. Side(Cardinality(rows), c.accepted, excuse) = "FAIL"
    BY <2>7, CountersAreNat DEF Side
  <2> QED
    BY <2>8 DEF Durability, Worse
<1> QED
  BY <1>1, Inductive, PTL

(* CleanCellPasses: an undisturbed cell, whose bids were all accepted or   *)
(* met no error, satisfies I1, I5 and I7 without an excuse, and is green   *)
(* when it met no error and a replay was seen: a replay needs a duplicate  *)
(* or an error, so the I6 that asks for both never fails it (main.go:      *)
(* execute).                                                               *)
THEOREM CleanCellsPass == Spec => []CleanCellPasses
<1>1. IInv => CleanCellPasses
  <2> DEFINE verdicts == {Density(rows), OneKeyEach(rows, NoKey), Durability(rows, c, FALSE)}
             valid == CellValidity(c, FALSE, FALSE, FALSE)
  <2> SUFFICES ASSUME IInv, Over, lost = {}, OfEnd("abandoned") = {},
                      c.error = 0 \/ Bids = OfEnd("accepted")
               PROVE  /\ verdicts = {"OK"}
                      /\ c.error = 0 /\ c.replayed > 0 =>
                           Execute("intact", verdicts \cup {valid}) = ExitOK
    BY DEF CleanCellPasses
  <2>1. /\ Committed = rows /\ IsFiniteSet(rows)
        /\ \A r \in rows : r.key \in Bids /\ r.auction \in Auctions
        /\ \A q, r \in rows : q.key = r.key => q = r
    BY DEF IInv, Rows, Committed, Types, Row
  <2>2. \A r \in rows : r.key \in OfEnd("accepted")
    <3>1. CASE c.error = 0
      <4> DEFINE rest == {r \in rows : ends[r.key] \notin {"accepted", "abandoned"}}
      <4>1. rest \subseteq Committed /\ \A r \in rest : ends[r.key] \notin {"accepted", "abandoned"}
        BY <2>1
      <4>2. IsFiniteSet(rest) /\ Cardinality(rest) <= 0
        <5> HIDE DEF rest
        <5> QED
          BY <3>1, <4>1, RestIsErrors
      <4>3. rest = {}
        <5> HIDE DEF rest
        <5> QED
          BY <4>2, FS_CardinalityType, FS_EmptySet
      <4> QED
        BY <4>3, <2>1 DEF OfEnd
    <3>2. CASE Bids = OfEnd("accepted")
      BY <3>2, <2>1
    <3> QED
      BY <3>1, <3>2
  <2>3. Density(rows) = "OK"
    <3>1. ASSUME NEW a \in {b.auction : b \in rows}
          PROVE  {b.seq : b \in {r \in rows : r.auction = a}} = 1..Cardinality({r \in rows : r.auction = a})
      <4>1. a \in Auctions
        BY <2>1
      <4> QED
        BY <4>1 DEF IInv, Dense, Seqs, RowsOf
    <3> QED
      BY <3>1, Zenon DEF Density, FailIf
  <2>4. OneKeyEach(rows, NoKey) = "OK"
    <3> DEFINE keys == {b.key : b \in rows}
    <3>1. NoKey \notin keys
      BY <2>1, NoKeyIsNoBid
    <3>2. IsFiniteSet(keys) /\ Cardinality(keys) <= Cardinality(rows)
      BY <2>1, NoFewerRows
    <3>3. Cardinality(rows) <= Cardinality(keys)
      <4>1. \A r \in rows : r.key \in keys
        OBVIOUS
      <4> HIDE DEF keys
      <4> QED
        BY <4>1, <3>2, <2>1, NoMoreRows
    <3>4. Cardinality(keys) = Cardinality(rows)
      BY <3>2, <3>3, <2>1, FS_CardinalityType
    <3> QED
      BY <3>1, <3>4 DEF OneKeyEach, FailIf
  <2>5. Durability(rows, c, FALSE) = "OK"
    <3>1. Cardinality(rows) = c.accepted
      <4>1. Cardinality(rows) <= Cardinality(OfEnd("accepted"))
        BY <2>1, <2>2, CountersAreNat, NoMoreRows
      <4> QED
        BY <4>1, NothingMissing, CountersAreNat DEF IInv, EndsCounted
    <3>2. Watermark(rows) = c.maxSeqSeen
      <4>1. \A r \in rows : r.seq <= c.maxSeqSeen
        BY <2>1, <2>2 DEF IInv, EndsCounted
      <4> QED
        BY <4>1, NothingMissing, WatermarkIs, CountersAreNat
    <3>3. Side(Cardinality(rows), c.accepted, FALSE) = "OK"
      BY <3>1, CountersAreNat DEF Side
    <3>4. Side(Watermark(rows), c.maxSeqSeen, FALSE) = "OK"
      BY <3>2, CountersAreNat DEF Side
    <3> QED
      BY <3>3, <3>4 DEF Durability, Worse
  <2>6. verdicts = {"OK"}
    BY <2>3, <2>4, <2>5
  <2>7. ASSUME c.error = 0, c.replayed > 0 PROVE valid # "FAIL"
    <3>1. c.injected > 0 /\ c.injected <= c.selected /\ c.selected <= c.attempts /\ c.invalid = 0
      <4>1. Cardinality(Owing) \in Nat
        <5>1. Owing \in SUBSET VUs
          BY DEF Owing
        <5> QED
          BY <5>1, VUsAreFinite, FS_Subset, FS_CardinalityType
      <4> QED
        BY <4>1, <2>7, CountersAreNat DEF IInv, DuplicatesCounted
    <3>2. ~ (c.error * 100 >= MaxErrorPercent * c.attempts)
      BY <3>1, <2>7, CountersAreNat DEF MaxErrorPercent
    <3>3. c.attempts # 0 /\ c.selected # 0 /\ c.injected # 0 /\ c.replayed # 0 /\ ~ (c.injected > c.selected)
      BY <3>1, <2>7, CountersAreNat
    <3> QED
      BY <3>1, <3>2, <3>3 DEF CellValidity
  <2> HIDE DEF valid, verdicts
  <2> QED
    BY <2>6, <2>7 DEF Execute, Summarize
<1> QED
  BY <1>1, Inductive, PTL
=============================================================================
