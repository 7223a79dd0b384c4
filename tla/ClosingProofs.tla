---------------------------- MODULE ClosingProofs ----------------------------
(***************************************************************************)
(* The closing of auctions, for any auctions, any limits of the sweep, the *)
(* stream and the reads, and any failures: no row is closed early or       *)
(* twice, and no malformed entry is lost unburied but by the trimming of   *)
(* the stream.                                                             *)
(*                                                                         *)
(* The first two need the rows and the clock only.  The third follows the  *)
(* entries through the pending list (PendingCount).  A step that loses one *)
(* is an acknowledgement, and what handle knows of the message in hand     *)
(* (Handling) says that its payload is in the dead letter stream; or the   *)
(* entry is trimmed, or was and closerd gives up the copy in its hand, and *)
(* an id without an entry is counted.                                      *)
(***************************************************************************)
EXTENDS Closing, SequenceTheorems, FiniteSetTheorems, TLAPS

RowTypes ==
    /\ auctions \in [Auctions -> AuctionRow]
    /\ clock \in 0..MaxClock
    /\ limbo \subseteq Auctions

SweepTypes ==
    /\ window \in [Auctions -> {"out", "fresh", "old"}]
    /\ pass \in {"idle", "ensured", "publishing"}
    /\ found \subseteq Auctions

BacklogType == backlog \in Seq(Payload) /\ Len(backlog) <= MaxLen

StreamTypes ==
    /\ group \in BOOLEAN
    /\ PayloadBag(left) /\ PayloadBag(idle)
    /\ settled \in Nat /\ ghosts \in Nat
    /\ dead \subseteq Payload

CloserdTypes ==
    /\ at \in {"down", "claim", "read", "work"}
    /\ midway \in BOOLEAN
    /\ PayloadBag(hand)
    /\ listed \in BOOLEAN
    /\ PayloadBag(torn) /\ torn \sqsubseteq hand
    /\ msg \in BagToSet(hand) \cup {NoMessage}
    /\ step \in {"none", "close", "classify", "bury", "ack"}

(* TypeOK but for the number of entries in the hand (Counted). *)
Types ==
    /\ RowTypes
    /\ SweepTypes
    /\ BacklogType
    /\ StreamTypes
    /\ CloserdTypes
    /\ faults \in 0..MaxFaults

(* What handle knows of the message it is at.  A Flush takes the entry out *)
(* of the pending list together with the dead letters.                     *)
Handling ==
    /\ at # "work" => hand = EmptyBag
    /\ msg = NoMessage <=> step = "none"
    /\ step \in {"close", "classify"} => msg \in Auctions
    /\ step = "ack" /\ msg \in Malformed /\ listed => msg \in dead
    /\ ~listed => torn = EmptyBag

Sound ==
    /\ Types
    /\ Handling
    /\ NeverClosedEarly

Finite(bag) == IsFiniteSet(BagToSet(bag))

(* A read or a claim gives readCount entries at most. *)
Within(bag) == IsFiniteSet(Entries(bag)) /\ Size(bag) <= ReadCount

(* TypeOK says of the hand that it holds what one read can give.  That is  *)
(* a number because everything delivered is a finite part of the stream.   *)
Counted ==
    /\ Finite(left) /\ Finite(idle) /\ Finite(hand)
    /\ Within(hand)

IInv == Sound /\ Counted

(* What BuriedOrTrimmed says of one step. *)
Buried ==
    \A what \in Malformed :
        FewerPending(what) /\ group' => what \in dead' \/ ghosts' > ghosts

----------------------------------------------------------------------------
(* Bags of payloads.                                                       *)

LEMMA CopiesAreCounted ==
    ASSUME NEW bag, PayloadBag(bag), NEW what
    PROVE  Copies(what, bag) \in Nat
  BY DEF PayloadBag, IsABag, BagToSet, BagIn, Copies

LEMMA EmptyBagHasNone ==
    /\ PayloadBag(EmptyBag)
    /\ BagToSet(EmptyBag) = {}
    /\ \A what : Copies(what, EmptyBag) = 0
  BY DEF PayloadBag, IsABag, BagToSet, BagIn, Copies, EmptyBag, SetToBag

LEMMA OneHasOne ==
    ASSUME NEW what \in Payload
    PROVE  /\ PayloadBag(One(what))
           /\ \A other : Copies(other, One(what)) = IF other = what THEN 1 ELSE 0
           /\ \A bag : PayloadBag(bag) /\ BagIn(what, bag) => One(what) \sqsubseteq bag
  <1> DEFINE one == One(what)
  <1>1. one = [e \in {what} |-> 1]
    BY DEF One, SetToBag
  <1>2. DOMAIN one = {what} /\ one[what] = 1
    BY <1>1
  <1> HIDE DEF one
  <1>3. one \in [{what} -> {n \in Nat : n > 0}]
    BY <1>1
  <1>4. PayloadBag(one)
    BY <1>2, <1>3 DEF PayloadBag, IsABag, BagToSet
  <1>5. \A other : Copies(other, one) = IF other = what THEN 1 ELSE 0
    BY <1>2 DEF BagIn, BagToSet, Copies
  <1>6. \A bag : PayloadBag(bag) /\ BagIn(what, bag) => one \sqsubseteq bag
    BY <1>2 DEF PayloadBag, IsABag, BagIn, BagToSet, \sqsubseteq
  <1> QED BY <1>4, <1>5, <1>6 DEF one

LEMMA UnionAdds ==
    ASSUME NEW a, PayloadBag(a), NEW b, PayloadBag(b)
    PROVE  /\ PayloadBag(a (+) b)
           /\ \A what : Copies(what, a (+) b) = Copies(what, a) + Copies(what, b)
  <1> DEFINE c == a (+) b
  <1>1. c = [e \in (DOMAIN a) \cup (DOMAIN b) |->
                (IF e \in DOMAIN a THEN a[e] ELSE 0) + (IF e \in DOMAIN b THEN b[e] ELSE 0)]
    BY DEF (+)
  <1>2. /\ DOMAIN c = (DOMAIN a) \cup (DOMAIN b)
        /\ \A e \in DOMAIN c :
              c[e] = (IF e \in DOMAIN a THEN a[e] ELSE 0) + (IF e \in DOMAIN b THEN b[e] ELSE 0)
    BY <1>1
  <1>3. /\ \A e \in DOMAIN a : a[e] \in Nat /\ a[e] > 0
        /\ \A e \in DOMAIN b : b[e] \in Nat /\ b[e] > 0
    BY DEF PayloadBag, IsABag
  <1> HIDE DEF c
  <1>4. c \in [DOMAIN c -> {n \in Nat : n > 0}]
    <2>1. \A e \in DOMAIN c : c[e] \in {n \in Nat : n > 0}
      BY <1>2, <1>3
    <2>2. c = [e \in DOMAIN c |-> c[e]]
      BY <1>1, <1>2
    <2> QED BY <2>1, <2>2
  <1>5. PayloadBag(c)
    BY <1>2, <1>4 DEF PayloadBag, IsABag, BagToSet
  <1>6. ASSUME NEW what
        PROVE  Copies(what, c) = Copies(what, a) + Copies(what, b)
    BY <1>2, <1>3 DEF BagIn, BagToSet, Copies
  <1> QED BY <1>5, <1>6 DEF c

LEMMA DifferenceSubtracts ==
    ASSUME NEW a, PayloadBag(a), NEW b, PayloadBag(b), b \sqsubseteq a
    PROVE  /\ PayloadBag(a (-) b)
           /\ BagToSet(a (-) b) \subseteq BagToSet(a)
           /\ \A what : Copies(what, a (-) b) = Copies(what, a) - Copies(what, b)
  <1> DEFINE d == [e \in DOMAIN a |-> IF e \in DOMAIN b THEN a[e] - b[e] ELSE a[e]]
             c == [e \in {f \in DOMAIN d : d[f] > 0} |-> d[e]]
  <1>1. c = a (-) b
    BY DEF (-)
  <1>2. DOMAIN d = DOMAIN a /\ \A e \in DOMAIN a : d[e] = IF e \in DOMAIN b THEN a[e] - b[e] ELSE a[e]
    OBVIOUS
  <1>3. /\ \A e \in DOMAIN a : a[e] \in Nat /\ a[e] > 0
        /\ \A e \in DOMAIN b : b[e] \in Nat /\ b[e] > 0 /\ e \in DOMAIN a /\ b[e] <= a[e]
    BY DEF PayloadBag, IsABag, \sqsubseteq
  <1> HIDE DEF d
  <1>4. DOMAIN c = {e \in DOMAIN a : d[e] > 0} /\ \A e \in DOMAIN c : c[e] = d[e]
    BY <1>2
  <1>5. \A e \in DOMAIN a : d[e] \in Nat
    BY <1>2, <1>3
  <1>6. c \in [DOMAIN c -> {n \in Nat : n > 0}]
    BY <1>2, <1>5
  <1> HIDE DEF c
  <1>7. PayloadBag(c) /\ BagToSet(c) \subseteq BagToSet(a)
    BY <1>4, <1>6 DEF PayloadBag, IsABag, BagToSet
  <1>8. ASSUME NEW what
        PROVE  Copies(what, c) = Copies(what, a) - Copies(what, b)
    BY <1>2, <1>3, <1>4, <1>5 DEF BagIn, BagToSet, Copies
  <1> QED BY <1>1, <1>7, <1>8

(* One bag is part of another when it has no more copies of anything. *)
LEMMA PartByCopies ==
    ASSUME NEW a, PayloadBag(a), NEW b, PayloadBag(b)
    PROVE  /\ b \sqsubseteq a <=> \A what : Copies(what, b) <= Copies(what, a)
           /\ \A what : BagIn(what, a) <=> Copies(what, a) > 0
  <1>1. /\ \A e \in DOMAIN a : a[e] \in Nat /\ a[e] > 0
        /\ \A e \in DOMAIN b : b[e] \in Nat /\ b[e] > 0
    BY DEF PayloadBag, IsABag
  <1>2. ASSUME b \sqsubseteq a, NEW what
        PROVE  Copies(what, b) <= Copies(what, a)
    BY <1>1, <1>2 DEF Copies, BagIn, BagToSet, \sqsubseteq
  <1>3. ASSUME \A what : Copies(what, b) <= Copies(what, a)
        PROVE  b \sqsubseteq a
    <2>1. ASSUME NEW e \in DOMAIN b
          PROVE  e \in DOMAIN a /\ b[e] <= a[e]
      <3>1. Copies(e, b) <= Copies(e, a)
        BY <1>3
      <3> QED BY <1>1, <3>1 DEF Copies, BagIn, BagToSet
    <2> QED BY <2>1 DEF \sqsubseteq
  <1>4. \A what : BagIn(what, a) <=> Copies(what, a) > 0
    BY <1>1 DEF Copies, BagIn, BagToSet
  <1> QED BY <1>2, <1>3, <1>4

LEMMA EmptyIsPart ==
    ASSUME NEW bag, PayloadBag(bag)
    PROVE  EmptyBag \sqsubseteq bag
  BY EmptyBagHasNone, CopiesAreCounted, PartByCopies

LEMMA BagOfPayloads ==
    ASSUME NEW seq \in Seq(Payload)
    PROVE  PayloadBag(BagOf(seq))
  <1> DEFINE Places(e) == {i \in DOMAIN seq : seq[i] = e}
  <1>1. DOMAIN seq = 1..Len(seq) /\ Len(seq) \in Nat /\ \A i \in DOMAIN seq : seq[i] \in Payload
    BY LenProperties
  <1>2. ASSUME NEW e \in {seq[i] : i \in DOMAIN seq}
        PROVE  Cardinality(Places(e)) \in {n \in Nat : n > 0}
    <2>1. IsFiniteSet(Places(e))
      <3>1. IsFiniteSet(1..Len(seq))
        BY <1>1, FS_Interval
      <3>2. Places(e) \subseteq 1..Len(seq)
        BY <1>1
      <3> QED BY <3>1, <3>2, FS_Subset
    <2>2. Places(e) # {}
      BY <1>2
    <2> QED BY <2>1, <2>2, FS_CardinalityType, FS_EmptySet
  <1>3. BagOf(seq) = [e \in {seq[i] : i \in DOMAIN seq} |-> Cardinality(Places(e))]
    BY DEF BagOf
  <1> HIDE DEF Places
  <1> QED BY <1>1, <1>2, <1>3 DEF PayloadBag, IsABag, BagToSet

(* The entries of a payload that are pending, wherever they are: in the    *)
(* terms of Pending, for its value before a step and after it.             *)
LEMMA PendingCount ==
    ASSUME NEW l, PayloadBag(l), NEW i, PayloadBag(i), NEW h, PayloadBag(h), NEW on
    PROVE  \A what : Copies(what, l (+) i (+) IF on THEN h ELSE EmptyBag) =
                         Copies(what, l) + Copies(what, i) + IF on THEN Copies(what, h) ELSE 0
  <1> DEFINE here == IF on THEN h ELSE EmptyBag
             old == l (+) i
  <1>1. PayloadBag(old) /\ \A what : Copies(what, old) = Copies(what, l) + Copies(what, i)
    BY UnionAdds
  <1>2. PayloadBag(here) /\ \A what : Copies(what, here) = IF on THEN Copies(what, h) ELSE 0
    BY EmptyBagHasNone
  <1> HIDE DEF here, old
  <1>3. \A what : Copies(what, old (+) here) = Copies(what, old) + Copies(what, here)
    BY <1>1, <1>2, UnionAdds
  <1> QED BY <1>1, <1>2, <1>3 DEF here, old

----------------------------------------------------------------------------
(* How many entries there are.                                             *)

LEMMA EntryOf ==
    ASSUME NEW bag
    PROVE  \A e : e \in Entries(bag) <=>
                     \E what \in BagToSet(bag) : \E n \in 1..bag[what] : e = <<what, n>>
  BY DEF Entries

(* A bag without more copies of anything than another has no more entries. *)
LEMMA PartIsWithin ==
    ASSUME NEW a, PayloadBag(a), Within(a), NEW b, PayloadBag(b),
           \A what : Copies(what, b) <= Copies(what, a)
    PROVE  Within(b)
  <1>1. ASSUME NEW what \in BagToSet(b)
        PROVE  what \in BagToSet(a) /\ b[what] <= a[what] /\ a[what] \in Nat /\ b[what] \in Nat
    BY <1>1 DEF PayloadBag, IsABag, BagToSet, BagIn, Copies
  <1>2. Entries(b) \subseteq Entries(a)
    <2>1. ASSUME NEW what \in BagToSet(b), NEW n \in 1..b[what]
          PROVE  <<what, n>> \in Entries(a)
      <3>1. what \in BagToSet(a) /\ n \in 1..a[what]
        BY <1>1
      <3> QED BY <3>1, EntryOf
    <2> QED BY <2>1, EntryOf
  <1>3. /\ IsFiniteSet(Entries(b)) /\ Size(b) <= Size(a)
        /\ Size(a) \in Nat /\ Size(b) \in Nat
    BY <1>2, FS_Subset, FS_CardinalityType DEF Within, Size
  <1> QED BY <1>3, BoundsArePositive DEF Within

LEMMA EmptyIsWithin == Finite(EmptyBag) /\ Within(EmptyBag)
  <1>1. BagToSet(EmptyBag) = {}
    BY EmptyBagHasNone
  <1>2. Entries(EmptyBag) = {}
    BY <1>1, EntryOf
  <1> QED BY <1>1, <1>2, FS_EmptySet, BoundsArePositive DEF Finite, Within, Size

(* The bag of a sequence has an entry for each of its places: number the   *)
(* places of every payload.                                                *)
LEMMA BagOfIsWithin ==
    ASSUME NEW seq \in Seq(Payload), Len(seq) <= ReadCount
    PROVE  Finite(BagOf(seq)) /\ Within(BagOf(seq))
  <1> DEFINE Places(e) == {i \in DOMAIN seq : seq[i] = e}
             all == {seq[i] : i \in DOMAIN seq}
             bag == BagOf(seq)
  <1>1. DOMAIN seq = 1..Len(seq) /\ Len(seq) \in Nat /\ ReadCount \in Nat
    BY LenProperties, BoundsArePositive
  <1>2. IsFiniteSet(DOMAIN seq) /\ Cardinality(DOMAIN seq) = Len(seq)
    <2>1. 1 \in Int /\ Len(seq) \in Int
      BY <1>1
    <2>2. /\ IsFiniteSet(1..Len(seq))
          /\ Cardinality(1..Len(seq)) = IF 1 > Len(seq) THEN 0 ELSE Len(seq) - 1 + 1
      BY <2>1, FS_Interval
    <2> QED BY <1>1, <2>2
  <1>3. bag = [e \in all |-> Cardinality(Places(e))]
    BY DEF BagOf
  <1>4. DOMAIN bag = all /\ BagToSet(bag) = all /\ \A e \in all : bag[e] = Cardinality(Places(e))
    BY <1>3 DEF BagToSet
  <1>5. \A e \in all : IsFiniteSet(Places(e)) /\ Places(e) \subseteq DOMAIN seq
    BY <1>2, FS_Subset
  <1>6. \A e \in all : ExistsBijection(1..bag[e], Places(e))
    BY <1>4, <1>5, FS_CardinalityType
  <1> DEFINE Numbering(e) == CHOOSE g : g \in Bijection(1..bag[e], Places(e))
  <1>7. ASSUME NEW e \in all
        PROVE  /\ \A n \in 1..bag[e] : Numbering(e)[n] \in DOMAIN seq /\ seq[Numbering(e)[n]] = e
               /\ \A n, k \in 1..bag[e] : Numbering(e)[n] = Numbering(e)[k] => n = k
    <2>1. Numbering(e) \in Bijection(1..bag[e], Places(e))
      BY <1>6 DEF ExistsBijection
    <2> QED BY <2>1 DEF Bijection, Injection, IsInjective, Surjection
  <1> DEFINE f == [x \in Entries(bag) |-> Numbering(x[1])[x[2]]]
  <1> HIDE DEF bag, all, Numbering
  <1>8. \A x \in Entries(bag) : x[1] \in all /\ x[2] \in 1..bag[x[1]] /\ x = <<x[1], x[2]>>
    BY <1>4, EntryOf
  <1>9. f \in Injection(Entries(bag), DOMAIN seq)
    <2>1. f \in [Entries(bag) -> DOMAIN seq]
      BY <1>7, <1>8
    <2>2. ASSUME NEW x \in Entries(bag), NEW y \in Entries(bag), f[x] = f[y]
          PROVE  x = y
      <3>1. x[1] = seq[f[x]] /\ y[1] = seq[f[y]]
        BY <1>7, <1>8
      <3>2. x[2] = y[2]
        BY <1>7, <1>8, <2>2, <3>1
      <3> QED BY <1>8, <2>2, <3>1, <3>2
    <2> QED BY <2>1, <2>2 DEF Injection, IsInjective
  <1>10. IsFiniteSet(Entries(bag)) /\ Cardinality(Entries(bag)) <= Len(seq)
    <2> HIDE DEF f
    <2> QED BY <1>2, <1>9, FS_Injection
  <1>11. Cardinality(Entries(bag)) \in Nat
    BY <1>10, FS_CardinalityType
  <1>12. Within(bag)
    BY <1>1, <1>10, <1>11 DEF Within, Size
  <1>13. IsFiniteSet(all)
    <2> DEFINE g == [i \in DOMAIN seq |-> seq[i]]
    <2>1. g \in Surjection(DOMAIN seq, all)
      BY DEF all, Surjection
    <2> HIDE DEF g
    <2> QED BY <1>2, <2>1, FS_Surjection
  <1> QED BY <1>4, <1>12, <1>13 DEF bag, Finite

(* A claim takes no more than readCount of a finite bag. *)
LEMMA ClaimableIsWithin ==
    ASSUME PayloadBag(idle), Finite(idle), NEW some \in Claimable
    PROVE  Finite(some) /\ Within(some) /\ BagToSet(some) \subseteq BagToSet(idle)
  <1>1. PICK what \in SUBSET BagToSet(idle) : some \in [what -> 1..ReadCount]
    BY DEF Claimable
  <1>2. BagToSet(some) = what /\ IsFiniteSet(what)
    BY <1>1, FS_Subset DEF BagToSet, Finite
  <1>3. ReadCount \in Nat
    BY BoundsArePositive
  <1>4. Entries(some) \subseteq what \X (1..ReadCount)
    <2>1. ASSUME NEW w \in what, NEW n \in 1..some[w]
          PROVE  <<w, n>> \in what \X (1..ReadCount)
      <3>1. some[w] \in 1..ReadCount
        BY <1>1
      <3> QED BY <1>3, <3>1
    <2> QED BY <1>2, <2>1, EntryOf
  <1>5. IsFiniteSet(1..ReadCount)
    BY <1>3, FS_Interval
  <1>6. IsFiniteSet(what \X (1..ReadCount))
    BY <1>2, <1>5, FS_Product
  <1>7. IsFiniteSet(Entries(some))
    BY <1>4, <1>6, FS_Subset
  <1>8. Size(some) <= ReadCount
    BY DEF Claimable
  <1> QED BY <1>2, <1>7, <1>8 DEF Finite, Within

LEMMA DeliveredIsWithin ==
    ASSUME BacklogType
    PROVE  Finite(Delivered) /\ Within(Delivered) /\ PayloadBag(Delivered)
  <1>1. Len(backlog) \in Nat /\ ReadCount \in Nat
        /\ \A i \in 1..Len(backlog) : backlog[i] \in Payload
    BY BoundsArePositive, LenProperties DEF BacklogType
  <1>2. Given \in 0..Len(backlog) /\ Given <= ReadCount
    BY <1>1 DEF Given
  <1>3. SubSeq(backlog, 1, Given) \in Seq(Payload) /\ Len(SubSeq(backlog, 1, Given)) = Given
    BY <1>1, <1>2, SubSeqProperties
  <1> QED BY <1>2, <1>3, BagOfIsWithin, BagOfPayloads DEF Delivered

LEMMA UnionIsFinite ==
    ASSUME NEW a, Finite(a), NEW b, Finite(b)
    PROVE  Finite(a (+) b)
  <1>1. BagToSet(a (+) b) = BagToSet(a) \cup BagToSet(b)
    BY DEF (+), BagToSet
  <1> QED BY <1>1, FS_Union DEF Finite

LEMMA DifferenceIsFinite ==
    ASSUME NEW a, Finite(a), PayloadBag(a), NEW b, PayloadBag(b), b \sqsubseteq a
    PROVE  Finite(a (-) b)
  <1>1. BagToSet(a (-) b) \subseteq BagToSet(a)
    BY DifferenceSubtracts
  <1> QED BY <1>1, FS_Subset DEF Finite

LEMMA OneIsFinite ==
    ASSUME NEW what
    PROVE  Finite(One(what))
  <1>1. BagToSet(One(what)) = {what}
    BY DEF One, SetToBag, BagToSet
  <1> QED BY <1>1, FS_Singleton DEF Finite

----------------------------------------------------------------------------
(* The steps.                                                              *)

(* A fault is counted. *)
LEMMA FaultCounts ==
    ASSUME faults \in 0..MaxFaults, Fault \/ UNCHANGED faults
    PROVE  faults' \in 0..MaxFaults
  BY FaultsAreCounted DEF Fault

(* The types of the bags of closerd and its stream, at hand in each step. *)
LEMMA Bagged ==
    ASSUME Sound
    PROVE  /\ PayloadBag(left) /\ PayloadBag(idle) /\ PayloadBag(hand) /\ PayloadBag(torn)
           /\ listed \in BOOLEAN /\ settled \in Nat /\ ghosts \in Nat
           /\ torn \sqsubseteq hand
           /\ \A bag : PayloadBag(bag) => \A what : Copies(what, bag) \in Nat
  BY CopiesAreCounted DEF Sound, Types, StreamTypes, CloserdTypes

(* What is in the stream of the hand. *)
LEMMA HeldOf ==
    ASSUME Sound
    PROVE  /\ PayloadBag(Held)
           /\ \A what : Copies(what, Held) =
                            IF listed THEN Copies(what, hand) - Copies(what, torn) ELSE 0
  <1>1. CASE listed
    BY <1>1, Bagged, DifferenceSubtracts DEF Held
  <1>2. CASE ~listed
    BY <1>2, EmptyBagHasNone DEF Held
  <1> QED BY <1>1, <1>2

(* A step that trims, drops or leaves entries is compared with the state   *)
(* before it by the copies of what it buries or loses.                     *)
LEMMA PendingOf ==
    ASSUME Sound, PayloadBag(left'), PayloadBag(idle'), PayloadBag(hand'), NEW what
    PROVE  /\ Copies(what, Pending) = Copies(what, left) + Copies(what, idle)
                                         + IF listed THEN Copies(what, hand) ELSE 0
           /\ Copies(what, Pending') = Copies(what, left') + Copies(what, idle')
                                          + IF listed' THEN Copies(what, hand') ELSE 0
  <1>1. Pending' = left' (+) idle' (+) IF listed' THEN hand' ELSE EmptyBag
    BY DEF Pending
  <1> QED BY <1>1, Bagged, PendingCount DEF Pending

LEMMA MoreIsPending ==
    ASSUME Sound, PayloadBag(left'), PayloadBag(idle'), PayloadBag(hand'),
           \A what \in Malformed :
               \/ Copies(what, left') + Copies(what, idle')
                    + (IF listed' THEN Copies(what, hand') ELSE 0)
                  >= Copies(what, left) + Copies(what, idle)
                       + (IF listed THEN Copies(what, hand) ELSE 0)
               \/ what \in dead'
               \/ ghosts' > ghosts
    PROVE  Buried
  <1> SUFFICES ASSUME NEW what \in Malformed, FewerPending(what)
               PROVE  what \in dead' \/ ghosts' > ghosts
    BY DEF Buried
  <1>1. /\ Copies(what, left) \in Nat /\ Copies(what, idle) \in Nat
        /\ Copies(what, hand) \in Nat /\ Copies(what, left') \in Nat
        /\ Copies(what, idle') \in Nat /\ Copies(what, hand') \in Nat
    BY Bagged
  <1>2. /\ Copies(what, Pending) = Copies(what, left) + Copies(what, idle)
                                      + IF listed THEN Copies(what, hand) ELSE 0
        /\ Copies(what, Pending') = Copies(what, left') + Copies(what, idle')
                                       + IF listed' THEN Copies(what, hand') ELSE 0
    BY PendingOf
  <1> QED BY <1>1, <1>2 DEF FewerPending

(* The half of a step that is about closerd and its stream, when it leaves *)
(* what is pending alone.                                                  *)
LEMMA NothingPendingMoves ==
    ASSUME Sound, UNCHANGED <<left, idle, hand, listed>>
    PROVE  Buried
  <1>1. /\ PayloadBag(left') /\ PayloadBag(idle') /\ PayloadBag(hand')
        /\ \A what : Copies(what, left') = Copies(what, left)
                      /\ Copies(what, idle') = Copies(what, idle)
                      /\ Copies(what, hand') = Copies(what, hand)
    BY Bagged
  <1>2. \A what : Copies(what, left) \in Nat /\ Copies(what, idle) \in Nat
                  /\ Copies(what, hand) \in Nat
    BY Bagged
  <1> QED BY <1>1, <1>2, MoreIsPending

(* An entry leaves a bag of the stream. *)
LEMMA OneLess ==
    ASSUME NEW bag, PayloadBag(bag), NEW what, BagIn(what, bag)
    PROVE  /\ what \in Payload
           /\ PayloadBag(One(what)) /\ One(what) \sqsubseteq bag
           /\ PayloadBag(bag (-) One(what))
           /\ \A other : Copies(other, bag (-) One(what)) =
                             Copies(other, bag) - IF other = what THEN 1 ELSE 0
  <1>1. what \in Payload
    BY DEF PayloadBag, BagIn
  <1>2. PayloadBag(One(what)) /\ One(what) \sqsubseteq bag
    BY <1>1, OneHasOne
  <1> QED BY <1>1, <1>2, OneHasOne, DifferenceSubtracts

(* ... or one joins it. *)
LEMMA OneMore ==
    ASSUME NEW bag, PayloadBag(bag), NEW what \in Payload
    PROVE  /\ PayloadBag(bag (+) One(what))
           /\ \A other : Copies(other, bag (+) One(what)) =
                             Copies(other, bag) + IF other = what THEN 1 ELSE 0
  BY OneHasOne, UnionAdds

(* The oldest entry goes, and what was pending of it is an id. *)
LEMMA TrimKeeps ==
    ASSUME Sound, TrimDelivered, UNCHANGED <<group, dead, loop>>
    PROVE  StreamTypes' /\ CloserdTypes' /\ Handling' /\ Buried
  <1> USE Bagged
  <1>1. UNCHANGED <<group, dead, at, midway, hand, listed, msg, step>>
    BY DEF loop
  <1>2. ASSUME UNCHANGED torn, PayloadBag(left'), PayloadBag(idle'),
               settled' \in Nat, ghosts' \in Nat
        PROVE  StreamTypes' /\ CloserdTypes' /\ Handling'
    BY <1>1, <1>2 DEF Sound, Types, StreamTypes, CloserdTypes, Handling
  <1>3. CASE settled > 0 /\ settled' = settled - 1 /\ UNCHANGED <<left, idle, ghosts, torn>>
    <2>1. StreamTypes' /\ CloserdTypes' /\ Handling'
      BY <1>2, <1>3
    <2> QED BY <1>1, <1>3, <2>1, NothingPendingMoves
  <1>4. ASSUME NEW what \in BagToSet(left), left' = left (-) One(what), ghosts' = ghosts + 1,
               UNCHANGED <<idle, settled, torn>>
        PROVE  StreamTypes' /\ CloserdTypes' /\ Handling' /\ Buried
    <2>1. PayloadBag(left')
      BY <1>4, OneLess DEF BagIn
    <2>2. PayloadBag(idle') /\ PayloadBag(hand') /\ ghosts' > ghosts /\ ghosts' \in Nat
      BY <1>1, <1>4
    <2> QED BY <1>2, <1>4, <2>1, <2>2, MoreIsPending
  <1>5. ASSUME NEW what \in BagToSet(idle), idle' = idle (-) One(what), ghosts' = ghosts + 1,
               UNCHANGED <<left, settled, torn>>
        PROVE  StreamTypes' /\ CloserdTypes' /\ Handling' /\ Buried
    <2>1. PayloadBag(idle')
      BY <1>5, OneLess DEF BagIn
    <2>2. PayloadBag(left') /\ PayloadBag(hand') /\ ghosts' > ghosts /\ ghosts' \in Nat
      BY <1>1, <1>5
    <2> QED BY <1>2, <1>5, <2>1, <2>2, MoreIsPending
  <1>6. ASSUME NEW what \in BagToSet(Held), torn' = torn (+) One(what), UNCHANGED kept
        PROVE  StreamTypes' /\ CloserdTypes' /\ Handling' /\ Buried
    <2>1. BagIn(what, Held) /\ what \in Payload
      BY <1>6, HeldOf DEF BagIn, PayloadBag
    <2>2. listed /\ Copies(what, hand) - Copies(what, torn) > 0
      BY <2>1, HeldOf, PartByCopies
    <2>3. PayloadBag(torn') /\ torn' \sqsubseteq hand
      <3>1. /\ PayloadBag(torn')
            /\ \A other : Copies(other, torn') = Copies(other, torn) + IF other = what THEN 1 ELSE 0
        BY <1>6, <2>1, OneMore
      <3>2. \A other : Copies(other, torn) <= Copies(other, hand)
        BY PartByCopies
      <3>3. \A other : Copies(other, torn) \in Nat /\ Copies(other, hand) \in Nat
        OBVIOUS
      <3>4. \A other : Copies(other, torn') <= Copies(other, hand)
        BY <2>2, <3>1, <3>2, <3>3
      <3> QED BY <3>1, <3>4, PartByCopies
    <2>4. UNCHANGED <<left, idle, settled, ghosts>>
      BY <1>6 DEF kept
    <2>5. StreamTypes' /\ CloserdTypes' /\ Handling'
      BY <1>1, <2>2, <2>3, <2>4 DEF Sound, Types, StreamTypes, CloserdTypes, Handling
    <2> QED BY <1>1, <2>4, <2>5, NothingPendingMoves
  <1> QED BY <1>3, <1>4, <1>5, <1>6 DEF TrimDelivered

(* XADD: the stream is never longer than it may be. *)
LEMMA AddKeeps ==
    ASSUME Sound, NEW what \in Payload, UNCHANGED <<group, dead, loop>>,
           Add(what) \/ UNCHANGED <<backlog, kept, torn>>
    PROVE  BacklogType' /\ StreamTypes' /\ CloserdTypes' /\ Handling' /\ Buried
  <1>1. backlog \in Seq(Payload) /\ Len(backlog) \in Nat /\ Len(backlog) <= MaxLen /\ MaxLen \in Nat
        /\ MaxLen > 0
    BY BoundsArePositive DEF Sound, Types, BacklogType
  <1>2. /\ settled' \in {settled, settled + 1}
        /\ UNCHANGED <<left, idle, ghosts, torn>>
        => StreamTypes' /\ CloserdTypes' /\ Handling' /\ Buried
    BY Bagged, NothingPendingMoves
       DEF Sound, Types, StreamTypes, CloserdTypes, Handling, loop
  <1>3. UNCHANGED <<kept, torn>> => StreamTypes' /\ CloserdTypes' /\ Handling' /\ Buried
    BY <1>2 DEF kept
  <1>4. /\ Append(backlog, what) \in Seq(Payload) /\ Len(Append(backlog, what)) = Len(backlog) + 1
    BY <1>1
  <1>5. ASSUME UNCHANGED backlog
        PROVE  BacklogType'
    BY <1>5 DEF Sound, Types, BacklogType
  <1>6. CASE UNCHANGED <<backlog, kept, torn>>
    BY <1>3, <1>5, <1>6
  <1>7. CASE ~group /\ Add(what)
    <2>1. UNCHANGED <<backlog, left, idle, ghosts, torn>> /\ settled' \in {settled, settled + 1}
      BY <1>1, <1>7 DEF Add
    <2> QED BY <1>2, <1>5, <2>1
  <1>8. CASE Len(backlog) < MaxLen /\ backlog' = Append(backlog, what)
             /\ (UNCHANGED <<kept, torn>> \/ TrimDelivered)
    <2>1. BacklogType'
      BY <1>1, <1>4, <1>8 DEF BacklogType
    <2> QED BY <1>3, <1>8, <2>1, TrimKeeps
  <1>9. CASE Len(backlog) = MaxLen /\ backlog' = Append(Tail(backlog), what) /\ UNCHANGED <<kept, torn>>
    <2>1. backlog # <<>>
      BY <1>1, <1>9
    <2>2. Tail(backlog) \in Seq(Payload) /\ Len(Tail(backlog)) = Len(backlog) - 1
      BY <1>1, <2>1, HeadTailProperties
    <2>3. backlog' \in Seq(Payload) /\ Len(backlog') = Len(backlog)
      BY <1>1, <1>9, <2>2
    <2> QED BY <1>1, <1>3, <1>9, <2>3 DEF BacklogType
  <1> QED BY <1>6, <1>7, <1>8, <1>9 DEF Add

(* The sweep, its restart, and an entry it did not write. *)
LEMMA SweepKeeps ==
    ASSUME IInv,
           \/ Scan \/ QueryFails \/ AuctiondRestarts
           \/ \E a \in Auctions : PublishFails(a) \/ Age(a)
           \/ \E what \in Payload : Fabricate(what)
    PROVE  Sound' /\ Buried
  <1> USE DEF IInv, Sound, Types, Scan, EnsureGroup, Query, QueryFails, Publish, PublishFails,
              PassEnds, Age, AuctiondRestarts, Fabricate
  <1>1. /\ UNCHANGED <<auctions, clock, limbo, dead, loop>>
        /\ group' \in {group, TRUE}
        /\ Fault \/ UNCHANGED faults
    BY DEF sweep, stream, closerd
  <1>2. RowTypes' /\ NeverClosedEarly'
    BY <1>1 DEF RowTypes, NeverClosedEarly
  <1>3. SweepTypes'
    BY DEF SweepTypes, Pruned, sweep
  <1>4. faults' \in 0..MaxFaults
    BY <1>1, FaultCounts
  <1>5. CASE UNCHANGED <<backlog, kept, torn>>
    <2>1. BacklogType' /\ StreamTypes' /\ CloserdTypes' /\ Handling'
      BY <1>1, <1>5 DEF BacklogType, StreamTypes, CloserdTypes, Handling, kept, loop
    <2>2. Buried
      BY <1>1, <1>5, NothingPendingMoves DEF kept, loop
    <2> QED BY <1>2, <1>3, <1>4, <2>1, <2>2
  <1>6. ASSUME UNCHANGED group, NEW what \in Payload, Add(what)
        PROVE  Sound' /\ Buried
    <2>1. BacklogType' /\ StreamTypes' /\ CloserdTypes' /\ Handling' /\ Buried
      BY <1>1, <1>6, AddKeeps
    <2> QED BY <1>2, <1>3, <1>4, <2>1
  <1>7. UNCHANGED <<backlog, kept, torn>> \/ (UNCHANGED group /\ \E what \in Payload : Add(what))
    BY DEF stream, closerd, Payload
  <1> QED BY <1>5, <1>6, <1>7

(* The rows and the clock. *)
LEMMA RowsKeep ==
    ASSUME IInv,
           \/ \E a \in Auctions : LimboCloses(a) \/ Create(a)
           \/ Truncate \/ Tick
    PROVE  Sound' /\ Buried
  <1> USE DEF IInv, Sound, Types
  <1>1. /\ UNCHANGED <<sweep, stream, closerd>>
        /\ Fault \/ UNCHANGED faults
    BY DEF LimboCloses, Create, Truncate, Tick
  <1>2. RowTypes' /\ NeverClosedEarly'
    <2>1. CASE Tick
      BY <2>1, EndsAtIsAnInstant DEF Tick, RowTypes, NeverClosedEarly
    <2>2. CASE Truncate
      BY <2>2 DEF Truncate, RowTypes, AuctionRow, NeverClosedEarly
    <2>3. ASSUME NEW a \in Auctions, Create(a)
          PROVE  RowTypes' /\ NeverClosedEarly'
      BY <2>3 DEF Create, RowTypes, AuctionRow, NeverClosedEarly
    <2>4. ASSUME NEW a \in Auctions, LimboCloses(a)
          PROVE  RowTypes' /\ NeverClosedEarly'
      BY <2>4 DEF LimboCloses, Closes, Stamp, RowTypes, AuctionRow, NeverClosedEarly
    <2> QED BY <2>1, <2>2, <2>3, <2>4
  <1>3. SweepTypes' /\ BacklogType' /\ StreamTypes' /\ CloserdTypes' /\ Handling'
    BY <1>1 DEF SweepTypes, BacklogType, StreamTypes, CloserdTypes, Handling, sweep, stream, closerd, kept, loop
  <1>4. faults' \in 0..MaxFaults
    BY <1>1, FaultCounts
  <1>5. Buried
    BY <1>1, NothingPendingMoves DEF stream, closerd, kept, loop
  <1> QED BY <1>2, <1>3, <1>4, <1>5

(* The state that handle, the loop and its end leave alone. *)
Elsewhere == UNCHANGED <<clock, window, pass, found, group>>

(* What of the invariant a step of closerd can disturb besides the rows. *)
ConsumerKept == StreamTypes' /\ CloserdTypes' /\ Handling'

LEMMA ClaimableIsPart ==
    ASSUME PayloadBag(idle), NEW some \in Claimable
    PROVE  PayloadBag(some) /\ some \sqsubseteq idle
  <1>1. PICK what \in SUBSET BagToSet(idle) : some \in [what -> 1..ReadCount]
    BY DEF Claimable
  <1>2. DOMAIN some = what /\ what \subseteq Payload
    BY <1>1 DEF PayloadBag
  <1>3. some \in [what -> {n \in Nat : n > 0}]
    <2>1. ReadCount \in Nat
      BY BoundsArePositive
    <2> QED BY <1>1, <2>1
  <1>4. PayloadBag(some)
    BY <1>2, <1>3 DEF PayloadBag, IsABag, BagToSet
  <1> QED BY <1>4 DEF Claimable

(* The next step of handle: nothing leaves the hand. *)
LEMMA GoesOnKeeps ==
    ASSUME IInv, NEW next, GoesOn(next), Elsewhere,
           dead \subseteq dead', dead' \subseteq Payload,
           msg # NoMessage, next \in {"classify", "ack"},
           next = "classify" => msg \in Auctions,
           msg \in Malformed => msg \in dead'
    PROVE  ConsumerKept /\ Buried
  <1> USE DEF IInv, Sound, Types, GoesOn, Elsewhere, kept
  <1>1. StreamTypes' /\ CloserdTypes'
    BY DEF StreamTypes, CloserdTypes
  <1>2. Handling'
    BY DEF Handling
  <1>3. Buried
    BY NothingPendingMoves
  <1> QED BY <1>1, <1>2, <1>3 DEF ConsumerKept

(* handle returns: the message leaves the hand, and without an             *)
(* acknowledgement it stays pending.                                       *)
LEMMA DoneKeeps ==
    ASSUME IInv, NEW acknowledged \in BOOLEAN, Done(acknowledged), Elsewhere,
           dead \subseteq dead', dead' \subseteq Payload,
           msg # NoMessage,
           acknowledged /\ msg \in Malformed /\ listed => msg \in dead'
    PROVE  ConsumerKept /\ Buried
  <1> USE DEF IInv, Sound, Types
  <1>1. /\ PayloadBag(left) /\ PayloadBag(idle) /\ PayloadBag(hand) /\ PayloadBag(torn)
        /\ listed \in BOOLEAN /\ settled \in Nat /\ ghosts \in Nat
    BY Bagged
  <1>2. BagIn(msg, hand) /\ msg \in Payload
    BY DEF CloserdTypes, BagIn, PayloadBag
  <1>3. /\ hand' = hand (-) One(msg)
        /\ msg' = NoMessage /\ step' = "none"
        /\ at' = IF hand' = EmptyBag THEN "claim" ELSE "work"
        /\ UNCHANGED <<midway, listed, idle>>
    BY DEF Done
  <1>4. /\ PayloadBag(hand')
        /\ \A what : Copies(what, hand') = Copies(what, hand) - IF what = msg THEN 1 ELSE 0
    BY <1>1, <1>2, <1>3, OneLess
  <1>5. /\ \A what : Copies(what, torn) <= Copies(what, hand)
        /\ \A what : Copies(what, torn) \in Nat /\ Copies(what, hand) \in Nat
        /\ \A what : Copies(what, left) \in Nat /\ Copies(what, idle) \in Nat
    BY Bagged, PartByCopies
  <1>6. ASSUME PayloadBag(left'), settled' \in Nat, ghosts' \in Nat,
               PayloadBag(torn'), torn' \sqsubseteq hand', ~listed => torn' = EmptyBag
        PROVE  ConsumerKept
    <2>1. StreamTypes' /\ CloserdTypes'
      BY <1>3, <1>4, <1>6 DEF StreamTypes, CloserdTypes, Elsewhere
    <2>2. Handling'
      BY <1>3, <1>6 DEF Handling
    <2> QED BY <2>1, <2>2 DEF ConsumerKept
  <1>7. CASE /\ BagIn(msg, Held)
             /\ left' = IF acknowledged THEN left ELSE left (+) One(msg)
             /\ settled' = IF acknowledged THEN settled + 1 ELSE settled
             /\ UNCHANGED <<ghosts, torn>>
    <2>1. listed /\ Copies(msg, hand) - Copies(msg, torn) > 0
      BY <1>7, HeldOf, PartByCopies
    <2>2. \A what : Copies(what, torn) <= Copies(what, hand')
      BY <1>4, <1>5, <2>1
    <2>3. torn' \sqsubseteq hand'
      BY <1>1, <1>4, <1>7, <2>2, PartByCopies
    <2>4. /\ PayloadBag(left')
          /\ ~acknowledged => \A what : Copies(what, left') =
                                Copies(what, left) + IF what = msg THEN 1 ELSE 0
          /\ acknowledged => left' = left
      BY <1>1, <1>2, <1>7, OneMore
    <2>5. settled' \in Nat /\ ghosts' \in Nat
      BY <1>1, <1>7
    <2>6. ConsumerKept
      BY <1>1, <1>6, <1>7, <2>1, <2>3, <2>4, <2>5
    <2>7. CASE ~acknowledged
      BY <1>1, <1>3, <1>4, <1>5, <2>4, <2>6, <2>7, MoreIsPending
    <2>8. CASE acknowledged
      BY <1>1, <1>3, <1>4, <1>5, <2>1, <2>4, <2>6, <2>8, MoreIsPending
    <2> QED BY <2>7, <2>8
  <1>8. CASE /\ BagIn(msg, torn)
             /\ torn' = torn (-) One(msg)
             /\ ghosts' = IF acknowledged THEN ghosts ELSE ghosts + 1
             /\ UNCHANGED <<left, settled>>
    <2>1. /\ PayloadBag(torn')
          /\ \A what : Copies(what, torn') = Copies(what, torn) - IF what = msg THEN 1 ELSE 0
      BY <1>1, <1>8, OneLess
    <2>2. \A what : Copies(what, torn') <= Copies(what, hand')
      BY <1>4, <1>5, <2>1
    <2>3. torn' \sqsubseteq hand'
      BY <1>4, <2>1, <2>2, PartByCopies
    <2>4. listed
      <3>1. Copies(msg, torn) > 0
        BY <1>1, <1>8, PartByCopies
      <3> QED BY <1>1, <3>1, EmptyBagHasNone DEF Handling
    <2>5. ConsumerKept
      BY <1>1, <1>6, <1>8, <2>1, <2>3, <2>4
    <2>6. CASE ~acknowledged
      <3>1. ghosts' > ghosts
        BY <1>1, <1>8, <2>6
      <3> QED BY <1>1, <1>3, <1>4, <1>8, <3>1, <2>5, MoreIsPending
    <2>7. CASE acknowledged
      BY <1>1, <1>3, <1>4, <1>5, <1>8, <2>4, <2>5, <2>7, MoreIsPending
    <2> QED BY <2>6, <2>7
  <1>9. CASE ~listed /\ UNCHANGED <<left, settled, ghosts, torn>>
    <2>1. torn' = EmptyBag
      BY <1>9 DEF Handling
    <2>2. PayloadBag(torn') /\ torn' \sqsubseteq hand'
      BY <1>4, <2>1, EmptyIsPart, EmptyBagHasNone
    <2>3. ConsumerKept
      BY <1>1, <1>6, <1>9, <2>1, <2>2
    <2> QED BY <1>1, <1>3, <1>4, <1>5, <1>9, <2>3, MoreIsPending
  <1> QED BY <1>7, <1>8, <1>9 DEF Done

(* The steps of handle, and its failures. *)
LEMMA HandleKeeps ==
    ASSUME IInv,
           \/ \E what \in Payload : Handle(what)
           \/ CloseRow \/ Classify \/ Bury \/ Ack \/ HandleFails
    PROVE  Sound' /\ Buried
  <1> USE DEF IInv, Sound, Types
  <1>1. /\ Elsewhere /\ UNCHANGED backlog
        /\ Fault \/ UNCHANGED faults
    BY DEF Handle, CloseRow, Classify, Bury, Ack, HandleFails, sweep, stream, Elsewhere
  <1>2. SweepTypes' /\ BacklogType' /\ faults' \in 0..MaxFaults
    BY <1>1, FaultCounts DEF SweepTypes, BacklogType, Elsewhere
  <1>3. dead \subseteq Payload /\ Malformed \subseteq Payload
    BY DEF StreamTypes, Payload
  <1>4. /\ NoMessage \notin Payload
        /\ msg # NoMessage => msg \in Payload
    BY NoMessageIsNoPayload DEF CloserdTypes, PayloadBag, Payload
  <1>5. RowTypes' /\ NeverClosedEarly'
    <2>1. CASE CloseRow
      BY <2>1 DEF CloseRow, Closes, Stamp, RowTypes, AuctionRow, NeverClosedEarly
    <2>2. CASE HandleFails
      <3>1. UNCHANGED <<auctions, clock>> /\ limbo' \subseteq limbo \cup (IF step = "close" THEN {msg} ELSE {})
        BY <2>2 DEF HandleFails
      <3> QED BY <3>1 DEF RowTypes, NeverClosedEarly, Handling
    <2>3. CASE (\E what \in Payload : Handle(what)) \/ Classify \/ Bury \/ Ack
      BY <2>3 DEF Handle, Classify, Bury, Ack, RowTypes, NeverClosedEarly
    <2> QED BY <2>1, <2>2, <2>3
  <1>6. ConsumerKept /\ Buried
    <2>1. ASSUME NEW what \in Payload, Handle(what)
          PROVE  ConsumerKept /\ Buried
      <3>1. UNCHANGED <<kept, hand, listed, torn, dead, at, midway, group>>
            /\ msg' = what /\ step' = (IF what \in Malformed THEN "bury" ELSE "close")
            /\ at = "work" /\ what \in BagToSet(hand)
        BY <2>1 DEF Handle, stream, BagIn
      <3>2. StreamTypes' /\ CloserdTypes'
        BY <3>1 DEF StreamTypes, CloserdTypes, kept
      <3>3. Handling'
        BY <1>4, <3>1 DEF Handling, Payload
      <3> QED BY <3>1, <3>2, <3>3, NothingPendingMoves DEF ConsumerKept, kept
    <2>2. CASE CloseRow
      <3>1. msg \in Auctions /\ msg # NoMessage /\ msg \notin Malformed /\ UNCHANGED dead
        BY <1>4, <2>2, MalformedIsNoAuction DEF CloseRow, Handling, Payload
      <3>2. GoesOn("ack") \/ GoesOn("classify")
        BY <2>2 DEF CloseRow
      <3> QED BY <1>1, <1>3, <3>1, <3>2, GoesOnKeeps
    <2>3. CASE Classify
      <3>1. msg \in Auctions /\ msg # NoMessage /\ msg \notin Malformed /\ UNCHANGED dead
        BY <1>4, <2>3, MalformedIsNoAuction DEF Classify, Handling, Payload
      <3>2. GoesOn("ack") \/ Done(FALSE)
        BY <2>3 DEF Classify
      <3> QED BY <1>1, <1>3, <3>1, <3>2, GoesOnKeeps, DoneKeeps
    <2>4. CASE Bury
      <3>1. msg # NoMessage /\ dead' = dead \cup {msg} /\ GoesOn("ack")
        BY <2>4 DEF Bury, Handling
      <3> QED BY <1>1, <1>3, <1>4, <3>1, GoesOnKeeps
    <2>5. CASE Ack
      <3>1. msg # NoMessage /\ UNCHANGED dead /\ Done(TRUE)
            /\ (msg \in Malformed /\ listed => msg \in dead)
        BY <2>5 DEF Ack, Handling
      <3> QED BY <1>1, <1>3, <3>1, DoneKeeps
    <2>6. CASE HandleFails
      <3>1. msg # NoMessage
            /\ (step = "ack" /\ msg \in Malformed /\ listed => msg \in dead)
        BY <2>6 DEF HandleFails, Handling
      <3>2. \/ Done(FALSE) /\ dead' \in {dead, dead \cup {msg}}
            \/ step = "ack" /\ Done(TRUE) /\ dead' = dead
        BY <2>6 DEF HandleFails
      <3> QED BY <1>1, <1>3, <1>4, <3>1, <3>2, DoneKeeps
    <2> QED BY <2>1, <2>2, <2>3, <2>4, <2>5, <2>6
  <1> QED BY <1>2, <1>5, <1>6 DEF ConsumerKept

(* What XREADGROUP takes from the stream, and what it leaves there. *)
LEMMA DeliveredAreEntries ==
    ASSUME BacklogType
    PROVE  PayloadBag(Delivered) /\ Undelivered \in Seq(Payload) /\ Len(Undelivered) <= MaxLen
  <1>1. Len(backlog) \in Nat /\ ReadCount \in Nat /\ MaxLen \in Nat
        /\ \A i \in 1..Len(backlog) : backlog[i] \in Payload
    BY BoundsArePositive, LenProperties DEF BacklogType
  <1>2. Given \in 0..Len(backlog)
    BY <1>1 DEF Given
  <1>3. SubSeq(backlog, 1, Given) \in Seq(Payload)
    BY <1>1, <1>2, SubSeqProperties
  <1>4. /\ SubSeq(backlog, Given + 1, Len(backlog)) \in Seq(Payload)
        /\ Len(SubSeq(backlog, Given + 1, Len(backlog))) <= Len(backlog)
    <2>1. \A i \in (Given + 1)..Len(backlog) : backlog[i] \in Payload
      BY <1>1, <1>2
    <2>2. Given + 1 \in Int /\ Len(backlog) \in Int
      BY <1>1, <1>2
    <2> QED BY <1>1, <1>2, <2>1, <2>2, SubSeqProperties
  <1>5. PayloadBag(Delivered)
    BY <1>3, BagOfPayloads DEF Delivered
  <1>6. Len(backlog) <= MaxLen
    BY DEF BacklogType
  <1>7. Len(Undelivered) \in Nat
    BY <1>4, LenProperties DEF Undelivered
  <1> QED BY <1>1, <1>4, <1>5, <1>6, <1>7 DEF Undelivered

(* A claim, a read or the lapse of claimMinIdle moves entries that are     *)
(* pending, or brings new ones.                                            *)
LEMMA ReadsKeep ==
    ASSUME IInv,
           \/ Claim \/ ClaimLost \/ Read \/ ReadLost
           \/ \E what \in Payload : GrowIdle(what)
    PROVE  Sound' /\ Buried
  <1> USE DEF IInv, Sound, Types
  <1>1. /\ Elsewhere /\ UNCHANGED <<auctions, limbo, dead>>
        /\ Fault \/ UNCHANGED faults
    BY DEF Claim, ClaimLost, Read, ReadLost, GrowIdle, sweep, stream, Elsewhere
  <1>2. RowTypes' /\ SweepTypes' /\ NeverClosedEarly' /\ faults' \in 0..MaxFaults
    BY <1>1, FaultCounts DEF RowTypes, SweepTypes, NeverClosedEarly, Elsewhere
  <1>3. /\ PayloadBag(left) /\ PayloadBag(idle) /\ PayloadBag(hand)
        /\ settled \in Nat /\ ghosts \in Nat
        /\ \A bag : PayloadBag(bag) => \A what : Copies(what, bag) \in Nat
    BY Bagged
  <1>4. BacklogType'
    BY DeliveredAreEntries DEF Claim, ClaimLost, Read, ReadLost, GrowIdle, BacklogType
  <1>5. ASSUME NEW some, PayloadBag(some), Takes(some), midway' \in BOOLEAN,
               at \in {"claim", "read"}
        PROVE  /\ CloserdTypes' /\ Handling'
               /\ hand = EmptyBag /\ hand' = some /\ listed' = TRUE
    <2>1. hand = EmptyBag /\ msg = NoMessage /\ step = "none"
      BY <1>5, EmptyBagHasNone DEF Handling, CloserdTypes
    <2>2. PayloadBag(EmptyBag) /\ EmptyBag \sqsubseteq some
      BY <1>5, EmptyBagHasNone, EmptyIsPart
    <2> QED BY <1>5, <2>1, <2>2 DEF Takes, CloserdTypes, Handling
  <1>6. ASSUME UNCHANGED <<hand, listed, torn, msg, step>>, midway' \in BOOLEAN,
               at' = at \/ (at \in {"claim", "read"} /\ at' \in {"claim", "read"})
        PROVE  CloserdTypes' /\ Handling'
    BY <1>1, <1>6 DEF CloserdTypes, Handling
  <1>7. ASSUME PayloadBag(left'), PayloadBag(idle'), settled' \in Nat, ghosts' \in Nat
        PROVE  StreamTypes'
    BY <1>1, <1>7 DEF StreamTypes, Elsewhere
  <1>8. ASSUME NEW some \in Claimable, NEW lost \in 0..ghosts, Passes(some, lost)
        PROVE  /\ PayloadBag(some) /\ PayloadBag(idle') /\ ghosts' \in Nat
               /\ \A what : Copies(what, idle') = Copies(what, idle) - Copies(what, some)
    <2>1. PayloadBag(some) /\ some \sqsubseteq idle
      BY <1>3, ClaimableIsPart
    <2>2. idle' = idle (-) some /\ ghosts' = ghosts - lost
      BY <1>8 DEF Passes
    <2> QED BY <1>3, <2>1, <2>2, DifferenceSubtracts
  <1>9. CASE Claim
    <2>1. PICK some \in Claimable, lost \in 0..ghosts :
             /\ Passes(some, lost)
             /\ midway' \in {FALSE, Size(some) + lost = ReadCount}
             /\ \/ Takes(some)
                \/ /\ some = EmptyBag
                   /\ at' = "read"
                   /\ UNCHANGED <<hand, listed, torn, msg, step>>
      BY <1>9 DEF Claim
    <2>2. /\ PayloadBag(some) /\ PayloadBag(idle') /\ ghosts' \in Nat
          /\ \A what : Copies(what, idle') = Copies(what, idle) - Copies(what, some)
      BY <1>8, <2>1
    <2>3. UNCHANGED <<left, settled>> /\ at = "claim" /\ midway' \in BOOLEAN
      BY <1>9, <2>1 DEF Claim
    <2>4. StreamTypes'
      BY <1>3, <1>7, <2>2, <2>3
    <2>5. CASE Takes(some)
      <3>1. CloserdTypes' /\ Handling' /\ hand = EmptyBag /\ hand' = some /\ listed' = TRUE
        BY <1>5, <2>2, <2>3, <2>5
      <3>2. Buried
        BY <1>3, <2>2, <2>3, <3>1, EmptyBagHasNone, MoreIsPending
      <3> QED BY <1>2, <1>4, <2>4, <3>1, <3>2
    <2>6. CASE some = EmptyBag /\ at' = "read" /\ UNCHANGED <<hand, listed, torn, msg, step>>
      <3>1. CloserdTypes' /\ Handling'
        BY <1>6, <2>3, <2>6
      <3>2. \A what : Copies(what, idle') = Copies(what, idle)
        BY <1>3, <2>2, <2>6, EmptyBagHasNone
      <3>3. Buried
        BY <1>3, <2>2, <2>3, <2>6, <3>2, MoreIsPending
      <3> QED BY <1>2, <1>4, <2>4, <3>1, <3>3
    <2> QED BY <2>1, <2>5, <2>6
  <1>10. CASE ClaimLost
    <2>1. PICK some \in Claimable, lost \in 0..ghosts : Passes(some, lost) /\ left' = left (+) some
      BY <1>10 DEF ClaimLost
    <2>2. /\ PayloadBag(some) /\ PayloadBag(idle') /\ ghosts' \in Nat
          /\ \A what : Copies(what, idle') = Copies(what, idle) - Copies(what, some)
      BY <1>8, <2>1
    <2>3. /\ PayloadBag(left')
          /\ \A what : Copies(what, left') = Copies(what, left) + Copies(what, some)
      BY <1>3, <2>1, <2>2, UnionAdds
    <2>4. UNCHANGED <<at, midway, hand, listed, torn, msg, step, settled>>
      BY <1>10 DEF ClaimLost, closerd, loop
    <2>5. Buried
      BY <1>3, <2>2, <2>3, <2>4, MoreIsPending
    <2>6. midway' \in BOOLEAN
      BY <2>4 DEF CloserdTypes
    <2> QED BY <1>2, <1>3, <1>4, <1>6, <1>7, <2>2, <2>3, <2>4, <2>5, <2>6
  <1>11. CASE Read
    <2>1. UNCHANGED <<left, idle, settled, ghosts, midway>> /\ at = "read" /\ midway' \in BOOLEAN
      BY <1>11 DEF Read, CloserdTypes, kept
    <2>2. StreamTypes'
      BY <1>3, <1>7, <2>1
    <2>3. CASE UNCHANGED <<hand, listed, torn, msg, step>> /\ at' = "claim"
      BY <1>2, <1>4, <1>6, <2>1, <2>2, <2>3, NothingPendingMoves
    <2>4. CASE Takes(Delivered)
      <3>1. PayloadBag(Delivered)
        BY DeliveredAreEntries
      <3>2. CloserdTypes' /\ Handling' /\ hand = EmptyBag /\ hand' = Delivered /\ listed' = TRUE
        BY <1>5, <2>1, <2>4, <3>1
      <3>3. Buried
        BY <1>3, <2>1, <3>1, <3>2, EmptyBagHasNone, MoreIsPending
      <3> QED BY <1>2, <1>4, <2>2, <3>2, <3>3
    <2> QED BY <1>11, <2>3, <2>4 DEF Read
  <1>12. CASE ReadLost
    <2>1. /\ UNCHANGED <<idle, settled, ghosts, midway, hand, listed, torn, msg, step>>
          /\ midway' \in BOOLEAN
          /\ left' = left (+) Delivered /\ at = "read" /\ at' = "claim"
      BY <1>12 DEF ReadLost, CloserdTypes
    <2>2. PayloadBag(Delivered)
      BY DeliveredAreEntries
    <2>3. /\ PayloadBag(left')
          /\ \A what : Copies(what, left') = Copies(what, left) + Copies(what, Delivered)
      BY <1>3, <2>1, <2>2, UnionAdds
    <2>4. Buried
      BY <1>3, <2>1, <2>2, <2>3, MoreIsPending
    <2> QED BY <1>2, <1>3, <1>4, <1>6, <1>7, <2>1, <2>3, <2>4
  <1>13. ASSUME NEW what \in Payload, GrowIdle(what)
         PROVE  Sound' /\ Buried
    <2>1. /\ left' = left (-) One(what) /\ idle' = idle (+) One(what) /\ BagIn(what, left)
          /\ UNCHANGED <<at, midway, hand, listed, torn, msg, step, settled, ghosts>>
      BY <1>13 DEF GrowIdle, closerd, loop
    <2>2. /\ PayloadBag(left')
          /\ \A other : Copies(other, left') = Copies(other, left) - IF other = what THEN 1 ELSE 0
      BY <1>3, <2>1, OneLess
    <2>3. /\ PayloadBag(idle')
          /\ \A other : Copies(other, idle') = Copies(other, idle) + IF other = what THEN 1 ELSE 0
      BY <1>3, <2>1, OneMore
    <2>4. Buried
      BY <1>3, <2>1, <2>2, <2>3, MoreIsPending
    <2>5. midway' \in BOOLEAN
      BY <2>1 DEF CloserdTypes
    <2> QED BY <1>2, <1>3, <1>4, <1>6, <1>7, <2>1, <2>2, <2>3, <2>4, <2>5
  <1> QED BY <1>9, <1>10, <1>11, <1>12, <1>13

(* What the stream has trimmed of the hand is a number. *)
LEMMA TornIsCounted ==
    ASSUME IInv
    PROVE  Size(torn) \in Nat /\ \A what : BagIn(what, torn) => Size(torn) > 0
  <1>1. Sound /\ Within(hand)
    BY DEF IInv, Counted
  <1>2. Within(torn)
    BY <1>1, Bagged, PartByCopies, PartIsWithin
  <1>3. Size(torn) \in Nat
    BY <1>2, FS_CardinalityType DEF Within, Size
  <1>4. ASSUME NEW what, BagIn(what, torn)
        PROVE  Size(torn) > 0
    <2>1. torn[what] \in Nat /\ torn[what] > 0
      BY <1>1, <1>4, Bagged DEF PayloadBag, IsABag, BagIn, BagToSet
    <2>2. <<what, 1>> \in Entries(torn)
      BY <1>4, <2>1, EntryOf DEF BagIn
    <2>3. Size(torn) # 0
      BY <1>2, <2>2, FS_EmptySet DEF Within, Size
    <2> QED BY <1>3, <2>3
  <1> QED BY <1>3, <1>4

(* closerd ends, and what it held stays pending; it boots; Redis loses     *)
(* everything, and the group with it.                                      *)
LEMMA EndsKeep ==
    ASSUME IInv, Stop \/ Kill \/ Boot \/ Flush
    PROVE  Sound' /\ Buried
  <1> USE DEF IInv, Sound, Types
  <1>1. /\ UNCHANGED <<auctions, clock, window, pass, found>>
        /\ limbo' \subseteq limbo \cup IF step = "close" THEN {msg} ELSE {}
        /\ Fault \/ UNCHANGED faults
    BY DEF Stop, Kill, Boot, Flush, sweep
  <1>2. RowTypes' /\ SweepTypes' /\ NeverClosedEarly' /\ faults' \in 0..MaxFaults
    BY <1>1, FaultCounts DEF RowTypes, SweepTypes, NeverClosedEarly, Handling
  <1>3. BacklogType'
    <2>1. CASE Flush
      BY <2>1, BoundsArePositive, EmptySeq DEF Flush, BacklogType
    <2>2. CASE Stop \/ Kill \/ Boot
      BY <2>2 DEF Stop, Kill, Boot, stream, BacklogType
    <2> QED BY <2>1, <2>2
  <1>4. /\ PayloadBag(left) /\ PayloadBag(idle) /\ PayloadBag(hand) /\ PayloadBag(torn)
        /\ listed \in BOOLEAN /\ settled \in Nat /\ ghosts \in Nat
        /\ \A what : Copies(what, left) \in Nat /\ Copies(what, idle) \in Nat
                    /\ Copies(what, hand) \in Nat /\ Copies(what, torn) \in Nat
    BY Bagged
  <1>5. CASE Stop \/ Kill
    <2>1. /\ UNCHANGED <<group, idle, settled, dead, listed>>
          /\ at' = "down" /\ midway' = FALSE /\ hand' = EmptyBag /\ torn' = EmptyBag
          /\ left' = left (+) Held /\ ghosts' = ghosts + Size(torn)
          /\ msg' = NoMessage /\ step' = "none"
      BY <1>5 DEF Stop, Kill, Leaves
    <2>2. /\ PayloadBag(left')
          /\ \A what : Copies(what, left') = Copies(what, left) +
                          IF listed THEN Copies(what, hand) - Copies(what, torn) ELSE 0
      BY <1>4, <2>1, HeldOf, UnionAdds
    <2>3. /\ PayloadBag(hand') /\ \A what : Copies(what, hand') = 0
          /\ PayloadBag(torn') /\ torn' \sqsubseteq hand'
      BY <2>1, EmptyBagHasNone, EmptyIsPart
    <2>4. Size(torn) \in Nat /\ \A what : BagIn(what, torn) => Size(torn) > 0
      BY TornIsCounted
    <2>5. StreamTypes' /\ CloserdTypes' /\ Handling'
      <3>1. PayloadBag(idle') /\ settled' \in Nat /\ ghosts' \in Nat
        BY <1>4, <2>1, <2>4
      <3>2. StreamTypes'
        BY <2>1, <2>2, <3>1 DEF StreamTypes
      <3>3. CloserdTypes'
        BY <2>1, <2>3 DEF CloserdTypes
      <3> QED BY <2>1, <3>2, <3>3 DEF Handling
    <2>6. ASSUME NEW what \in Malformed
          PROVE  \/ Copies(what, left') + Copies(what, idle')
                      + (IF listed' THEN Copies(what, hand') ELSE 0)
                    >= Copies(what, left) + Copies(what, idle)
                         + (IF listed THEN Copies(what, hand) ELSE 0)
                 \/ ghosts' > ghosts
      <3>1. CASE BagIn(what, torn)
        BY <1>4, <2>1, <2>4, <3>1
      <3>2. CASE ~BagIn(what, torn)
        <4>1. Copies(what, torn) = 0
          BY <3>2 DEF Copies
        <4> QED BY <1>4, <2>1, <2>2, <2>3, <4>1
      <3> QED BY <3>1, <3>2
    <2>7. Buried
      BY <1>4, <2>1, <2>2, <2>3, <2>6, MoreIsPending
    <2> QED BY <1>2, <1>3, <2>5, <2>7
  <1>6. CASE Boot
    <2>1. /\ UNCHANGED <<group, left, idle, settled, ghosts, dead, midway, hand, listed, torn, msg, step>>
          /\ at = "down" /\ at' = "claim"
      BY <1>6 DEF Boot, stream, kept
    <2>2. StreamTypes' /\ CloserdTypes' /\ Handling'
      BY <2>1 DEF StreamTypes, CloserdTypes, Handling
    <2> QED BY <1>2, <1>3, <2>1, <2>2, NothingPendingMoves
  <1>7. CASE Flush
    <2>1. /\ group' = FALSE /\ left' = EmptyBag /\ idle' = EmptyBag /\ dead' = {}
          /\ settled' = 0 /\ ghosts' = 0 /\ torn' = EmptyBag
          /\ listed' = FALSE /\ UNCHANGED <<at, midway, hand, msg, step>>
      BY <1>7 DEF Flush
    <2>2. PayloadBag(EmptyBag) /\ EmptyBag \sqsubseteq hand
      BY <1>4, EmptyBagHasNone, EmptyIsPart
    <2>3. StreamTypes' /\ CloserdTypes' /\ Handling'
      BY <2>1, <2>2 DEF StreamTypes, CloserdTypes, Handling
    <2>4. Buried
      BY <2>1 DEF Buried
    <2> QED BY <1>2, <1>3, <2>3, <2>4
  <1> QED BY <1>5, <1>6, <1>7

(* A step that does nothing. *)
LEMMA StutterKeeps ==
    ASSUME IInv, UNCHANGED vars
    PROVE  Sound' /\ Buried
  <1>1. Sound'
    BY DEF vars, IInv, Sound, Types, RowTypes, SweepTypes, BacklogType, StreamTypes,
           CloserdTypes, Handling, NeverClosedEarly
  <1> QED BY <1>1, NothingPendingMoves DEF vars, IInv

(* Every step keeps the invariant, and buries what it acknowledges. *)
LEMMA StepKeeps ==
    ASSUME IInv, [Next]_vars
    PROVE  Sound' /\ Buried
  <1>1. CASE Scan \/ QueryFails \/ AuctiondRestarts
             \/ (\E a \in Auctions : PublishFails(a) \/ Age(a))
             \/ (\E what \in Payload : Fabricate(what))
    BY <1>1, SweepKeeps
  <1>2. CASE (\E a \in Auctions : LimboCloses(a) \/ Create(a)) \/ Truncate \/ Tick
    BY <1>2, RowsKeep
  <1>3. CASE (\E what \in Payload : Handle(what))
             \/ CloseRow \/ Classify \/ Bury \/ Ack \/ HandleFails
    BY <1>3, HandleKeeps
  <1>4. CASE Claim \/ ClaimLost \/ Read \/ ReadLost \/ (\E what \in Payload : GrowIdle(what))
    BY <1>4, ReadsKeep
  <1>5. CASE Stop \/ Kill \/ Boot \/ Flush
    BY <1>5, EndsKeep
  <1>6. CASE UNCHANGED vars
    BY <1>6, StutterKeeps
  <1> QED BY <1>1, <1>2, <1>3, <1>4, <1>5, <1>6 DEF Next, Consume, Faulty

(* The message leaves the hand. *)
LEMMA DoneIsCounted ==
    ASSUME IInv, NEW acknowledged \in BOOLEAN, Done(acknowledged), msg # NoMessage
    PROVE  Counted'
  <1>1. PayloadBag(left) /\ PayloadBag(idle) /\ PayloadBag(hand) /\ Counted
    BY Bagged DEF IInv
  <1>2. BagIn(msg, hand)
    BY DEF IInv, Sound, Types, CloserdTypes, BagIn
  <1>3. /\ hand' = hand (-) One(msg)
        /\ left' \in {left, left (+) One(msg)}
        /\ idle' = idle
    BY DEF Done
  <1>4. Finite(One(msg))
    BY OneIsFinite
  <1>5. PayloadBag(hand') /\ Finite(hand') /\ \A what : Copies(what, hand') <= Copies(what, hand)
    <2>1. /\ PayloadBag(hand') /\ PayloadBag(One(msg)) /\ One(msg) \sqsubseteq hand
          /\ \A what : Copies(what, hand') = Copies(what, hand) - IF what = msg THEN 1 ELSE 0
      BY <1>1, <1>2, <1>3, OneLess
    <2>2. \A what : Copies(what, hand) \in Nat
      BY <1>1, CopiesAreCounted
    <2> QED BY <1>1, <1>3, <2>1, <2>2, DifferenceIsFinite DEF Counted
  <1>6. Within(hand)'
    <2>1. Within(hand')
      BY <1>1, <1>5, PartIsWithin DEF Counted
    <2> QED BY <2>1 DEF Within, Size, Entries
  <1>7. Finite(left') /\ Finite(idle')
    BY <1>1, <1>3, <1>4, UnionIsFinite DEF Counted
  <1> QED BY <1>5, <1>6, <1>7 DEF Counted, Finite

(* What is in the stream of the hand is part of it. *)
LEMMA HeldIsFinite ==
    ASSUME IInv
    PROVE  Finite(Held)
  <1>1. PayloadBag(hand) /\ PayloadBag(torn) /\ torn \sqsubseteq hand /\ Finite(hand)
    BY Bagged DEF IInv, Counted
  <1> QED BY <1>1, DifferenceIsFinite, EmptyIsWithin DEF Held

(* XADD trims, or leaves what was delivered alone. *)
LEMMA AddIsCounted ==
    ASSUME IInv, NEW what, Add(what), UNCHANGED hand
    PROVE  Finite(left') /\ Finite(idle')
  <1>1. PayloadBag(left) /\ PayloadBag(idle) /\ Finite(left) /\ Finite(idle)
    BY Bagged DEF IInv, Counted
  <1>2. ASSUME NEW bag, PayloadBag(bag), Finite(bag), NEW one \in BagToSet(bag)
        PROVE  Finite(bag (-) One(one))
    BY <1>2, OneLess, DifferenceIsFinite DEF BagIn
  <1>3. CASE UNCHANGED <<left, idle>>
    BY <1>1, <1>3
  <1>4. CASE TrimDelivered
    BY <1>1, <1>2, <1>4 DEF TrimDelivered, kept
  <1> QED BY <1>3, <1>4 DEF Add, kept

(* Whatever is taken, given back or left was there, or was delivered. *)
LEMMA StepIsCounted ==
    ASSUME IInv, [Next]_vars
    PROVE  Counted'
  <1>1. PayloadBag(left) /\ PayloadBag(idle) /\ PayloadBag(hand) /\ BacklogType
    BY Bagged DEF IInv, Sound, Types
  <1>2. Finite(left) /\ Finite(idle) /\ Finite(hand) /\ Within(hand)
    BY DEF IInv, Counted
  <1>3. ASSUME Finite(left'), Finite(idle'), Finite(hand'), Within(hand')
        PROVE  Counted'
    BY <1>3 DEF Counted, Finite, Within, Size, Entries
  <1>4. CASE UNCHANGED <<left, idle, hand>>
    BY <1>2, <1>3, <1>4
  <1>5. ASSUME NEW acknowledged \in BOOLEAN, Done(acknowledged), msg # NoMessage
        PROVE  Counted'
    BY <1>5, DoneIsCounted
  <1>6. CASE Claim
    <2>1. PICK some \in Claimable : idle' = idle (-) some /\ hand' \in {some, hand} /\ left' = left
      BY <1>6 DEF Claim, Passes, Takes
    <2>2. PayloadBag(some) /\ some \sqsubseteq idle /\ Finite(some) /\ Within(some)
      BY <1>1, <1>2, ClaimableIsPart, ClaimableIsWithin
    <2> QED BY <1>1, <1>2, <1>3, <2>1, <2>2, DifferenceIsFinite
  <1>7. CASE ClaimLost
    <2>1. PICK some \in Claimable : idle' = idle (-) some /\ hand' = hand /\ left' = left (+) some
      BY <1>7 DEF ClaimLost, Passes, closerd, loop
    <2>2. PayloadBag(some) /\ some \sqsubseteq idle /\ Finite(some)
      BY <1>1, <1>2, ClaimableIsPart, ClaimableIsWithin
    <2> QED BY <1>1, <1>2, <1>3, <2>1, <2>2, DifferenceIsFinite, UnionIsFinite
  <1>8. CASE (Read \/ ReadLost) /\ ~UNCHANGED <<left, idle, hand>>
    <2>1. /\ idle' = idle
          /\ \/ hand' = Delivered /\ left' = left
             \/ hand' = hand /\ left' = left (+) Delivered
      BY <1>8 DEF Read, ReadLost, Takes, kept
    <2> QED BY <1>1, <1>2, <1>3, <2>1, DeliveredIsWithin, UnionIsFinite
  <1>9. ASSUME NEW what \in Payload, GrowIdle(what)
        PROVE  Counted'
    <2>1. /\ left' = left (-) One(what) /\ idle' = idle (+) One(what)
          /\ hand' = hand /\ BagIn(what, left)
      BY <1>9 DEF GrowIdle, closerd, loop
    <2>2. PayloadBag(One(what)) /\ One(what) \sqsubseteq left
      BY <1>1, <2>1, OneHasOne
    <2> QED BY <1>1, <1>2, <1>3, <2>1, <2>2, OneIsFinite, DifferenceIsFinite, UnionIsFinite
  <1>10. CASE Stop \/ Kill
    <2>1. hand' = EmptyBag /\ idle' = idle /\ left' = left (+) Held
      BY <1>10 DEF Stop, Kill, Leaves
    <2> QED BY <1>2, <1>3, <2>1, EmptyIsWithin, HeldIsFinite, UnionIsFinite
  <1>11. CASE Flush
    <2>1. hand' = hand /\ idle' = EmptyBag /\ left' = EmptyBag
      BY <1>11 DEF Flush
    <2> QED BY <1>2, <1>3, <2>1, EmptyIsWithin
  <1>12. CASE CloseRow \/ Classify \/ Bury \/ Ack \/ HandleFails
    <2>1. msg # NoMessage
      BY <1>12 DEF IInv, Sound, Handling, CloseRow, Classify, Bury, Ack, HandleFails
    <2>2. \/ Done(FALSE) \/ Done(TRUE) \/ UNCHANGED <<left, idle, hand>>
      BY <1>12 DEF CloseRow, Classify, Bury, Ack, HandleFails, GoesOn, kept
    <2> QED BY <1>4, <1>5, <2>1, <2>2
  <1>13. CASE Scan \/ QueryFails \/ AuctiondRestarts \/ Boot \/ Truncate \/ Tick \/ UNCHANGED vars
              \/ (\E a \in Auctions : PublishFails(a) \/ Age(a) \/ LimboCloses(a) \/ Create(a))
              \/ (\E what \in Payload : Fabricate(what) \/ Handle(what))
    <2>1. \/ UNCHANGED <<left, idle, hand>>
          \/ UNCHANGED hand /\ \E what \in Payload : Add(what)
      BY <1>13 DEF Scan, QueryFails, AuctiondRestarts, Boot, Truncate, Tick, vars, PublishFails, Age,
         LimboCloses, Create, Fabricate, Handle, EnsureGroup, Query, Publish, PassEnds, stream, kept,
         closerd, loop, Payload
    <2> QED BY <1>2, <1>3, <1>4, <2>1, AddIsCounted
  <1> QED BY <1>4, <1>6, <1>7, <1>8, <1>9, <1>10, <1>11, <1>12, <1>13 DEF Next, Consume, Faulty

----------------------------------------------------------------------------
(* The types of the closing, what handle knows of its message, and no row  *)
(* closed early, are an invariant of the sweep, the stream and closerd.    *)
THEOREM Inductive == Spec => []IInv
  <1>1. Init => IInv
    <2> SUFFICES ASSUME Init PROVE IInv
      OBVIOUS
    <2> USE DEF Init
    <2>1. RowTypes /\ SweepTypes /\ NeverClosedEarly
      BY EndsAtIsAnInstant DEF RowTypes, AuctionRow, SweepTypes, NeverClosedEarly
    <2>2. BacklogType
      BY EmptySeq, BoundsArePositive DEF BacklogType
    <2>3. StreamTypes /\ CloserdTypes /\ Handling
      BY EmptyBagHasNone, EmptyIsPart DEF StreamTypes, CloserdTypes, Handling
    <2>4. faults \in 0..MaxFaults
      BY FaultsAreCounted
    <2>5. Counted
      BY EmptyIsWithin DEF Counted
    <2> QED BY <2>1, <2>2, <2>3, <2>4, <2>5 DEF IInv, Sound, Types
  <1>2. IInv /\ [Next]_vars => IInv'
    BY StepKeeps, StepIsCounted DEF IInv
  <1> QED BY <1>1, <1>2, PTL DEF Spec

(* The worker is "incapable of closing early, whatever the message says":  *)
(* for any number of failures, fabrications and repetitions.               *)
THEOREM NoEarlyClose == Spec => []NeverClosedEarly
  <1>1. IInv => NeverClosedEarly
    BY DEF IInv, Sound
  <1> QED BY <1>1, Inductive, PTL

(* "closed_at never moves", whoever delivers, repeats or outlives what.    *)
THEOREM ClosedOnce == Spec => ClosedAtNeverMoves
  <1> DEFINE Stays == \A a \in Auctions : auctions[a].status = "closed" =>
                         auctions'[a] = auctions[a] \/ auctions'[a].status = "gone"
  <1>1. ASSUME IInv, [Next]_vars
        PROVE  Stays
    <2>1. auctions \in [Auctions -> AuctionRow]
      BY <1>1 DEF IInv, Sound, Types, RowTypes
    <2>2. ASSUME NEW b \in Auctions \cup {msg}, Closes(b), Stamp(b)
          PROVE  Stays
      BY <2>1, <2>2 DEF Closes, Open, Stamp
    <2>3. CASE CloseRow \/ \E a \in Auctions : LimboCloses(a)
      BY <2>2, <2>3 DEF CloseRow, LimboCloses
    <2>4. ASSUME NEW a \in Auctions, Create(a)
          PROVE  Stays
      BY <2>1, <2>4 DEF Create
    <2>5. CASE Truncate
      BY <2>5 DEF Truncate
    <2>6. CASE UNCHANGED auctions
      BY <2>6
    <2>7. \/ CloseRow \/ Truncate \/ UNCHANGED auctions
          \/ \E a \in Auctions : LimboCloses(a) \/ Create(a)
      BY <1>1 DEF Next, Scan, Consume, Faulty, vars, EnsureGroup, Query, Publish, PassEnds, Claim,
         Read, Handle, Classify, Bury, Ack, Boot, PublishFails, QueryFails, ReadLost, ClaimLost,
         HandleFails, Stop, Kill, Flush, AuctiondRestarts, Fabricate, Age, GrowIdle, Tick
    <2> QED BY <2>3, <2>4, <2>5, <2>6, <2>7
  <1>2. IInv /\ [Next]_vars => [Stays]_vars
    BY <1>1
  <1> QED BY <1>2, Inductive, PTL DEF Spec, ClosedAtNeverMoves

(* A malformed entry that was delivered is lost unburied only when the     *)
(* stream trimmed it: no failure of closerd or Redis between burying and   *)
(* acknowledging, and no claim, loses one.                                 *)
THEOREM LostOnlyTrimmed == Spec => BuriedOrTrimmed
  <1>1. IInv /\ [Next]_vars => [Buried]_vars
    BY StepKeeps
  <1>2. BuriedOrTrimmed <=> [][Buried]_vars
    BY DEF BuriedOrTrimmed, Buried
  <1> QED BY <1>1, <1>2, Inductive, PTL DEF Spec

(* TypeOK: the stream is trimmed, a read gives no more than readCount, and *)
(* what a failed or lost one leaves behind keeps the types of the code.    *)
THEOREM TypeCorrect == Spec => []TypeOK
  <1>1. IInv => TypeOK
    BY DEF IInv, Sound, Types, RowTypes, SweepTypes, BacklogType, StreamTypes, CloserdTypes,
       Counted, Within, TypeOK
  <1> QED BY <1>1, Inductive, PTL
=============================================================================
