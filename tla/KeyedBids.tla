------------------------------ MODULE KeyedBids ------------------------------
(***************************************************************************)
(* What POST /bids promises to whoever sends X-Idempotency-Key, with any   *)
(* engine behind it: the abstract specification that Idempotency           *)
(* implements and that the bidder of the benchmark relies on.              *)
(*                                                                         *)
(*   - a 201 is about a durable bid of the request's own key, and a 201    *)
(*     that is not a replay is about the request's own bid;                *)
(*   - a request that was refused, turned away or replayed never leaves a  *)
(*     bid of its own, then or later;                                      *)
(*   - one key has one bid.                                                *)
(*                                                                         *)
(* A 503 and the absence of an answer promise nothing: the bid may be      *)
(* durable, become so later, or never.                                     *)
(***************************************************************************)
CONSTANTS
    Ids,        \* requests
    Keys,       \* idempotency keys
    NoKey,      \* the header is absent
    NoBody      \* the answer names no bid

VARIABLES
    bids,       \* the accepted bids, with their keys
    key,        \* per request, its key
    response    \* per request, what its caller is told

Unsent == [status |-> "unsent", body |-> NoBody]
Unanswered == [status |-> "none", body |-> NoBody]

Durable(i, k) == [id |-> i, key |-> k] \in bids

Init ==
    /\ bids = {}
    /\ key = [i \in Ids |-> NoKey]
    /\ response = [i \in Ids |-> Unsent]

Send(i, k) ==
    /\ response[i] = Unsent
    /\ key' = [key EXCEPT ![i] = k]
    /\ response' = [response EXCEPT ![i] = Unanswered]
    /\ UNCHANGED bids

(* A bid becomes durable, perhaps long after its caller was given up on.   *)
Land(i) ==
    /\ response[i].status \in {"none", "unavailable"}
    /\ \A b \in bids : b.id # i /\ (b.key = key[i] => key[i] = NoKey)
    /\ bids' = bids \cup {[id |-> i, key |-> key[i]]}
    /\ UNCHANGED <<key, response>>

Tells(i, status, body) ==
    /\ response[i] = Unanswered
    /\ response' = [response EXCEPT ![i] = [status |-> status, body |-> body]]
    /\ UNCHANGED <<bids, key>>

Create(i) == Durable(i, key[i]) /\ Tells(i, "created", i)

Replay(i, body) ==
    /\ key[i] # NoKey /\ body # i
    /\ Durable(body, key[i])
    /\ Tells(i, "replayed", body)

Refuse(i, status) ==
    /\ ~Durable(i, key[i])
    /\ Tells(i, status, NoBody)

Fail(i) == Tells(i, "unavailable", NoBody)

Next ==
    \E i \in Ids :
        \/ \E k \in Keys \cup {NoKey} : Send(i, k)
        \/ Land(i) \/ Create(i) \/ Fail(i)
        \/ \E body \in Ids : Replay(i, body)
        \/ \E status \in {"early", "rejected"} : Refuse(i, status)

Spec == Init /\ [][Next]_<<bids, key, response>>
=============================================================================
