-------------------------- MODULE IdempotencyProofs --------------------------
(***************************************************************************)
(* Proofs about Idempotency, for every set of requests and keys and every  *)
(* number of tries: the types, the expiry of every mark, the promise of    *)
(* the key, that the middleware implements KeyedBids, and what a request   *)
(* that runs beside another of its key costs.                              *)
(***************************************************************************)
EXTENDS Idempotency, FiniteSetTheorems, TLAPS

USE DEF redis, postgres

Pipelines == Seq({"hset", "hdel", "pexpire"})

(* The two pipelines of Finish, and what is left of one. *)
LEMMA PipelineTypes == StoreAndRelease \in Pipelines /\ Release \in Pipelines /\ <<>> \in Pipelines
BY DEF StoreAndRelease, Release, Pipelines

(* Running a command of a pipeline leaves an entry. *)
LEMMA ExecutedType ==
    ASSUME NEW cmd \in {"hset", "hdel", "pexpire"}, NEW e \in Entry, NEW i \in Ids
    PROVE  Executed(cmd, e, i) \in Entry
BY DEF Executed, Entry

(* A request that the middleware answered by itself. *)
LEMMA AbortsType ==
    ASSUME TypeOK, NEW i \in Ids, NEW answer \in Response, Aborts(i, answer)
    PROVE  TypeOK'
BY MaxTriesIsPositive DEF TypeOK, Aborts, Verdict, NoVerdict, Steps

(* A request whose handler wrote its response. *)
LEMMA ReturnsType ==
    ASSUME TypeOK, NEW i \in Ids, NEW answer \in Response, NEW pipeline \in Pipelines,
           Returns(i, answer, pipeline), bids' = bids, limbo' \subseteq Ids
    PROVE  TypeOK'
<1>1. todo' \in [Ids -> Pipelines]
  BY PipelineTypes DEF TypeOK, Returns, Pipelines
<1>2. pc' \in [Ids -> Steps] /\ response' \in [Ids -> Response]
  BY DEF TypeOK, Returns, Steps
<1>3. \A j \in Ids : pc'[j] \in {"claiming", "claimed", "finishing"} => key'[j] \in Keys
  BY DEF TypeOK, Returns
<1> QED
  BY <1>1, <1>2, <1>3 DEF TypeOK, Returns, Pipelines

(* The rows of both stores and the state of every request keep their types *)
(* through every step of the middleware, the engine and their failures.    *)
LEMMA TypeStep == TypeOK /\ [Next]_vars => TypeOK'
<1> SUFFICES ASSUME TypeOK, [Next]_vars PROVE TypeOK'
  OBVIOUS
<1> USE DEF TypeOK
<1>1. ASSUME NEW i \in Ids, NEW k \in Keys \cup {NoKey}, Arrive(i, k) PROVE TypeOK'
  BY <1>1 DEF Arrive, Steps
<1>2. ASSUME NEW i \in Ids, ClaimRuns(i) PROVE TypeOK'
  <2>1. key[i] \in Keys /\ entry[key[i]] \in Entry
    BY <1>2 DEF ClaimRuns
  <2>2. entry' \in [Keys -> Entry]
    <3>1. entry' = entry
          \/ entry' = [entry EXCEPT ![key[i]] = [busy |-> TRUE, done |-> NoBody, ttl |-> TRUE]]
      BY <1>2 DEF ClaimRuns
    <3>2. [busy |-> TRUE, done |-> NoBody, ttl |-> TRUE] \in Entry
      BY DEF Entry
    <3> QED
      BY <2>1, <3>1, <3>2
  <2>3. \E kind \in {"go", "replay", "busy"}, body \in Ids \cup {NoBody} : Verdicts(i, kind, body)
    BY <1>2, <2>1 DEF ClaimRuns, Entry
  <2>4. verdict' \in [Ids -> Verdict] /\ pc' = [pc EXCEPT ![i] = "claimed"]
    BY <2>3 DEF Verdicts, Verdict
  <2>5. UNCHANGED <<postgres, key, tries, todo, response, lapses>>
    BY <2>3 DEF Verdicts
  <2>6. pc[i] = "claiming"
    BY <1>2 DEF ClaimRuns
  <2> QED
    BY <2>1, <2>2, <2>4, <2>5, <2>6 DEF Steps
<1>3. ASSUME NEW i \in Ids, ClaimRetries(i) PROVE TypeOK'
  BY <1>3, MaxTriesIsPositive DEF ClaimRetries, Verdict, NoVerdict, Steps
<1>4. ASSUME NEW i \in Ids, ClaimFails(i) \/ Replay(i) \/ TurnAway(i) PROVE TypeOK'
  <2>1. verdict[i].body \in Ids \cup {NoBody}
    BY DEF Verdict
  <2>2. /\ Of("unavailable") \in Response /\ Of("early") \in Response
        /\ [status |-> "replayed", body |-> verdict[i].body] \in Response
    BY <2>1 DEF Of, Response, Statuses
  <2> QED
    BY <1>4, <2>2, AbortsType DEF ClaimFails, Replay, TurnAway
<1>5. ASSUME NEW i \in Ids, Pass(i) PROVE TypeOK'
  BY <1>5, MaxTriesIsPositive DEF Pass, Verdict, NoVerdict, Steps
<1>6. ASSUME NEW i \in Ids, EngineLands(i) PROVE TypeOK'
  BY <1>6 DEF EngineLands, Bid, BidOf, Steps
<1>7. ASSUME NEW i \in Ids, LimboLands(i) PROVE TypeOK'
  BY <1>7 DEF LimboLands, Bid, BidOf
<1>8. ASSUME NEW i \in Ids, Accepts(i) \/ Rejects(i) \/ Fails(i) PROVE TypeOK'
  <2>1. /\ Of("unavailable") \in Response /\ Of("rejected") \in Response
        /\ [status |-> "created", body |-> i] \in Response
    BY DEF Of, Response, Statuses
  <2>2. bids' = bids /\ limbo' \subseteq Ids
    BY <1>8 DEF Accepts, Rejects, Fails
  <2> QED
    BY <1>8, <2>1, <2>2, PipelineTypes, ReturnsType DEF Accepts, Rejects, Fails
<1>9. ASSUME NEW i \in Ids, FinishStep(i) PROVE TypeOK'
  <2>1. /\ key[i] \in Keys /\ entry[key[i]] \in Entry
        /\ Head(todo[i]) \in {"hset", "hdel", "pexpire"}
        /\ Tail(todo[i]) \in Pipelines
    BY <1>9 DEF FinishStep, Pipelines
  <2>2. entry' \in [Keys -> Entry]
    BY <1>9, <2>1, ExecutedType DEF FinishStep
  <2>3. lapses' \in [Keys -> Nat] /\ todo' \in [Ids -> Pipelines]
    BY <1>9, <2>1 DEF FinishStep, Pipelines
  <2> QED
    BY <1>9, <2>2, <2>3 DEF FinishStep, Pipelines
<1>10. ASSUME NEW i \in Ids, FinishRetries(i) PROVE TypeOK'
  BY <1>10, PipelineTypes, MaxTriesIsPositive DEF FinishRetries, Pipelines
<1>11. ASSUME NEW i \in Ids, FinishEnds(i) PROVE TypeOK'
  BY <1>11, PipelineTypes, MaxTriesIsPositive DEF FinishEnds, Pipelines, Steps
<1>12. ASSUME NEW k \in Keys, Expire(k) PROVE TypeOK'
  BY <1>12 DEF Expire, NoEntry, Entry
<1>13. CASE RedisRestarts
  BY <1>13 DEF RedisRestarts, NoEntry, Entry
<1>14. CASE Crash
  BY <1>14, PipelineTypes, MaxTriesIsPositive
     DEF Crash, NoVerdict, Verdict, Steps, Pipelines
<1>15. CASE UNCHANGED vars
  BY <1>15 DEF vars
<1> QED
  BY <1>1, <1>2, <1>3, <1>4, <1>5, <1>6, <1>7, <1>8, <1>9, <1>10, <1>11, <1>12, <1>13,
     <1>14, <1>15 DEF Next, Claim, CallEngine, Finish

(* TypeOK: the two stores and the middleware hold what their types say,    *)
(* and no request without a key ever speaks to Redis.                      *)
THEOREM TypeCorrect == Spec => []TypeOK
<1>1. Init => TypeOK
  BY PipelineTypes, MaxTriesIsPositive
     DEF Init, TypeOK, NoEntry, Entry, NoVerdict, Verdict, Of, Response, Statuses, Steps, Pipelines
<1> QED
  BY <1>1, TypeStep, PTL DEF Spec

(* MarksExpire: no step leaves a mark in a hash without an expiry, because *)
(* the script sets both at once and only creating a hash drops the second. *)
THEOREM MarksAlwaysExpire == Spec => []MarksExpire
<1>1. Init => MarksExpire
  BY DEF Init, MarksExpire, NoEntry
<1>2. TypeOK /\ MarksExpire /\ [Next]_vars => MarksExpire'
  <2> SUFFICES ASSUME TypeOK, MarksExpire, [Next]_vars, NEW k \in Keys, entry'[k].busy
               PROVE  entry'[k].ttl
    BY DEF MarksExpire
  <2> USE DEF TypeOK, MarksExpire
  <2>1. CASE entry' = entry
    BY <2>1
  <2>2. ASSUME NEW i \in Ids, ClaimRuns(i) PROVE entry'[k].ttl
    BY <2>2 DEF ClaimRuns
  <2>3. ASSUME NEW i \in Ids, FinishStep(i) PROVE entry'[k].ttl
    <3>1. /\ entry[k] \in Entry
          /\ Head(todo[i]) \in {"hset", "hdel", "pexpire"}
          /\ entry[k].busy => entry[k].ttl
      BY <2>3 DEF FinishStep
    <3>2. entry' = [entry EXCEPT ![key[i]] = Executed(Head(todo[i]), entry[key[i]], i)]
      BY <2>3 DEF FinishStep
    <3>3. ASSUME k = key[i] PROVE entry'[k] = Executed(Head(todo[i]), entry[k], i)
      BY <3>2, <3>3
    <3>4. ASSUME NEW e \in Entry, e.busy => e.ttl, NEW cmd \in {"hset", "hdel", "pexpire"},
                 Executed(cmd, e, i).busy
          PROVE  Executed(cmd, e, i).ttl
      BY <3>4 DEF Executed, Entry, NoEntry
    <3> QED
      BY <3>1, <3>2, <3>3, <3>4
  <2>4. ASSUME NEW l \in Keys, Expire(l) PROVE entry'[k].ttl
    BY <2>4 DEF Expire, NoEntry
  <2>5. CASE RedisRestarts
    BY <2>5 DEF RedisRestarts, NoEntry
  <2> QED
    BY <2>1, <2>2, <2>3, <2>4, <2>5
       DEF Next, vars, Claim, CallEngine, Finish, Arrive, ClaimRetries, ClaimFails, Replay,
           TurnAway, Pass, Aborts, EngineLands, LimboLands, Accepts, Rejects, Fails, Returns,
           FinishRetries, FinishEnds, Crash
<1> QED
  BY <1>1, <1>2, TypeCorrect, PTL DEF Spec

(* What is left of a pipeline holds no command that was not there before.  *)
LEMMA TailLosesOnly ==
    ASSUME NEW s \in Pipelines, s # <<>>
    PROVE  Head(s) \in Range(s) /\ Range(Tail(s)) \subseteq Range(s)
BY DEF Range, Pipelines

(* Only the pipeline of an accept stores anything. *)
LEMMA ReleaseStoresNothing == "hset" \notin Range(Release) /\ "hset" \notin Range(<<>>)
BY DEF Range, Release

(* What stays true of a request that a step does not touch.                *)
LEMMA HonestStays ==
    ASSUME NEW i \in Ids, Honest(i), bids \subseteq bids', key'[i] = key[i], pc'[i] = pc[i],
           verdict'[i] = verdict[i], response'[i] = response[i], todo'[i] = todo[i]
    PROVE  Honest(i)'
BY DEF Honest, Durable

(* The inductive step of IInv. *)
LEMMA InvStep == IInv /\ [Next]_vars => IInv'
<1> SUFFICES ASSUME IInv, [Next]_vars PROVE IInv'
  OBVIOUS
<1> DEFINE Answered == \A i \in Ids : response[i].status \in {"created", "replayed"} =>
                          Durable(response[i].body, key[i])
           Unique == \A b, c \in bids : b.key = c.key /\ b.key # NoKey => b = c
           AllHonest == \A i \in Ids : Honest(i)
           Goal == Answered /\ Unique /\ StoredIsDurable /\ AllHonest
<1>a. TypeOK /\ TypeOK' /\ Goal
  BY TypeStep DEF IInv, OneBidPerKey, Durable
<1>b. SUFFICES Goal'
  BY <1>a DEF IInv, OneBidPerKey, Durable
<1>c. bids' = bids => Unique'
  BY <1>a
<1>d. entry' = entry /\ bids \subseteq bids' => StoredIsDurable'
  BY <1>a DEF StoredIsDurable, Stored, Durable
<1> HIDE DEF Unique
<1>1. ASSUME NEW i \in Ids, NEW k \in Keys \cup {NoKey}, Arrive(i, k) PROVE Goal'
  <2>1. Answered'
    BY <1>1, <1>a DEF Arrive, Honest, Durable, TypeOK
  <2>2. AllHonest'
    BY <1>1, <1>a DEF Arrive, Honest, Durable, TypeOK
  <2> QED
    BY <1>1, <2>1, <2>2, <1>c, <1>d DEF Arrive
<1>2. ASSUME NEW i \in Ids, ClaimRuns(i) PROVE Goal'
  <2>1. Answered'
    BY <1>2, <1>a DEF ClaimRuns, Verdicts, Durable
  <2>2. StoredIsDurable'
    BY <1>2, <1>a DEF ClaimRuns, Verdicts, Durable, StoredIsDurable, Stored, TypeOK
  <2>3. PICK kind \in {"go", "replay", "busy"}, body \in Ids \cup {NoBody} :
           Verdicts(i, kind, body) /\ (kind = "replay" => Durable(body, key[i]))
    BY <1>2, <1>a DEF ClaimRuns, StoredIsDurable, TypeOK, Entry
  <2>4. pc[i] = "claiming"
    BY <1>2 DEF ClaimRuns
  <2>5. Honest(i)'
    BY <2>3, <2>4, <1>a DEF Verdicts, Honest, Durable, TypeOK
  <2>6. ASSUME NEW j \in Ids, j # i PROVE Honest(j)'
    BY <2>3, <2>6, <1>a, HonestStays DEF Verdicts, TypeOK
  <2> QED
    BY <2>1, <2>2, <2>3, <2>5, <2>6, <1>c DEF Verdicts
<1>3. ASSUME NEW i \in Ids, ClaimRetries(i) \/ Pass(i) PROVE Goal'
  <2>1. Answered'
    BY <1>3, <1>a DEF ClaimRetries, Pass, Durable
  <2>2. ASSUME NEW j \in Ids, j # i PROVE Honest(j)'
    BY <1>3, <2>2, <1>a, HonestStays DEF ClaimRetries, Pass, TypeOK
  <2>3. Honest(i)'
    <3>1. verdict'[i].kind = "none" /\ pc'[i] \in {"claiming", "engine"}
      BY <1>3, <1>a DEF ClaimRetries, Pass, TypeOK, NoVerdict
    <3>2. response'[i] = response[i] /\ todo'[i] = todo[i] /\ pc[i] = "claimed"
      BY <1>3 DEF ClaimRetries, Pass
    <3> QED
      BY <3>1, <3>2, <1>a DEF Honest
  <2> QED
    BY <1>3, <2>1, <2>2, <2>3, <1>c, <1>d DEF ClaimRetries, Pass
<1>4. ASSUME NEW i \in Ids, ClaimFails(i) \/ Replay(i) \/ TurnAway(i) PROVE Goal'
  <2>1. PICK answer : /\ Aborts(i, answer)
                      /\ answer.status # "created"
                      /\ answer.status = "replayed" => Durable(answer.body, key[i])
    BY <1>4, <1>a DEF ClaimFails, Replay, TurnAway, Of, Honest
  <2>2. Answered'
    BY <2>1, <1>a DEF Aborts, Durable, TypeOK
  <2>3. "hset" \notin Range(todo[i])
    BY <1>4, <1>a DEF ClaimFails, Replay, TurnAway, Honest
  <2>4. AllHonest'
    BY <2>1, <2>3, <1>a DEF Aborts, Durable, Honest, TypeOK, NoVerdict
  <2> QED
    BY <2>1, <2>2, <2>4, <1>c, <1>d DEF Aborts
<1>5. ASSUME NEW i \in Ids, EngineLands(i) \/ LimboLands(i) PROVE Goal'
  <2>1. KeyIsFree(i) /\ bids' = bids \cup {BidOf(i)} /\ key' = key
    BY <1>5 DEF EngineLands, LimboLands
  <2>2. Unique'
    BY <2>1, <1>a DEF Unique, KeyIsFree, BidOf
  <2>3. Answered'
    BY <1>5, <2>1, <1>a DEF EngineLands, LimboLands, Durable
  <2>4. AllHonest'
    BY <1>5, <2>1, <1>a DEF EngineLands, LimboLands, Durable, Honest, TypeOK, BidOf
  <2> QED
    BY <1>5, <2>1, <2>2, <2>3, <2>4, <1>d DEF EngineLands, LimboLands
<1>6. ASSUME NEW i \in Ids, Accepts(i) \/ Rejects(i) \/ Fails(i) PROVE Goal'
  <2>1. PICK answer, pipeline :
           /\ Returns(i, answer, pipeline)
           /\ answer.status # "replayed"
           /\ answer.status = "created" => answer.body = i /\ Durable(i, key[i])
           /\ "hset" \in Range(pipeline) => answer.status = "created"
    BY <1>6, <1>a, ReleaseStoresNothing DEF Accepts, Rejects, Fails, Of, Honest
  <2>2. Answered' /\ bids' = bids
    BY <1>6, <2>1, <1>a DEF Returns, Durable, TypeOK, Accepts, Rejects, Fails
  <2>3. AllHonest'
    BY <2>1, <2>2, <1>a, ReleaseStoresNothing DEF Returns, Durable, Honest, TypeOK
  <2> QED
    BY <2>1, <2>2, <2>3, <1>c, <1>d DEF Returns
<1>7. ASSUME NEW i \in Ids, FinishStep(i) PROVE Goal'
  <2>1. /\ key[i] \in Keys /\ entry[key[i]] \in Entry /\ todo[i] \in Pipelines
        /\ Head(todo[i]) \in Range(todo[i]) /\ Range(Tail(todo[i])) \subseteq Range(todo[i])
    BY <1>7, <1>a, TailLosesOnly DEF FinishStep, TypeOK, Pipelines
  <2>2. Answered'
    BY <1>7, <1>a DEF FinishStep, Durable
  <2>3. AllHonest'
    BY <1>7, <2>1, <1>a DEF FinishStep, Durable, Honest, TypeOK
  <2>4. Head(todo[i]) = "hset" => Durable(i, key[i])
    BY <2>1, <1>a DEF Honest
  <2>5. ASSUME NEW k \in Keys, Stored(k)' PROVE Durable(entry[k].done, k)'
    <3>1. entry'[k] = IF k = key[i] THEN Executed(Head(todo[i]), entry[k], i) ELSE entry[k]
      BY <1>7, <1>a DEF FinishStep, TypeOK
    <3>2. CASE entry'[k].done = entry[k].done
      BY <1>7, <2>5, <3>2, <1>a DEF FinishStep, Durable, StoredIsDurable, Stored
    <3>3. CASE k = key[i] /\ Head(todo[i]) = "hset"
      <4>1. entry'[k].done = i
        BY <3>1, <3>3, <2>1 DEF Executed, Entry
      <4> QED
        BY <1>7, <4>1, <3>3, <2>4 DEF FinishStep, Durable
    <3>4. Head(todo[i]) \in {"hset", "hdel", "pexpire"}
      BY <1>7, <2>1 DEF FinishStep, Pipelines
    <3>5. entry[k] \in Entry
      BY <1>a DEF TypeOK
    <3>6. entry'[k].done = entry[k].done \/ (k = key[i] /\ Head(todo[i]) = "hset")
      BY <3>1, <3>4, <3>5 DEF Executed, Entry
    <3> QED
      BY <3>2, <3>3, <3>6
  <2> QED
    BY <1>7, <2>2, <2>3, <2>5, <1>c DEF FinishStep, StoredIsDurable
<1>8. ASSUME NEW i \in Ids, FinishRetries(i) PROVE Goal'
  <2>1. Answered'
    BY <1>8, <1>a DEF FinishRetries, Durable
  <2>2. AllHonest'
    BY <1>8, <1>a, ReleaseStoresNothing DEF FinishRetries, Durable, Honest, TypeOK
  <2> QED
    BY <1>8, <2>1, <2>2, <1>c, <1>d DEF FinishRetries
<1>9. ASSUME NEW i \in Ids, FinishEnds(i) PROVE Goal'
  <2>1. Answered'
    BY <1>9, <1>a DEF FinishEnds, Durable
  <2>2. AllHonest'
    BY <1>9, <1>a, ReleaseStoresNothing DEF FinishEnds, Durable, Honest, TypeOK
  <2> QED
    BY <1>9, <2>1, <2>2, <1>c, <1>d DEF FinishEnds
<1>10. ASSUME (\E k \in Keys : Expire(k)) \/ RedisRestarts PROVE Goal'
  <2>1. StoredIsDurable'
    <3>1. ASSUME NEW k \in Keys PROVE entry'[k] = entry[k] \/ entry'[k] = NoEntry
      BY <1>10, <1>a DEF Expire, RedisRestarts, TypeOK
    <3>2. bids' = bids
      BY <1>10 DEF Expire, RedisRestarts
    <3>3. NoEntry.done = NoBody
      BY DEF NoEntry
    <3> QED
      BY <3>1, <3>2, <3>3, <1>a DEF StoredIsDurable, Stored, Durable
  <2>2. Answered' /\ AllHonest'
    BY <1>10, <1>a DEF Expire, RedisRestarts, Durable, Honest
  <2> QED
    BY <1>10, <2>1, <2>2, <1>c DEF Expire, RedisRestarts
<1>11. CASE Crash
  <2>1. Answered'
    BY <1>11, <1>a DEF Crash, Durable
  <2>2. AllHonest'
    BY <1>11, <1>a, ReleaseStoresNothing DEF Crash, Durable, Honest, TypeOK, NoVerdict
  <2> QED
    BY <1>11, <2>1, <2>2, <1>c, <1>d DEF Crash
<1>12. CASE UNCHANGED vars
  <2>1. Answered' /\ AllHonest'
    BY <1>12, <1>a DEF vars, Durable, Honest
  <2> QED
    BY <1>12, <2>1, <1>c, <1>d DEF vars
<1> QED
  BY <1>1, <1>2, <1>3, <1>4, <1>5, <1>6, <1>7, <1>8, <1>9, <1>10, <1>11, <1>12
     DEF Next, Claim, CallEngine, Finish

(* IInv: whatever will still answer with a 201, or store one, speaks of a  *)
(* durable bid of its key.                                                 *)
THEOREM Inductive == Spec => []IInv
<1>1. Init => IInv
  <2>1. Init => TypeOK
    BY PipelineTypes, MaxTriesIsPositive
       DEF Init, TypeOK, NoEntry, Entry, NoVerdict, Verdict, Of, Response, Statuses, Steps, Pipelines
  <2>2. Init => OneBidPerKey /\ StoredIsDurable
    BY DEF Init, OneBidPerKey, StoredIsDurable, Stored, NoEntry, Of
  <2>3. Init => \A i \in Ids : Honest(i)
    BY ReleaseStoresNothing DEF Init, Honest, NoVerdict, Of
  <2> QED
    BY <2>1, <2>2, <2>3 DEF IInv
<1> QED
  BY <1>1, InvStep, PTL DEF Spec

(* OneBidPerKey: all 201s given under one key, by the engine or from       *)
(* Redis, are about one durable bid of that key.                           *)
THEOREM OneKeyOneBid == Spec => []OneBidPerKey
<1>1. IInv => OneBidPerKey
  BY DEF IInv
<1> QED
  BY <1>1, Inductive, PTL

(* StoredAnswerIsFinal: a pipeline that runs over a stored 201 stores the  *)
(* same bid again, for the key has only one.                               *)
THEOREM AnswersAreFinal == Spec => StoredAnswerIsFinal
<1> DEFINE Final == \A k \in Keys :
                       Stored(k) /\ todo' # todo => entry'[k].done = entry[k].done
<1>1. IInv /\ [Next]_vars => [Final]_vars
  <2> SUFFICES ASSUME IInv, Next, NEW k \in Keys, Stored(k), todo' # todo
               PROVE  entry'[k].done = entry[k].done
    OBVIOUS
  <2>1. CASE entry' = entry
    BY <2>1
  <2>2. ASSUME NEW i \in Ids, FinishStep(i) PROVE entry'[k].done = entry[k].done
    <3>1. /\ key[i] \in Keys /\ entry[k] \in Entry /\ todo[i] \in Pipelines
          /\ Head(todo[i]) \in {"hset", "hdel", "pexpire"}
          /\ Head(todo[i]) \in Range(todo[i])
      BY <2>2, TailLosesOnly DEF FinishStep, IInv, TypeOK, Pipelines
    <3>2. entry'[k] = IF k = key[i] THEN Executed(Head(todo[i]), entry[k], i) ELSE entry[k]
      BY <2>2 DEF FinishStep, IInv, TypeOK
    <3>3. CASE k # key[i] \/ Head(todo[i]) # "hset"
      BY <3>1, <3>2, <3>3 DEF Executed, Entry
    <3>4. CASE k = key[i] /\ Head(todo[i]) = "hset"
      <4>1. Durable(i, k) /\ Durable(entry[k].done, k)
        BY <3>1, <3>4 DEF IInv, OneBidPerKey, Honest, StoredIsDurable, Durable
      <4>2. [id |-> i, key |-> k] = [id |-> entry[k].done, key |-> k]
        BY <4>1, NoKeyIsNotAKey DEF IInv, OneBidPerKey, Durable
      <4>3. entry[k].done = i
        BY <4>2
      <4> QED
        BY <3>1, <3>2, <3>4, <4>3 DEF Executed, Entry
    <3> QED
      BY <3>3, <3>4
  <2>3. (\E i \in Ids : FinishStep(i)) \/ entry' = entry
    BY DEF Next, Claim, CallEngine, Finish, Arrive, ClaimRuns, Verdicts, ClaimRetries, ClaimFails,
           Replay, TurnAway, Pass, Aborts, EngineLands, LimboLands, Accepts, Rejects, Fails,
           Returns, FinishRetries, FinishEnds, Crash, Expire, RedisRestarts
  <2> QED
    BY <2>1, <2>2, <2>3
<1> QED
  BY <1>1, Inductive, PTL DEF Spec, StoredAnswerIsFinal

----------------------------------------------------------------------------
(* The middleware keeps the promise of the key: under the mapping of       *)
(* Idempotency, each of its steps is a step of KeyedBids or none.          *)

(* What the mapping needs beyond IInv: a request that the engine has not   *)
(* decided left no bid and no statement behind, and a statement left       *)
(* behind is one whose caller was told nothing or 503.                     *)
Undecided == {"idle", "claiming", "claimed", "engine"}

NoBidOf(i) == \A b \in bids : b.id # i

Traceless(i) ==
    /\ pc[i] = "idle" => key[i] = NoKey
    /\ pc[i] \notin {"finishing", "over"} => response[i] = Of("none")
    /\ pc[i] \in Undecided => NoBidOf(i) /\ i \notin limbo
    /\ i \in limbo => /\ NoBidOf(i)
                      /\ pc[i] # "landed"
                      /\ response[i] \in {Of("none"), Of("unavailable")}

AllTraceless == \A i \in Ids : Traceless(i)

(* A step that adds no bid and no statement, and touches request i alone.  *)
LEMMA TracelessStays ==
    ASSUME TypeOK, AllTraceless, bids' = bids, limbo' = limbo, NEW i \in Ids,
           \A j \in Ids \ {i} : pc'[j] = pc[j] /\ key'[j] = key[j] /\ response'[j] = response[j],
           Traceless(i)'
    PROVE  AllTraceless'
<1> SUFFICES ASSUME NEW j \in Ids, j # i PROVE Traceless(j)'
  BY DEF AllTraceless
<1> QED
  BY DEF AllTraceless, Traceless, NoBidOf, Of

LEMMA TracelessStep == TypeOK /\ AllTraceless /\ [Next]_vars => AllTraceless'
<1> SUFFICES ASSUME TypeOK, AllTraceless, [Next]_vars PROVE AllTraceless'
  OBVIOUS
<1>1. ASSUME NEW i \in Ids, NEW k \in Keys \cup {NoKey}, Arrive(i, k) PROVE AllTraceless'
  <2>1. Traceless(i)'
    BY <1>1 DEF Arrive, TypeOK, AllTraceless, Traceless, NoBidOf, Undecided, Of
  <2> QED
    BY <1>1, <2>1, TracelessStays DEF Arrive, TypeOK
<1>2. ASSUME NEW i \in Ids, ClaimRuns(i) PROVE AllTraceless'
  <2>1. /\ pc[i] = "claiming" /\ pc' = [pc EXCEPT ![i] = "claimed"]
        /\ UNCHANGED <<postgres, key, response>>
    BY <1>2 DEF ClaimRuns, Verdicts
  <2>2. Traceless(i)'
    BY <2>1 DEF TypeOK, AllTraceless, Traceless, NoBidOf, Undecided, Of
  <2> QED
    BY <2>1, <2>2, TracelessStays DEF TypeOK
<1>3. ASSUME NEW i \in Ids, ClaimRetries(i) \/ Pass(i) PROVE AllTraceless'
  <2>1. Traceless(i)'
    BY <1>3 DEF ClaimRetries, Pass, TypeOK, AllTraceless, Traceless, NoBidOf, Undecided, Of
  <2> QED
    BY <1>3, <2>1, TracelessStays DEF ClaimRetries, Pass, TypeOK
<1>4. ASSUME NEW i \in Ids, ClaimFails(i) \/ Replay(i) \/ TurnAway(i) PROVE AllTraceless'
  <2>1. PICK answer : Aborts(i, answer) /\ pc[i] \in {"claiming", "claimed"}
    BY <1>4 DEF ClaimFails, Replay, TurnAway
  <2>2. Traceless(i)'
    BY <2>1 DEF Aborts, TypeOK, AllTraceless, Traceless, NoBidOf, Undecided
  <2> QED
    BY <2>1, <2>2, TracelessStays DEF Aborts, TypeOK
<1>5. ASSUME NEW i \in Ids, EngineLands(i) PROVE AllTraceless'
  <2>1. ASSUME NEW j \in Ids PROVE Traceless(j)'
    <3>1. CASE j = i
      BY <1>5, <3>1 DEF EngineLands, TypeOK, AllTraceless, Traceless, Undecided, Of
    <3>2. CASE j # i
      BY <1>5, <3>2 DEF EngineLands, TypeOK, AllTraceless, Traceless, NoBidOf, BidOf, Of
    <3> QED
      BY <3>1, <3>2
  <2> QED
    BY <2>1 DEF AllTraceless
<1>6. ASSUME NEW i \in Ids, LimboLands(i) PROVE AllTraceless'
  <2>1. ASSUME NEW j \in Ids PROVE Traceless(j)'
    <3>1. CASE j = i
      BY <1>6, <3>1 DEF LimboLands, TypeOK, AllTraceless, Traceless, Undecided, Of
    <3>2. CASE j # i
      BY <1>6, <3>2 DEF LimboLands, TypeOK, AllTraceless, Traceless, NoBidOf, BidOf, Of
    <3> QED
      BY <3>1, <3>2
  <2> QED
    BY <2>1 DEF AllTraceless
<1>7. ASSUME NEW i \in Ids, Accepts(i) \/ Rejects(i) PROVE AllTraceless'
  <2>1. PICK answer, pipeline :
           Returns(i, answer, pipeline) /\ pc[i] \in {"engine", "landed"} /\ UNCHANGED postgres
    BY <1>7 DEF Accepts, Rejects
  <2>2. pc'[i] \in {"finishing", "over"} /\ i \notin limbo'
    BY <2>1 DEF Returns, TypeOK, AllTraceless, Traceless, Undecided
  <2>3. Traceless(i)'
    BY <2>2 DEF Traceless, Undecided
  <2> QED
    BY <2>1, <2>3, TracelessStays DEF Returns, TypeOK
<1>8. ASSUME NEW i \in Ids, Fails(i) PROVE AllTraceless'
  <2>1. /\ Returns(i, Of("unavailable"), Release)
        /\ bids' = bids
        /\ \A j \in Ids : j \in limbo' => j \in limbo \/ (j = i /\ pc[i] = "engine")
    BY <1>8 DEF Fails
  <2>2. ASSUME NEW j \in Ids PROVE Traceless(j)'
    <3>1. CASE j = i
      <4>1. pc'[i] \in {"finishing", "over"} /\ response'[i] = Of("unavailable")
        BY <2>1 DEF Returns, TypeOK
      <4> QED
        BY <2>1, <3>1, <4>1 DEF AllTraceless, Traceless, NoBidOf, Undecided
    <3>2. CASE j # i
      BY <2>1, <3>2 DEF Returns, TypeOK, AllTraceless, Traceless, NoBidOf, Of
    <3> QED
      BY <3>1, <3>2
  <2> QED
    BY <2>2 DEF AllTraceless
<1>9. ASSUME NEW i \in Ids, FinishStep(i) \/ FinishRetries(i) \/ FinishEnds(i) PROVE AllTraceless'
  <2>1. /\ UNCHANGED <<postgres, key, response>>
        /\ pc[i] = "finishing" /\ pc'[i] \in {"finishing", "over"}
        /\ \A j \in Ids \ {i} : pc'[j] = pc[j]
    BY <1>9 DEF FinishStep, FinishRetries, FinishEnds, TypeOK
  <2>2. Traceless(i)'
    BY <2>1 DEF AllTraceless, Traceless, NoBidOf, Undecided, Of
  <2> QED
    BY <2>1, <2>2, TracelessStays
<1>10. CASE Crash
  <2>1. ASSUME NEW j \in Ids PROVE Traceless(j)'
    <3>1. /\ UNCHANGED <<bids, key, response>>
          /\ pc'[j] = IF pc[j] = "idle" THEN "idle" ELSE "over"
          /\ j \in limbo' => j \in limbo \/ pc[j] = "engine"
          /\ limbo \subseteq limbo'
      BY <1>10 DEF Crash
    <3> QED
      BY <3>1 DEF AllTraceless, Traceless, NoBidOf, Undecided, Of
  <2> QED
    BY <2>1 DEF AllTraceless
<1>11. CASE (\E k \in Keys : Expire(k)) \/ RedisRestarts \/ UNCHANGED vars
  BY <1>11 DEF Expire, RedisRestarts, vars, AllTraceless, Traceless, NoBidOf, Of
<1> QED
  BY <1>1, <1>2, <1>3, <1>4, <1>5, <1>6, <1>7, <1>8, <1>9, <1>10, <1>11
     DEF Next, Claim, CallEngine, Finish

----------------------------------------------------------------------------
told == [i \in Ids |-> Told(i)]

(* A step that tells nobody anything is no step of KeyedBids. *)
LEMMA NothingTold ==
    ASSUME bids' = bids, key' = key, response' = response,
           \A i \in Ids : pc'[i] = "idle" <=> pc[i] = "idle"
    PROVE  UNCHANGED <<bids, key, told>>
BY DEF told, Told

(* Request i is answered: what the others were told stays. *)
LEMMA OneIsTold ==
    ASSUME TypeOK, NEW i \in Ids, NEW answer,
           pc[i] # "idle", response[i] = Of("none"), UNCHANGED <<bids, key>>,
           response' = [response EXCEPT ![i] = answer],
           \A j \in Ids : pc'[j] = "idle" <=> pc[j] = "idle"
    PROVE  /\ told[i] = Of("none")
           /\ told' = [told EXCEPT ![i] = answer]
BY DEF told, Told, TypeOK

(* Every step of the middleware, its engine and their failures is a step   *)
(* of KeyedBids, or tells nobody anything.                                 *)
LEMMA StepRefines ==
    ASSUME IInv, AllTraceless, [Next]_vars
    PROVE  [Promise!Next]_<<bids, key, told>>
<1>a. TypeOK /\ \A i \in Ids : Honest(i) /\ Traceless(i)
  BY DEF IInv, AllTraceless
<1>b. \A i \in Ids : told[i] = Told(i)
  BY DEF told
<1>1. ASSUME NEW i \in Ids, NEW k \in Keys \cup {NoKey}, Arrive(i, k) PROVE Promise!Next
  <2>1. Promise!Send(i, k)
    BY <1>1, <1>a DEF Arrive, TypeOK, Promise!Send, Promise!Unsent, Promise!Unanswered,
                      Told, Traceless, Of
  <2> QED
    BY <2>1 DEF Promise!Next
<1>2. ASSUME NEW i \in Ids,
             ClaimRuns(i) \/ ClaimRetries(i) \/ Pass(i) \/ Finish(i)
      PROVE  UNCHANGED <<bids, key, told>>
  <2>1. /\ bids' = bids /\ key' = key /\ response' = response
        /\ \A j \in Ids : pc'[j] = "idle" <=> pc[j] = "idle"
    BY <1>2, <1>a DEF ClaimRuns, Verdicts, ClaimRetries, Pass, Finish, FinishStep, FinishRetries,
                      FinishEnds, TypeOK
  <2> QED
    BY <2>1, NothingTold
<1>3. ASSUME NEW i \in Ids, ClaimFails(i) PROVE Promise!Next
  <2>1. Aborts(i, Of("unavailable")) /\ pc[i] \in {"claiming", "claimed"}
    BY <1>3 DEF ClaimFails
  <2>2. told[i] = Of("none") /\ told' = [told EXCEPT ![i] = Of("unavailable")]
    BY <2>1, <1>a, OneIsTold DEF Aborts, Traceless, TypeOK
  <2>3. Promise!Fail(i)
    BY <2>1, <2>2 DEF Aborts, Promise!Fail, Promise!Tells, Promise!Unanswered, Of, told
  <2> QED
    BY <2>3 DEF Promise!Next
<1>4. ASSUME NEW i \in Ids, Replay(i) PROVE Promise!Next
  <2> DEFINE body == verdict[i].body
  <2>1. /\ Aborts(i, [status |-> "replayed", body |-> body]) /\ pc[i] = "claimed"
        /\ Durable(body, key[i])
    BY <1>4, <1>a DEF Replay, Honest
  <2>2. /\ told[i] = Of("none")
        /\ told' = [told EXCEPT ![i] = [status |-> "replayed", body |-> body]]
    BY <2>1, <1>a, OneIsTold DEF Aborts, Traceless, TypeOK
  <2>3. key[i] # NoKey /\ body # i /\ body \in Ids
    BY <2>1, <1>a, NoKeyIsNotAKey DEF TypeOK, Bid, Durable, Traceless, NoBidOf, Undecided
  <2>4. Promise!Replay(i, body)
    BY <2>1, <2>2, <2>3 DEF Aborts, Durable, Promise!Replay, Promise!Durable, Promise!Tells,
                            Promise!Unanswered, Of, told
  <2> QED
    BY <2>3, <2>4 DEF Promise!Next
<1>5. ASSUME NEW i \in Ids, TurnAway(i) PROVE Promise!Next
  <2>1. Aborts(i, Of("early")) /\ pc[i] = "claimed"
    BY <1>5 DEF TurnAway
  <2>2. told[i] = Of("none") /\ told' = [told EXCEPT ![i] = Of("early")]
    BY <2>1, <1>a, OneIsTold DEF Aborts, Traceless, TypeOK
  <2>3. ~Promise!Durable(i, key[i])
    BY <2>1, <1>a DEF Promise!Durable, Traceless, NoBidOf, Undecided
  <2>4. Promise!Refuse(i, "early")
    BY <2>1, <2>2, <2>3 DEF Aborts, Promise!Refuse, Promise!Tells, Promise!Unanswered, Of, told
  <2> QED
    BY <2>4 DEF Promise!Next
<1>6. ASSUME NEW i \in Ids, EngineLands(i) \/ LimboLands(i) PROVE Promise!Next
  <2>1. /\ KeyIsFree(i) /\ bids' = bids \cup {BidOf(i)}
        /\ UNCHANGED <<key, response>>
        /\ \A j \in Ids : pc'[j] = "idle" <=> pc[j] = "idle"
    BY <1>6, <1>a DEF EngineLands, LimboLands, TypeOK
  <2>2. told' = told
    BY <2>1 DEF told, Told
  <2>3. NoBidOf(i) /\ pc[i] # "idle" /\ response[i] \in {Of("none"), Of("unavailable")}
    BY <1>6, <1>a DEF EngineLands, LimboLands, Traceless, Undecided
  <2>4. told[i].status \in {"none", "unavailable"}
    BY <2>3, <1>b DEF Told, Of
  <2>5. \A b \in bids : b.id # i /\ (b.key = key[i] => key[i] = NoKey)
    BY <2>1, <2>3 DEF KeyIsFree, NoBidOf
  <2>6. Promise!Land(i)
    BY <2>1, <2>2, <2>4, <2>5 DEF Promise!Land, BidOf, told
  <2> QED
    BY <2>6 DEF Promise!Next
<1>7. ASSUME NEW i \in Ids, Accepts(i) \/ Rejects(i) \/ Fails(i) PROVE Promise!Next
  <2>1. PICK answer, pipeline :
           /\ Returns(i, answer, pipeline) /\ bids' = bids
           /\ \/ answer = [status |-> "created", body |-> i] /\ pc[i] = "landed"
              \/ answer = Of("rejected") /\ pc[i] = "engine"
              \/ answer = Of("unavailable") /\ pc[i] \in {"engine", "landed"}
    BY <1>7 DEF Accepts, Rejects, Fails
  <2>2. told[i] = Of("none") /\ told' = [told EXCEPT ![i] = answer]
    BY <2>1, <1>a, OneIsTold DEF Returns, Traceless, TypeOK
  <2>3. CASE answer = [status |-> "created", body |-> i] /\ pc[i] = "landed"
    <3>1. Durable(i, key[i])
      BY <2>3, <1>a DEF Honest
    <3>2. Promise!Create(i)
      BY <2>1, <2>2, <2>3, <3>1 DEF Returns, Durable, Promise!Create, Promise!Durable,
                                   Promise!Tells, Promise!Unanswered, Of, told
    <3> QED
      BY <3>2 DEF Promise!Next
  <2>4. CASE answer = Of("rejected") /\ pc[i] = "engine"
    <3>1. ~Promise!Durable(i, key[i])
      BY <2>4, <1>a DEF Promise!Durable, Traceless, NoBidOf, Undecided
    <3>2. Promise!Refuse(i, "rejected")
      BY <2>1, <2>2, <2>4, <3>1 DEF Returns, Promise!Refuse, Promise!Tells,
                                   Promise!Unanswered, Of, told
    <3> QED
      BY <3>2 DEF Promise!Next
  <2>5. CASE answer = Of("unavailable")
    <3>1. Promise!Fail(i)
      BY <2>1, <2>2, <2>5 DEF Returns, Promise!Fail, Promise!Tells, Promise!Unanswered, Of, told
    <3> QED
      BY <3>1 DEF Promise!Next
  <2> QED
    BY <2>1, <2>3, <2>4, <2>5
<1>8. CASE (\E k \in Keys : Expire(k)) \/ RedisRestarts \/ Crash \/ UNCHANGED vars
  <2>1. /\ bids' = bids /\ key' = key /\ response' = response
        /\ \A j \in Ids : pc'[j] = "idle" <=> pc[j] = "idle"
    BY <1>8 DEF Expire, RedisRestarts, Crash, vars
  <2> QED
    BY <2>1, NothingTold
<1> QED
  BY <1>1, <1>2, <1>3, <1>4, <1>5, <1>6, <1>7, <1>8 DEF Next, Claim, CallEngine

(* ImplementsKeyedBids: to its callers, the middleware over any engine,    *)
(* through expiries, repetitions, losses and kills, is KeyedBids.          *)
THEOREM KeepsThePromise == Spec => ImplementsKeyedBids
<1>1. Init => AllTraceless
  BY DEF Init, AllTraceless, Traceless, NoBidOf
<1>2. Init => Promise!Init
  BY DEF Init, Promise!Init, Promise!Unsent, Told
<1>3. Spec => []AllTraceless
  BY <1>1, TracelessStep, TypeCorrect, PTL DEF Spec
<1>4. IInv /\ AllTraceless /\ [Next]_vars => [Promise!Next]_<<bids, key, told>>
  BY StepRefines
<1> QED
  BY <1>2, <1>3, <1>4, Inductive, PTL DEF Spec, ImplementsKeyedBids, Promise!Spec, told

----------------------------------------------------------------------------
(* What a duplicate in the engine costs.                                   *)

(* What can be left of a pipeline, and where it is still to release.       *)
Rests == {<<"hset", "hdel", "pexpire">>, <<"hdel", "pexpire">>, <<"hdel">>, <<"pexpire">>, <<>>}
Releasing == {<<"hset", "hdel", "pexpire">>, <<"hdel", "pexpire">>, <<"hdel">>}

(* A request that took the mark and has not released it: it was passed to  *)
(* the engine, is in it, or runs its pipeline for the first time.          *)
Holds(i) ==
    \/ pc[i] = "claimed" /\ verdict[i].kind = "go"
    \/ pc[i] \in {"engine", "landed"}
    \/ pc[i] = "finishing" /\ tries[i] = 1 /\ todo[i] \in Releasing

Holders(k) == {i \in Ids : key[i] = k /\ Holds(i)}

(* There is a mark for one holder, and a lapse for every other. *)
Marks(k) == lapses[k] + IF entry[k].busy THEN 1 ELSE 0

Accounted(k) == IsFiniteSet(Holders(k)) /\ Cardinality(Holders(k)) <= Marks(k)

(* A pipeline is one of the two or the rest of one, and whoever is in the  *)
(* engine is at the first try of what comes next.                          *)
Orderly(i) ==
    /\ todo[i] \in Rests
    /\ pc[i] \in {"idle", "engine", "landed"} => tries[i] = 1

Accounts ==
    /\ TypeOK
    /\ \A i \in Ids : Orderly(i)
    /\ \A k \in Keys : Accounted(k)

(* A step after which nobody new holds the mark of a key, and that takes   *)
(* none away without counting it.                                          *)
LEMMA NoNewHolder ==
    ASSUME NEW k \in Keys, Accounted(k), Marks(k) \in Nat, Marks(k)' \in Nat,
           Holders(k)' \subseteq Holders(k), Marks(k)' >= Marks(k)
    PROVE  Accounted(k)'
<1>1. IsFiniteSet(Holders(k)') /\ Cardinality(Holders(k)') <= Cardinality(Holders(k))
  BY FS_Subset DEF Accounted
<1>2. Cardinality(Holders(k)') \in Nat /\ Cardinality(Holders(k)) \in Nat
  BY <1>1, FS_CardinalityType DEF Accounted
<1> QED
  BY <1>1, <1>2 DEF Accounted

(* A request takes the mark of its key. *)
LEMMA OneNewHolder ==
    ASSUME NEW k \in Keys, Accounted(k), Marks(k) \in Nat, NEW i \in Ids,
           Holders(k)' \subseteq Holders(k) \cup {i}, Marks(k)' = Marks(k) + 1
    PROVE  Accounted(k)'
<1>1. /\ IsFiniteSet(Holders(k) \cup {i})
      /\ Cardinality(Holders(k) \cup {i}) <= Cardinality(Holders(k)) + 1
      /\ Cardinality(Holders(k)) \in Nat
  <2>1. IsFiniteSet(Holders(k)) /\ Cardinality(Holders(k)) \in Nat
    BY FS_CardinalityType DEF Accounted
  <2>2. /\ IsFiniteSet(Holders(k) \cup {i})
        /\ Cardinality(Holders(k) \cup {i}) =
               IF i \in Holders(k) THEN Cardinality(Holders(k)) ELSE Cardinality(Holders(k)) + 1
    BY <2>1, FS_AddElement
  <2> QED
    BY <2>1, <2>2
<1>2. /\ IsFiniteSet(Holders(k)')
      /\ Cardinality(Holders(k)') <= Cardinality(Holders(k) \cup {i})
  BY <1>1, FS_Subset
<1>3. Cardinality(Holders(k)') \in Nat /\ Cardinality(Holders(k) \cup {i}) \in Nat
  BY <1>1, <1>2, FS_CardinalityType
<1> QED
  BY <1>1, <1>2, <1>3 DEF Accounted

(* A holder releases the mark. *)
LEMMA OneHolderLess ==
    ASSUME NEW k \in Keys, Accounted(k), Marks(k) \in Nat, Marks(k)' \in Nat,
           NEW i \in Holders(k), Holders(k)' \subseteq Holders(k) \ {i}, Marks(k)' >= Marks(k) - 1
    PROVE  Accounted(k)'
<1>1. /\ IsFiniteSet(Holders(k) \ {i})
      /\ Cardinality(Holders(k) \ {i}) = Cardinality(Holders(k)) - 1
      /\ Cardinality(Holders(k)) \in Nat
  BY FS_RemoveElement, FS_CardinalityType DEF Accounted
<1>2. /\ IsFiniteSet(Holders(k)')
      /\ Cardinality(Holders(k)') <= Cardinality(Holders(k) \ {i})
  BY <1>1, FS_Subset
<1>3. Cardinality(Holders(k)') \in Nat
  BY <1>2, FS_CardinalityType
<1> QED
  BY <1>1, <1>2, <1>3 DEF Accounted

(* The rests of a pipeline, one after the other. *)
LEMMA RestsOfRests ==
    ASSUME NEW rest \in Rests, rest # <<>>
    PROVE  /\ Tail(rest) \in Rests
           /\ Tail(rest) \in Releasing => rest \in Releasing /\ Head(rest) # "hdel"
           /\ Head(rest) = "hdel" => rest \in Releasing
           /\ Head(rest) \in {"hset", "hdel", "pexpire"}
<1>1. CASE rest = <<"hset", "hdel", "pexpire">>
  <2>1. Head(rest) = "hset" /\ Tail(rest) = <<"hdel", "pexpire">>
    BY <1>1
  <2> QED
    BY <1>1, <2>1 DEF Rests, Releasing
<1>2. CASE rest = <<"hdel", "pexpire">>
  <2>1. Head(rest) = "hdel" /\ Tail(rest) = <<"pexpire">>
    BY <1>2
  <2> QED
    BY <1>2, <2>1 DEF Rests, Releasing
<1>3. CASE rest = <<"hdel">>
  <2>1. Head(rest) = "hdel" /\ Tail(rest) = <<>>
    BY <1>3
  <2> QED
    BY <1>3, <2>1 DEF Rests, Releasing
<1>4. CASE rest = <<"pexpire">>
  <2>1. Head(rest) = "pexpire" /\ Tail(rest) = <<>>
    BY <1>4
  <2> QED
    BY <1>4, <2>1 DEF Rests, Releasing
<1> QED
  BY <1>1, <1>2, <1>3, <1>4 DEF Rests

LEMMA PipelinesAreRests == {StoreAndRelease, Release, <<>>} \subseteq Rests
BY DEF StoreAndRelease, Release, Rests

LEMMA MarksAreCounted == TypeOK => \A k \in Keys : Marks(k) \in Nat
BY DEF TypeOK, Marks, Entry

(* The inductive step of Accounts, action by action. *)
LEMMA AccountsStep == Accounts /\ [Next]_vars => Accounts'
<1> SUFFICES ASSUME Accounts, [Next]_vars PROVE Accounts'
  OBVIOUS
<1> DEFINE Ordered == \A i \in Ids : Orderly(i)
           Costs == \A k \in Keys : Accounted(k)
<1>a. TypeOK /\ TypeOK' /\ Ordered /\ Costs
  BY TypeStep DEF Accounts
<1>b. SUFFICES Ordered' /\ Costs'
  BY <1>a DEF Accounts
<1>c. \A k \in Keys : Marks(k) \in Nat
  BY <1>a, MarksAreCounted
<1>d. \A k \in Keys : Marks(k)' \in Nat
  BY <1>a DEF TypeOK, Marks, Entry
<1>e. ASSUME \A i \in Ids : Holds(i)' => Holds(i) /\ key'[i] = key[i],
             \A k \in Keys : Marks(k)' >= Marks(k)
      PROVE  Costs'
  <2> SUFFICES ASSUME NEW k \in Keys PROVE Accounted(k)'
    OBVIOUS
  <2>1. Holders(k)' \subseteq Holders(k)
    BY <1>e DEF Holders
  <2> QED
    BY <1>a, <1>c, <1>d, <1>e, <2>1, NoNewHolder
<1>f. UNCHANGED redis => \A k \in Keys : Marks(k)' >= Marks(k)
  BY <1>c DEF Marks
<1> HIDE DEF Costs
<1>1. ASSUME NEW i \in Ids, NEW k \in Keys \cup {NoKey}, Arrive(i, k) PROVE Ordered' /\ Costs'
  <2>1. Ordered'
    BY <1>1, <1>a DEF Arrive, Orderly, TypeOK
  <2>2. CASE k = NoKey
    <3> SUFFICES ASSUME NEW l \in Keys PROVE Accounted(l)'
      BY <2>1 DEF Costs
    <3>1. Holders(l)' \subseteq Holders(l)
      BY <1>1, <1>a, <2>2, NoKeyIsNotAKey DEF Arrive, Holders, Holds, TypeOK
    <3>2. Marks(l)' >= Marks(l)
      BY <1>1, <1>f DEF Arrive
    <3> QED
      BY <1>a, <1>c, <1>d, <3>1, <3>2, NoNewHolder DEF Costs
  <2>3. CASE k # NoKey
    <3>1. \A j \in Ids : Holds(j)' => Holds(j) /\ key'[j] = key[j]
      BY <1>1, <1>a, <2>3 DEF Arrive, Holds, TypeOK
    <3> QED
      BY <1>1, <1>e, <1>f, <2>1, <3>1 DEF Arrive
  <2> QED
    BY <2>2, <2>3
<1>2. ASSUME NEW i \in Ids, ClaimRuns(i) PROVE Ordered' /\ Costs'
  <2>1. /\ UNCHANGED <<key, tries, todo, lapses>> /\ pc[i] = "claiming" /\ key[i] \in Keys
        /\ pc' = [pc EXCEPT ![i] = "claimed"]
    BY <1>2, <1>a DEF ClaimRuns, Verdicts, TypeOK
  <2>2. Ordered'
    BY <1>a, <2>1 DEF Orderly, TypeOK
  <2>3. \A j \in Ids \ {i} : Holds(j)' => Holds(j)
    BY <1>2, <1>a, <2>1 DEF ClaimRuns, Verdicts, Holds, TypeOK
  <2>4. CASE entry' = entry /\ verdict'[i].kind # "go"
    <3>1. ~Holds(i)'
      BY <1>a, <2>1, <2>4 DEF Holds, TypeOK
    <3> QED
      BY <1>e, <1>f, <2>1, <2>2, <2>3, <2>4, <3>1
  <2>5. CASE /\ ~entry[key[i]].busy
             /\ entry' = [entry EXCEPT ![key[i]] = [busy |-> TRUE, done |-> NoBody, ttl |-> TRUE]]
    <3> SUFFICES ASSUME NEW k \in Keys PROVE Accounted(k)'
      BY <2>2 DEF Costs
    <3>1. CASE k = key[i]
      <4>1. Holders(k)' \subseteq Holders(k) \cup {i}
        BY <2>1, <2>3 DEF Holders
      <4>2. ~entry[k].busy /\ entry'[k].busy
        BY <1>a, <2>5, <3>1 DEF TypeOK
      <4>3. Marks(k)' = Marks(k) + 1
        BY <1>a, <2>1, <4>2 DEF Marks, TypeOK
      <4> QED
        BY <1>a, <1>c, <4>1, <4>3, OneNewHolder DEF Costs
    <3>2. CASE k # key[i]
      <4>1. Holders(k)' \subseteq Holders(k)
        BY <2>1, <2>3, <3>2 DEF Holders
      <4>2. Marks(k)' = Marks(k)
        BY <1>a, <2>1, <2>5, <3>2 DEF Marks, TypeOK
      <4> QED
        BY <1>a, <1>c, <1>d, <4>1, <4>2, NoNewHolder DEF Costs
    <3> QED
      BY <3>1, <3>2
  <2>6. \/ entry' = entry /\ verdict'[i].kind # "go"
        \/ /\ ~entry[key[i]].busy
           /\ entry' = [entry EXCEPT ![key[i]] = [busy |-> TRUE, done |-> NoBody, ttl |-> TRUE]]
    BY <1>2, <1>a DEF ClaimRuns, Verdicts, TypeOK
  <2> QED
    BY <2>4, <2>5, <2>6
<1>3. ASSUME NEW i \in Ids, ClaimRetries(i) \/ Pass(i) PROVE Ordered' /\ Costs'
  <2>1. Ordered'
    BY <1>3, <1>a DEF ClaimRetries, Pass, Orderly, TypeOK
  <2>2. \A j \in Ids : Holds(j)' => Holds(j) /\ key'[j] = key[j]
    BY <1>3, <1>a DEF ClaimRetries, Pass, Holds, TypeOK, NoVerdict
  <2> QED
    BY <1>3, <1>e, <1>f, <2>1, <2>2 DEF ClaimRetries, Pass
<1>4. ASSUME NEW i \in Ids, ClaimFails(i) \/ Replay(i) \/ TurnAway(i) PROVE Ordered' /\ Costs'
  <2>1. PICK answer : Aborts(i, answer)
    BY <1>4 DEF ClaimFails, Replay, TurnAway
  <2>2. Ordered'
    BY <2>1, <1>a DEF Aborts, Orderly, TypeOK
  <2>3. \A j \in Ids : Holds(j)' => Holds(j) /\ key'[j] = key[j]
    BY <2>1, <1>a DEF Aborts, Holds, TypeOK, NoVerdict
  <2> QED
    BY <1>e, <1>f, <2>1, <2>2, <2>3 DEF Aborts
<1>5. ASSUME NEW i \in Ids, EngineLands(i) \/ LimboLands(i) PROVE Ordered' /\ Costs'
  <2>1. Ordered'
    BY <1>5, <1>a DEF EngineLands, LimboLands, Orderly, TypeOK
  <2>2. \A j \in Ids : Holds(j)' => Holds(j) /\ key'[j] = key[j]
    BY <1>5, <1>a DEF EngineLands, LimboLands, Holds, TypeOK
  <2> QED
    BY <1>5, <1>e, <1>f, <2>1, <2>2 DEF EngineLands, LimboLands
<1>6. ASSUME NEW i \in Ids, Accepts(i) \/ Rejects(i) \/ Fails(i) PROVE Ordered' /\ Costs'
  <2>1. PICK answer, pipeline : Returns(i, answer, pipeline) /\ pipeline \in Rests
    <3>1. CASE Accepts(i)
      BY <3>1, PipelinesAreRests DEF Accepts
    <3>2. CASE Rejects(i)
      BY <3>2, PipelinesAreRests DEF Rejects
    <3>3. CASE Fails(i)
      BY <3>3, PipelinesAreRests DEF Fails
    <3> QED
      BY <1>6, <3>1, <3>2, <3>3
  <2>2. pc[i] \in {"engine", "landed"}
    BY <1>6 DEF Accepts, Rejects, Fails
  <2>3. Ordered'
    <3>1. <<>> \in Rests
      BY PipelinesAreRests
    <3> QED
      BY <2>1, <2>2, <3>1, <1>a DEF Returns, Orderly, TypeOK
  <2>4. \A j \in Ids : Holds(j)' => Holds(j) /\ key'[j] = key[j]
    BY <2>1, <2>2, <1>a DEF Returns, Holds, TypeOK
  <2> QED
    BY <1>e, <1>f, <2>1, <2>3, <2>4 DEF Returns
<1>7. ASSUME NEW i \in Ids, FinishStep(i) PROVE Ordered' /\ Costs'
  <2> DEFINE cmd == Head(todo[i])
  <2>1. /\ UNCHANGED <<pc, key, tries, verdict>> /\ pc[i] = "finishing" /\ key[i] \in Keys
        /\ todo[i] \in Rests /\ todo[i] # <<>> /\ todo' = [todo EXCEPT ![i] = Tail(todo[i])]
    BY <1>7, <1>a DEF FinishStep, TypeOK, Orderly
  <2>2. /\ Tail(todo[i]) \in Rests
        /\ Tail(todo[i]) \in Releasing => todo[i] \in Releasing /\ cmd # "hdel"
        /\ cmd = "hdel" => todo[i] \in Releasing
        /\ cmd \in {"hset", "hdel", "pexpire"}
    BY <2>1, RestsOfRests
  <2>3. Ordered'
    BY <1>a, <2>1, <2>2 DEF Orderly, TypeOK
  <2>4. /\ \A j \in Ids : Holds(j)' => Holds(j)
        /\ cmd = "hdel" => ~Holds(i)'
    BY <1>a, <2>1, <2>2 DEF Holds, TypeOK
  <2>5. /\ entry' = [entry EXCEPT ![key[i]] = Executed(cmd, entry[key[i]], i)]
        /\ lapses' = [lapses EXCEPT ![key[i]] =
                         IF cmd = "hdel" /\ tries[i] > 1 /\ entry[key[i]].busy
                         THEN lapses[key[i]] + 1 ELSE lapses[key[i]]]
    BY <1>7 DEF FinishStep
  <2> SUFFICES ASSUME NEW k \in Keys PROVE Accounted(k)'
    BY <2>3 DEF Costs
  <2>6. Accounted(k)
    BY <1>a DEF Costs
  <2>7. Holders(k)' \subseteq Holders(k)
    BY <2>1, <2>4 DEF Holders
  <2>8. CASE k # key[i]
    <3>1. Marks(k)' = Marks(k)
      BY <1>a, <2>5, <2>8 DEF Marks, TypeOK
    <3> QED
      BY <1>c, <1>d, <2>6, <2>7, <3>1, NoNewHolder
  <2>9. CASE k = key[i] /\ cmd # "hdel"
    <3>1. entry'[k].busy = entry[k].busy /\ lapses'[k] = lapses[k]
      <4>1. entry[k] \in Entry /\ entry'[k] = Executed(cmd, entry[k], i)
        BY <1>a, <2>5, <2>9 DEF TypeOK
      <4>2. cmd \in {"hset", "pexpire"}
        BY <2>2, <2>9
      <4> HIDE DEF cmd
      <4>3. entry'[k].busy = entry[k].busy
        BY <4>1, <4>2 DEF Executed, Entry
      <4>4. lapses'[k] = lapses[k]
        BY <1>a, <2>5, <2>9 DEF TypeOK
      <4> QED
        BY <4>3, <4>4
    <3>2. Marks(k)' = Marks(k)
      BY <3>1 DEF Marks
    <3> QED
      BY <1>c, <1>d, <2>6, <2>7, <3>2, NoNewHolder
  <2>10. CASE k = key[i] /\ cmd = "hdel"
    <3>1. ~entry'[k].busy
      BY <1>a, <2>5, <2>10 DEF Executed, TypeOK, Entry
    <3>2. lapses[k] \in Nat /\ tries[i] \in Nat \ {0} /\ entry[k].busy \in BOOLEAN
      BY <1>a, MaxTriesIsPositive DEF TypeOK, Entry
    <3>3. lapses'[k] = IF tries[i] > 1 /\ entry[k].busy THEN lapses[k] + 1 ELSE lapses[k]
      BY <1>a, <2>5, <2>10 DEF TypeOK
    <3>4. CASE tries[i] > 1
      <4>1. Marks(k)' >= Marks(k)
        BY <3>1, <3>2, <3>3, <3>4 DEF Marks
      <4> QED
        BY <1>c, <1>d, <2>6, <2>7, <4>1, NoNewHolder
    <3>5. CASE tries[i] = 1
      <4>1. i \in Holders(k)
        BY <2>1, <2>2, <2>10, <3>5 DEF Holders, Holds
      <4>2. Holders(k)' \subseteq Holders(k) \ {i}
        BY <2>4, <2>7, <2>10 DEF Holders
      <4>3. Marks(k)' >= Marks(k) - 1
        BY <3>1, <3>2, <3>3 DEF Marks
      <4> QED
        BY <1>c, <1>d, <2>6, <4>1, <4>2, <4>3, OneHolderLess
    <3> QED
      BY <3>2, <3>4, <3>5
  <2> QED
    BY <2>8, <2>9, <2>10
<1>8. ASSUME NEW i \in Ids, FinishRetries(i) \/ FinishEnds(i) PROVE Ordered' /\ Costs'
  <2>1. {StoreAndRelease, Release, <<>>} \subseteq Rests
    BY PipelinesAreRests
  <2>2. Ordered'
    <3>1. /\ todo'[i] \in Rests
          /\ \A j \in Ids \ {i} : todo'[j] = todo[j]
      BY <1>8, <2>1, <1>a DEF FinishRetries, FinishEnds, TypeOK
    <3>2. /\ pc'[i] \in {"idle", "engine", "landed"} => tries'[i] = 1
          /\ \A j \in Ids \ {i} : pc'[j] = pc[j] /\ tries'[j] = tries[j]
      <4>1. CASE FinishRetries(i)
        BY <1>a, <4>1 DEF FinishRetries, TypeOK
      <4>2. CASE FinishEnds(i)
        BY <1>a, <4>2 DEF FinishEnds, TypeOK
      <4> QED
        BY <1>8, <4>1, <4>2
    <3> QED
      BY <1>a, <3>1, <3>2 DEF Orderly
  <2>3. \A j \in Ids : Holds(j)' => Holds(j) /\ key'[j] = key[j]
    <3>1. CASE FinishRetries(i)
      <4>1. tries'[i] # 1
        BY <1>a, <3>1 DEF FinishRetries, TypeOK
      <4> QED
        BY <1>a, <3>1, <4>1 DEF FinishRetries, Holds, TypeOK
    <3>2. CASE FinishEnds(i)
      BY <1>a, <3>2 DEF FinishEnds, Holds, TypeOK
    <3> QED
      BY <1>8, <3>1, <3>2
  <2> QED
    BY <1>8, <1>e, <1>f, <2>2, <2>3 DEF FinishRetries, FinishEnds
<1>9. CASE (\E k \in Keys : Expire(k)) \/ RedisRestarts
  <2>1. UNCHANGED <<pc, key, tries, verdict, todo>>
    BY <1>9 DEF Expire, RedisRestarts
  <2>2. Ordered'
    BY <1>a, <2>1 DEF Orderly
  <2>3. \A j \in Ids : Holds(j)' => Holds(j) /\ key'[j] = key[j]
    BY <2>1 DEF Holds
  <2>4. ASSUME NEW k \in Keys PROVE Marks(k)' >= Marks(k)
    <3>1. /\ lapses[k] \in Nat /\ lapses'[k] \in Nat
          /\ entry[k].busy \in BOOLEAN /\ entry'[k].busy \in BOOLEAN
      BY <1>a DEF TypeOK, Entry
    <3>2. \/ entry'[k] = entry[k] /\ lapses'[k] = lapses[k]
          \/ lapses'[k] = IF entry[k].busy THEN lapses[k] + 1 ELSE lapses[k]
      BY <1>9, <1>a DEF Expire, RedisRestarts, TypeOK
    <3> QED
      BY <3>1, <3>2 DEF Marks
  <2> QED
    BY <1>e, <2>2, <2>3, <2>4
<1>10. CASE Crash
  <2>1. Ordered'
    BY <1>10, <1>a, PipelinesAreRests DEF Crash, Orderly, TypeOK
  <2>2. \A j \in Ids : Holds(j)' => Holds(j) /\ key'[j] = key[j]
    BY <1>10 DEF Crash, Holds
  <2> QED
    BY <1>10, <1>e, <1>f, <2>1, <2>2 DEF Crash
<1>11. CASE UNCHANGED vars
  <2>1. Ordered'
    BY <1>11, <1>a DEF vars, Orderly
  <2>2. \A j \in Ids : Holds(j)' => Holds(j) /\ key'[j] = key[j]
    BY <1>11 DEF vars, Holds
  <2> QED
    BY <1>11, <1>e, <1>f, <2>1, <2>2 DEF vars
<1> QED
  BY <1>1, <1>2, <1>3, <1>4, <1>5, <1>6, <1>7, <1>8, <1>9, <1>10, <1>11
     DEF Next, Claim, CallEngine, Finish

(* DuplicatesCostAMark: two requests of one key are in the engine at once  *)
(* only for a mark that expired, was lost with Redis or was released by a  *)
(* repeated pipeline, once for each request too many, because whoever is   *)
(* in the engine holds the mark or paid with a lapse for it.               *)
THEOREM DuplicatesArePaidFor == Spec => []DuplicatesCostAMark
<1>1. Init => Accounts
  <2> SUFFICES ASSUME Init PROVE Accounts
    OBVIOUS
  <2>1. TypeOK
    BY PipelineTypes, MaxTriesIsPositive
       DEF Init, TypeOK, NoEntry, Entry, NoVerdict, Verdict, Of, Response, Statuses, Steps, Pipelines
  <2>2. \A i \in Ids : Orderly(i)
    BY PipelinesAreRests DEF Init, Orderly
  <2>3. ASSUME NEW k \in Keys PROVE Accounted(k)
    <3>1. Holders(k) = {}
      BY DEF Init, Holders, Holds
    <3>2. Marks(k) = 0
      BY DEF Init, Marks, NoEntry
    <3> QED
      BY <3>1, <3>2, FS_EmptySet DEF Accounted
  <2> QED
    BY <2>1, <2>2, <2>3 DEF Accounts
<1>2. Accounts => DuplicatesCostAMark
  <2> SUFFICES ASSUME Accounts, NEW k \in Keys PROVE Cardinality(Executing(k)) <= 1 + lapses[k]
    BY DEF DuplicatesCostAMark
  <2>1. Executing(k) \subseteq Holders(k)
    BY DEF Executing, Holders, Holds
  <2>2. /\ IsFiniteSet(Executing(k))
        /\ Cardinality(Executing(k)) <= Cardinality(Holders(k))
        /\ Cardinality(Holders(k)) <= Marks(k)
    BY <2>1, FS_Subset DEF Accounts, Accounted
  <2>3. /\ Cardinality(Executing(k)) \in Nat /\ Cardinality(Holders(k)) \in Nat
        /\ lapses[k] \in Nat
    BY <2>2, FS_CardinalityType DEF Accounts, Accounted, TypeOK
  <2>4. Marks(k) <= 1 + lapses[k] /\ Marks(k) \in Nat
    BY <2>3 DEF Marks
  <2> QED
    BY <2>2, <2>3, <2>4
<1> QED
  BY <1>1, <1>2, AccountsStep, PTL DEF Spec
=============================================================================
