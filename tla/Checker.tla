------------------------------- MODULE Checker -------------------------------
(***************************************************************************)
(* cmd/checker: the verdicts it gives on a finished cell, as functions of  *)
(* the table bids and of what the load generator counted.                  *)
(*                                                                         *)
(* Here are the checks that compare two parties: I1 and I7 on the table,   *)
(* I5 on the table against the client, I6 on the client, and the exit      *)
(* code.  I2 and I3 are Beats and Coherent in AuctionDB, where the engines *)
(* are held to them; I8 is what Closing.NeverClosedEarly says of every     *)
(* state.                                                                  *)
(*                                                                         *)
(* rows: a set of [id, key, auction, seq].  c: the counters of client.json.*)
(* cut: a failure was injected, or the harness interrupted the load.       *)
(***************************************************************************)
EXTENDS Integers, FiniteSets, FiniteSetsExt

Verdicts == {"OK", "WARN", "FAIL"}

Worse(v, w) ==
    IF "FAIL" \in {v, w} THEN "FAIL"
    ELSE IF "WARN" \in {v, w} THEN "WARN" ELSE "OK"

FailIf(bad) == IF bad THEN "FAIL" ELSE "OK"

(* coalesce(max(seq), 0), over all auctions. *)
Watermark(rows) == Max({0} \cup {b.seq : b \in rows})

(* I1: as many rows as the largest seq, and the smallest is 1, per auction. *)
Density(rows) ==
    FailIf(\E a \in {b.auction : b \in rows} :
              LET seqs == {b.seq : b \in {c \in rows : c.auction = a}} IN
              seqs # 1..Cardinality({c \in rows : c.auction = a}))

(* I7: every row has a key and no two share one. *)
OneKeyEach(rows, NoKey) ==
    FailIf(\/ NoKey \in {b.key : b \in rows}
           \/ Cardinality({b.key : b \in rows}) # Cardinality(rows))

(* Either half of I5, by direction: what the client was told of and the    *)
(* database does not have is lost; more in the database than the client    *)
(* was told of is excused by a cut.                                        *)
Side(db, client, cut) ==
    CASE db < client -> "FAIL"
      [] db > client -> IF cut THEN "WARN" ELSE "FAIL"
      [] OTHER       -> "OK"

(* Mutant: an interrupted cell is not judged. *)
DurabilityExcused(rows, c, cut) ==
    IF cut \/ c.error > 0 THEN "WARN"
    ELSE Worse("OK", Side(Watermark(rows), c.maxSeqSeen, cut))

(* I5. *)
Durability(rows, c, cut) ==
    Worse(Side(Cardinality(rows), c.accepted, cut),
          Side(Watermark(rows), c.maxSeqSeen, cut))

(* The share of attempts that may fail, in percent, before the cell stops  *)
(* being a measurement.                                                    *)
MaxErrorPercent == 1

(* I6.  chaos: an injection ran; landed: it took effect. *)
CellValidity(c, chaos, landed, saturated) ==
    LET tooManyErrors == c.attempts > 0 /\ c.error * 100 >= MaxErrorPercent * c.attempts
        fails ==
            \/ c.attempts = 0 \/ c.invalid > 0
            \/ c.selected = 0 \/ c.injected = 0 \/ c.replayed = 0
            \/ c.injected > c.selected
            \/ tooManyErrors /\ ~chaos
            \/ chaos /\ ~landed
        warns ==
            \/ c.inFlight = 0 \/ saturated
            \/ tooManyErrors /\ chaos
            \/ c.closed > 0 /\ ~chaos
    IN IF fails THEN "FAIL" ELSE IF warns THEN "WARN" ELSE "OK"

(* Exit codes.  A cell without its artefacts has no verdict at all. *)
ExitOK == 0
ExitViolated == 1
ExitUnverifiable == 2

Summarize(verdicts) == IF "FAIL" \in verdicts THEN ExitViolated ELSE ExitOK

Execute(artefacts, verdicts) ==
    IF artefacts = "intact" THEN Summarize(verdicts) ELSE ExitUnverifiable
=============================================================================
