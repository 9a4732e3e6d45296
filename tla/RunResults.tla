------------------------------ MODULE RunResults ------------------------------
(***************************************************************************)
(* Results of payout lines and of the runs made of them: what a line says  *)
(* of its request, how a run's status follows from its lines, and which    *)
(* stored runs are final.  Grouped runs and challenge settlements share    *)
(* these results.                                                          *)
(***************************************************************************)
EXTENDS Naturals, FiniteSets

LineStatuses == {"confirmed", "accepted", "failed"}
Outcomes     == {"confirmed", "accepted", "rejected", "refused", "invalid", "idempotent_replay"}
LineResults  == [attempted : BOOLEAN, status : LineStatuses, outcome : Outcomes,
                 retryable : BOOLEAN]

(* A line the plan refused, and a line that went to the rail.              *)
Unattempted(outcome, retryable) ==
  [attempted |-> FALSE, status |-> "failed", outcome |-> outcome, retryable |-> retryable]
Attempted(status, outcome, retryable) ==
  [attempted |-> TRUE, status |-> status, outcome |-> outcome, retryable |-> retryable]

Executed(line) == line.status \in {"confirmed", "accepted"}

(* The stored response of an item; tx tells whether it has a tx hash.      *)
ItemResponses == [status : LineStatuses, retryable : BOOLEAN, tx : BOOLEAN]

(* deriveSettlementOutcome of a response that is not a replay.             *)
Outcome(resp) == CASE resp.status # "failed" -> resp.status
                   [] resp.status = "failed" /\ ~resp.tx -> "refused"
                   [] OTHER -> "rejected"

(* What the rail can leave behind: executed with a hash, rejected with a   *)
(* hash, or refused without one.                                           *)
RailResponses ==
  {resp \in ItemResponses :
     /\ resp.status # "failed" => resp.tx
     /\ resp.tx => ~resp.retryable}

(* How many lines have one of these statuses or outcomes.                  *)
CountStatus(lines, statuses)  == Cardinality({k \in DOMAIN lines : lines[k].status \in statuses})
CountOutcome(lines, outcomes) == Cardinality({k \in DOMAIN lines : lines[k].outcome \in outcomes})

(* Variant: the executed lines are compared with the lines that ran.       *)
deriveStatusOfReady(requested, lines) ==
  IF CountStatus(lines, {"confirmed"}) = Cardinality(DOMAIN lines) THEN "confirmed" ELSE "failed"

(* finalizeSettlementRunResponse and deriveSettlementRunStatus after the   *)
(* items ran; requested counts every line of the request.  A replayed      *)
(* failure has the outcome idempotent_replay and is counted nowhere, so    *)
(* the status may stay empty.                                              *)
deriveSettlementRunStatus(requested, lines) ==
  LET executed == CountStatus(lines, {"confirmed", "accepted"})
      failed   == CountOutcome(lines, {"refused", "invalid", "rejected"})
  IN CASE CountStatus(lines, {"confirmed"}) = requested -> "confirmed"
       [] CountStatus(lines, {"confirmed"}) # requested /\ executed = requested -> "accepted"
       [] executed # requested /\ executed > 0 /\ failed > 0 -> "partial"
       [] executed # requested /\ executed = 0 /\ failed > 0 -> "failed"
       [] OTHER -> ""

RunStatuses == {"confirmed", "accepted", "partial", "failed", ""}

RunOK(record) == record.status \in {"confirmed", "accepted"}

(* Variant: retryable lines do not keep a run open.                        *)
FinalByStatus(record) == RunOK(record) \/ record.status \in {"failed", "partial"}

(* settlementRunResponseIsFinal.                                           *)
settlementRunResponseIsFinal(record) ==
  /\ \A k \in DOMAIN record.lines : ~record.lines[k].retryable
  /\ RunOK(record) \/ record.status \in {"failed", "partial"}
=============================================================================
