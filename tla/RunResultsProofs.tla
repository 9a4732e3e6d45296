--------------------------- MODULE RunResultsProofs ---------------------------
(***************************************************************************)
(* What the status of a run says of its lines, for any number of lines:    *)
(* the facts that the proofs about grouped runs and about challenges share. *)
(***************************************************************************)
EXTENDS RunResults, SumProofs

(* The counts of finitely many lines are numbers.                          *)
LEMMA CountTypes ==
  ASSUME NEW lines, IsFiniteSet(DOMAIN lines), NEW S
  PROVE  CountStatus(lines, S) \in Nat /\ CountOutcome(lines, S) \in Nat
<1>1. {k \in DOMAIN lines : lines[k].status \in S} \in SUBSET DOMAIN lines OBVIOUS
<1>2. {k \in DOMAIN lines : lines[k].outcome \in S} \in SUBSET DOMAIN lines OBVIOUS
<1>3. /\ IsFiniteSet({k \in DOMAIN lines : lines[k].status \in S})
      /\ IsFiniteSet({k \in DOMAIN lines : lines[k].outcome \in S})
  BY <1>1, <1>2, FS_Subset
<1> QED BY <1>3, FS_CardinalityType DEF CountStatus, CountOutcome

LEMMA StatusType ==
  ASSUME NEW requested \in Nat, NEW lines, IsFiniteSet(DOMAIN lines)
  PROVE  deriveSettlementRunStatus(requested, lines) \in RunStatuses
<1>1. /\ CountStatus(lines, {"confirmed"}) \in Nat
      /\ CountStatus(lines, {"confirmed", "accepted"}) \in Nat
      /\ CountOutcome(lines, {"refused", "invalid", "rejected"}) \in Nat
  BY CountTypes
<1> QED BY <1>1 DEF deriveSettlementRunStatus, RunStatuses

(* A count that reaches the number of lines counts every line.             *)
LEMMA CountAll ==
  ASSUME NEW n \in Nat, NEW lines, DOMAIN lines \subseteq 1..n, NEW S, CountStatus(lines, S) = n
  PROVE  DOMAIN lines = 1..n /\ \A k \in 1..n : lines[k].status \in S
<1> DEFINE C == {k \in DOMAIN lines : lines[k].status \in S}
<1>1. C \in SUBSET (1..n) OBVIOUS
<1>2. IsFiniteSet(1..n) /\ Cardinality(1..n) = n BY FS_Interval
<1>3. Cardinality(C) = n BY DEF CountStatus
<1>4. C = 1..n BY <1>1, <1>2, <1>3, FS_Subset
<1> QED BY <1>4

(* A run is reported ok only if each of the requested lines was executed.  *)
LEMMA OkMeansAll ==
  ASSUME NEW n \in Nat, NEW lines, DOMAIN lines \subseteq 1..n,
         deriveSettlementRunStatus(n, lines) \in {"confirmed", "accepted"}
  PROVE  DOMAIN lines = 1..n /\ \A k \in 1..n : Executed(lines[k])
<1>1. CASE CountStatus(lines, {"confirmed"}) = n
  BY <1>1, CountAll DEF Executed
<1>2. CASE CountStatus(lines, {"confirmed", "accepted"}) = n
  BY <1>2, CountAll DEF Executed
<1>3. CASE /\ CountStatus(lines, {"confirmed"}) # n
           /\ CountStatus(lines, {"confirmed", "accepted"}) # n
  <2>1. IsFiniteSet(DOMAIN lines)
    <3>1. DOMAIN lines \in SUBSET (1..n) /\ IsFiniteSet(1..n) BY FS_Interval
    <3> QED BY <3>1, FS_Subset
  <2>2. /\ CountStatus(lines, {"confirmed", "accepted"}) \in Nat
        /\ CountOutcome(lines, {"refused", "invalid", "rejected"}) \in Nat
    BY <2>1, CountTypes
  <2>3. deriveSettlementRunStatus(n, lines) \in {"partial", "failed", ""}
    BY <1>3, <2>2 DEF deriveSettlementRunStatus
  <2> QED BY <2>3
<1> QED BY <1>1, <1>2, <1>3
===============================================================================
