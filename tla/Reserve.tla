------------------------------- MODULE Reserve -------------------------------
(***************************************************************************)
(* The reserves of the two signers: what preflightExecution,               *)
(* preflightEscrowSigner and the plan of a grouped run judge before a      *)
(* payment, and what is left of the balance when payments overlap.         *)
(*                                                                         *)
(*   plan: total against the balance -> for each line: balance read and    *)
(*   judged -> `tx bank send` -> wait for the block, or give up waiting    *)
(*                                                                         *)
(* Nothing holds the balance between the judgement and the broadcast: the  *)
(* request lock is per request id, so workers of one signer only meet at   *)
(* the node, which takes one transaction of an account at a time (the CLI  *)
(* signs with the committed sequence).  Checks about the configuration     *)
(* and the reachability of the node are RequestRail's.                     *)
(***************************************************************************)
EXTENDS Integers, Sequences, FiniteSetsExt

CONSTANTS
  Workers,     \* handler goroutines and CLI processes
  Requests,    \* runs and single payments: role, market and amounts
  FeeHeadroom, \* WOLO_SETTLEMENT_*_FEE_HEADROOM_UWOLO per role, 0 when disabled
  MinBalance,  \* WOLO_SETTLEMENT_MIN_*_BALANCE_UWOLO per role, 0 when disabled
  Fee,         \* what a transaction costs its signer: the fixed fee, or one by gas prices
  FixedFee,    \* WOLO_SETTLEMENT_FEES in uwolo; 0 when it is unset (the default), is
               \*   not a list of coins or names no uwolo
  Modulus,     \* 2^64
  Start,       \* balance of each signer at the start
  Supply,      \* bound: no balance of the role is larger
  MaxAmount,   \* the largest amount of a payment the supply can cover
  NoJob, NoTx

Roles == {"payout", "escrow"}

Places == {"slot", "gone", "never"}

ASSUME RequestsAssumption ==
  \A req \in Requests :
     /\ req.role \in Roles /\ req.market \in BOOLEAN
     /\ req.amounts \in Seq(Nat) /\ Len(req.amounts) > 0
ASSUME ThresholdsAssumption ==
  FeeHeadroom \in [Roles -> Nat] /\ MinBalance \in [Roles -> Nat] /\ Fee \in Nat
ASSUME FeesAssumption == FixedFee \in {0, Fee} \* --fees is paid as it is, whatever the gas
ASSUME BalancesAssumption ==
  /\ Modulus \in Nat /\ Start \in [Roles -> Nat]
  /\ \A r \in Roles : Supply[r] \in Nat /\ Supply[r] < Modulus /\ Start[r] <= Supply[r]
ASSUME AmountsAssumption ==
  /\ MaxAmount \in Nat
  /\ \A req \in Requests : \A k \in DOMAIN req.amounts :
        req.amounts[k] <= MaxAmount \/ Supply[req.role] < req.amounts[k]
ASSUME WorkersAssumption == IsFiniteSet(Workers) /\ Places \cap Workers = {}

(* What the mempool has of a signer; quiet is history.                     *)
Txs == [amount : Nat, from : Workers, quiet : BOOLEAN]

ASSUME NilAssumption == NoJob \notin Requests /\ NoTx \notin Txs

-----------------------------------------------------------------------------
(* What the checks compute.                                                *)

(* The larger of the two thresholds of a role.                             *)
Floor(role) == IF FeeHeadroom[role] > MinBalance[role] THEN FeeHeadroom[role] ELSE MinBalance[role]

TrueTotal(req) == SumFunctionOnSet(req.amounts, DOMAIN req.amounts)

(* prepareSettlementRunRequest adds the amounts as uint64.                 *)
RequestedTotal(req) == TrueTotal(req) % Modulus

(* checkReserveHealth, of the payout signer only: an escrow balance below  *)
(* its thresholds is a warning of the health report.                       *)
checkReserveHealth(role, balance) ==
  role = "payout" =>
     /\ ~(FeeHeadroom[role] > 0 /\ balance < FeeHeadroom[role])
     /\ ~(MinBalance[role] > 0 /\ balance < MinBalance[role])

(* Variant: the reserve is what the balance is compared with, not what it  *)
(* leaves.                                                                 *)
checkCapacityBefore(role, balance, amount) ==
  balance >= amount /\ balance >= Floor(role)

(* Variant: the fee headroom is not part of the capacity.                  *)
checkCapacityOfFloor(role, balance, amount) ==
  balance >= amount /\ balance - amount >= MinBalance[role]

(* Variant: what remains is computed first, in uint64.                     *)
checkCapacityWraps(role, balance, amount) ==
  LET remaining == (balance - amount) % Modulus IN
  /\ ~(FeeHeadroom[role] > 0 /\ remaining < FeeHeadroom[role])
  /\ ~(MinBalance[role] > 0 /\ remaining < MinBalance[role])

(* checkPayoutCapacity and checkEscrowCapacity: the payment is covered and *)
(* what remains is above both thresholds.                                  *)
checkCapacity(role, balance, amount) ==
  /\ balance >= amount
  /\ ~(FeeHeadroom[role] > 0 /\ balance - amount < FeeHeadroom[role])
  /\ ~(MinBalance[role] > 0 /\ balance - amount < MinBalance[role])

Judged(role, balance, amount) ==
  checkReserveHealth(role, balance) /\ checkCapacity(role, balance, amount)

(* requiresEscrowSignerForSettlementRun.                                   *)
requiresEscrowSigner(req) == req.market /\ req.role # "escrow"

(* Variant: the fees are left out.                                         *)
estimateWithoutFees(payoutCount) == 0

(* Fees by gas prices are not estimated.                                   *)
estimateSettlementRunFee(payoutCount) == FixedFee * payoutCount

(* What buildChallengeTopUpPlan raises the payout signer to for a run.     *)
RequiredBalance(req) ==
  (RequestedTotal(req) + Floor("payout") + estimateSettlementRunFee(Len(req.amounts))) % Modulus

-----------------------------------------------------------------------------
VARIABLES
  pc,       \* where each worker is
  job,      \* the request it works on
  next,     \* the line it works on
  balance,  \* balance of each signer in the last block
  pending,  \* the transaction of each signer in the mempool
  quiet,    \* history: no payment of the signer was committed since the
            \*   worker's line was judged
  funded,   \* history: the run was planned with RequiredBalance and no other
            \*   payment of the signer came in between
  fresh     \* history: where the payment that was judged last is

vars == <<pc, job, next, balance, pending, quiet, funded, fresh>>

chain == <<balance, pending>>
local == <<job, next, funded>>

PCs == {"idle", "line", "checked", "sent"}

Role(w)   == job[w].role
Amount(w) == job[w].amounts[next[w]]

Init ==
  /\ pc = [w \in Workers |-> "idle"]
  /\ job = [w \in Workers |-> NoJob]
  /\ next = [w \in Workers |-> 1]
  /\ balance = Start
  /\ pending = [r \in Roles |-> NoTx]
  /\ quiet = [w \in Workers |-> FALSE]
  /\ funded = [w \in Workers |-> FALSE]
  /\ fresh = [r \in Roles |-> "never"]

(* The balance covers what buildChallengeTopUpPlan requires, and nothing   *)
(* wrapped.                                                                *)
Covers(amount, req) ==
  /\ req.role = "payout"
  /\ TrueTotal(req) + Floor("payout") + FixedFee * Len(req.amounts) < Modulus
  /\ amount >= RequiredBalance(req)

Accept(w, req) ==
  /\ pc[w] = "idle"
  /\ pc' = [pc EXCEPT ![w] = "line"]
  /\ job' = [job EXCEPT ![w] = req]
  /\ funded' = [funded EXCEPT ![w] =
       /\ Covers(balance["payout"], req)
       /\ pending["payout"] = NoTx
       /\ \A v \in Workers \ {w} : pc[v] # "idle" => Role(v) # "payout"]
  /\ UNCHANGED <<next, chain, quiet, fresh>>

PlanPasses(req) ==
  ~requiresEscrowSigner(req) /\ Judged(req.role, balance[req.role], RequestedTotal(req))

(* buildSettlementRunPlan; what it refuses ends before its lines, and      *)
(* leaves the worker idle.                                                 *)
PlanRun(w, req) == PlanPasses(req) /\ Accept(w, req)

(* executeSettlement and executeEscrowTransfer of a single payment.        *)
Execute(w, req) == Len(req.amounts) = 1 /\ Accept(w, req)

(* A run goes on with its next line whatever became of this one.           *)
NextLine(w) ==
  \/ /\ next[w] < Len(job[w].amounts)
     /\ pc' = [pc EXCEPT ![w] = "line"]
     /\ next' = [next EXCEPT ![w] = @ + 1]
     /\ UNCHANGED <<job, funded>>
  \/ /\ next[w] = Len(job[w].amounts)
     /\ pc' = [pc EXCEPT ![w] = "idle"]
     /\ next' = [next EXCEPT ![w] = 1]
     /\ job' = [job EXCEPT ![w] = NoJob]
     /\ funded' = [funded EXCEPT ![w] = FALSE]

(* Variant: the plan of the run has judged its lines.                      *)
PreflightOfRunSkipped(w) ==
  /\ pc[w] = "line"
  /\ Len(job[w].amounts) > 1 \/ Judged(Role(w), balance[Role(w)], Amount(w))
  /\ pc' = [pc EXCEPT ![w] = "checked"]
  /\ quiet' = [quiet EXCEPT ![w] = TRUE]
  /\ fresh' = [fresh EXCEPT ![Role(w)] = w]
  /\ UNCHANGED <<local, chain>>

(* preflightExecution and preflightEscrowSigner: one read of the balance.  *)
Preflight(w) ==
  /\ pc[w] = "line"
  /\ Judged(Role(w), balance[Role(w)], Amount(w))
  /\ pc' = [pc EXCEPT ![w] = "checked"]
  /\ quiet' = [quiet EXCEPT ![w] = TRUE]
  /\ fresh' = [fresh EXCEPT ![Role(w)] = w]
  /\ UNCHANGED <<local, chain>>

PreflightRefuses(w) ==
  /\ pc[w] = "line"
  /\ ~Judged(Role(w), balance[Role(w)], Amount(w))
  /\ NextLine(w)
  /\ UNCHANGED <<chain, quiet, fresh>>

(* broadcastPayout and broadcastEscrowTransfer: the node takes the         *)
(* transaction when the account has none in the mempool and can pay the    *)
(* fee; whether it can pay the amount is only seen in the block.           *)
Broadcast(w) ==
  LET r == Role(w) IN
  /\ pc[w] = "checked"
  /\ pending[r] = NoTx
  /\ balance[r] >= Fee
  /\ pending' = [pending EXCEPT ![r] = [amount |-> Amount(w), from |-> w, quiet |-> quiet[w]]]
  /\ fresh' = [fresh EXCEPT ![r] = IF @ = w THEN "slot" ELSE @]
  /\ pc' = [pc EXCEPT ![w] = "sent"]
  /\ quiet' = [quiet EXCEPT ![w] = FALSE]
  /\ UNCHANGED <<local, balance>>

(* Sequence mismatch, insufficient fee, or any other failed exec.          *)
BroadcastRefused(w) ==
  LET r == Role(w) IN
  /\ pc[w] = "checked"
  /\ NextLine(w)
  /\ fresh' = [fresh EXCEPT ![r] = IF @ = w THEN "gone" ELSE @]
  /\ quiet' = [quiet EXCEPT ![w] = FALSE]
  /\ UNCHANGED chain

(* waitForTxConfirmation ends: the block came, or ConfirmTimeout did and   *)
(* the line is reported as accepted while its transaction is pending.      *)
Confirm(w) ==
  /\ pc[w] = "sent"
  /\ NextLine(w)
  /\ UNCHANGED <<chain, quiet, fresh>>

-----------------------------------------------------------------------------
(* The chain.                                                              *)

(* A block executes the transaction; one that is not covered fails and     *)
(* still costs its fee.                                                    *)
Commit(r) ==
  LET tx == pending[r] IN
  /\ tx # NoTx
  /\ balance' = [balance EXCEPT ![r] = IF @ >= tx.amount + Fee THEN @ - tx.amount - Fee ELSE @ - Fee]
  /\ pending' = [pending EXCEPT ![r] = NoTx]
  /\ fresh' = [fresh EXCEPT ![r] = IF @ = "slot" THEN "gone" ELSE @]
  /\ quiet' = [w \in Workers |-> quiet[w] /\ Role(w) # r]
  /\ funded' = [w \in Workers |-> funded[w] /\ (tx.from = w \/ Role(w) # r)]
  /\ UNCHANGED <<pc, job, next>>

(* The mempool evicts it.                                                  *)
Drop(r) ==
  /\ pending[r] # NoTx
  /\ pending' = [pending EXCEPT ![r] = NoTx]
  /\ fresh' = [fresh EXCEPT ![r] = IF @ = "slot" THEN "gone" ELSE @]
  /\ UNCHANGED <<pc, local, balance, quiet>>

(* Deposits, top-ups and the operator's own transfers to a signer.         *)
Deposit(r) ==
  /\ balance[r] < Supply[r]
  /\ \E amount \in 1..(Supply[r] - balance[r]) : balance' = [balance EXCEPT ![r] = @ + amount]
  /\ UNCHANGED <<pc, local, pending, quiet, fresh>>

Step(w) ==
  \/ Preflight(w) \/ PreflightRefuses(w)
  \/ Broadcast(w) \/ BroadcastRefused(w) \/ Confirm(w)

Arrive(w) == \E req \in Requests : PlanRun(w, req) \/ Execute(w, req)

Next ==
  \/ \E w \in Workers : Arrive(w) \/ Step(w)
  \/ \E r \in Roles : Commit(r) \/ Drop(r) \/ Deposit(r)

Spec == Init /\ [][Next]_vars

-----------------------------------------------------------------------------
(* Every variable has its type; no signer is overdrawn, and only amounts   *)
(* the supply can cover get past the checks.                               *)
TypeOK ==
  /\ pc \in [Workers -> PCs]
  /\ job \in [Workers -> Requests \cup {NoJob}]
  /\ next \in [Workers -> Nat]
  /\ balance \in [Roles -> Nat] /\ \A r \in Roles : balance[r] <= Supply[r]
  /\ pending \in [Roles -> Txs \cup {NoTx}]
  /\ quiet \in [Workers -> BOOLEAN] /\ funded \in [Workers -> BOOLEAN]
  /\ fresh \in [Roles -> Workers \cup Places]
  /\ \A w \in Workers : IF pc[w] = "idle" THEN next[w] = 1
                        ELSE job[w] \in Requests /\ next[w] \in DOMAIN job[w].amounts
  /\ \A w \in Workers : pc[w] = "checked" => Amount(w) <= MaxAmount
  /\ \A r \in Roles : pending[r] # NoTx => pending[r].amount <= MaxAmount /\ balance[r] >= Fee

(* The payments of a signer that were judged and are not on chain yet.     *)
InFlight(r) ==
  {w \in Workers : pc[w] = "checked" /\ Role(w) = r}
    \cup (IF pending[r] # NoTx THEN {"slot"} ELSE {})

(* What the payment judged last still has to take from the balance: its    *)
(* amount, or nothing but its fee when it is through.                      *)
FreshPart(r) ==
  CASE fresh[r] \in Workers -> Amount(fresh[r])
    [] fresh[r] = "slot" -> pending[r].amount
    [] fresh[r] \notin Workers \cup {"slot"} -> - Fee

(* A payment that was judged earlier takes at most this much.              *)
Overlap == MaxAmount + Fee

(* The other payments of a signer that are in flight.                      *)
Others(r) == InFlight(r) \ {fresh[r]}

(* How far a signer can get below its reserve: since the payment that was  *)
(* judged last, only payments judged before it can have come through, one  *)
(* per worker (the last of a worker that gave up waiting included), and    *)
(* those that are still in flight have not.                                *)
DipAt(r) ==
  /\ fresh[r] \in Workers \cup {"slot"} => fresh[r] \in InFlight(r)
  /\ fresh[r] = "never" => InFlight(r) = {}
  /\ fresh[r] # "never" =>
       balance[r] >= Floor(r) + FreshPart(r)
                     - (Cardinality(Workers) - Cardinality(Others(r))) * Overlap

(* The bound on the dip at every moment, for each payment that is still in *)
(* flight (preflightExecution to the block that has the payment).          *)
DipBound == \A r \in Roles : DipAt(r)

(* However many requests overlap, and also when the total of a run wraps,  *)
(* a signer that pays at all keeps its reserve up to one fee and one       *)
(* largest payment per worker (preflightExecution, preflightEscrowSigner,  *)
(* whose judgement is not repeated at the broadcast).                      *)
ReserveDip ==
  \A r \in Roles :
     fresh[r] # "never" => balance[r] >= Floor(r) - Fee - Cardinality(Workers) * Overlap

(* A payment leaves the reserve but for its fee, unless another payment of *)
(* the signer was committed after it was judged (checkPayoutCapacity,      *)
(* checkEscrowCapacity).                                                   *)
QuietPaymentKeepsReserve ==
  [][\A r \in Roles :
       balance'[r] < balance[r] /\ pending[r].quiet => balance'[r] >= Floor(r) - Fee]_vars

(* What n transactions cost that the estimate does not foresee.            *)
LeftOut(n) == (Fee - FixedFee) * n

(* A run that starts with the balance buildChallengeTopUpPlan asks for is  *)
(* not refused, and no line of it finds the payout signer short of more    *)
(* than the fees of the lines before it that the estimate left out, unless *)
(* another payment of the signer comes in between.  With                   *)
(* WOLO_SETTLEMENT_FEES in uwolo nothing is left out and the run is not    *)
(* cut short for the balance, whatever became of the lines before.         *)
FundedRunIsCovered ==
  /\ \A w \in Workers : pc[w] = "line" /\ funded[w] =>
        Judged(Role(w), balance[Role(w)] + LeftOut(next[w] - 1), Amount(w))
  /\ \A req \in Requests :
        Covers(balance["payout"], req) => PlanPasses(req) \/ requiresEscrowSigner(req)
=============================================================================
