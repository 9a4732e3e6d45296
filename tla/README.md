# WoloChain settlement: TLA+ models, runs and proofs

WoloChain is a Cosmos SDK chain daemon (`wolochaind`) with an off-chain
settlement service in the same binary. The chain itself is wiring of stock
modules; the program's own logic is the settlement service in
`src/cmd/wolochaind/cmd/`. It turns "pay this address this amount, under this
request id" into a `tx bank send` of a hot signer, and promises that an id is
paid once however often it is retried. This directory models that promise, the
code that keeps it, the faults it has to survive and the places where it does not.

## Inventory

| Component | State | Operations | Interacts with |
|---|---|---|---|
| Request rail: `executeSettlement`, `executeEscrowTransfer` | one lock file and one JSON record per request id | lock, read record, preflight, exec of the CLI, wait for confirmation, write record, unlock | other handler goroutines and CLI processes through the files; the node through RPC, REST and a child process |
| Grouped runs: `executeSettlementRun` | one lock file and one record per run id | plan, lock, read record, item loop, finalise, write record | calls the request rail once per line |
| Challenge settlements: `executeSettlementChallenge` | one lock file and one record per settlement id | verify funding, allocate buckets, plan, top-up, run, merge, write record | calls grouped runs and the escrow transfer |
| Challenge audit | none | compares the stored challenge with the chain | reads records and REST |
| Reserve and capacity checks | none (balances are read from REST) | floors, headroom, shortfall, fee estimate | preflight of rail, run and challenge; nothing holds the balance until the payment |
| Amount parsing, totals, formatting | none | `normalizeAmountUWolo`, totals in uint64 | every request |
| Transaction lookup, escrow and funding discovery | none | lookup, match, classify, verify, list | REST; the app polls the listing and verifies by hash |
| Inspection, recent records | none | read-only | record files |
| HTTP server, bearer check, CLI | none | routing, 30 s request timeout | everything above |
| `x/wolochain` | module parameters | `UpdateParams`, genesis, query | Cosmos SDK |
| `app/`, testnet commands | Cosmos wiring | export, node directories | Cosmos SDK |
| Operator scripts | backups of the state directory | backup, restore, alert checks | the service through files, curl, systemd |

What is hard here:

* **Concurrency through files.** HTTP handlers and CLI processes coordinate only
  by lock files with a two-minute time to live. Taking over a stale lock is a
  `Stat`, a `Remove` and a new `O_EXCL` create: three steps. The deferred
  `Remove` deletes whatever lock is there.
* **The in-flight window.** Between the moment the node takes a transaction and
  the moment the record is renamed into place, only one process knows of it. A
  crash, a killed CLI or a full disk in this window loses the outcome.
* **Finality of a stored answer.** Whether an attempt replays or pays again is
  decided by three fields of the stored response (`ok`, `tx_hash`, `retryable`).
* **Judge now, pay later.** The balance is read, the capacity judged and the
  payment broadcast in three steps, and a payment whose confirmation timed out is
  still to come when the next one is judged.
* **Two readings of one chain.** A deposit is listed by its transfer and verified
  by its transaction; an audit puts together records and lookups of different
  moments, beside the attempts it audits.
* **Aggregation.** A run's status and finality are derived from lines that were
  refused by the plan, refused by the rail, rejected on chain, replayed, or never
  ready; the plan is made before the lock is held.

What makes each component correct: the rail pays an id once, and what it told a
caller stays true; a run reports its lines truthfully, is ok only when every line
is paid and final only when nothing of it can still execute; a challenge
allocates every verified bucket exactly once and takes its top-up once; the
floors hold after every payment; amounts survive conversion. `PROJECT.json`
lists the hazards line by line.

## Modules

| Module | Models |
|---|---|
| `IdempotentPayments` | the abstract promise: `Pay`, `Tell`, `Lose` |
| `RequestRail` | the rail, both signer roles, with its environment |
| `RequestRailProofs` | theorems about `RequestRail` |
| `MCRequestRail` | TLC instances of `RequestRail` |
| `RunResults` | line results, status and finality of a run: operators shared by runs and challenges |
| `RunResultsProofs` | lemmas about those operators |
| `SettlementRun` | grouped runs over the rail |
| `SettlementRunProofs` | theorems about `SettlementRun` |
| `MCSettlementRun` | TLC instances of `SettlementRun` |
| `Challenge` | challenge settlements over runs and rail, with both signers' balances |
| `ChallengeProofs` | theorems about `Challenge` |
| `MCChallenge` | TLC instances of `Challenge` |
| `ChallengeAudit` | the audit of a settlement id, beside the attempts at it (extends `Challenge`) |
| `ChallengeAuditProofs` | theorems about `ChallengeAudit` (extends `ChallengeProofs`) |
| `MCChallengeAudit` | TLC instance of `ChallengeAudit` |
| `Reserve` | reserve and capacity checks, with judgement, broadcast and block apart |
| `ReserveProofs` | theorems about `Reserve` |
| `MCReserve` | TLC instance of `Reserve` |
| `Funding` | deposit lookup, verification and the two listings |
| `FundingProofs` | theorems about `Funding` |
| `MCFunding` | TLC instance of `Funding` |
| `SumProofs` | lemmas about sums over finite sets, which the other proof modules cite |

Definitions marked `Variant` are altered copies of the definition that follows
them, each with one plausible mistake; they are used to see that a property
notices the mistake and take no part in the specifications.

### RequestRail

A worker is a handler goroutine or a CLI process. Its program counter follows
`withRequestLock` and the function it guards; each file operation, exec and
lookup is one action because other workers can run between any two.

| pc | Actions | Code (`settlement.go`) |
|---|---|---|
| `lock` | `CreateLock`, `LockFails`, `LockExists` | `os.OpenFile(O_CREATE\|O_EXCL)`, 3278-3302 |
| `stat` | `InProgress`, `StatStale` | `os.Stat` against `RequestLockTTL`, 3286-3300 |
| `steal` | `RemoveStale` | `os.Remove` and the recursive call, 3287-3289 |
| `read` | `ReadConflict`, `Replay`, `ReadInvalid`, `Proceed` | 1827-1866 |
| `preflight` | `PreflightPasses`, `PreflightRefuses` | 1868-1883, 2488-2567 and the escrow twin |
| `exec` | `NodeAccepts`, `NodeRejects`, `ExecFails` | `broadcastPayout`, 2569-2679 |
| `output` | `OutputLost`, `OutputRead` | the child process after the node took the transaction |
| `confirm` | `ConfirmFound`, `ConfirmTimesOut`, `ConfirmLookupFails` | `waitForTxConfirmation`, 2691-2715 |
| `write` | `WriteRecord`, `WriteFails` | `writeSettlementStoredResult`, 4417-4433 |
| `unlock` | `Unlock` | deferred `os.Remove`, 3307 |

`executeEscrowTransfer` and `broadcastEscrowTransfer`
(`settlement_challenge.go` 1859-2166) have the same shape; the role in the request
selects the preflight refusals, and both roles share the files of an id. The map
names the payout lines for the shared actions; the escrow lines are mapped from
`Challenge`, where the top-up uses them.

The environment ages locks (`AgeLock`), kills workers (`Crash`), loses the host
and tears records that were renamed without `fsync` (`PowerLoss`), and settles
transactions (`Settle`). The chain is external: a transaction in the mempool
makes its signer busy, is committed, fails in its block or is dropped.

Abstractions: address, amount and memo are one `Bodies` value; balances are not
kept, so a preflight may refuse with any of its codes; details, URLs and
formatted amounts are left out. A record found at the start may be one that was
written before records had a signer role (`LegacyRecords`).

`answers` and `forfeited` are history variables. An id is forfeited when the code
loses the outcome of a transaction the node took (`OutputLost`, `WriteFails`,
`Crash` and `PowerLoss` in the in-flight window) or removes the lock of a live
worker. The guarantees are stated for the other ids, which says exactly where the
code's promise ends; the violation runs show that it does end there.

### SettlementRun

A runner goes through `plan`, the run lock (the twin of the request lock),
`read`, the item loop (`pick`, `item`) and `unlock`. Lines of a request carry an
item id and a body, or are bad. `ReadyLines` and `Fingerprint` are
`prepareSettlementRunRequest` and `hashSettlementRunRequest`: bad and repeated
lines are not in the normalised request, and a request whose header does not
validate has the fingerprint of the empty request. `deriveSettlementRunStatus`
keeps the code's case order with the status `""` where no case applies.

The rail is used through what `RequestRail` establishes: one attempt at an item
at a time, conflict, replay, `STATE_FILE_INVALID` or execution by its record, and
a record after an execution. Forfeited items are `RequestRail`'s subject. The
plan's health and capacity checks are a choice between accepted, refused for good
and refused retryably. The escrow top-up inside a run
(`topUpPayoutSignerForSettlementRun`) is unreachable:
`shouldAttemptSettlementRunEscrowTopUp` returns false. The field `request` of a
run record and the variable `contested` (runs whose lock was taken from a live
attempt) are history.

### Challenge

A settler first plans (`Submit...`), without the lock: the plan is a snapshot of
the deposits and balances it looked up, and it carries the stage at which
`buildSettlementChallengePlan` returned, because `Fingerprint` covers only what
was normalised by then. Then:

| pc | Actions | Code (`settlement_challenge.go`) |
|---|---|---|
| `lock`, `steal` | `CreateLock`, `LockFails`, `StatStale`, `RemoveStale` | `withChallengeLock`, 2415-2447 |
| `read` | `Conflict`, `ReadInvalid`, `Replay`, `StoreRefusal`, `Proceed` | 663-724 |
| `topup` | `TopUpConflict`, `TopUpReplay`, `TopUpRefused`, `TopUpConfirmed`, `TopUpAccepted`, `TopUpRejected`, `TopUpMisreported`, `TopUpBusy` | `executeEscrowTransfer`, `broadcastEscrowTransfer`, 1859-2166 |
| `await` | `BalanceReached`, `BalancePending` | `executeChallengeTopUp`, 1394-1412 |
| `run` | `RunUnavailable`, `RunReplay`, `RunRefused`, `RunProceeds` | `executeSettlementRun`, `settlement.go` 1917-2037 |
| `pick` | `ItemConflict`, `ItemReplay`, `ItemRefused`, `ItemConfirmed`, `ItemAccepted`, `ItemRejected`, `ItemMisreported`, `ItemBusy`, `RunEnds` | `settlement.go` 1827-1895, 2038-2091 |
| `topup`, `pick` | `RailError` | an error leaves without a record, 725, 750 |
| `write`, `unlock` | `WriteChallenge`, `WriteFails`, `Unlock` | 763-771, 2461-2474, 2444 |

A plan whose own lookups return a Go error ends before the lock and leaves no
trace; it is the attempt that is not submitted. Deposits carry the amount that
reached escrow and the buckets of the memo; address, memo, side and id of a
participant are one `party`. The balances are the committed ones; `Floor` is the
larger of reserve floor and fee headroom, and each transaction costs `Fee`.
What the plan estimates is `FixedFee`, which is 0 unless `WOLO_SETTLEMENT_FEES` names
an amount in uwolo: it is unset by default, `broadcastPayout` then pays by gas prices,
and `estimateSettlementRunFee` has no estimate. The passing runs set it; the theorems
hold with and without; `challenge_unset_fees` shows what it means for a top-up. `Fee` is
the same for every transaction, where a gas-price fee varies with the gas.

Sums of lines, totals and estimates are naturals, where the code adds `uint64`. The two
differ only for requests whose lines add up to 2^64 or more, which is more than the
supply: the rail refuses some of the lines, so no challenge that ends ok comes from one;
wrapping totals are part of `Reserve`.

The environment commits what is in the mempool, fails it in its block or drops it
(`SettleItem`, `SettleTopUp`; `tx` is the life of each transaction), ages locks, kills settlers and loses the host. A lock of a live
attempt gets old only in the item loop, the one phase with no fixed bound.
Entering the run (its lock, its record, its plan) is one step, and so is the
execution of an item or top-up with the record it leaves: what can go wrong
inside is the subject of `SettlementRun` and `RequestRail`, and ids that the rail
loses track of are left out here. Run and request records do not get torn.
`topUps`, `contested` and the field `request` of a challenge record are history.

`TopUpMisreported` and `ItemMisreported` are payments on their way whose
confirmation lookup failed: they are stored as final failures with a tx hash.

### ChallengeAudit

`auditSettlementChallenge` reads the stored challenge, verifies its deposits,
reads the run record, then for every transfer the request record and the
transaction, then the top-up. Each read is a step (`AuditRecord`, `AuditRun`,
`AuditTransfer`, `AuditTopUp`), and between two of them anything of `Challenge`
may happen (`Meanwhile`). A request record that has a tx hash never changes again
(that is `TxRecordIsFinal` of the rail), so reading it and looking up its
transaction are one step.

The report lists every check; only ok or not ok is told apart here, so the model
ends at the first check that fails. Checks that compare a field with itself
(fingerprint of the stored request, ids of the header) hold for any record that
parses and are left out. `overlapped` is history: something the audit reads has
changed since it began. `OkAuditIsTrue` holds with any overlap: an ok audit is
right about what the snapshot reports as paid. `OkAuditMissesNoPayment` is about
the opposite direction, where a retry may pay behind the back of the audit, and
is stated without overlap.

### Reserve

A worker accepts a run or a single payment, and then for each line reads the
balance and judges it (`Preflight`), broadcasts, and waits for the block or gives
up waiting. The amounts of a run are added modulo 2^w, so the plan may pass a run
it should not. The node takes one transaction of an account at a time, because
the CLI signs with the committed account sequence, and a transaction that is not
covered fails in its block and costs its fee. `quiet`, `funded` and `fresh` are
history.

The reserve of a signer is not an invariant. Two payments may both be judged by
the balance before either, and a payment that is still pending is not subtracted.
What does hold, and is proved, is how far it can be missed: one fee and, per
worker, one largest payment with its fee. The run reaches this bound: with a
reserve of 8, largest payment 2, fee 1 and two workers, the payout balance gets
to 1 = 8 - 1 - 2 * 3.

`FundedRunIsCovered` is about the other side, too little: a plan judges the total
without the fees, so a run may be validated and cut short. A run that starts with the
balance `buildChallengeTopUpPlan` asks for is short of nothing but the fees its estimate
left out (`LeftOut`). With `WOLO_SETTLEMENT_FEES` in uwolo that is nothing, and the run is
not cut short; this is what the run `reserve` checks. With it unset, as shipped, nothing
is estimated (`FixedFee` = 0) and each line may be missing the fees of all lines before
it: `challenge_unset_fees` shows such a run.

### Funding

The chain is a sequence of transactions with their transfer events and memo. The
app commits to one set of filters and polls `listRecentChallengeFundingDeposits`;
transactions come in between. `known` are the fundings it has been shown.
Addresses are equal or not (the code compares without case, and addresses are
lower case); memo fields have one name each, aliases are left out. A transaction
that failed has only its fee event: the Cosmos SDK discards the others, and the
verification depends on it, as it does not ask whether the transaction succeeded.

The loops of the code are stated by what they select. The first match of
`matchSettlementTransfer` is the match no other one precedes (`First`); a window of
n entries holds those that fewer than n others come before (`Newest`, `AtMost`),
newest transaction first. A listing is the set of what was listed: its order has no
use but to decide what is cut off.

Two things the model makes visible and the properties leave out by an explicit
condition. `matchSettlementTransfer` does not compare the denomination, so an
expected amount may be met by another coin of a transaction that also brings WOLO
(`Plain`). And `classifyTransferKind` takes the first decisive transfer, so a
deposit made by the payout signer itself, whose fee is a transfer out of payout,
is listed and can never be verified (`OfOthers`).

## Runs

| Run | Expectation | Shows |
|---|---|---|
| `rail_faults` | pass | all rail invariants, the inductive invariant and the refinement of `IdempotentPayments`, with every fault |
| `rail_live` | pass | every attempt ends; a stored failure never hides a paid transaction when lookups do not fail |
| `rail_lost_output` | violation | a CLI killed after the node took the transaction leads to a second payment |
| `rail_lookup_failed` | violation | a failing lookup is stored as a failed payment that was in fact made |
| `run_faults` | pass | reports, lock and final records of a run under crashes, torn files, item errors and a lock that gets old; ok runs paid every line, final runs cannot execute, over requests with bad and repeated lines |
| `run_refused_retry` | violation | a refused retry overwrites a partly paid run with a failed one |
| `challenge_faults` | pass | truthful reports, one top-up, kept final records and no overdraft, two payloads and three bad requests under one id, crashes, refusals, failing writes and confirmations, a lock that gets old |
| `challenge_audit` | pass | an ok audit is true and misses no payment, a settled challenge raises no alarm; an ok challenge paid every bucket of every deposit exactly, over good and bad requests |
| `challenge_unset_fees` | violation | without `WOLO_SETTLEMENT_FEES` a top-up leaves out the fees, and the run it was made for is cut short at its second line |
| `challenge_lookup` | violation | a challenge submitted before its deposit is visible can never be settled under its id |
| `reserve` | pass | the bound on the reserve under overlapping payments, and what one payment and one funded run may rely on |
| `funding` | pass | listing and verification agree, a poller that keeps up misses nothing, verified funding is backed |

The `findings` of `PROJECT.json` quote what each violated property is taken from.
Two more departures are built into the models and have no run of their own: two
attempts that meet the lock file of a dead worker may both go on, because the
slower one removes the fresh lock of the faster one (`RemoveStale`; such ids are
`forfeited`, such runs `contested`); and a retried run with paid lines and replayed
failures has the status `""`, for which `deriveSettlementRunStatus` has no case.

### Bounds

* Two workers (runners): every race here is between the holder of a lock and one
  other attempt. The stale-lock race needs a third participant, the dead one,
  which is a worker that crashed and was started again.
* `MaxSubmits` (three in the fault runs) allows first attempt, retry and a
  competitor; `MaxCrashes` (one) a failure between any two steps of them. With
  one id and two hashes a second payment of an id is reachable, which is what the
  properties forbid.
* `run_faults` has three requests for one run id: one of three lines with an item id
  under two payloads, one with a bad line and the other payload of an item, and one that
  does not validate. Attempts at different lines of the same items overlap there when a
  lock that got old is taken over; two run ids that share items are covered by the
  theorems, which hold for any set of runs.
* Two lines per run distinguish all statuses (all, some, none executed);
  `LinesPerTTL = 1` lets a lock get old between two lines, `3` keeps it fresh
  where the question is not about the lock.
* `Challenge`: one settlement id with a deposit of a two-unit wager and a one-unit
  guarantee, so that the buckets differ and each needs a line. The payout signer
  starts with three of the six units it needs, so every first attempt tops up,
  and a retry meets a different shortfall. `challenge_faults` has two settlers,
  two attempts and one crash over two payloads that swap their request ids and
  three requests that must be refused, one at each stage of the plan.
  Concurrent attempts at different settlement ids meet only in the balances, which
  is `Reserve`'s question.
* `ChallengeAudit`: one settler with two attempts over those two payloads and six
  requests that must be refused, and one audit that may begin at any moment. The
  settler's second attempt can overlap the audit of the first.
* `Reserve`: two workers, so that a payment can overlap a judged one and a pending
  one at once; a run of two lines, a market run that needs the other signer, a run
  whose total wraps to a small number (fees are set in uwolo), an escrow payment with the fee headroom as
  the larger threshold. The modulus is larger than every balance, as 2^64 is.
* `Funding`: four transactions of eight kinds and a window of two, so a deposit can
  be pushed out of it; `Limit = 1` with a factor of two keeps the code's relation
  (search more than is listed) while both limits can be hit.
* Hashes, and workers where no liveness is checked, are interchangeable, and so are
  the request ids i1 and i2 of `challenge_faults`, whose set of requests is the same
  when they are swapped:
  the symmetry sets are sound. Deadlock is not checked: when the submit bound is used
  up the system rests.

### Fairness

`FairSpec` of `RequestRail` is weak fairness of each worker's `Step`. The code
justifies it: every exec, lookup and HTTP call has a timeout (`RequestTimeout`
30 s, `LookupTimeout` 10 s, `ConfirmTimeout` 12 s, `HealthTimeout` 5 s) and file
operations return. Nothing is assumed of clients, crashes, time or the chain:
`EveryAttemptEnds` must hold even if no block is ever produced.

## Proofs

Every theorem is checked by `tlapm`; there is no step without a proof. A theorem holds
for every value of the constants that meets the named assumptions of its module.
TLC checks each of the properties on the instances above.

### RequestRail

`RequestRailProofs` proves, for every set of workers, ids, bodies and hashes and
every set of faults:

* `TypeCorrect`: the type invariant;
* `RailInvariance`: the inductive invariant `RailInv`;
* `PaidAtMostOnceHolds`, `LockExcludesHolds`, `AnswersAreStoredHolds`,
  `RecordsAreProofsHolds`: the invariants of `rail_faults`;
* `TxRecordIsFinalHolds`: no step replaces a record with a tx hash;
* `Refinement`: the rail implements `IdempotentPayments`;
* `FailedMeansUnpaidHolds`: a transaction stored as failed is never committed, for
  every set of faults without `lookup_failed`.

Assumptions: the special values are distinct from the values they stand beside
(`HashAssumption`, `LockAssumption`, `NilAssumption`) and the bounds are naturals.

"Paid at most once" is not inductive: nothing in it stops a worker at `exec` from
paying an id that is already paid. `RailInv` adds, for ids not forfeited:

1. `LockInv`: a worker inside the lock owns the lock file (`HolderOwnsLock`), so
   two of them are equal, and a response exists only once there is an outcome;
2. `OnceInv`: while a worker executes, the record knows no transaction and the
   chain at most the worker's own (`ExecutesAlone`), and every transaction is in
   the record, in a torn record, or with the worker about to write it
   (`TxsAreKept`). A worker that reads "no transaction" in the record may
   therefore pay: the others are excluded by 1, and the last holder wrote;
3. `AnswerInv`: a worker about to answer has the answer in the record, and
   answers given stay there;
4. `ProofInv`: what a worker or a record says of a transaction is true on chain,
   for forfeited ids as well.

Each part is preserved action by action; frame lemmas cover the actions that do
not touch a part. The refinement maps each broadcast to `Pay`, each unlock with a
tx hash to `Tell`, each loss to `Lose`, and uses `OnceInv` for the guard of `Pay`.

`FailedMeansUnpaid` needs its hypothesis: `rail_lookup_failed` violates it with that
one fault. Without it, whoever says that a transaction failed, a worker or a record,
has seen it rejected or failed in its block (`FailuresAreTrue`), and from there no
step leads to a block (`DeadStaysDead`).

### Reserve

`ReserveProofs` proves, for every finite set of workers and every set of requests,
thresholds, fee and modulus: `TypeSafety`, `DipSafety`, `ReserveDipSafety` and
`QuietPaymentSafety`. Assumptions: balances stay below the modulus
(`BalancesAssumption`: the supply is below 2^64), and an amount is at most
`MaxAmount` or more than the supply (`AmountsAssumption`; `MaxAmount` is the largest
amount the supply can cover, so this restricts nothing).

"The balance is at least reserve less n payments" is not inductive: nothing in it
counts the payments that are still to come. `DipAt` does. `fresh` is the payment
judged last. When it was judged, the balance was at least reserve plus its amount,
whatever had happened before: each judgement starts the count again. Since then
only payments judged earlier can have been committed, at most one per worker, and
each that is still in flight (`Others`) is one that has not. So the balance is at
least the reserve plus what the fresh payment still takes, less one `Overlap` for
every worker that has no other payment in flight. The proof goes action by action
with lemmas on how each step changes `Others` and its cardinality: a broadcast
moves a payment from its worker to the mempool slot, a block removes it and takes
at most an `Overlap`, a new judgement makes the old fresh payment one of the others.

`FundedRunSafety` proves `FundedRunIsCovered` for requests of any length. By itself
it says nothing of the lines after the next one, so `FundedCovered` carries the whole
rest of the run: above the reserve, the balance of a funded run, with what the estimate
of the run left out (`Unforeseen`), covers every line still to be paid and the one in the
mempool, each with its fee. A step takes one line out of that sum, which needs the lemmas
of `SumProofs`; at line k, the fees from k on cancel against what was left out, and only
those of the k - 1 lines before remain (`LeftOutSplits`). `FundedRunCompletes` is the
case that nothing was left out: under the hypothesis `FixedFee = Fee` every line passes
its preflight on the balance as it is.

### Sums

`SumFunctionOnSet` is a fold: a recursive function that takes one chosen index at a
time. `SumProofs` proves that the choice does not matter (`SumTakesOut`: any one index can
be taken out first), that sums over disjoint sets add up, and that renaming the
indices one to one changes nothing. Induction over finite sets is not available as a
theorem about an operator, so the property is given as a set of subsets and the
induction goes by least counterexample (`NumberInduction`).

### SettlementRun

`SettlementRunProofs`: `RunTypeSafety`, `RunLockSafety`, `FinalRunSafety`,
`ReportedLinesSafety`, `OkRunSafety`, `FinalRunSettledSafety`, for every set of
runners, runs, items, bodies and requests. The inductive invariant has three parts:

1. `TypeInv`: the type invariant with `Placed`, a runner at an item has a line left
   and its results are of ready lines;
2. `LockInv`: a runner inside the lock of an uncontested run owns it (`LockHeld`), and
   works on a run that is not final (`WorksOnOpenRun`). `FinalRunIsKept` is the second
   part seen from the record: only the owner writes, and it found the run open;
3. `ItemInv`: what a runner holds (`ResultsTrue`) and a record says (`RecordsTrue`) of
   a line is what the record of its item says. `Follows` is what a step may do to an
   item record: nothing, tear it, write the first, or replace one that asked for a
   retry by another of its payload. Truth survives each of these, which is why a run
   record stays true long after its run has ended.

`RunResultsProofs` has the lemmas about the counts behind
`deriveSettlementRunStatus`: a count that reaches the number of requested lines
counts every line (`OkMeansAll`).

### Challenge

`ChallengeProofs`, for every set of settlers, deposits, requests and every choice of
faults, start balances, floors and fee:

* `BooksSafety`: `TypeInv /\ Books`. That balances stay naturals is not inductive.
  `Books` adds that at most one transaction of a signer is pending, that its record
  is there to stay and that the balance covers it, and that a top-up that was taken
  has a record which is not retryable. `ChallengeTypeSafety` and `TopUpSafety` follow;
* `TruthSafety`: `Truth`, what attempts hold in memory, run records and challenge
  records say of a transfer is what its request record says. `ReportedTransfersSafety`
  follows, and `OkChallengeSafety`: the plan compared sums of buckets, the run paid
  request ids, and for a stored ok the two are the same set of lines. The sum over the
  lines of a deposit is carried over to the sum over its payments by renaming;
* `ChallengeLockSafety`: `LockInv`, an attempt inside the lock of an uncontested id
  owns the lock, and past its read works on a record that is not final.
  `FinalChallengeSafety` follows.

### ChallengeAudit

`ChallengeAuditProofs` begins with `AuditImplementsChallenge`: an audit only reads, so
every theorem about `Challenge` holds beside it. Then:

* `RecordsSafety`: a transaction the node took has a record with its hash (`Sent`), and
  a stored challenge has the form of the stage its plan reached (`Shapes`);
* `RunsSafety`: a challenge stored as ok has a final run record that says the same;
* `AuditRecordSafety`: the snapshot is such a record, and an audit past its first step
  has deposits whose buckets are allocated; `AuditTypeSafety` follows;
* `AuditedSafety`: what the audit has passed is in a block with a record for it, and,
  unless something it reads has changed, what is not reported was not paid. The first
  half survives any overlap, because a transaction in a block and a record with a hash
  do not change; the second does not, which is the reason for the condition in
  `OkAuditMissesNoPayment`. `OkAuditSafety` and `MissedPaymentSafety` follow;
* `NoFalseAlarmSafety`: each check in turn passes for a settled challenge.

### Funding

`FundingProofs`, for every set of transactions and filters and every limit, factor,
cap and modulus: `FundingTypeSafety`, `ListedSafety`, `BackedSafety`, `PollingSafety`.
`AllStand` is the invariant behind the first two: every funding ever listed is a
transfer on chain that the poll wants. Transactions never leave the chain, so it
remains one; and from the expectations it was listed with it follows that
`matchSettlementTransfer` picks a transfer of the same sender and amount, hence the
same funding. `BackedSafety` holds of any chain that `TxsAssumption` allows. `PollingSafety` is a counting argument. A new deposit is behind newer
ones only, all of them in `NewTransfers`, so fewer than the search limit precede it,
in transactions and in deposits (`NewDepositFound`), and fewer than `Limit` wanted
ones do (`NewDepositListed`).

### Assumptions

Besides the types and sizes of constants, the theorems use:

* special values are distinct from the values they stand beside: `HashAssumption`,
  `LockAssumption`, `NilAssumption`, `NamesAssumption`, `RecordsAssumption` (a missing
  or torn record is no record), `EmptyAssumption`;
* `BalancesAssumption`, `AmountsAssumption` of `Reserve`: the supply is below 2^64,
  `MaxAmount` is the largest amount it covers;
* `FeesAssumption` of `Reserve` and `Challenge`: the fixed fee is what a transaction
  costs, or there is none (`--fees` is paid as it is);
* `RequestsAssumption` of `SettlementRun`: a request without lines is not valid
  (`prepareSettlementRunRequest` refuses it);
* `TxsAssumption`: a failed transaction has no transfer into escrow and no logs, and a
  transfer has a sender (`extractSettlementTransfersFromLogsAndEvents` skips the
  others); `EmptyAssumption`: an escrow address is configured (every call is refused
  with `ESCROW_UNCONFIGURED` otherwise).

### What stays with TLC

* `EveryAttemptEnds`: liveness under fairness is out of this prover's reach.
* The five violation runs: a counterexample is a behaviour, and TLC shows it.
* That the abstractions at the seams fit: `SettlementRun` and `Challenge` use the rail
  as one step that does what `RequestRail` promises, and `Challenge` uses runs that
  way. Each of these modules is proved by itself; that their composition is the
  program is an argument of this text, not a theorem.

## Not modelled

* Inspection and recent listings of records, routing, CLI flags, formatting: they
  keep no state and decide nothing. Parsing and display of one amount is a
  sequential string function.
* `topUpPayoutSignerForSettlementRun` and the escrow top-up of a run: dead code,
  `shouldAttemptSettlementRunEscrowTopUp` returns false.
* `x/wolochain`: its parameters have no fields; `UpdateParams` is an authority check
  and a store of the empty record.
* The shared `.tmp` path of two writers of one record: possible only after a lock
  takeover; the torn outcome is the `Unreadable` record of the models.
* A lock file that exists and can never be removed (wrong owner): the recursion
  of `withRequestLock` would not end.
* Node directories of the testnet commands, Cosmos wiring, shell scripts.

## Plan

Every invariant and action property of the passing runs is stated by a theorem; what
is left is beyond them.

1. Proofs: that the item steps of `SettlementRun` implement an abstract rail for the
   ids that are not forfeited, so that the seam between the two is a theorem.
2. `Challenge` across settlement ids: shared request ids, and whether retries of a
   partly paid challenge can complete it.
3. Liveness of runs and challenges; with three attempts the state graphs are too
   large for it, a smaller instance would do.
4. Backup and restore of the state directory: which record sets a restore may leave.
