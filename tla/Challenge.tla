------------------------------ MODULE Challenge ------------------------------
(***************************************************************************)
(* Challenge settlements: executeSettlementChallenge.  A request names the *)
(* escrow deposits that funded a challenge and the transfers that allocate *)
(* their wager and guarantee buckets.                                      *)
(*                                                                         *)
(*   plan -> challenge lock -> read record -> escrow top-up -> grouped run *)
(*   -> write record -> remove challenge lock                              *)
(*                                                                         *)
(* The top-up and the lines of the run go through the request-level rail,  *)
(* used through what RequestRail establishes for the ids it keeps track    *)
(* of: one attempt at an id at a time, and a record after it.  (Ids it     *)
(* loses track of are RequestRail's subject.)  The run is entered in one   *)
(* step; what happens between its own steps is SettlementRun's subject.    *)
(***************************************************************************)
EXTENDS RunResults, Sequences, FiniteSetsExt

CONSTANTS
  Settlers,     \* handler goroutines and CLI processes
  Ids,          \* settlement ids
  Items,        \* request ids of transfers
  Deposits,     \* escrow deposits on chain: the total and the buckets of their memos
  Requests,     \* the challenge requests clients submit
  NoJob, NoLock, NoRecord, Unreadable,
  AutoTopUp,    \* WOLO_SETTLEMENT_ESCROW_AUTO_TOP_UP_ENABLED
  Floor,        \* the larger of reserve floor and fee headroom of the payout signer
  EscrowFloor,  \* the same of the escrow signer
  Fee,          \* what a transaction costs its signer: the fixed fee, or one by gas prices
  FixedFee,     \* WOLO_SETTLEMENT_FEES in uwolo; 0 when it is unset (the default), is
                \*   not a list of coins or names no uwolo
  PayoutStart, EscrowStart, \* balances at the start
  Faults,       \* which of FaultKinds may happen in this instance
  MaxSubmits,   \* bound: attempts submitted over the whole behaviour
  MaxCrashes    \* bound: crashes and power losses over the whole behaviour

Buckets == {"wager", "guarantee"}

FaultKinds == {"crash",         \* a settler dies
               "power_loss",    \* the host dies, the challenge record may be torn
               "item_error",    \* the rail returns an error instead of a response
               "write_failed",  \* the challenge record or lock cannot be written
               "slow",          \* an attempt outlives RequestLockTTL
               "lookup_failed", \* a funding lookup fails, or the deposit is not indexed yet
               "confirm_failed", \* a broadcast transaction cannot be looked up to confirm it
               "block_failed",  \* an accepted transaction fails in its block
               "refusals"}      \* health, signer or broadcast refuse

(* A transfer that normalizeSettlementChallengeTransfer or the treasury    *)
(* rule refuses has good = FALSE; a request whose header does not validate *)
(* has valid = FALSE.                                                      *)
Transfers == [item : Items, party : {d.party : d \in Deposits}, bucket : Buckets,
              amount : Nat, good : BOOLEAN]

ASSUME DepositsAssumption ==
  \A d \in Deposits : {d.total, d.wager, d.guarantee} \subseteq Nat
ASSUME RequestsAssumption ==
  \A req \in Requests :
     /\ req.id \in Ids
     /\ req.valid \in BOOLEAN
     /\ req.funding \in Seq(Deposits)
     /\ req.transfers \in Seq(Transfers)
     /\ req.funding = << >> \/ req.transfers = << >> => ~req.valid
ASSUME AmountsAssumption ==
  {Floor, EscrowFloor, Fee, PayoutStart, EscrowStart, MaxSubmits, MaxCrashes} \subseteq Nat
ASSUME FeesAssumption == FixedFee \in {0, Fee} \* --fees is paid as it is, whatever the gas
ASSUME SwitchesAssumption == AutoTopUp \in BOOLEAN /\ Faults \subseteq FaultKinds
ASSUME NilAssumption == NoLock \notin Settlers /\ NoJob \notin Requests
ASSUME NamesAssumption == Ids \cap Items = {}

-----------------------------------------------------------------------------
(* buildSettlementChallengePlan.                                           *)

Lines(req) == DOMAIN req.transfers

(* A funding line is the deposit it names; one whose expectations differ   *)
(* from the memo (compareChallengeFundingExpectation) is one that does not *)
(* verify.                                                                 *)
Funded(req) == {req.funding[k] : k \in DOMAIN req.funding}

(* parseChallengeFundingResult: the memo splits what was deposited into    *)
(* two buckets.                                                            *)
MemoVerifies(d) == d.wager > 0 /\ d.guarantee > 0 /\ d.wager + d.guarantee = d.total

(* validateVerifiedChallengeFundingParticipants.                           *)
ParticipantsDistinct(req) ==
  \A j, k \in DOMAIN req.funding :
     req.funding[j].party = req.funding[k].party => j = k

FundingVerifies(req) == (\A d \in Funded(req) : MemoVerifies(d)) /\ ParticipantsDistinct(req)

(* resolveChallengeFundingParticipant.                                     *)
Resolves(req, party) == \E d \in Funded(req) : d.party = party

Amounts(req) == [k \in Lines(req) |-> req.transfers[k].amount]

(* What the transfers of a request allocate of a bucket of a deposit.      *)
Allocated(req, d, bucket) ==
  SumFunctionOnSet(Amounts(req), {k \in Lines(req) : /\ req.transfers[k].good
                                                     /\ req.transfers[k].party = d.party
                                                     /\ req.transfers[k].bucket = bucket})

(* Variant: a bucket may be allocated in part.                             *)
AllocatesAtMost(req) ==
  \A d \in Funded(req) : /\ Allocated(req, d, "wager") <= d.wager
                         /\ Allocated(req, d, "guarantee") <= d.guarantee

(* validateChallengeBucketAllocation.                                      *)
AllocatesExactly(req) ==
  \A d \in Funded(req) : /\ Allocated(req, d, "wager") = d.wager
                         /\ Allocated(req, d, "guarantee") = d.guarantee

(* A line is good, names a funded participant and has an id of its own.    *)
LineValid(req, k) ==
  /\ req.transfers[k].good
  /\ Resolves(req, req.transfers[k].party)
  /\ \A j \in 1..(k - 1) : req.transfers[j].item # req.transfers[k].item

(* hasInvalidChallengeTransfers.                                           *)
TransfersValid(req) == \A k \in Lines(req) : LineValid(req, k)

(* The requested total of each request.                                    *)
Total == [req \in Requests |-> SumFunctionOnSet(Amounts(req), Lines(req))]

(* The requests whose deposits and transfers pass every check of the plan. *)
InOrder == {req \in Requests :
              req.valid /\ FundingVerifies(req) /\ AllocatesExactly(req) /\ TransfersValid(req)}

(* How much of the request buildSettlementChallengePlan had normalised     *)
(* when it returned; only that much is in the fingerprint.                 *)
Stages == {"header", "funding", "full"}

Fingerprint(req, stage) ==
  [funding   |-> IF stage = "header" THEN << >> ELSE req.funding,
   transfers |-> IF stage = "full" THEN req.transfers ELSE << >>]

(* The run a plan or a response embeds: none yet, one that was validated,  *)
(* one that could not be entered, or the status of one that was stored.    *)
EmbeddedRuns == {"none", "validated", "unavailable"} \cup RunStatuses

Plans == [ok : BOOLEAN, retryable : BOOLEAN, stage : Stages, run : EmbeddedRuns,
          topUp : Nat, required : Nat]

RefusedPlan(stage, retryable) ==
  [ok |-> FALSE, retryable |-> retryable, stage |-> stage, run |-> "none",
   topUp |-> 0, required |-> 0]

(* estimateSettlementRunFee: fees by gas prices are not estimated.         *)
EstimatedFee(req) == FixedFee * Len(req.transfers)

(* buildChallengeTopUpPlan: the payout signer needs the whole total, the   *)
(* larger of its floors and the estimated fees.                            *)
RequiredBalance(req) == Total[req] + Floor + EstimatedFee(req)
Shortfall(req, balance) ==
  IF balance < RequiredBalance(req) THEN RequiredBalance(req) - balance ELSE 0

(* buildPayoutSettlementRunPlan refuses the run until there is balance for *)
(* the whole total; below the floors the health report refuses for good.   *)
CapacityShort(req, balance) == balance >= Floor /\ balance < Total[req] + Floor

ValidatedRun(req, balance) ==
  IF balance >= Total[req] + Floor THEN "validated" ELSE "failed"

(* An accepted plan keeps the validation of the run, which was refused as  *)
(* retryable when the payout signer is short.                              *)
AcceptedPlan(req, balance) ==
  [ok |-> TRUE, retryable |-> CapacityShort(req, balance), stage |-> "full",
   run |-> ValidatedRun(req, balance),
   topUp |-> Shortfall(req, balance), required |-> RequiredBalance(req)]

-----------------------------------------------------------------------------
(* Challenge responses.                                                    *)

(* What a response says of its top-up: not required, required without an   *)
(* answer of the rail, refused without a tx hash, failed with one, or      *)
(* executed.                                                               *)
TopUpResults == {"none", "unanswered", "refused", "failed", "executed"}

(* A response without an executed run: every valid transfer is refused     *)
(* (markChallengeReadyTransfersFailed).  The response is also retryable    *)
(* when the validation of the run was.                                     *)
FailedResponse(req, p, retryable, topUpResult) ==
  [status    |-> "failed",
   lines     |-> [k \in IF p.stage = "full" THEN Lines(req) ELSE {} |->
                    IF LineValid(req, k) THEN Unattempted("refused", retryable)
                    ELSE Unattempted("invalid", FALSE)],
   retryable |-> retryable \/ p.retryable,
   run       |-> p.run,
   topUp     |-> topUpResult]

(* The cases, and their order, are those of a run.                         *)
deriveSettlementChallengeStatus(n, lines) == deriveSettlementRunStatus(n, lines)

(* Variant: the status of the plan is not cleared before it is derived.    *)
MergedValidated(req, p, runStatus, runLines, runRetryable) ==
  [status |-> "validated", lines |-> << >>, retryable |-> runRetryable, run |-> runStatus,
   topUp |-> "none"]

(* mergeChallengeRunResults and finalizeSettlementChallengeResponse.  A    *)
(* transfer the run does not report is invalid.                            *)
MergedResponse(req, p, runStatus, runLines, runRetryable) ==
  LET lines == [k \in Lines(req) |-> IF k \in DOMAIN runLines THEN runLines[k]
                                     ELSE Unattempted("invalid", FALSE)]
  IN [status    |-> deriveSettlementChallengeStatus(Len(req.transfers), lines),
      lines     |-> lines,
      retryable |-> runRetryable \/ \E k \in Lines(req) : lines[k].retryable,
      run       |-> runStatus,
      topUp     |-> IF p.topUp > 0 THEN "executed" ELSE "none"]

Responses == [status : RunStatuses, lines : Seq(LineResults), retryable : BOOLEAN,
              run : EmbeddedRuns, topUp : TopUpResults]

(* settlementChallengeResponseIsFinal.                                     *)
settlementChallengeResponseIsFinal(resp) ==
  ~resp.retryable /\ (RunOK(resp) \/ resp.status \in {"failed", "partial"})

(* The files: settlementChallengeStoredResult, settlementRunStoredResult   *)
(* and settlementStoredResult, of a transfer and of a top-up.              *)
ChallengeRecords == [fingerprint : [funding : Seq(Deposits), transfers : Seq(Transfers)],
                     resp : Responses, request : Requests]
RunRecords   == [payload : Seq(Transfers), lines : Seq(LineResults), status : RunStatuses]
ItemRecords  == [body : Transfers, resp : RailResponses]
TopUpRecords == [amount : Nat, resp : RailResponses]

ASSUME RecordsAssumption ==
  /\ {NoRecord, Unreadable} \cap (ChallengeRecords \cup RunRecords) = {}
  /\ NoRecord \notin ItemRecords \cup TopUpRecords
  /\ NoRecord # Unreadable

-----------------------------------------------------------------------------
VARIABLES
  pc,           \* where each settler is in executeSettlementChallenge
  job,          \* the request each settler works on
  plan,         \* the plan it built, before it took the challenge lock
  results,      \* the line results its run has collected
  draft,        \* the response it is about to store
  lock,         \* challenge lock file: the settler that created it, or NoLock
  stale,        \* the challenge lock file is older than RequestLockTTL
  record,       \* challenge record file
  runLock,      \* run lock file of the grouped run of the same id
  runRecord,    \* run record file of the same id
  itemRecord,   \* request record file of each transfer
  topUpRecord,  \* request record file of the top-up of each id
  payout,       \* balance of the payout signer
  escrow,       \* balance of the escrow signer
  tx,           \* what became of the transaction of each transfer and top-up
  topUps,       \* history: top-ups of each id that the node took
  contested,    \* history: ids whose lock was removed under a live attempt
  submits,
  crashes

vars == <<pc, job, plan, results, draft, lock, stale, record, runLock, runRecord, itemRecord,
          topUpRecord, payout, escrow, tx, topUps, contested, submits, crashes>>

local  == <<job, plan, results, draft>>
files  == <<lock, stale, record, contested>>
run    == <<runLock, runRecord, itemRecord>>
chain  == <<payout, escrow, tx>>
topUp  == <<topUpRecord, topUps>>
bounds == <<submits, crashes>>

Section == {"read", "topup", "await", "run", "pick", "write", "unlock"}
PCs     == {"idle", "lock", "steal"} \cup Section

NoPlan  == RefusedPlan("header", FALSE)
NoDraft == [status |-> "", lines |-> << >>, retryable |-> FALSE, run |-> "none", topUp |-> "none"]

(* A transaction that was never taken by the node is in none of its blocks *)
(* and not in its mempool; one that fails in its block pays only its fee.  *)
TxStates  == {"none", "pending", "committed", "failed", "dropped"}
paying    == {i \in Items : tx[i] = "pending"}
toppingUp == {id \in Ids : tx[id] = "pending"}

BecomesTx(name, fate) == tx' = [tx EXCEPT ![name] = fate]

InSection(s, id) == pc[s] \in Section /\ job[s].id = id
Readable(r)      == r \notin {NoRecord, Unreadable}

Goto(s, label) == pc' = [pc EXCEPT ![s] = label]

Stop(s) ==
  /\ Goto(s, "idle")
  /\ job' = [job EXCEPT ![s] = NoJob]
  /\ plan' = [plan EXCEPT ![s] = NoPlan]
  /\ results' = [results EXCEPT ![s] = << >>]
  /\ draft' = [draft EXCEPT ![s] = NoDraft]

Init ==
  /\ pc = [s \in Settlers |-> "idle"]
  /\ job = [s \in Settlers |-> NoJob]
  /\ plan = [s \in Settlers |-> NoPlan]
  /\ results = [s \in Settlers |-> << >>]
  /\ draft = [s \in Settlers |-> NoDraft]
  /\ lock = [id \in Ids |-> NoLock]
  /\ stale = [id \in Ids |-> FALSE]
  /\ record = [id \in Ids |-> NoRecord]
  /\ runLock = [id \in Ids |-> NoLock]
  /\ runRecord = [id \in Ids |-> NoRecord]
  /\ itemRecord = [i \in Items |-> NoRecord]
  /\ topUpRecord = [id \in Ids |-> NoRecord]
  /\ payout = PayoutStart
  /\ escrow = EscrowStart
  /\ tx = [name \in Items \cup Ids |-> "none"]
  /\ topUps = [id \in Ids |-> 0]
  /\ contested = {}
  /\ submits = 0
  /\ crashes = 0

-----------------------------------------------------------------------------
(* A request arrives and is planned; the plan is a snapshot of the         *)
(* deposits and balances it looked up.                                     *)

MaySubmit(s) == pc[s] = "idle" /\ submits < MaxSubmits

Submit(s, req, p) ==
  /\ submits' = submits + 1
  /\ job' = [job EXCEPT ![s] = req]
  /\ plan' = [plan EXCEPT ![s] = p]
  /\ Goto(s, "lock")
  /\ UNCHANGED <<results, draft, files, run, chain, topUp, crashes>>

(* INVALID_CHALLENGE: the header does not validate.                        *)
SubmitMalformed(s, req) ==
  /\ MaySubmit(s)
  /\ ~req.valid
  /\ Submit(s, req, RefusedPlan("header", FALSE))

(* INVALID_CHALLENGE: a deposit is not verified, for good or because its   *)
(* lookup failed, or two deposits are of one participant.                  *)
SubmitUnfunded(s, req) ==
  /\ MaySubmit(s)
  /\ req.valid
  /\ ~FundingVerifies(req) \/ "lookup_failed" \in Faults
  /\ Submit(s, req, RefusedPlan("funding", FALSE))

(* INVALID_CHALLENGE: the transfers do not allocate the deposits.          *)
SubmitMisallocated(s, req) ==
  /\ MaySubmit(s)
  /\ req.valid
  /\ FundingVerifies(req)
  /\ req \notin InOrder
  /\ Submit(s, req, RefusedPlan("full", FALSE))

(* The payout signer is short and escrow may not or cannot cover it, or    *)
(* the validation of the run refuses before it knows the balance.          *)
SubmitRefused(s, req) ==
  /\ MaySubmit(s)
  /\ req \in InOrder
  /\ \/ /\ Shortfall(req, payout) > 0
        /\ ~AutoTopUp \/ escrow < Shortfall(req, payout)
        /\ Submit(s, req, [RefusedPlan("full", TRUE) EXCEPT
                             !.run = ValidatedRun(req, payout), !.topUp = Shortfall(req, payout)])
     \/ /\ "refusals" \in Faults
        /\ \E retryable \in BOOLEAN :
             Submit(s, req, [RefusedPlan("full", retryable) EXCEPT !.run = "failed"])

SubmitFunded(s, req) ==
  /\ MaySubmit(s)
  /\ req \in InOrder
  /\ Shortfall(req, payout) > 0 => AutoTopUp /\ escrow >= Shortfall(req, payout)
  /\ Submit(s, req, AcceptedPlan(req, payout))

-----------------------------------------------------------------------------
(* withChallengeLock.                                                      *)

(* Variant: os.OpenFile without O_EXCL.                                    *)
CreateLockShared(s) ==
  /\ pc[s] = "lock"
  /\ lock' = [lock EXCEPT ![job[s].id] = s]
  /\ stale' = [stale EXCEPT ![job[s].id] = FALSE]
  /\ Goto(s, "read")
  /\ UNCHANGED <<local, record, contested, run, chain, topUp, bounds>>

CreateLock(s) ==
  /\ pc[s] = "lock"
  /\ lock[job[s].id] = NoLock
  /\ lock' = [lock EXCEPT ![job[s].id] = s]
  /\ stale' = [stale EXCEPT ![job[s].id] = FALSE]
  /\ Goto(s, "read")
  /\ UNCHANGED <<local, record, contested, run, chain, topUp, bounds>>

(* CHALLENGE_IN_PROGRESS, or an error of the file system.                  *)
LockFails(s) ==
  /\ pc[s] = "lock"
  /\ \/ lock[job[s].id] # NoLock /\ ~stale[job[s].id]
     \/ "write_failed" \in Faults
  /\ Stop(s)
  /\ UNCHANGED <<files, run, chain, topUp, bounds>>

StatStale(s) ==
  /\ pc[s] = "lock"
  /\ lock[job[s].id] # NoLock
  /\ stale[job[s].id]
  /\ Goto(s, "steal")
  /\ UNCHANGED <<local, files, run, chain, topUp, bounds>>

RemoveStale(s) ==
  LET id == job[s].id IN
  /\ pc[s] = "steal"
  /\ lock' = [lock EXCEPT ![id] = NoLock]
  /\ stale' = [stale EXCEPT ![id] = FALSE]
  /\ contested' = contested \cup {i \in {id} : \E v \in Settlers : InSection(v, i)}
  /\ Goto(s, "lock")
  /\ UNCHANGED <<local, record, run, chain, topUp, bounds>>

-----------------------------------------------------------------------------
(* Inside the lock: the challenge record decides.                          *)

(* IDEMPOTENCY_CONFLICT, STATE_FILE_INVALID and the stored final response. *)
Conflict(s) ==
  LET r == record[job[s].id] IN
  /\ pc[s] = "read"
  /\ Readable(r)
  /\ r.fingerprint # Fingerprint(job[s], plan[s].stage)
  /\ Goto(s, "unlock")
  /\ UNCHANGED <<local, files, run, chain, topUp, bounds>>

ReadInvalid(s) ==
  /\ pc[s] = "read"
  /\ record[job[s].id] = Unreadable
  /\ Goto(s, "unlock")
  /\ UNCHANGED <<local, files, run, chain, topUp, bounds>>

Replay(s) ==
  LET r == record[job[s].id] IN
  /\ pc[s] = "read"
  /\ Readable(r)
  /\ r.fingerprint = Fingerprint(job[s], plan[s].stage)
  /\ settlementChallengeResponseIsFinal(r.resp)
  /\ Goto(s, "unlock")
  /\ UNCHANGED <<local, files, run, chain, topUp, bounds>>

MayExecute(s) ==
  LET r == record[job[s].id] IN
  /\ pc[s] = "read"
  /\ \/ r = NoRecord
     \/ /\ Readable(r)
        /\ r.fingerprint = Fingerprint(job[s], plan[s].stage)
        /\ ~settlementChallengeResponseIsFinal(r.resp)

Answer(s, resp) ==
  /\ draft' = [draft EXCEPT ![s] = resp]
  /\ Goto(s, "write")

StoreRefusal(s) ==
  /\ MayExecute(s)
  /\ ~plan[s].ok
  /\ Answer(s, FailedResponse(job[s], plan[s], plan[s].retryable,
                              IF plan[s].topUp > 0 THEN "unanswered" ELSE "none"))
  /\ UNCHANGED <<job, plan, results, files, run, chain, topUp, bounds>>

Proceed(s) ==
  /\ MayExecute(s)
  /\ plan[s].ok
  /\ Goto(s, IF plan[s].topUp > 0 THEN "topup" ELSE "run")
  /\ UNCHANGED <<local, files, run, chain, topUp, bounds>>

-----------------------------------------------------------------------------
(* executeChallengeTopUp: a transfer of the escrow signer under a request  *)
(* id that depends on the settlement id alone.                             *)

(* Variant: every attempt at a top-up has a request id of its own.         *)
SendsTopUpAgain(s) == pc[s] = "topup"

(* Nothing is stored for the id, or a refusal of the same amount that may  *)
(* be retried.                                                             *)
SendsTopUp(s) ==
  LET t == topUpRecord[job[s].id] IN
  /\ pc[s] = "topup"
  /\ t = NoRecord \/ (t # NoRecord /\ t.amount = plan[s].topUp /\ t.resp.retryable)

(* Why checkEscrowCapacity, the account sequence or the node refuse a      *)
(* transfer of this amount from escrow; TRUE when a retry may succeed.     *)
EscrowRefusals(amount) ==
  {retryable \in BOOLEAN :
     \/ "refusals" \in Faults
     \/ retryable /\ escrow < amount + EscrowFloor
     \/ retryable /\ escrow >= amount + EscrowFloor /\ toppingUp # {}
     \/ ~retryable /\ escrow >= amount + EscrowFloor /\ toppingUp = {} /\ escrow < amount + Fee}

EscrowCanPay(amount) ==
  escrow >= amount + EscrowFloor /\ toppingUp = {} /\ escrow >= amount + Fee

Response(status, retryable, hash) == [status |-> status, retryable |-> retryable, tx |-> hash]

StoreTopUp(s, resp) ==
  topUpRecord' = [topUpRecord EXCEPT ![job[s].id] = [amount |-> plan[s].topUp, resp |-> resp]]

TookTopUp(s) == topUps' = [topUps EXCEPT ![job[s].id] = @ + 1]

(* The id is stored with another amount: IDEMPOTENCY_CONFLICT, for good.   *)
TopUpConflict(s) ==
  LET t == topUpRecord[job[s].id] IN
  /\ pc[s] = "topup"
  /\ t # NoRecord
  /\ t.amount # plan[s].topUp
  /\ Answer(s, FailedResponse(job[s], plan[s], FALSE, "refused"))
  /\ UNCHANGED <<job, plan, results, files, run, chain, topUp, bounds>>

(* The stored response of the top-up is final.                             *)
TopUpReplay(s) ==
  LET t == topUpRecord[job[s].id] IN
  /\ pc[s] = "topup"
  /\ t # NoRecord
  /\ t.amount = plan[s].topUp
  /\ ~t.resp.retryable
  /\ \/ t.resp.status = "confirmed" /\ Goto(s, "run") /\ UNCHANGED draft
     \/ t.resp.status = "accepted" /\ Goto(s, "await") /\ UNCHANGED draft
     \/ /\ t.resp.status = "failed"
        /\ Answer(s, FailedResponse(job[s], plan[s], FALSE, IF t.resp.tx THEN "failed" ELSE "refused"))
  /\ UNCHANGED <<job, plan, results, files, run, chain, topUp, bounds>>

TopUpRefused(s) ==
  /\ SendsTopUp(s)
  /\ \E retryable \in EscrowRefusals(plan[s].topUp) :
       /\ StoreTopUp(s, Response("failed", retryable, FALSE))
       /\ Answer(s, FailedResponse(job[s], plan[s], retryable, "refused"))
  /\ UNCHANGED <<job, plan, results, files, run, chain, topUps, bounds>>

TopUpConfirmed(s) ==
  /\ SendsTopUp(s)
  /\ EscrowCanPay(plan[s].topUp)
  /\ StoreTopUp(s, Response("confirmed", FALSE, TRUE))
  /\ TookTopUp(s)
  /\ escrow' = escrow - plan[s].topUp - Fee
  /\ payout' = payout + plan[s].topUp
  /\ BecomesTx(job[s].id, "committed")
  /\ Goto(s, "run")
  /\ UNCHANGED <<local, files, run, bounds>>

TopUpAccepted(s) ==
  /\ SendsTopUp(s)
  /\ EscrowCanPay(plan[s].topUp)
  /\ StoreTopUp(s, Response("accepted", FALSE, TRUE))
  /\ TookTopUp(s)
  /\ BecomesTx(job[s].id, "pending")
  /\ Goto(s, "await")
  /\ UNCHANGED <<local, files, run, payout, escrow, bounds>>

(* A tx hash with a code: the node refused the transaction, or took it and *)
(* it failed in its block, where only the fee is gone.                     *)
TopUpRejected(s) ==
  /\ SendsTopUp(s)
  /\ EscrowCanPay(plan[s].topUp)
  /\ "refusals" \in Faults
  /\ StoreTopUp(s, Response("failed", FALSE, TRUE))
  /\ \/ UNCHANGED <<escrow, tx, topUps>>
     \/ TookTopUp(s) /\ escrow' = escrow - Fee /\ BecomesTx(job[s].id, "failed")
  /\ Answer(s, FailedResponse(job[s], plan[s], FALSE, "failed"))
  /\ UNCHANGED <<job, plan, results, files, run, payout, bounds>>

(* The node took the transaction, and the lookups that should confirm it   *)
(* end in an error: the rail reports a failure, with the tx hash.          *)
TopUpMisreported(s) ==
  /\ SendsTopUp(s)
  /\ EscrowCanPay(plan[s].topUp)
  /\ "confirm_failed" \in Faults
  /\ StoreTopUp(s, Response("failed", FALSE, TRUE))
  /\ TookTopUp(s)
  /\ BecomesTx(job[s].id, "pending")
  /\ Answer(s, FailedResponse(job[s], plan[s], FALSE, "failed"))
  /\ UNCHANGED <<job, plan, results, files, run, payout, escrow, bounds>>

(* REQUEST_IN_PROGRESS: the request lock of the top-up is held by another  *)
(* attempt, or was left by one that died.                                  *)
TopUpBusy(s) ==
  /\ pc[s] = "topup"
  /\ crashes > 0 \/ \E v \in Settlers \ {s} : pc[v] = "topup" /\ job[v].id = job[s].id
  /\ Answer(s, FailedResponse(job[s], plan[s], TRUE, "refused"))
  /\ UNCHANGED <<job, plan, results, files, run, chain, topUp, bounds>>

(* An accepted top-up counts once the payout balance is seen to be enough; *)
(* otherwise ESCROW_TOP_UP_PENDING_CONFIRMATION.                           *)
BalanceReached(s) ==
  /\ pc[s] = "await"
  /\ payout >= plan[s].required
  /\ Goto(s, "run")
  /\ UNCHANGED <<local, files, run, chain, topUp, bounds>>

BalancePending(s) ==
  /\ pc[s] = "await"
  /\ payout < plan[s].required \/ "refusals" \in Faults
  /\ Answer(s, FailedResponse(job[s], plan[s], TRUE, "failed"))
  /\ UNCHANGED <<job, plan, results, files, run, chain, topUp, bounds>>

-----------------------------------------------------------------------------
(* executeSettlementRun under the settlement id, payout role.              *)

SameRun(s)  == Readable(runRecord[job[s].id]) /\ runRecord[job[s].id].payload = job[s].transfers
OtherRun(s) == Readable(runRecord[job[s].id]) /\ runRecord[job[s].id].payload # job[s].transfers
RunIsFinal(s) == SameRun(s) /\ settlementRunResponseIsFinal(runRecord[job[s].id])

(* RUN_IN_PROGRESS and the run's IDEMPOTENCY_CONFLICT report no lines.     *)
RunUnavailable(s) ==
  /\ pc[s] = "run"
  /\ \/ runLock[job[s].id] # NoLock /\ Answer(s, MergedResponse(job[s], plan[s], "unavailable", << >>, TRUE))
     \/ /\ runLock[job[s].id] = NoLock /\ OtherRun(s)
        /\ Answer(s, MergedResponse(job[s], plan[s], "unavailable", << >>, FALSE))
  /\ UNCHANGED <<job, plan, results, files, run, chain, topUp, bounds>>

RunReplay(s) ==
  /\ pc[s] = "run"
  /\ runLock[job[s].id] = NoLock
  /\ RunIsFinal(s)
  /\ LET r == runRecord[job[s].id] IN Answer(s, MergedResponse(job[s], plan[s], r.status, r.lines, FALSE))
  /\ UNCHANGED <<job, plan, results, files, run, chain, topUp, bounds>>

StoreRun(s, lines, status) ==
  runRecord' = [runRecord EXCEPT ![job[s].id] =
                  [payload |-> job[s].transfers, lines |-> lines, status |-> status]]

(* The plan of the run is made again, with the balance of now, and its     *)
(* refusal is stored over what the run record said.                        *)
RunRefused(s) ==
  /\ pc[s] = "run"
  /\ runLock[job[s].id] = NoLock
  /\ ~OtherRun(s) /\ ~RunIsFinal(s)
  /\ \E retryable \in BOOLEAN :
       LET lines == [k \in Lines(job[s]) |-> Unattempted("refused", retryable)] IN
       /\ \/ "refusals" \in Faults
          \/ ~retryable /\ payout < Floor
          \/ retryable /\ CapacityShort(job[s], payout)
       /\ StoreRun(s, lines, "failed")
       /\ Answer(s, MergedResponse(job[s], plan[s], "failed", lines, retryable))
  /\ UNCHANGED <<job, plan, results, files, runLock, itemRecord, chain, topUp, bounds>>

RunProceeds(s) ==
  /\ pc[s] = "run"
  /\ runLock[job[s].id] = NoLock
  /\ ~OtherRun(s) /\ ~RunIsFinal(s)
  /\ payout >= Total[job[s]] + Floor
  /\ runLock' = [runLock EXCEPT ![job[s].id] = s]
  /\ Goto(s, "pick")
  /\ UNCHANGED <<local, files, runRecord, itemRecord, chain, topUp, bounds>>

(* The lines, in order, through the request rail.                          *)
Current(s) == Len(results[s]) + 1
Line(s)    == job[s].transfers[Current(s)]
Stored(s)  == itemRecord[Line(s).item]
AtLine(s)  == pc[s] = "pick" /\ Current(s) \in Lines(job[s])

Collect(s, line) == results' = [results EXCEPT ![s] = Append(@, line)]

(* Variant: a stored response is replayed whatever its payload was.        *)
ItemConflictReplayed(s) ==
  /\ AtLine(s)
  /\ Stored(s) # NoRecord
  /\ Stored(s).body # Line(s)
  /\ Collect(s, Attempted(Stored(s).resp.status, "idempotent_replay", FALSE))
  /\ UNCHANGED <<pc, job, plan, draft, files, run, chain, topUp, bounds>>

ItemConflict(s) ==
  /\ AtLine(s)
  /\ Stored(s) # NoRecord
  /\ Stored(s).body # Line(s)
  /\ Collect(s, Attempted("failed", "refused", FALSE))
  /\ UNCHANGED <<pc, job, plan, draft, files, run, chain, topUp, bounds>>

ItemReplay(s) ==
  /\ AtLine(s)
  /\ Stored(s) # NoRecord
  /\ Stored(s).body = Line(s)
  /\ ~Stored(s).resp.retryable
  /\ Collect(s, Attempted(Stored(s).resp.status, "idempotent_replay", FALSE))
  /\ UNCHANGED <<pc, job, plan, draft, files, run, chain, topUp, bounds>>

SendsItem(s) ==
  /\ AtLine(s)
  /\ Stored(s) = NoRecord \/ (Stored(s) # NoRecord /\ Stored(s).body = Line(s) /\ Stored(s).resp.retryable)

StoreItem(s, resp) ==
  /\ itemRecord' = [itemRecord EXCEPT ![Line(s).item] = [body |-> Line(s), resp |-> resp]]
  /\ Collect(s, Attempted(resp.status, Outcome(resp), resp.retryable))

(* Why the health report, checkPayoutCapacity, the account sequence or the *)
(* node refuse a payout of this amount.                                    *)
PayoutRefusals(amount) ==
  {retryable \in BOOLEAN :
     \/ "refusals" \in Faults
     \/ ~retryable /\ payout < Floor
     \/ retryable /\ payout >= Floor /\ payout < amount + Floor
     \/ retryable /\ payout >= amount + Floor /\ paying # {}
     \/ ~retryable /\ payout >= amount + Floor /\ paying = {} /\ payout < amount + Fee}

PayoutCanPay(amount) ==
  payout >= amount + Floor /\ paying = {} /\ payout >= amount + Fee

ItemRefused(s) ==
  /\ SendsItem(s)
  /\ \E retryable \in PayoutRefusals(Line(s).amount) :
       StoreItem(s, Response("failed", retryable, FALSE))
  /\ UNCHANGED <<pc, job, plan, draft, files, runLock, runRecord, chain, topUp, bounds>>

ItemConfirmed(s) ==
  /\ SendsItem(s)
  /\ PayoutCanPay(Line(s).amount)
  /\ StoreItem(s, Response("confirmed", FALSE, TRUE))
  /\ payout' = payout - Line(s).amount - Fee
  /\ BecomesTx(Line(s).item, "committed")
  /\ UNCHANGED <<pc, job, plan, draft, files, runLock, runRecord, escrow, topUp, bounds>>

ItemAccepted(s) ==
  /\ SendsItem(s)
  /\ PayoutCanPay(Line(s).amount)
  /\ StoreItem(s, Response("accepted", FALSE, TRUE))
  /\ BecomesTx(Line(s).item, "pending")
  /\ UNCHANGED <<pc, job, plan, draft, files, runLock, runRecord, payout, escrow, topUp, bounds>>

(* Likewise for an item.                                                   *)
ItemRejected(s) ==
  /\ SendsItem(s)
  /\ PayoutCanPay(Line(s).amount)
  /\ "refusals" \in Faults
  /\ StoreItem(s, Response("failed", FALSE, TRUE))
  /\ \/ UNCHANGED <<payout, tx>>
     \/ payout' = payout - Fee /\ BecomesTx(Line(s).item, "failed")
  /\ UNCHANGED <<pc, job, plan, draft, files, runLock, runRecord, escrow, topUp, bounds>>

ItemMisreported(s) ==
  /\ SendsItem(s)
  /\ PayoutCanPay(Line(s).amount)
  /\ "confirm_failed" \in Faults
  /\ StoreItem(s, Response("failed", FALSE, TRUE))
  /\ BecomesTx(Line(s).item, "pending")
  /\ UNCHANGED <<pc, job, plan, draft, files, runLock, runRecord, payout, escrow, topUp, bounds>>

(* REQUEST_IN_PROGRESS: the request lock of the item is held.              *)
ItemBusy(s) ==
  /\ AtLine(s)
  /\ crashes > 0 \/ \E v \in Settlers \ {s} : AtLine(v) /\ Line(v).item = Line(s).item
  /\ Collect(s, Attempted("failed", "refused", TRUE))
  /\ UNCHANGED <<pc, job, plan, draft, files, run, chain, topUp, bounds>>

(* An error of the top-up's or an item's rail: neither the run nor the     *)
(* challenge writes a record.                                              *)
RailError(s) ==
  /\ "item_error" \in Faults
  /\ pc[s] = "topup" \/ AtLine(s)
  /\ runLock' = [id \in Ids |-> IF runLock[id] = s THEN NoLock ELSE runLock[id]]
  /\ Goto(s, "unlock")
  /\ UNCHANGED <<local, files, runRecord, itemRecord, chain, topUp, bounds>>

RunEnds(s) ==
  LET status == deriveSettlementRunStatus(Len(job[s].transfers), results[s]) IN
  /\ pc[s] = "pick"
  /\ Len(results[s]) = Len(job[s].transfers)
  /\ StoreRun(s, results[s], status)
  /\ runLock' = [runLock EXCEPT ![job[s].id] = NoLock]
  /\ Answer(s, MergedResponse(job[s], plan[s], status, results[s],
                              \E k \in Lines(job[s]) : results[s][k].retryable))
  /\ UNCHANGED <<job, plan, results, files, itemRecord, chain, topUp, bounds>>

-----------------------------------------------------------------------------
(* writeSettlementChallengeStoredResult and the deferred os.Remove.  The   *)
(* request of a record is history.                                         *)

WriteChallenge(s) ==
  /\ pc[s] = "write"
  /\ record' = [record EXCEPT ![job[s].id] =
       [fingerprint |-> Fingerprint(job[s], plan[s].stage), resp |-> draft[s], request |-> job[s]]]
  /\ Goto(s, "unlock")
  /\ UNCHANGED <<local, lock, stale, contested, run, chain, topUp, bounds>>

WriteFails(s) ==
  /\ pc[s] = "write"
  /\ "write_failed" \in Faults
  /\ Goto(s, "unlock")
  /\ UNCHANGED <<local, files, run, chain, topUp, bounds>>

Unlock(s) ==
  /\ pc[s] = "unlock"
  /\ lock' = [lock EXCEPT ![job[s].id] = NoLock]
  /\ stale' = [stale EXCEPT ![job[s].id] = FALSE]
  /\ Stop(s)
  /\ UNCHANGED <<record, contested, run, chain, topUp, bounds>>

-----------------------------------------------------------------------------
(* The environment: time, the chain, crashes.                              *)

(* A lock gets old when its settler is dead, or spends its time waiting    *)
(* for the lines of a long run.                                            *)
AgeLock(id) ==
  /\ lock[id] # NoLock
  /\ ~stale[id]
  /\ \A s \in Settlers : InSection(s, id) => "slow" \in Faults /\ pc[s] = "pick"
  /\ stale' = [stale EXCEPT ![id] = TRUE]
  /\ UNCHANGED <<pc, local, lock, record, contested, run, chain, topUp, bounds>>

(* A run lock that a dead settler left gets old and is taken over.         *)
ExpireRunLock(id) ==
  /\ runLock[id] # NoLock
  /\ ~ \E s \in Settlers : pc[s] = "pick" /\ job[s].id = id
  /\ runLock' = [runLock EXCEPT ![id] = NoLock]
  /\ UNCHANGED <<pc, local, files, runRecord, itemRecord, chain, topUp, bounds>>

(* A transaction in the mempool is committed, fails in its block, or is    *)
(* dropped.                                                                *)
SettleItem(i) ==
  /\ i \in paying
  /\ \/ BecomesTx(i, "committed") /\ payout' = payout - itemRecord[i].body.amount - Fee
     \/ "block_failed" \in Faults /\ BecomesTx(i, "failed") /\ payout' = payout - Fee
     \/ BecomesTx(i, "dropped") /\ UNCHANGED payout
  /\ UNCHANGED <<pc, local, files, run, escrow, topUp, bounds>>

SettleTopUp(id) ==
  /\ id \in toppingUp
  /\ \/ BecomesTx(id, "dropped") /\ UNCHANGED <<payout, escrow>>
     \/ /\ "block_failed" \in Faults
        /\ BecomesTx(id, "failed")
        /\ escrow' = escrow - Fee
        /\ UNCHANGED payout
     \/ /\ BecomesTx(id, "committed")
        /\ payout' = payout + topUpRecord[id].amount
        /\ escrow' = escrow - topUpRecord[id].amount - Fee
  /\ UNCHANGED <<pc, local, files, run, topUp, bounds>>

(* A settler that dies before it has the lock leaves no trace.             *)
Crash(s) ==
  /\ "crash" \in Faults
  /\ crashes < MaxCrashes
  /\ pc[s] \in Section
  /\ crashes' = crashes + 1
  /\ Stop(s)
  /\ UNCHANGED <<files, run, chain, topUp, submits>>

(* The host dies; a challenge record was renamed without fsync.            *)
PowerLoss ==
  /\ "power_loss" \in Faults
  /\ crashes < MaxCrashes
  /\ crashes' = crashes + 1
  /\ pc' = [s \in Settlers |-> "idle"]
  /\ job' = [s \in Settlers |-> NoJob]
  /\ plan' = [s \in Settlers |-> NoPlan]
  /\ results' = [s \in Settlers |-> << >>]
  /\ draft' = [s \in Settlers |-> NoDraft]
  /\ \E torn \in SUBSET {id \in Ids : Readable(record[id])} :
       record' = [id \in Ids |-> IF id \in torn THEN Unreadable ELSE record[id]]
  /\ UNCHANGED <<lock, stale, contested, run, chain, topUp, submits>>

Arrive(s) ==
  \E req \in Requests :
     \/ SubmitMalformed(s, req)
     \/ SubmitUnfunded(s, req)
     \/ SubmitMisallocated(s, req)
     \/ SubmitRefused(s, req)
     \/ SubmitFunded(s, req)

Enter(s) ==
  \/ CreateLock(s) \/ LockFails(s) \/ StatStale(s) \/ RemoveStale(s)
  \/ Conflict(s) \/ ReadInvalid(s) \/ Replay(s) \/ StoreRefusal(s) \/ Proceed(s)

FundSigner(s) ==
  \/ TopUpConflict(s) \/ TopUpReplay(s) \/ TopUpRefused(s)
  \/ TopUpConfirmed(s) \/ TopUpAccepted(s) \/ TopUpRejected(s) \/ TopUpMisreported(s)
  \/ TopUpBusy(s)
  \/ BalanceReached(s) \/ BalancePending(s)

ExecuteRun(s) ==
  \/ RunUnavailable(s) \/ RunReplay(s) \/ RunRefused(s) \/ RunProceeds(s)
  \/ ItemConflict(s) \/ ItemReplay(s) \/ ItemRefused(s)
  \/ ItemConfirmed(s) \/ ItemAccepted(s) \/ ItemRejected(s) \/ ItemMisreported(s)
  \/ ItemBusy(s) \/ RailError(s) \/ RunEnds(s)

Leave(s) == WriteChallenge(s) \/ WriteFails(s) \/ Unlock(s)

Environment ==
  \/ \E id \in Ids : AgeLock(id) \/ ExpireRunLock(id) \/ SettleTopUp(id)
  \/ \E i \in Items : SettleItem(i)
  \/ \E s \in Settlers : Crash(s)
  \/ PowerLoss

Next ==
  \/ \E s \in Settlers : Arrive(s) \/ Enter(s) \/ FundSigner(s) \/ ExecuteRun(s) \/ Leave(s)
  \/ Environment

Spec == Init /\ [][Next]_vars

-----------------------------------------------------------------------------
(* Every variable has its type; in particular no balance is overdrawn      *)
(* (preflightExecution, preflightEscrowSigner and the node's check).       *)
TypeOK ==
  /\ pc \in [Settlers -> PCs]
  /\ job \in [Settlers -> Requests \cup {NoJob}]
  /\ \A s \in Settlers : job[s] = NoJob <=> pc[s] = "idle"
  /\ plan \in [Settlers -> Plans]
  /\ results \in [Settlers -> Seq(LineResults)]
  /\ draft \in [Settlers -> Responses]
  /\ lock \in [Ids -> Settlers \cup {NoLock}]
  /\ stale \in [Ids -> BOOLEAN]
  /\ record \in [Ids -> ChallengeRecords \cup {NoRecord, Unreadable}]
  /\ runLock \in [Ids -> Settlers \cup {NoLock}]
  /\ runRecord \in [Ids -> RunRecords \cup {NoRecord}]
  /\ itemRecord \in [Items -> ItemRecords \cup {NoRecord}]
  /\ topUpRecord \in [Ids -> TopUpRecords \cup {NoRecord}]
  /\ payout \in Nat /\ escrow \in Nat
  /\ tx \in [Items \cup Ids -> TxStates]
  /\ contested \subseteq Ids
  /\ topUps \in [Ids -> Nat]
  /\ submits \in 0..MaxSubmits /\ crashes \in 0..MaxCrashes

Recorded(id) == Readable(record[id])

(* The rail executed this transfer, with this payload.                     *)
Paid(transfer) ==
  /\ itemRecord[transfer.item] # NoRecord
  /\ itemRecord[transfer.item].body = transfer
  /\ Executed(itemRecord[transfer.item].resp)

(* A challenge stored as ok has paid out every bucket of every deposit it  *)
(* was funded with, exactly: the amounts the rail executed under distinct  *)
(* request ids add up to its buckets, and the buckets to what it brought   *)
(* to escrow ("allocates each verified bucket exactly once",               *)
(* executeSettlementChallenge).                                            *)
OkChallengePaysEveryBucket ==
  \A id \in Ids : Recorded(id) /\ RunOK(record[id].resp) =>
     LET req == record[id].request
         PaidOf(d, bucket) ==
           SumFunctionOnSet([t \in Range(req.transfers) |-> t.amount],
                            {t \in Range(req.transfers) :
                               t.party = d.party /\ t.bucket = bucket /\ Paid(t)})
     IN \A d \in Funded(req) : /\ PaidOf(d, "wager") = d.wager
                               /\ PaidOf(d, "guarantee") = d.guarantee
                               /\ PaidOf(d, "wager") + PaidOf(d, "guarantee") = d.total

(* A transfer that a stored challenge reports as executed was executed by  *)
(* the rail with this transfer's payload, also after a crash left a run    *)
(* half done and another payload was submitted under the same ids          *)
(* (mergeChallengeRunResults).                                             *)
ReportedTransfersAreExecuted ==
  \A id \in Ids : Recorded(id) =>
     \A k \in DOMAIN record[id].resp.lines :
        Executed(record[id].resp.lines[k]) => Paid(record[id].request.transfers[k])

(* Escrow is debited at most once for a settlement id, however often the   *)
(* challenge is retried and whatever happened to the attempts              *)
(* (deriveSettlementChallengeTopUpRequestID).                              *)
EscrowTopsUpOnce == \A id \in Ids : topUps[id] <= 1

(* A final challenge record is only ever replaced by a torn file, unless   *)
(* its lock was taken from a live attempt (withChallengeLock).             *)
FinalChallengeIsKept ==
  [][\A id \in Ids \ contested' :
       Recorded(id) /\ settlementChallengeResponseIsFinal(record[id].resp)
         => record'[id] \in {record[id], Unreadable}]_vars

(* The top-up moves "the shortfall needed to make the payout signer whole  *)
(* before the grouped payout run starts": once it is on chain, no line of  *)
(* the run finds the payout signer underfunded (executeChallengeTopUp,     *)
(* preflightExecution), in an instance where nothing else spends.          *)
ToppedUpRunIsFunded ==
  \A s \in Settlers :
     SendsItem(s) /\ tx[job[s].id] = "committed" => payout >= Line(s).amount + Floor

(* A retry with the payload of the stored attempt is no conflict:          *)
(* IDEMPOTENCY_CONFLICT says "settlement_run_id already exists with        *)
(* different challenge settlement payload" (executeSettlementChallenge).   *)
ConflictMeansOtherPayload ==
  \A s \in Settlers :
     pc[s] = "read" /\ Recorded(job[s].id) /\ record[job[s].id].request = job[s]
       => record[job[s].id].fingerprint = Fingerprint(job[s], plan[s].stage)
=============================================================================
