----------------------------- MODULE RequestRail -----------------------------
(***************************************************************************)
(* The request-level payout rail of the settlement service: what           *)
(* executeSettlement (payout signer) and executeEscrowTransfer (escrow     *)
(* signer) do with one request id.  Both entry points have the same shape  *)
(* and share the lock file and the record file of the request id:          *)
(*                                                                         *)
(*   lock file -> read record -> preflight -> exec `tx bank send` ->       *)
(*   wait for confirmation -> write record -> remove lock file.            *)
(*                                                                         *)
(* A worker is one HTTP handler goroutine or one CLI process.  The only    *)
(* things workers share are the two files and the chain, so every file     *)
(* operation, every exec and every lookup is a step of its own.  The       *)
(* chain (mempool, blocks) is external to the repository and is modelled   *)
(* from how the code uses it.                                              *)
(*                                                                         *)
(* Failure codes are kept where they decide retryability; the wording of   *)
(* details, the lookup URLs and the formatted amounts are left out.        *)
(***************************************************************************)
EXTENDS Naturals, FiniteSets

CONSTANTS
  Workers,      \* handler goroutines and CLI processes
  Ids,          \* request ids
  Bodies,       \* what a normalised request asks for: to_address, amount, memo
  Hashes,       \* transaction hashes the chain can hand out
  NoHash,       \* the empty tx_hash
  NoLock,       \* the lock file does not exist
  NoRecord,     \* the record file does not exist
  Unreadable,   \* the record file exists and does not parse
  NoTx,         \* this hash has not been handed out
  NoJob,        \* what an idle worker works on
  Faults,       \* which of FaultKinds may happen in this instance
  MaxSubmits,   \* bound: attempts submitted over the whole behaviour
  MaxCrashes    \* bound: crashes and power losses over the whole behaviour

FaultKinds == {"crash",            \* a worker dies outside the in-flight window
               "crash_in_flight",  \* a worker dies after the node took its tx
               "power_loss",       \* the host dies, record files may be torn
               "output_lost",      \* the exec'd CLI is killed after the node took the tx
               "write_failed",     \* a file of the state directory cannot be written
               "lookup_failed",    \* the confirmation lookup itself fails
               "holder_stalls"}    \* a live worker outlives RequestLockTTL

ASSUME FaultsAssumption == Faults \subseteq FaultKinds
ASSUME BoundsAssumption == MaxSubmits \in Nat /\ MaxCrashes \in Nat
ASSUME HashAssumption   == NoHash \notin Hashes
ASSUME LockAssumption   == NoLock \notin Workers

-----------------------------------------------------------------------------
(* Requests, responses and records.                                        *)

Roles == {"payout", "escrow"}

(* normalizedSettlementRequest without its id; the entry point sets the    *)
(* role.  Records written before roles existed carry the role "".          *)
Requests       == [body : Bodies, role : Roles]
StoredRequests == [body : Bodies, role : Roles \cup {""}]

StoredRole(role) == IF role = "" THEN "payout" ELSE role

SameRequest(left, right) ==
  /\ left.body = right.body
  /\ StoredRole(left.role) = StoredRole(right.role)

(* settlementExecuteResponse: OK holds exactly for the statuses confirmed  *)
(* and accepted.                                                           *)
Statuses  == {"none", "confirmed", "accepted", "failed"}
Responses == [status : Statuses, retryable : BOOLEAN, tx : Hashes \cup {NoHash}]

NoResponse             == [status |-> "none", retryable |-> FALSE, tx |-> NoHash]
Refused(retryable)     == [status |-> "failed", retryable |-> retryable, tx |-> NoHash]
Reported(status, hash) == [status |-> status, retryable |-> FALSE, tx |-> hash]

OK(resp) == resp.status \in {"confirmed", "accepted"}

(* Variant: the stored tx hash is not looked at.                           *)
IsFinalIfOK(resp) == OK(resp)

(* stored.Response.OK || stored.Response.TxHash != "" || !Retryable        *)
IsFinal(resp) == OK(resp) \/ resp.tx # NoHash \/ ~resp.retryable

Records == [req : StoredRequests, resp : Responses]

(* A retryable refusal stored by a build that did not write roles.         *)
LegacyRecords == [req : [body : Bodies, role : {""}], resp : {Refused(TRUE)}]

-----------------------------------------------------------------------------
(* Why a preflight may refuse, and whether the refusal is stored as        *)
(* retryable.  Every refusal that comes out of the health report is final  *)
(* unless the RPC was unreachable; the capacity checks made after it       *)
(* repeat two of its codes and are retryable.                              *)

HealthCodes == {"RPC_UNREACHABLE", "CHAIN_ID_MISMATCH", "REST_DRIFT",
                "PAYOUT_ADDRESS_MISMATCH", "PAYOUT_BALANCE_LOOKUP_FAILED",
                "PAYOUT_FEE_HEADROOM_TOO_LOW", "PAYOUT_RESERVE_FLOOR_HIT",
                "INVALID_ESCROW_ADDRESS"}

Refusal(codes, retryable) == [code : codes, retryable : {retryable}]

PayoutRefusals ==
  Refusal(HealthCodes \ {"RPC_UNREACHABLE"}, FALSE)
    \cup Refusal({"RPC_UNREACHABLE"}, TRUE)
    \cup Refusal({"PAYOUT_SIGNER_UNCONFIGURED", "PAYOUT_SIGNER_UNAVAILABLE",
                  "INVALID_REQUEST"}, FALSE)
    \cup Refusal({"PAYOUT_BALANCE_TOO_LOW", "PAYOUT_FEE_HEADROOM_TOO_LOW",
                  "PAYOUT_RESERVE_FLOOR_HIT"}, TRUE)

EscrowRefusals ==
  Refusal({"RPC_UNREACHABLE", "ESCROW_BALANCE_LOOKUP_FAILED"}, TRUE)
    \cup Refusal({"CHAIN_ID_MISMATCH", "REST_DRIFT", "ESCROW_SIGNER_UNCONFIGURED",
                  "ESCROW_SIGNER_UNAVAILABLE", "ESCROW_ADDRESS_MISMATCH",
                  "INVALID_REQUEST"}, FALSE)
    \cup Refusal({"ESCROW_BALANCE_TOO_LOW", "ESCROW_FEE_HEADROOM_TOO_LOW",
                  "ESCROW_RESERVE_FLOOR_HIT"}, TRUE)

PreflightRefusals(role) == IF role = "payout" THEN PayoutRefusals ELSE EscrowRefusals

(* classifySettlementExecError: what an exec that printed no tx hash means. *)
ExecErrors ==
  Refusal({"INSUFFICIENT_FUNDS"}, FALSE)
    \cup Refusal({"SEQUENCE_MISMATCH", "RPC_UNREACHABLE", "BROADCAST_FAILED"}, TRUE)

(* The codes a killed or timed-out CLI can end with.                       *)
LostOutputErrors == Refusal({"RPC_UNREACHABLE", "BROADCAST_FAILED"}, TRUE)

-----------------------------------------------------------------------------
VARIABLES
  pc,         \* where each worker is in withRequestLock and its function
  job,        \* the request id and request each worker works on
  resp,       \* the response each worker has built so far
  lock,       \* lock file of each id: the worker that created it, or NoLock
  stale,      \* the lock file is older than RequestLockTTL
  record,     \* record file of each id
  txs,        \* the chain: what was broadcast under each hash, and its fate
  answers,    \* history: answers with a tx hash that callers were given
  forfeited,  \* history: ids the code lost track of (see Forfeit below)
  submits,    \* attempts submitted so far
  crashes     \* crashes so far

vars == <<pc, job, resp, lock, stale, record, txs, answers, forfeited, submits, crashes>>

files   == <<lock, stale, record>>
history == <<answers, forfeited>>
bounds  == <<submits, crashes>>

Jobs    == [id : Ids, req : Requests]
TxState == {"pending", "committed", "failed", "dropped", "rejected"}
Txs     == [id : Ids, req : Requests, state : TxState]
Answers == [id : Ids, req : Requests, status : Statuses, tx : Hashes]

ASSUME NilAssumption ==
  /\ NoRecord \notin Records
  /\ Unreadable \notin Records
  /\ NoRecord # Unreadable
  /\ NoTx \notin Txs

Section  == {"read", "preflight", "exec", "output", "confirm", "write", "unlock"}
InFlight == {"output", "confirm", "write"}
PCs      == {"idle", "lock", "stat", "steal"} \cup Section

(* Worker w runs the function guarded by the lock of id.                   *)
InSection(w, id) == pc[w] \in Section /\ job[w].id = id

(* Worker w alone knows of a transaction the node has taken for id.        *)
HoldsUnrecorded(w, id) ==
  pc[w] \in InFlight /\ job[w].id = id /\ resp[w].tx # NoHash

Goto(w, label) == pc' = [pc EXCEPT ![w] = label]

(* The worker ends: what it knew and did not write is gone.                *)
Stop(w) ==
  /\ Goto(w, "idle")
  /\ job'  = [job EXCEPT ![w] = NoJob]
  /\ resp' = [resp EXCEPT ![w] = NoResponse]

(* The function returns r; the deferred os.Remove of the lock is next.     *)
Return(w, r) ==
  /\ resp' = [resp EXCEPT ![w] = r]
  /\ Goto(w, "unlock")

(* The rail forfeits an id when it loses the outcome of a transaction the  *)
(* node took, or when it removes the lock file of a worker that is alive.  *)
Forfeit(ids) == forfeited' = forfeited \cup ids

Init ==
  /\ pc = [w \in Workers |-> "idle"]
  /\ job = [w \in Workers |-> NoJob]
  /\ resp = [w \in Workers |-> NoResponse]
  /\ lock = [id \in Ids |-> NoLock]
  /\ stale = [id \in Ids |-> FALSE]
  /\ record \in [Ids -> {NoRecord} \cup LegacyRecords]
  /\ txs = [h \in Hashes |-> NoTx]
  /\ answers = {}
  /\ forfeited = {}
  /\ submits = 0
  /\ crashes = 0

-----------------------------------------------------------------------------
(* Entering: withRequestLock.                                              *)

(* A caller submits a valid request; an invalid one is answered            *)
(* INVALID_REQUEST before any file is touched.                             *)
Submit(w, id, req) ==
  /\ pc[w] = "idle"
  /\ submits < MaxSubmits
  /\ submits' = submits + 1
  /\ job' = [job EXCEPT ![w] = [id |-> id, req |-> req]]
  /\ Goto(w, "lock")
  /\ UNCHANGED <<resp, files, txs, history, crashes>>

(* Variant: os.OpenFile without O_EXCL.                                    *)
CreateLockShared(w) ==
  /\ pc[w] = "lock"
  /\ lock' = [lock EXCEPT ![job[w].id] = w]
  /\ stale' = [stale EXCEPT ![job[w].id] = FALSE]
  /\ Goto(w, "read")
  /\ UNCHANGED <<job, resp, record, txs, history, bounds>>

(* os.OpenFile(O_CREATE|O_EXCL) succeeds.                                  *)
CreateLock(w) ==
  /\ pc[w] = "lock"
  /\ lock[job[w].id] = NoLock
  /\ lock' = [lock EXCEPT ![job[w].id] = w]
  /\ stale' = [stale EXCEPT ![job[w].id] = FALSE]
  /\ Goto(w, "read")
  /\ UNCHANGED <<job, resp, record, txs, history, bounds>>

(* os.MkdirAll or os.OpenFile fails otherwise: the caller gets a server    *)
(* error.                                                                  *)
LockFails(w) ==
  /\ pc[w] = "lock"
  /\ "write_failed" \in Faults
  /\ Stop(w)
  /\ UNCHANGED <<files, txs, history, bounds>>

(* os.OpenFile fails with ErrExist; os.Stat comes later.                   *)
LockExists(w) ==
  /\ pc[w] = "lock"
  /\ lock[job[w].id] # NoLock
  /\ Goto(w, "stat")
  /\ UNCHANGED <<job, resp, files, txs, history, bounds>>

(* The file is gone again, or younger than the TTL: REQUEST_IN_PROGRESS,   *)
(* retryable, not stored.                                                  *)
InProgress(w) ==
  /\ pc[w] = "stat"
  /\ lock[job[w].id] = NoLock \/ ~stale[job[w].id]
  /\ Stop(w)
  /\ UNCHANGED <<files, txs, history, bounds>>

StatStale(w) ==
  /\ pc[w] = "stat"
  /\ lock[job[w].id] # NoLock
  /\ stale[job[w].id]
  /\ Goto(w, "steal")
  /\ UNCHANGED <<job, resp, files, txs, history, bounds>>

(* Variant: withRequestLock again without os.Remove.                       *)
RetryStale(w) ==
  /\ pc[w] = "steal"
  /\ Goto(w, "lock")
  /\ UNCHANGED <<job, resp, files, txs, history, bounds>>

(* os.Remove(lockPath), then withRequestLock again.  Nothing ties the      *)
(* removed file to the one that was examined.                              *)
RemoveStale(w) ==
  LET id == job[w].id IN
  /\ pc[w] = "steal"
  /\ lock' = [lock EXCEPT ![id] = NoLock]
  /\ stale' = [stale EXCEPT ![id] = FALSE]
  /\ Forfeit(IF \E v \in Workers : InSection(v, id) THEN {id} ELSE {})
  /\ Goto(w, "lock")
  /\ UNCHANGED <<job, resp, record, txs, answers, bounds>>

-----------------------------------------------------------------------------
(* Inside the lock: the record decides whether anything is executed.       *)

(* The id is stored with another payload: IDEMPOTENCY_CONFLICT.            *)
ReadConflict(w) ==
  LET r == record[job[w].id] IN
  /\ pc[w] = "read"
  /\ r \in Records
  /\ ~SameRequest(r.req, job[w].req)
  /\ Return(w, Refused(FALSE))
  /\ UNCHANGED <<job, files, txs, history, bounds>>

(* The stored response is final: it is replayed and not rewritten.         *)
Replay(w) ==
  LET r == record[job[w].id] IN
  /\ pc[w] = "read"
  /\ r \in Records
  /\ SameRequest(r.req, job[w].req)
  /\ IsFinal(r.resp)
  /\ Return(w, r.resp)
  /\ UNCHANGED <<job, files, txs, history, bounds>>

(* The record does not parse: STATE_FILE_INVALID.                          *)
ReadInvalid(w) ==
  /\ pc[w] = "read"
  /\ record[job[w].id] = Unreadable
  /\ Return(w, Refused(FALSE))
  /\ UNCHANGED <<job, files, txs, history, bounds>>

(* Variant: any stored response of the same request is retried.            *)
ProceedAlways(w) ==
  LET r == record[job[w].id] IN
  /\ pc[w] = "read"
  /\ r = NoRecord \/ (r \in Records /\ SameRequest(r.req, job[w].req))
  /\ Goto(w, "preflight")
  /\ UNCHANGED <<job, resp, files, txs, history, bounds>>

(* Nothing is stored, or a retryable refusal of the same request.          *)
Proceed(w) ==
  LET r == record[job[w].id] IN
  /\ pc[w] = "read"
  /\ \/ r = NoRecord
     \/ r \in Records /\ SameRequest(r.req, job[w].req) /\ ~IsFinal(r.resp)
  /\ Goto(w, "preflight")
  /\ UNCHANGED <<job, resp, files, txs, history, bounds>>

PreflightPasses(w) ==
  /\ pc[w] = "preflight"
  /\ Goto(w, "exec")
  /\ UNCHANGED <<job, resp, files, txs, history, bounds>>

PreflightRefuses(w) ==
  /\ pc[w] = "preflight"
  /\ \E refusal \in PreflightRefusals(job[w].req.role) :
        resp' = [resp EXCEPT ![w] = Refused(refusal.retryable)]
  /\ Goto(w, "write")
  /\ UNCHANGED <<job, files, txs, history, bounds>>

-----------------------------------------------------------------------------
(* Broadcasting: exec of `tx bank send`, then waitForTxConfirmation.       *)

(* The CLI signs with the committed account sequence, so the node refuses  *)
(* it while another transaction of the same signer is in the mempool.      *)
SignerBusy(role) ==
  \E h \in Hashes : txs[h] # NoTx /\ txs[h].req.role = role /\ txs[h].state = "pending"

NewTx(w, h, state) ==
  txs' = [txs EXCEPT ![h] = [id |-> job[w].id, req |-> job[w].req, state |-> state]]

(* The node takes the transaction; the CLI has not reported yet.           *)
NodeAccepts(w) ==
  /\ pc[w] = "exec"
  /\ ~SignerBusy(job[w].req.role)
  /\ \E h \in Hashes :
       /\ txs[h] = NoTx
       /\ NewTx(w, h, "pending")
       /\ resp' = [resp EXCEPT ![w] = Reported("none", h)]
  /\ Goto(w, "output")
  /\ UNCHANGED <<job, files, history, bounds>>

(* CheckTx refuses it: a tx hash with a code, final.                       *)
NodeRejects(w) ==
  /\ pc[w] = "exec"
  /\ \E h \in Hashes :
       /\ txs[h] = NoTx
       /\ NewTx(w, h, "rejected")
       /\ resp' = [resp EXCEPT ![w] = Reported("failed", h)]
  /\ Goto(w, "write")
  /\ UNCHANGED <<job, files, history, bounds>>

(* The CLI fails before the node takes anything and prints no tx hash.     *)
ExecFails(w) ==
  /\ pc[w] = "exec"
  /\ \E e \in ExecErrors : resp' = [resp EXCEPT ![w] = Refused(e.retryable)]
  /\ Goto(w, "write")
  /\ UNCHANGED <<job, files, txs, history, bounds>>

(* RequestTimeout or a cancelled request context kills the CLI after the   *)
(* node took the transaction: the same error path as ExecFails.            *)
OutputLost(w) ==
  /\ pc[w] = "output"
  /\ "output_lost" \in Faults
  /\ \E e \in LostOutputErrors : resp' = [resp EXCEPT ![w] = Refused(e.retryable)]
  /\ Goto(w, "write")
  /\ Forfeit({job[w].id})
  /\ UNCHANGED <<job, files, txs, answers, bounds>>

(* The output parses to a tx hash with code 0.                             *)
OutputRead(w) ==
  /\ pc[w] = "output"
  /\ Goto(w, "confirm")
  /\ UNCHANGED <<job, resp, files, txs, history, bounds>>

(* Variant: a transaction that is found is taken for a success.            *)
ConfirmAnyFound(w) ==
  /\ pc[w] = "confirm"
  /\ txs[resp[w].tx].state \in {"committed", "failed"}
  /\ resp' = [resp EXCEPT ![w] = Reported("confirmed", resp[w].tx)]
  /\ Goto(w, "write")
  /\ UNCHANGED <<job, files, txs, history, bounds>>

(* A lookup finds the transaction in a block.                              *)
ConfirmFound(w) ==
  LET h == resp[w].tx IN
  /\ pc[w] = "confirm"
  /\ txs[h].state \in {"committed", "failed"}
  /\ resp' = [resp EXCEPT ![w] =
                Reported(IF txs[h].state = "committed" THEN "confirmed" ELSE "failed", h)]
  /\ Goto(w, "write")
  /\ UNCHANGED <<job, files, txs, history, bounds>>

(* Variants: a timeout is reported as a failure, or under a status of its  *)
(* own.                                                                    *)
ConfirmTimeoutAs(w, status) ==
  /\ pc[w] = "confirm"
  /\ resp' = [resp EXCEPT ![w] = Reported(status, resp[w].tx)]
  /\ Goto(w, "write")
  /\ UNCHANGED <<job, files, txs, history, bounds>>
ConfirmTimeoutFails(w)   == ConfirmTimeoutAs(w, "failed")
ConfirmTimeoutPending(w) == ConfirmTimeoutAs(w, "pending")

(* Every lookup says TX_NOT_FOUND until ConfirmTimeout (not in a block, or *)
(* not indexed yet), or the context ends between two lookups.              *)
ConfirmTimesOut(w) ==
  /\ pc[w] = "confirm"
  /\ resp' = [resp EXCEPT ![w] = Reported("accepted", resp[w].tx)]
  /\ Goto(w, "write")
  /\ UNCHANGED <<job, files, txs, history, bounds>>

(* A lookup fails in any other way (RPC_UNREACHABLE, CHAIN_ID_MISMATCH,    *)
(* LOOKUP_FAILED, also for a context that ends during the lookup):         *)
(* waitForTxConfirmation hands the failed lookup to its caller, which      *)
(* reads its zero TxSuccess as a transaction that failed.                  *)
ConfirmLookupFails(w) ==
  /\ pc[w] = "confirm"
  /\ "lookup_failed" \in Faults
  /\ resp' = [resp EXCEPT ![w] = Reported("failed", resp[w].tx)]
  /\ Goto(w, "write")
  /\ UNCHANGED <<job, files, txs, history, bounds>>

-----------------------------------------------------------------------------
(* Leaving: the record (temporary file, then rename) and the lock file.    *)

(* Variant: a record that exists is kept.                                  *)
WriteRecordOnce(w) ==
  LET id == job[w].id IN
  /\ pc[w] = "write"
  /\ record' = [record EXCEPT ![id] =
                  IF @ = NoRecord THEN [req |-> job[w].req, resp |-> resp[w]] ELSE @]
  /\ Return(w, resp[w])
  /\ UNCHANGED <<job, lock, stale, txs, history, bounds>>

WriteRecord(w) ==
  LET id == job[w].id IN
  /\ pc[w] = "write"
  /\ record' = [record EXCEPT ![id] = [req |-> job[w].req, resp |-> resp[w]]]
  /\ Return(w, resp[w])
  /\ UNCHANGED <<job, lock, stale, txs, history, bounds>>

(* The caller gets a server error and no response; the old record stays.   *)
WriteFails(w) ==
  /\ pc[w] = "write"
  /\ "write_failed" \in Faults
  /\ Forfeit({id \in Ids : HoldsUnrecorded(w, id)})
  /\ Return(w, NoResponse)
  /\ UNCHANGED <<job, files, txs, answers, bounds>>

(* The deferred os.Remove deletes whatever lock file is there by now; the  *)
(* caller gets the response.                                               *)
Unlock(w) ==
  LET id == job[w].id IN
  /\ pc[w] = "unlock"
  /\ lock' = [lock EXCEPT ![id] = NoLock]
  /\ stale' = [stale EXCEPT ![id] = FALSE]
  /\ answers' = answers \cup
       { a \in {[id |-> id, req |-> job[w].req, status |-> resp[w].status, tx |-> resp[w].tx]} :
           a.tx # NoHash }
  /\ Stop(w)
  /\ UNCHANGED <<record, txs, forfeited, bounds>>

-----------------------------------------------------------------------------
(* The environment: time, crashes, the chain.                              *)

(* RequestLockTTL passes.  Every blocking call inside the lock has a       *)
(* timeout and together they stay below the TTL, so the lock of a live     *)
(* worker gets old only if the worker stalls.                              *)
AgeLock(id) ==
  /\ lock[id] # NoLock
  /\ ~stale[id]
  /\ "holder_stalls" \in Faults \/ ~InSection(lock[id], id)
  /\ stale' = [stale EXCEPT ![id] = TRUE]
  /\ UNCHANGED <<pc, job, resp, lock, record, txs, history, bounds>>

(* A worker dies; its files stay.                                          *)
Crash(w) ==
  /\ pc[w] # "idle"
  /\ crashes < MaxCrashes
  /\ IF \E id \in Ids : HoldsUnrecorded(w, id)
     THEN "crash_in_flight" \in Faults
     ELSE "crash" \in Faults
  /\ crashes' = crashes + 1
  /\ Forfeit({id \in Ids : HoldsUnrecorded(w, id)})
  /\ Stop(w)
  /\ UNCHANGED <<files, txs, answers, submits>>

(* The host dies with every worker.  Records are renamed into place        *)
(* without being synced, so any of them may come back torn.                *)
PowerLoss(torn) ==
  /\ "power_loss" \in Faults
  /\ crashes < MaxCrashes
  /\ crashes' = crashes + 1
  /\ record' = [id \in Ids |-> IF id \in torn /\ record[id] # NoRecord
                               THEN Unreadable ELSE record[id]]
  /\ Forfeit({id \in Ids : \E w \in Workers : HoldsUnrecorded(w, id)})
  /\ pc' = [w \in Workers |-> "idle"]
  /\ job' = [w \in Workers |-> NoJob]
  /\ resp' = [w \in Workers |-> NoResponse]
  /\ UNCHANGED <<lock, stale, txs, answers, submits>>

(* A transaction in the mempool is committed, fails in its block, or is    *)
(* dropped from the mempool.                                               *)
Settle(h, state) ==
  /\ txs[h] # NoTx
  /\ txs[h].state = "pending"
  /\ txs' = [txs EXCEPT ![h].state = state]
  /\ UNCHANGED <<pc, job, resp, files, history, bounds>>

-----------------------------------------------------------------------------
Step(w) ==
  \/ CreateLock(w) \/ LockFails(w) \/ LockExists(w) \/ InProgress(w) \/ StatStale(w)
  \/ RemoveStale(w)
  \/ ReadConflict(w) \/ Replay(w) \/ ReadInvalid(w) \/ Proceed(w)
  \/ PreflightPasses(w) \/ PreflightRefuses(w)
  \/ NodeAccepts(w) \/ NodeRejects(w) \/ ExecFails(w)
  \/ OutputLost(w) \/ OutputRead(w)
  \/ ConfirmFound(w) \/ ConfirmTimesOut(w) \/ ConfirmLookupFails(w)
  \/ WriteRecord(w) \/ WriteFails(w) \/ Unlock(w)

Next ==
  \/ \E w \in Workers : Step(w)
  \/ \E w \in Workers, id \in Ids, req \in Requests : Submit(w, id, req)
  \/ \E w \in Workers : Crash(w)
  \/ \E torn \in SUBSET Ids : PowerLoss(torn)
  \/ \E id \in Ids : AgeLock(id)
  \/ \E h \in Hashes, state \in {"committed", "failed", "dropped"} : Settle(h, state)

Spec == Init /\ [][Next]_vars

(* Every call a worker blocks on has a timeout, so a live worker that can  *)
(* take a step eventually takes it.  Nothing is assumed of clients, of     *)
(* time, of the chain or of crashes.                                       *)
FairSpec == Spec /\ \A w \in Workers : WF_vars(Step(w))

-----------------------------------------------------------------------------
(* Properties.                                                             *)

(* Every variable has its type.                                            *)
TypeOK ==
  /\ pc \in [Workers -> PCs]
  /\ job \in [Workers -> Jobs \cup {NoJob}]
  /\ \A w \in Workers : pc[w] # "idle" => job[w] \in Jobs
  /\ resp \in [Workers -> Responses]
  /\ lock \in [Ids -> Workers \cup {NoLock}]
  /\ stale \in [Ids -> BOOLEAN]
  /\ record \in [Ids -> Records \cup {NoRecord, Unreadable}]
  /\ txs \in [Hashes -> Txs \cup {NoTx}]
  /\ answers \subseteq Answers
  /\ forfeited \subseteq Ids
  /\ submits \in Nat
  /\ crashes \in Nat

(* The transactions broadcast for an id.                                   *)
TxsOf(id) == {h \in Hashes : txs[h] # NoTx /\ txs[h].id = id}

(* The lock file excludes: two workers are inside the lock of one id only  *)
(* after a live worker's lock file was removed (withRequestLock).          *)
LockExcludes ==
  \A id \in Ids \ forfeited : \A v, w \in Workers :
     InSection(v, id) /\ InSection(w, id) => v = w

(* Request-level idempotency: however attempts, retries, crashes and power *)
(* losses interleave, an id gets at most one transaction unless the rail   *)
(* lost an outcome or removed a live worker's lock (executeSettlement's    *)
(* replay rule over writeSettlementRecord).                                *)
PaidAtMostOnce ==
  \A id \in Ids \ forfeited : \A g, h \in TxsOf(id) : g = h

(* The same with no excuse: what "idempotent payout rail" promises.        *)
NeverPaidTwice ==
  \A g, h \in Hashes :
     /\ txs[g] # NoTx /\ txs[g].state = "committed"
     /\ txs[h] # NoTx /\ txs[h].state = "committed"
     /\ txs[g].id = txs[h].id
     => g = h

(* What a caller was told is what is stored: an answer that carries a tx   *)
(* hash was written before it was given, and neither a replay nor a later  *)
(* attempt replaces it (record before unlock, replay without rewrite).     *)
AnswersAreStored ==
  \A a \in answers : a.id \notin forfeited =>
     \/ record[a.id] = Unreadable
     \/ /\ record[a.id] \in Records
        /\ SameRequest(record[a.id].req, a.req)
        /\ record[a.id].resp.tx = a.tx
        /\ record[a.id].resp.status = a.status

(* A stored tx hash is a transaction of that id with the stored payload,   *)
(* and a record that says confirmed is true on chain (broadcastPayout,     *)
(* waitForTxConfirmation), forfeited or not.                               *)
RecordsAreProofs ==
  \A id \in Ids : record[id] \in Records /\ record[id].resp.tx # NoHash =>
     LET h == record[id].resp.tx IN
     /\ txs[h] # NoTx
     /\ txs[h].id = id
     /\ SameRequest(record[id].req, txs[h].req)
     /\ record[id].resp.status = "confirmed" => txs[h].state = "committed"

(* A record that says failed is true as well: its transaction never moves  *)
(* money, so an operator may pay the recipient by other means.             *)
FailedMeansUnpaid ==
  \A id \in Ids : record[id] \in Records /\ record[id].resp.status = "failed"
                  /\ record[id].resp.tx # NoHash
     => txs[record[id].resp.tx].state # "committed"

(* A record with a tx hash is only ever replaced by a torn file, except    *)
(* for a forfeited id.                                                     *)
TxRecordIsFinal ==
  [][\A id \in Ids : record[id] \in Records /\ record[id].resp.tx # NoHash
                     /\ id \notin forfeited
       => record'[id] \in {record[id], Unreadable}]_vars

(* The rail implements IdempotentPayments: each broadcast is a Pay, each   *)
(* answer with a tx hash a Tell, each lost outcome a Lose, and every other *)
(* step of the code is invisible to callers.                               *)
Payments == INSTANCE IdempotentPayments
              WITH paid <- [id \in Ids |-> TxsOf(id)],
                   told <- {<<a.id, a.tx>> : a \in answers},
                   lost <- forfeited

ImplementsPayments == Payments!Spec

(* Every attempt ends, also one that meets the lock of a dead worker:      *)
(* withRequestLock's retry does not spin.                                  *)
EveryAttemptEnds == \A w \in Workers : pc[w] # "idle" ~> pc[w] = "idle"

-----------------------------------------------------------------------------
(* The inductive invariant behind the properties above.                    *)

(* A worker between Proceed and WriteRecord.                               *)
Executing == {"preflight", "exec", "output", "confirm", "write"}

(* A response exists only once the attempt has an outcome.                 *)
NoEarlyResponse ==
  \A w \in Workers :
     /\ pc[w] \in {"idle", "lock", "stat", "steal", "read", "preflight", "exec"}
          => resp[w] = NoResponse
     /\ pc[w] \in {"output", "confirm"} => resp[w].tx # NoHash

(* A worker inside the lock of a kept id owns the lock file.               *)
HolderOwnsLock ==
  \A id \in Ids \ forfeited : \A w \in Workers : InSection(w, id) => lock[id] = w

(* While a worker executes a kept id, the record knows no transaction and  *)
(* the chain at most the worker's own.                                     *)
ExecutesAlone ==
  \A id \in Ids \ forfeited : \A w \in Workers :
     pc[w] \in Executing /\ job[w].id = id =>
       /\ record[id] # Unreadable
       /\ record[id] \in Records => record[id].resp.tx = NoHash
       /\ TxsOf(id) \subseteq {resp[w].tx}

(* Every transaction of a kept id is in its record, or known to a worker   *)
(* that is about to write the record, or the record is torn.               *)
TxsAreKept ==
  \A id \in Ids \ forfeited : \A h \in TxsOf(id) :
     \/ record[id] = Unreadable
     \/ record[id] \in Records /\ record[id].resp.tx = h
     \/ \E w \in Workers : HoldsUnrecorded(w, id) /\ resp[w].tx = h

(* A worker about to answer with a transaction has it in the record.       *)
AnswerIsWritten ==
  \A w \in Workers :
     LET id == job[w].id IN
     pc[w] = "unlock" /\ resp[w].tx # NoHash /\ id \notin forfeited =>
       /\ record[id] \in Records
       /\ SameRequest(record[id].req, job[w].req)
       /\ record[id].resp.tx = resp[w].tx
       /\ record[id].resp.status = resp[w].status

(* What a worker says of a transaction is true on chain.                   *)
ResponsesAreProofs ==
  \A w \in Workers : pc[w] # "idle" /\ resp[w].tx # NoHash =>
     LET h == resp[w].tx IN
     /\ txs[h] # NoTx
     /\ txs[h].id = job[w].id
     /\ SameRequest(txs[h].req, job[w].req)
     /\ resp[w].status = "confirmed" => txs[h].state = "committed"

LockInv   == NoEarlyResponse /\ HolderOwnsLock
OnceInv   == ExecutesAlone /\ TxsAreKept /\ PaidAtMostOnce
AnswerInv == AnswerIsWritten /\ AnswersAreStored
ProofInv  == ResponsesAreProofs /\ RecordsAreProofs

(* Together these four are inductive: the lock keeps executions apart,     *)
(* which keeps the one transaction of an id accounted for, which lets an   *)
(* answer stand; what is said of a transaction is true throughout.         *)
RailInv == LockInv /\ OnceInv /\ AnswerInv /\ ProofInv
=============================================================================
