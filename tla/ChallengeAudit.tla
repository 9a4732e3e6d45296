--------------------------- MODULE ChallengeAudit ---------------------------
(***************************************************************************)
(* wolochaind settlement challenge audit: auditSettlementChallenge reads   *)
(* the stored challenge of an id and holds it against the deposits, the    *)
(* run record, the request records and the chain.  It takes no lock: the   *)
(* settlers of Challenge work on between two of its reads.                 *)
(*                                                                         *)
(* Every check that fails is one more line of the report and makes the     *)
(* audit not ok; what the later reads would add is left out, the audit     *)
(* ends at its first failed check.                                         *)
(***************************************************************************)
EXTENDS Challenge

CONSTANT MaxAudits  \* bound: audits over the whole behaviour

ASSUME AuditsAssumption == MaxAudits \in Nat

VARIABLES
  at,         \* where the audit is
  snap,       \* the challenge record it read
  cursor,     \* the transfer it looks at
  overlapped, \* history: what it reads has changed since it began
  audits

auditVars == <<at, snap, cursor, overlapped, audits>>

AuditSteps == {"none", "run", "transfers", "topup", "ok", "alarm", "error"}

Running == at \in {"run", "transfers", "topup"}

AuditInit ==
  /\ Init
  /\ at = "none"
  /\ snap = NoRecord
  /\ cursor = 1
  /\ overlapped = FALSE
  /\ audits = 0

-----------------------------------------------------------------------------
(* What the checks compare.  The normalised request of a record is what    *)
(* its fingerprint was taken of.                                           *)

StoredFunding(r)   == {r.fingerprint.funding[k] : k \in DOMAIN r.fingerprint.funding}
StoredTransfers(r) == r.fingerprint.transfers

(* auditChallengeBucketAllocation counts every stored transfer, good or    *)
(* not.                                                                    *)
AuditedAllocation(r, d, bucket) ==
  SumFunctionOnSet([k \in DOMAIN StoredTransfers(r) |-> StoredTransfers(r)[k].amount],
                   {k \in DOMAIN StoredTransfers(r) : /\ StoredTransfers(r)[k].party = d.party
                                                      /\ StoredTransfers(r)[k].bucket = bucket})

(* auditChallengeFunding, auditChallengeBucketAllocation and the totals: a *)
(* plan that ended at the header stored no funding total, one that ended   *)
(* at the funding no transfers, and the requested total leaves out the     *)
(* lines the plan found invalid.                                           *)
RecordReconciles(r) ==
  /\ StoredFunding(r) # {}
  /\ \A d \in StoredFunding(r) : /\ MemoVerifies(d)
                                 /\ AuditedAllocation(r, d, "wager") = d.wager
                                 /\ AuditedAllocation(r, d, "guarantee") = d.guarantee
  /\ \A k \in DOMAIN StoredTransfers(r) :
        /\ \E d \in StoredFunding(r) : d.party = StoredTransfers(r)[k].party
        /\ r.resp.lines[k].outcome # "invalid"

(* The tx hash of a line: a replayed failure has the one of its request.   *)
HasHash(line, item) ==
  \/ Executed(line)
  \/ line.outcome = "rejected"
  \/ line.outcome = "idempotent_replay" /\ itemRecord[item] # NoRecord /\ itemRecord[item].resp.tx

(* auditChallengeRunState: a response without a run is expected to be a    *)
(* failure; otherwise the run record has the status and totals of the run  *)
(* the response embeds, and the transfers of the request.                  *)
RunReconciles(r, rr) ==
  IF r.resp.run = "none" THEN r.resp.status = "failed"
  ELSE /\ rr # NoRecord
       /\ rr.status = r.resp.run
       /\ Range(StoredTransfers(r)) \subseteq Range(rr.payload)

(* The checks transfer_run_status and transfer_run_tx_hash, by request id; *)
(* a response without a run has no run record to compare with.             *)
RunLinesReconcile(r, rr) ==
  r.resp.run # "none" =>
  \A k \in DOMAIN r.resp.lines, j \in DOMAIN rr.lines :
     LET item == StoredTransfers(r)[k].item IN
     rr.payload[j].item = item =>
        /\ rr.lines[j].status = r.resp.lines[k].status
        /\ HasHash(rr.lines[j], item) = HasHash(r.resp.lines[k], item)

(* lookupSettlementTx: a transaction is found once it is in a block, and   *)
(* only one that succeeded there has transfer events to match.             *)
Found(name)           == tx[name] \in {"committed", "failed"}
TxSuccess(name)       == tx[name] = "committed"
MatchedExpected(name) == tx[name] = "committed"

(* Variant: a transaction that is not found is left for a later audit.     *)
LookupAgreesIfFound(name, status) ==
  Found(name) => IF status = "failed" THEN ~TxSuccess(name) ELSE TxSuccess(name)

(* auditLookupMismatch.                                                    *)
LookupAgrees(name, status) ==
  /\ Found(name)
  /\ MatchedExpected(name)
  /\ IF status = "failed" THEN ~TxSuccess(name) ELSE TxSuccess(name)

(* Variant: the hash of the request record is not compared.                *)
TransferReconcilesByHash(r, k) ==
  LET t == StoredTransfers(r)[k]  line == r.resp.lines[k] IN
  HasHash(line, t.item) => LookupAgrees(t.item, line.status)

(* One iteration of auditChallengeTransfers: the request record, and the   *)
(* transaction.  A record with a hash never changes again, so its read and *)
(* the lookup are one step.                                                *)
TransferReconciles(r, k) ==
  LET t == StoredTransfers(r)[k]  line == r.resp.lines[k]  stored == itemRecord[t.item] IN
  IF stored = NoRecord THEN ~line.attempted /\ ~HasHash(line, t.item)
  ELSE /\ stored.body = t
       /\ stored.resp.tx = HasHash(line, t.item)
       /\ HasHash(line, t.item) => LookupAgrees(t.item, line.status)

(* Variant: a top-up that was not required must have been answered too.    *)
TopUpAnswered(id, r) ==
  /\ r.resp.topUp \in {"failed", "executed"}
  /\ LookupAgrees(id, IF r.resp.topUp = "executed" THEN "confirmed" ELSE "failed")

(* auditChallengeTopUp: a required top-up has an answer with the hash and  *)
(* the amount of its request record, and the lookup agrees.                *)
TopUpReconciles(id, r) ==
  \/ r.resp.topUp = "none"
  \/ /\ r.resp.topUp \in {"failed", "executed"}
     /\ topUpRecord[id] # NoRecord
     /\ topUpRecord[id].resp.tx
     /\ LookupAgrees(id, IF r.resp.topUp = "executed" THEN "confirmed" ELSE "failed")

-----------------------------------------------------------------------------
(* The audit, read by read.                                                *)

Goes(step) == at' = step /\ UNCHANGED <<snap, overlapped, audits>>

Start(id, step) ==
  /\ ~Running
  /\ audits < MaxAudits
  /\ audits' = audits + 1
  /\ snap' = record[id]
  /\ cursor' = 1
  /\ overlapped' = FALSE
  /\ at' = step
  /\ UNCHANGED vars

(* CHALLENGE_STATE_NOT_FOUND; an error for a torn file; an error or a      *)
(* failed proof when a funding lookup fails.                               *)
AuditUnreadable(id) ==
  \/ ~Recorded(id) /\ Start(id, IF record[id] = NoRecord THEN "alarm" ELSE "error")
  \/ "lookup_failed" \in Faults /\ Recorded(id) /\ Start(id, "error")

(* The record, and the checks that need the deposits alone.                *)
AuditRecord(id) ==
  /\ Recorded(id)
  /\ Start(id, IF RecordReconciles(record[id]) THEN "run" ELSE "alarm")

AuditRun ==
  /\ at = "run"
  /\ LET rr == runRecord[snap.request.id] IN
     Goes(IF RunReconciles(snap, rr) /\ RunLinesReconcile(snap, rr) THEN "transfers" ELSE "alarm")
  /\ UNCHANGED <<cursor, vars>>

(* Variant: one transfer too many.                                         *)
AuditTransferPastEnd ==
  /\ at = "transfers"
  /\ Goes(IF TransferReconciles(snap, cursor) THEN "transfers" ELSE "alarm")
  /\ cursor' = cursor + 1
  /\ UNCHANGED vars

AuditTransfer ==
  /\ at = "transfers"
  /\ Goes(IF ~TransferReconciles(snap, cursor) THEN "alarm"
          ELSE IF cursor < Len(StoredTransfers(snap)) THEN "transfers" ELSE "topup")
  /\ cursor' = cursor + 1
  /\ UNCHANGED vars

AuditTopUp ==
  /\ at = "topup"
  /\ Goes(IF TopUpReconciles(snap.request.id, snap) THEN "ok" ELSE "alarm")
  /\ UNCHANGED <<cursor, vars>>

(* A step of a settler or of its environment.                              *)
Meanwhile ==
  /\ Next
  /\ overlapped' = (overlapped \/ <<record, runRecord, itemRecord, topUpRecord, tx>>'
                                    # <<record, runRecord, itemRecord, topUpRecord, tx>>)
  /\ UNCHANGED <<at, snap, cursor, audits>>

AuditNext ==
  \/ \E id \in Ids : AuditUnreadable(id) \/ AuditRecord(id)
  \/ AuditRun \/ AuditTransfer \/ AuditTopUp
  \/ Meanwhile

AuditSpec == AuditInit /\ [][AuditNext]_<<vars, auditVars>>

-----------------------------------------------------------------------------
OnChain(t) == tx[t.item] = "committed" /\ itemRecord[t.item].body = t

(* Every variable of the audit has its type; it looks only at transfers    *)
(* that the record it read has (auditChallengeTransfers).                  *)
AuditTypeOK ==
  /\ at \in AuditSteps
  /\ snap \in ChallengeRecords \cup {NoRecord, Unreadable}
  /\ cursor \in Nat
  /\ overlapped \in BOOLEAN
  /\ audits \in 0..MaxAudits
  /\ Running => Readable(snap)
  /\ at = "transfers" => cursor \in DOMAIN snap.resp.lines

(* "challenge settlement state reconciles with funding, payout, top-up,    *)
(* and grouped run proofs" is true whatever the settlers, the node and the *)
(* host did before and during the audit: each transfer that the stored     *)
(* challenge reports as executed is in a block with its own payload, and   *)
(* if the challenge was stored as ok, what is in blocks adds up to what    *)
(* every deposit brought to escrow (auditSettlementChallenge).             *)
OkAuditIsTrue ==
  at = "ok" =>
     /\ \A k \in DOMAIN snap.resp.lines :
           Executed(snap.resp.lines[k]) => OnChain(snap.request.transfers[k])
     /\ RunOK(snap.resp) =>
           \A d \in Funded(snap.request) :
              d.total = SumFunctionOnSet([t \in Range(snap.request.transfers) |-> t.amount],
                                         {t \in Range(snap.request.transfers) :
                                            t.party = d.party /\ OnChain(t)})

(* An audit that ends ok, and since whose start nothing it reads changed,  *)
(* has missed no payment: a transfer that the stored challenge reports as  *)
(* failed is not in a block and not on its way to one, also when a retry   *)
(* stored a failure over a run that had paid, or when a payment was        *)
(* misreported (auditChallengeTransfers, auditLookupMismatch).             *)
OkAuditMissesNoPayment ==
  at = "ok" /\ ~overlapped =>
     \A k \in DOMAIN snap.resp.lines :
        ~Executed(snap.resp.lines[k])
          => tx[snap.request.transfers[k].item] \notin {"pending", "committed"}

(* The audit gives no false alarm: when the stored challenge is ok, its    *)
(* transfers and its top-up are in blocks, and nothing changes meanwhile,  *)
(* the audit does not end in an alarm, however many attempts it took to    *)
(* get there (auditSettlementChallenge).                                   *)
SettledChallengeReconciles ==
  at = "alarm" /\ ~overlapped /\ Readable(snap) /\ RunOK(snap.resp) =>
     \/ \E t \in Range(snap.request.transfers) : ~OnChain(t)
     \/ snap.resp.topUp = "executed" /\ tx[snap.request.id] # "committed"
=============================================================================
