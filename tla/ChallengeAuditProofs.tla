------------------------ MODULE ChallengeAuditProofs ------------------------
(***************************************************************************)
(* Proofs about ChallengeAudit: what an audit that ends ok, or in an       *)
(* alarm, says of the chain while settlers work on between its reads.      *)
(*                                                                         *)
(* The audit does not disturb the settlers, so what ChallengeProofs        *)
(* establishes holds here too.  Three more facts about settlers are        *)
(* needed: a transaction has a request record with its hash (Sent), a      *)
(* stored challenge has the shape of its plan (Shapes), and an ok          *)
(* challenge has the run record it was made from (Runs).                   *)
(***************************************************************************)
EXTENDS ChallengeAudit, ChallengeProofs

(* A step of the audit leaves the settlers alone.                          *)
THEOREM AuditImplementsChallenge == AuditSpec => Spec
<1>1. AuditInit => Init BY DEF AuditInit
<1>2. [AuditNext]_<<vars, auditVars>> => [Next]_vars
  BY DEF AuditNext, AuditUnreadable, AuditRecord, Start, AuditRun, AuditTransfer, AuditTopUp, Meanwhile
<1> QED BY <1>1, <1>2, PTL DEF AuditSpec, Spec

-----------------------------------------------------------------------------
(* A transaction that the node took has a record with its hash.            *)
Sent ==
  /\ \A i \in Items : tx[i] # "none" => itemRecord[i] # NoRecord /\ itemRecord[i].resp.tx
  /\ \A id \in Ids : tx[id] # "none" => topUpRecord[id] # NoRecord /\ topUpRecord[id].resp.tx

LEMMA SentInit == Init => Sent
BY DEF Init, Sent

(* Such a record is not there to be sent again.                            *)
LEMMA SentItemFinal ==
  ASSUME TypeInv, Sent, NEW i \in Items, tx[i] # "none"
  PROVE  itemRecord[i] \in ItemRecords /\ ~itemRecord[i].resp.retryable
<1>1. itemRecord[i] \in ItemRecords /\ itemRecord[i].resp.tx BY DEF Sent, TypeInv, RunTypes
<1> QED BY <1>1 DEF ItemRecords, RailResponses, ItemResponses

LEMMA SentTopUpFinal ==
  ASSUME TypeInv, Sent, NEW id \in Ids, tx[id] # "none"
  PROVE  topUpRecord[id] \in TopUpRecords /\ ~topUpRecord[id].resp.retryable
<1>1. topUpRecord[id] \in TopUpRecords /\ topUpRecord[id].resp.tx BY DEF Sent, TypeInv, TopUpTypes
<1> QED BY <1>1 DEF TopUpRecords, RailResponses, ItemResponses

(* What a settled transaction is, stays, and so does its request record.   *)
Stays ==
  \A i \in Items : tx[i] \notin {"none", "pending"} => tx'[i] = tx[i] /\ itemRecord'[i] = itemRecord[i]

LEMMA SentQuiet ==
  ASSUME Sent, UNCHANGED <<chain, topUp, itemRecord>>
  PROVE  Sent' /\ Stays
BY DEF Sent, Stays, chain, topUp

LEMMA SentItem ==
  ASSUME TypeInv, Books, Sent, NEW s \in Settlers,
         \/ ItemRefused(s) \/ ItemConfirmed(s) \/ ItemAccepted(s)
         \/ ItemRejected(s) \/ ItemMisreported(s)
  PROVE  Sent' /\ Stays
<1> DEFINE i == Line(s).item
<1>0. SendsItem(s) /\ AtLine(s) /\ UNCHANGED topUp
  BY DEF ItemRefused, ItemConfirmed, ItemAccepted, ItemRejected, ItemMisreported, SendsItem
<1>1. PICK resp \in RailResponses : /\ StoreItem(s, resp)
                                    /\ \/ resp.tx
                                       \/ UNCHANGED chain
  <2>1. /\ Response("confirmed", FALSE, TRUE).tx
        /\ Response("accepted", FALSE, TRUE).tx
        /\ Response("failed", FALSE, TRUE).tx
    BY DEF Response
  <2>2. CASE ItemRefused(s) BY <2>2, RailTypes DEF ItemRefused, PayoutRefusals
  <2>3. CASE ItemConfirmed(s) \/ ItemAccepted(s) \/ ItemRejected(s) \/ ItemMisreported(s)
    BY <2>1, <2>3, RailTypes DEF ItemConfirmed, ItemAccepted, ItemRejected, ItemMisreported
  <2> QED BY <2>2, <2>3
<1>2. /\ i \in Items /\ i \in Items \cup Ids /\ i \notin Ids
      /\ itemRecord'[i] = [body |-> Line(s), resp |-> resp]
      /\ \A j \in Items \ {i} : itemRecord'[j] = itemRecord[j]
  BY <1>0, <1>1, SendsFresh, NamesAssumption DEF Books
<1>3. tx[i] = "none"
  <2> SUFFICES ASSUME tx[i] # "none" PROVE FALSE OBVIOUS
  <2>1. itemRecord[i] \in ItemRecords /\ ~itemRecord[i].resp.retryable BY <1>2, SentItemFinal
  <2> QED BY <1>0, <2>1, RecordsAssumption DEF SendsItem, Stored
<1>4. UNCHANGED tx \/ \E fate : BecomesTx(i, fate)
  BY DEF ItemRefused, ItemConfirmed, ItemAccepted, ItemRejected, ItemMisreported, chain
<1>5. itemRecord'[i] # NoRecord
  <2>1. Line(s) \in Transfers BY <1>0, LineOfJob DEF TypeInv
  <2>2. itemRecord'[i] \in ItemRecords BY <1>2, <2>1 DEF ItemRecords
  <2> QED BY <2>2, RecordsAssumption
<1>6. \A other \in (Items \cup Ids) \ {i} : tx'[other] = tx[other]
  BY <1>2, <1>4, BecomesOnly
<1> HIDE DEF i
<1>7. Stays BY <1>2, <1>3, <1>6 DEF Stays
<1>8. \A j \in Items : tx'[j] # "none" => itemRecord'[j] # NoRecord /\ itemRecord'[j].resp.tx
  <2> SUFFICES ASSUME NEW j \in Items, tx'[j] # "none"
               PROVE  itemRecord'[j] # NoRecord /\ itemRecord'[j].resp.tx
    OBVIOUS
  <2>1. CASE j = i BY <1>1, <1>2, <1>3, <1>5, <2>1 DEF chain
  <2>2. CASE j # i BY <1>2, <1>6, <2>2 DEF Sent
  <2> QED BY <2>1, <2>2
<1>9. \A id \in Ids : tx'[id] # "none" => topUpRecord'[id] # NoRecord /\ topUpRecord'[id].resp.tx
  BY <1>0, <1>2, <1>6 DEF Sent, topUp
<1> QED BY <1>7, <1>8, <1>9 DEF Sent

LEMMA SentFund ==
  ASSUME TypeInv, Books, Sent, NEW s \in Settlers,
         \/ TopUpRefused(s) \/ TopUpConfirmed(s) \/ TopUpAccepted(s)
         \/ TopUpRejected(s) \/ TopUpMisreported(s)
  PROVE  Sent' /\ Stays
<1> DEFINE id == job[s].id
<1>0. SendsTopUp(s) /\ pc[s] # "idle" /\ UNCHANGED itemRecord
  BY DEF TopUpRefused, TopUpConfirmed, TopUpAccepted, TopUpRejected, TopUpMisreported, SendsTopUp, run
<1>1. PICK resp \in RailResponses : /\ StoreTopUp(s, resp)
                                    /\ \/ resp.tx
                                       \/ UNCHANGED chain
  <2>1. /\ Response("confirmed", FALSE, TRUE).tx
        /\ Response("accepted", FALSE, TRUE).tx
        /\ Response("failed", FALSE, TRUE).tx
    BY DEF Response
  <2>2. CASE TopUpRefused(s) BY <2>2, RailTypes DEF TopUpRefused, EscrowRefusals
  <2>3. CASE TopUpConfirmed(s) \/ TopUpAccepted(s) \/ TopUpRejected(s) \/ TopUpMisreported(s)
    BY <2>1, <2>3, RailTypes DEF TopUpConfirmed, TopUpAccepted, TopUpRejected, TopUpMisreported
  <2> QED BY <2>2, <2>3
<1>2. /\ id \in Ids /\ id \in Items \cup Ids /\ id \notin Items
      /\ topUpRecord'[id] = [amount |-> plan[s].topUp, resp |-> resp]
      /\ topUpRecord'[id] # NoRecord
      /\ \A jd \in Ids \ {id} : topUpRecord'[jd] = topUpRecord[jd]
  BY <1>0, <1>1, SendsTopUpFresh, NamesAssumption
<1>3. tx[id] = "none"
  <2> SUFFICES ASSUME tx[id] # "none" PROVE FALSE OBVIOUS
  <2>1. topUpRecord[id] \in TopUpRecords /\ ~topUpRecord[id].resp.retryable BY <1>2, SentTopUpFinal
  <2> QED BY <1>0, <2>1, RecordsAssumption DEF SendsTopUp
<1>4. UNCHANGED tx \/ \E fate : BecomesTx(id, fate)
  BY DEF TopUpRefused, TopUpConfirmed, TopUpAccepted, TopUpRejected, TopUpMisreported, chain
<1>5. \A other \in (Items \cup Ids) \ {id} : tx'[other] = tx[other]
  BY <1>2, <1>4, BecomesOnly
<1> HIDE DEF id
<1>6. \A i \in Items : tx'[i] = tx[i] BY <1>2, <1>5
<1>7. \A jd \in Ids : tx'[jd] # "none" => topUpRecord'[jd] # NoRecord /\ topUpRecord'[jd].resp.tx
  <2> SUFFICES ASSUME NEW jd \in Ids, tx'[jd] # "none"
               PROVE  topUpRecord'[jd] # NoRecord /\ topUpRecord'[jd].resp.tx
    OBVIOUS
  <2>1. CASE jd = id BY <1>1, <1>2, <1>3, <2>1 DEF chain
  <2>2. CASE jd # id BY <1>2, <1>5, <2>2 DEF Sent
  <2> QED BY <2>1, <2>2
<1> QED BY <1>0, <1>6, <1>7 DEF Sent, Stays

LEMMA SentSettle ==
  ASSUME TypeInv, Sent,
         (\E i \in Items : SettleItem(i)) \/ (\E id \in Ids : SettleTopUp(id))
  PROVE  Sent' /\ Stays
<1>0. PICK name \in Items \cup Ids : \E fate : tx[name] = "pending" /\ BecomesTx(name, fate)
  BY DEF SettleItem, SettleTopUp, paying, toppingUp
<1>1. PICK fate : tx[name] = "pending" /\ BecomesTx(name, fate) BY <1>0
<1>2. UNCHANGED <<itemRecord, topUpRecord>> BY DEF SettleItem, SettleTopUp, run, topUp
<1>3. \A other \in (Items \cup Ids) \ {name} : tx'[other] = tx[other] BY <1>1, BecomesOnly
<1>4. \A other \in Items \cup Ids : tx'[other] # "none" => tx[other] # "none" BY <1>1, <1>3
<1> QED BY <1>1, <1>2, <1>3, <1>4 DEF Sent, Stays

LEMMA SentNext ==
  ASSUME TypeInv, Books, Sent, [Next]_vars
  PROVE  Sent' /\ Stays
<1>1. ASSUME NEW s \in Settlers, Arrive(s) \/ Enter(s) \/ Leave(s) PROVE Sent' /\ Stays
  BY <1>1, QuietSteps, SentQuiet
<1>2. ASSUME NEW s \in Settlers, FundSigner(s) PROVE Sent' /\ Stays
  BY <1>2, QuietSteps, SentQuiet, SentFund DEF FundSigner
<1>3. ASSUME NEW s \in Settlers, ExecuteRun(s) PROVE Sent' /\ Stays
  BY <1>3, QuietSteps, SentQuiet, SentItem DEF ExecuteRun
<1>4. ASSUME Environment PROVE Sent' /\ Stays
  <2>1. ASSUME NEW id \in Ids, AgeLock(id) \/ ExpireRunLock(id) PROVE Sent' /\ Stays
    BY <2>1, SentQuiet DEF AgeLock, ExpireRunLock, run
  <2>2. CASE PowerLoss BY <2>2, SentQuiet DEF PowerLoss, run
  <2> QED BY <1>4, <2>1, <2>2, SentSettle, QuietSteps, SentQuiet DEF Environment
<1>5. CASE UNCHANGED vars BY <1>5, SentQuiet DEF vars, chain, topUp
<1> QED BY <1>1, <1>2, <1>3, <1>4, <1>5 DEF Next

-----------------------------------------------------------------------------
(* The shape of plans, drafts and records: an accepted plan is a full one; *)
(* a response has a line for each transfer of a full plan, and none of     *)
(* another; a record is of the id it is stored under and has the           *)
(* fingerprint of its request, as far as the plan had come.                *)

LinesOf(req, stage) == IF stage = "full" THEN Lines(req) ELSE {}

WellShaped(req, stage, resp) ==
  /\ DOMAIN resp.lines = LinesOf(req, stage)
  /\ RunOK(resp) => resp.topUp \in {"none", "executed"}

RecordShaped(id, r) ==
  /\ r.request.id = id
  /\ \E stage \in Stages : /\ r.fingerprint = Fingerprint(r.request, stage)
                           /\ WellShaped(r.request, stage, r.resp)

Shapes ==
  /\ \A s \in Settlers : plan[s].ok => plan[s].stage = "full"
  /\ \A s \in Settlers : pc[s] = "write" => WellShaped(job[s], plan[s].stage, draft[s])
  /\ \A id \in Ids : Readable(record[id]) => RecordShaped(id, record[id])

LEMMA ShapesInit == Init => Shapes
BY DEF Init, Shapes, NoPlan, RefusedPlan, Readable

(* The pieces that steps are made of.                                      *)
LEMMA ShapesGoto ==
  ASSUME TypeInv, Shapes, NEW s \in Settlers, NEW label, label # "write", Goto(s, label),
         UNCHANGED <<local, record>>
  PROVE  Shapes'
<1>1. pc'[s] = label /\ \A v \in Settlers \ {s} : pc'[v] = pc[v] BY Moves
<1> QED BY <1>1 DEF Shapes, local

LEMMA ShapesAnswer ==
  ASSUME TypeInv, Shapes, NEW s \in Settlers, NEW resp, Answer(s, resp),
         WellShaped(job[s], plan[s].stage, resp), UNCHANGED <<job, plan, record>>
  PROVE  Shapes'
<1>1. /\ draft'[s] = resp
      /\ \A v \in Settlers \ {s} : pc'[v] = pc[v] /\ draft'[v] = draft[v]
  BY DEF TypeInv, LocalTypes, Answer, Goto
<1> QED BY <1>1 DEF Shapes

LEMMA ShapesStop ==
  ASSUME TypeInv, Shapes, NEW s \in Settlers, Stop(s), UNCHANGED record
  PROVE  Shapes'
<1>1. /\ pc'[s] = "idle" /\ plan'[s] = NoPlan
      /\ \A v \in Settlers \ {s} : /\ pc'[v] = pc[v] /\ job'[v] = job[v] /\ plan'[v] = plan[v]
                                   /\ draft'[v] = draft[v]
  BY DEF TypeInv, LocalTypes, Stop, Goto
<1>2. ~NoPlan.ok BY DEF NoPlan, RefusedPlan
<1> QED BY <1>1, <1>2 DEF Shapes

LEMMA ShapesSame ==
  ASSUME Shapes, UNCHANGED <<pc, job, plan, draft, record>>
  PROVE  Shapes'
BY DEF Shapes

(* What the settlers answer.                                               *)
LEMMA FailedShape ==
  ASSUME NEW req, NEW p, NEW retryable, NEW answer
  PROVE  WellShaped(req, p.stage, FailedResponse(req, p, retryable, answer))
BY DEF WellShaped, LinesOf, FailedResponse, RunOK

LEMMA MergedShape ==
  ASSUME NEW req, NEW p, p.stage = "full", NEW status, NEW lines, NEW retryable
  PROVE  WellShaped(req, p.stage, MergedResponse(req, p, status, lines, retryable))
BY DEF WellShaped, LinesOf, MergedResponse

LEMMA ShapesArrive ==
  ASSUME TypeInv, Shapes, NEW s \in Settlers, Arrive(s)
  PROVE  Shapes'
<1>1. PICK req \in Requests : \/ SubmitMalformed(s, req) \/ SubmitUnfunded(s, req)
                               \/ SubmitMisallocated(s, req) \/ SubmitRefused(s, req)
                               \/ SubmitFunded(s, req)
  BY DEF Arrive
<1>2. PICK p : Submit(s, req, p) /\ (p.ok => p.stage = "full")
  <2>1. /\ \A stage, retryable : ~RefusedPlan(stage, retryable).ok
        /\ \A stage, retryable, e : ~[RefusedPlan(stage, retryable) EXCEPT !.run = e].ok
        /\ \A stage, retryable, e, f : ~[RefusedPlan(stage, retryable) EXCEPT !.run = e, !.topUp = f].ok
    BY DEF RefusedPlan
  <2> HIDE DEF RefusedPlan
  <2>2. CASE SubmitMalformed(s, req) BY <2>1, <2>2 DEF SubmitMalformed
  <2>3. CASE SubmitUnfunded(s, req) BY <2>1, <2>3 DEF SubmitUnfunded
  <2>4. CASE SubmitMisallocated(s, req) BY <2>1, <2>4 DEF SubmitMisallocated
  <2>5. CASE SubmitRefused(s, req) BY <2>1, <2>5 DEF SubmitRefused
  <2>6. CASE SubmitFunded(s, req)
    <3>1. AcceptedPlan(req, payout).stage = "full" BY DEF AcceptedPlan
    <3> QED BY <2>6, <3>1 DEF SubmitFunded
  <2> QED BY <1>1, <2>2, <2>3, <2>4, <2>5, <2>6
<1>3. /\ pc'[s] = "lock" /\ plan'[s] = p
      /\ \A v \in Settlers \ {s} : /\ pc'[v] = pc[v] /\ job'[v] = job[v] /\ plan'[v] = plan[v]
                                   /\ draft'[v] = draft[v]
      /\ UNCHANGED record
  BY <1>2 DEF Submit, Goto, TypeInv, LocalTypes, files
<1> QED BY <1>2, <1>3 DEF Shapes

LEMMA ShapesEnter ==
  ASSUME TypeInv, Shapes, NEW s \in Settlers, Enter(s)
  PROVE  Shapes'
<1> USE DEF files
<1>1. CASE CreateLock(s) BY <1>1, ShapesGoto DEF CreateLock
<1>2. CASE LockFails(s) BY <1>2, ShapesStop DEF LockFails
<1>3. CASE StatStale(s) BY <1>3, ShapesGoto DEF StatStale
<1>4. CASE RemoveStale(s) BY <1>4, ShapesGoto DEF RemoveStale
<1>5. CASE Conflict(s) BY <1>5, ShapesGoto DEF Conflict
<1>6. CASE ReadInvalid(s) BY <1>6, ShapesGoto DEF ReadInvalid
<1>7. CASE Replay(s) BY <1>7, ShapesGoto DEF Replay
<1>8. CASE StoreRefusal(s) BY <1>8, FailedShape, ShapesAnswer DEF StoreRefusal
<1>9. CASE Proceed(s)
  <2> DEFINE label == IF plan[s].topUp > 0 THEN "topup" ELSE "run"
  <2>1. Goto(s, label) /\ label # "write" /\ UNCHANGED <<local, record>> BY <1>9 DEF Proceed
  <2> HIDE DEF label
  <2> QED BY <2>1, ShapesGoto
<1> QED BY <1>1, <1>2, <1>3, <1>4, <1>5, <1>6, <1>7, <1>8, <1>9 DEF Enter

LEMMA ShapesFund ==
  ASSUME TypeInv, Shapes, NEW s \in Settlers, FundSigner(s)
  PROVE  Shapes'
<1> USE DEF files
<1>1. CASE \E label \in {"run", "await"} : Goto(s, label) /\ UNCHANGED <<local, record>>
  BY <1>1, ShapesGoto
<1>2. CASE /\ \E retryable \in BOOLEAN, answer \in {"refused", "failed"} :
                 Answer(s, FailedResponse(job[s], plan[s], retryable, answer))
           /\ UNCHANGED <<job, plan, record>>
  BY <1>2, FailedShape, ShapesAnswer
<1>3. CASE TopUpConflict(s) BY <1>2, <1>3 DEF TopUpConflict
<1>4. CASE TopUpReplay(s)
  <2>1. CASE UNCHANGED draft /\ \E label \in {"run", "await"} : Goto(s, label)
    BY <1>1, <1>4, <2>1 DEF TopUpReplay, local
  <2>2. CASE \E answer \in {"refused", "failed"} :
               Answer(s, FailedResponse(job[s], plan[s], FALSE, answer))
    BY <1>2, <1>4, <2>2 DEF TopUpReplay
  <2> QED BY <1>4, <2>1, <2>2 DEF TopUpReplay
<1>5. CASE TopUpRefused(s) BY <1>2, <1>5 DEF TopUpRefused, EscrowRefusals
<1>6. CASE TopUpConfirmed(s) \/ TopUpAccepted(s) BY <1>1, <1>6 DEF TopUpConfirmed, TopUpAccepted
<1>7. CASE TopUpRejected(s) \/ TopUpMisreported(s)
  BY <1>2, <1>7 DEF TopUpRejected, TopUpMisreported
<1>8. CASE TopUpBusy(s) BY <1>2, <1>8 DEF TopUpBusy
<1>9. CASE BalanceReached(s) BY <1>1, <1>9 DEF BalanceReached
<1>10. CASE BalancePending(s) BY <1>2, <1>10 DEF BalancePending
<1> QED BY <1>3, <1>4, <1>5, <1>6, <1>7, <1>8, <1>9, <1>10 DEF FundSigner

LEMMA ShapesRun ==
  ASSUME TypeInv, Memory, Shapes, NEW s \in Settlers, ExecuteRun(s)
  PROVE  Shapes'
<1> USE DEF files
<1>1. pc[s] # "idle"
  BY DEF ExecuteRun, RunUnavailable, RunReplay, RunRefused, RunProceeds, RunEnds, RailError, SendsItem,
         ItemConflict, ItemReplay, ItemRefused, ItemConfirmed, ItemAccepted, ItemRejected,
         ItemMisreported, ItemBusy, AtLine
<1>2. ASSUME NEW status, NEW lines, NEW retryable, pc[s] \in Executing,
             Answer(s, MergedResponse(job[s], plan[s], status, lines, retryable)),
             UNCHANGED <<job, plan, record>>
      PROVE  Shapes'
  <2>1. plan[s].stage = "full" BY <1>1, <1>2, MemoryOf DEF Shapes
  <2> QED BY <1>2, <2>1, MergedShape, ShapesAnswer
<1>3. CASE RunUnavailable(s)
  <2>1. PICK retryable : Answer(s, MergedResponse(job[s], plan[s], "unavailable", << >>, retryable))
    BY <1>3 DEF RunUnavailable
  <2> QED BY <1>2, <1>3, <2>1 DEF RunUnavailable, Executing
<1>4. CASE RunReplay(s)
  <2>1. PICK status, lines : Answer(s, MergedResponse(job[s], plan[s], status, lines, FALSE))
    BY <1>4 DEF RunReplay
  <2>2. pc[s] \in Executing /\ UNCHANGED <<job, plan, record>> BY <1>4 DEF RunReplay, Executing
  <2> QED BY <1>2, <2>1, <2>2
<1>5. CASE RunRefused(s)
  <2>1. PICK lines, retryable : Answer(s, MergedResponse(job[s], plan[s], "failed", lines, retryable))
    BY <1>5 DEF RunRefused
  <2> QED BY <1>2, <1>5, <2>1 DEF RunRefused, Executing
<1>6. CASE RunEnds(s)
  <2>1. PICK status, lines, retryable :
          Answer(s, MergedResponse(job[s], plan[s], status, lines, retryable))
    BY <1>6 DEF RunEnds
  <2> QED BY <1>2, <1>6, <2>1 DEF RunEnds, Executing
<1>7. CASE RunProceeds(s) BY <1>7, ShapesGoto DEF RunProceeds
<1>8. CASE RailError(s) BY <1>8, ShapesGoto DEF RailError
<1>9. CASE \/ ItemConflict(s) \/ ItemReplay(s) \/ ItemRefused(s) \/ ItemConfirmed(s)
           \/ ItemAccepted(s) \/ ItemRejected(s) \/ ItemMisreported(s) \/ ItemBusy(s)
  BY <1>9, ShapesSame DEF ItemConflict, ItemReplay, ItemRefused, ItemConfirmed, ItemAccepted,
         ItemRejected, ItemMisreported, ItemBusy
<1> QED BY <1>3, <1>4, <1>5, <1>6, <1>7, <1>8, <1>9 DEF ExecuteRun

LEMMA ShapesLeave ==
  ASSUME TypeInv, Shapes, NEW s \in Settlers, Leave(s)
  PROVE  Shapes'
<1> USE DEF files
<1>1. CASE WriteChallenge(s)
  <2> DEFINE id == job[s].id
             r == [fingerprint |-> Fingerprint(job[s], plan[s].stage), resp |-> draft[s],
                   request |-> job[s]]
  <2>1. pc[s] = "write" /\ pc'[s] = "unlock" /\ \A v \in Settlers \ {s} : pc'[v] = pc[v]
    BY <1>1, Moves DEF WriteChallenge
  <2>2. id \in Ids /\ plan[s].stage \in Stages BY <2>1, JobTypes DEF TypeInv, Plans
  <2>3. record'[id] = r /\ \A jd \in Ids \ {id} : record'[jd] = record[jd]
    BY <1>1, <2>2 DEF WriteChallenge, TypeInv, FileTypes
  <2>4. RecordShaped(id, r) BY <2>1, <2>2 DEF Shapes, RecordShaped
  <2>5. UNCHANGED local BY <1>1 DEF WriteChallenge
  <2> HIDE DEF r, id
  <2> QED BY <2>1, <2>3, <2>4, <2>5 DEF Shapes, local
<1>2. CASE WriteFails(s) BY <1>2, ShapesGoto DEF WriteFails
<1>3. CASE Unlock(s) BY <1>3, ShapesStop DEF Unlock
<1> QED BY <1>1, <1>2, <1>3 DEF Leave

LEMMA ShapesEnvironment ==
  ASSUME TypeInv, Shapes, Environment
  PROVE  Shapes'
<1>1. CASE UNCHANGED <<pc, local, record>> BY <1>1, ShapesSame DEF local
<1>2. ASSUME NEW s \in Settlers, Crash(s) PROVE Shapes'
  BY <1>2, ShapesStop DEF Crash, files
<1>3. CASE PowerLoss
  <2>1. ~NoPlan.ok BY DEF NoPlan, RefusedPlan
  <2> QED BY <1>3, <2>1 DEF PowerLoss, Shapes, Readable
<1> QED BY <1>1, <1>2, <1>3 DEF Environment, AgeLock, ExpireRunLock, SettleTopUp, SettleItem, files

LEMMA ShapesNext ==
  ASSUME TypeInv, Memory, Shapes, [Next]_vars
  PROVE  Shapes'
<1>1. CASE UNCHANGED vars BY <1>1, ShapesSame DEF vars
<1> QED BY <1>1, ShapesArrive, ShapesEnter, ShapesFund, ShapesRun, ShapesLeave, ShapesEnvironment DEF Next

(* Both hold at all times, with or without audits.                         *)
THEOREM RecordsSafety == Spec => [](Sent /\ Shapes)
<1>1. Init => Sent /\ Shapes BY SentInit, ShapesInit
<1>2. TypeInv /\ Books /\ Truth /\ Sent /\ Shapes /\ [Next]_vars => Sent' /\ Shapes'
  BY SentNext, ShapesNext DEF Truth
<1> QED BY <1>1, <1>2, BooksSafety, TruthSafety, PTL DEF Spec

-----------------------------------------------------------------------------
(* The audit.  The record it read is one that was stored; past the first   *)
(* step it has deposits whose buckets are allocated, and so has transfers; *)
(* the cursor is at one of them.                                           *)

Past == {"run", "transfers", "topup", "ok"}

Snapped ==
  Readable(snap) => /\ RecordShaped(snap.request.id, snap)
                    /\ OkComplete(snap.request, snap.resp)

AuditTypes ==
  /\ at \in AuditSteps
  /\ snap \in ChallengeRecords \cup {NoRecord, Unreadable}
  /\ cursor \in Nat
  /\ overlapped \in BOOLEAN
  /\ audits \in 0..MaxAudits
  /\ at \in Past => Readable(snap) /\ RecordReconciles(snap)
  /\ at = "run" => cursor = 1
  /\ at = "transfers" => cursor \in 1..Len(StoredTransfers(snap))

(* The record of an audit that went past the first step is of a full plan. *)
LEMMA ReconciledShape ==
  ASSUME NEW r \in ChallengeRecords, RecordShaped(r.request.id, r), RecordReconciles(r)
  PROVE  /\ StoredTransfers(r) = r.request.transfers
         /\ r.request \in Requests
         /\ DOMAIN r.resp.lines = 1..Len(r.request.transfers)
         /\ Len(r.request.transfers) \in Nat /\ Len(r.request.transfers) >= 1
<1>1. PICK stage \in Stages : /\ r.fingerprint = Fingerprint(r.request, stage)
                              /\ WellShaped(r.request, stage, r.resp)
  BY DEF RecordShaped
<1>2. /\ r.request \in Requests
      /\ r.fingerprint.funding \in Seq(Deposits)
  BY DEF ChallengeRecords
<1>3. /\ Len(r.request.transfers) \in Nat
      /\ Lines(r.request) = 1..Len(r.request.transfers)
      /\ r.request.transfers \in Seq(Transfers)
  BY <1>2, RequestTypes
<1>4. StoredTransfers(r) # << >>
  <2> SUFFICES ASSUME StoredTransfers(r) = << >> PROVE FALSE OBVIOUS
  <2>1. PICK d \in StoredFunding(r) : MemoVerifies(d) /\ AuditedAllocation(r, d, "wager") = d.wager
    BY DEF RecordReconciles
  <2>2. d \in Deposits BY <1>2, <2>1 DEF StoredFunding
  <2>3. d.wager \in Nat /\ d.wager > 0 BY <2>1, <2>2, DepositsAssumption DEF MemoVerifies
  <2>4. {k \in DOMAIN StoredTransfers(r) : /\ StoredTransfers(r)[k].party = d.party
                                           /\ StoredTransfers(r)[k].bucket = "wager"} = {}
    OBVIOUS
  <2>5. AuditedAllocation(r, d, "wager") = 0 BY <2>4, SumEmpty DEF AuditedAllocation
  <2> QED BY <2>1, <2>3, <2>5
<1>5. stage = "full" /\ StoredTransfers(r) = r.request.transfers
  BY <1>1, <1>4 DEF StoredTransfers, Fingerprint
<1>6. Len(r.request.transfers) # 0 BY <1>3, <1>4, <1>5
<1> QED BY <1>1, <1>2, <1>3, <1>5, <1>6 DEF WellShaped, LinesOf

(* What was read is in no file that can still change.                      *)
LEMMA SnapOfRecord ==
  ASSUME TypeInv, Truth, Shapes, NEW id \in Ids, snap' = record[id]
  PROVE  Snapped' /\ snap' \in ChallengeRecords \cup {NoRecord, Unreadable}
<1>1. record[id] \in ChallengeRecords \cup {NoRecord, Unreadable} BY DEF TypeInv, FileTypes
<1>2. Readable(record[id]) => /\ RecordShaped(id, record[id])
                              /\ record[id].request.id = id
                              /\ OkComplete(record[id].request, record[id].resp)
  BY DEF Shapes, Truth, RecordTruth, Truthful, RecordShaped
<1> QED BY <1>1, <1>2 DEF Snapped, Readable

LEMMA AuditInits == AuditInit => AuditTypes /\ Snapped
<1> SUFFICES ASSUME AuditInit PROVE AuditTypes /\ Snapped OBVIOUS
<1>1. /\ at = "none" /\ snap = NoRecord /\ cursor = 1 /\ overlapped = FALSE
      /\ audits = 0 /\ ~Readable(snap)
  BY DEF AuditInit, Readable
<1>2. audits \in 0..MaxAudits BY <1>1, AuditsAssumption
<1> QED BY <1>1, <1>2 DEF AuditTypes, Snapped, AuditSteps, Past

LEMMA AuditTypesNext ==
  ASSUME TypeInv, Truth, Shapes, AuditTypes, Snapped, [AuditNext]_<<vars, auditVars>>
  PROVE  AuditTypes' /\ Snapped'
<1>1. ASSUME NEW id \in Ids, AuditUnreadable(id) PROVE AuditTypes' /\ Snapped'
  <2>1. PICK step \in {"alarm", "error"} : Start(id, step) BY <1>1 DEF AuditUnreadable
  <2>2. Snapped' /\ snap' \in ChallengeRecords \cup {NoRecord, Unreadable}
    BY <2>1, SnapOfRecord DEF Start
  <2>3. at' = step /\ cursor' = 1 /\ overlapped' = FALSE /\ audits' \in 0..MaxAudits
    BY <2>1, AuditsAssumption DEF Start, AuditTypes
  <2> QED BY <2>1, <2>2, <2>3 DEF AuditTypes, AuditSteps, Past
<1>2. ASSUME NEW id \in Ids, AuditRecord(id) PROVE AuditTypes' /\ Snapped'
  <2>1. PICK step \in {"run", "alarm"} : /\ Start(id, step) /\ Readable(record[id])
                                         /\ step = "run" => RecordReconciles(record[id])
    BY <1>2 DEF AuditRecord, Recorded
  <2>2. Snapped' /\ snap' \in ChallengeRecords \cup {NoRecord, Unreadable}
    BY <2>1, SnapOfRecord DEF Start
  <2>3. at' = step /\ snap' = record[id] /\ cursor' = 1 /\ overlapped' = FALSE /\ audits' \in 0..MaxAudits
    BY <2>1, AuditsAssumption DEF Start, AuditTypes
  <2>4. at' \in Past => Readable(snap') /\ RecordReconciles(snap')
    BY <2>1, <2>3 DEF Past
  <2> QED BY <2>2, <2>3, <2>4 DEF AuditTypes, AuditSteps, Readable
<1>3. CASE AuditRun
  <2>1. UNCHANGED <<snap, cursor, overlapped, audits>> /\ at' \in {"transfers", "alarm"} /\ at = "run"
    BY <1>3 DEF AuditRun, Goes
  <2>2. snap \in ChallengeRecords /\ Readable(snap) /\ RecordReconciles(snap) /\ cursor = 1
    BY <2>1 DEF AuditTypes, Past, Readable
  <2>3. cursor \in 1..Len(StoredTransfers(snap)) BY <2>2, ReconciledShape DEF Snapped
  <2> QED BY <2>1, <2>2, <2>3 DEF AuditTypes, AuditSteps, Past, Snapped
<1>4. CASE AuditTransfer
  <2>1. /\ UNCHANGED <<snap, overlapped, audits>> /\ cursor' = cursor + 1 /\ at = "transfers"
        /\ at' \in {"transfers", "topup", "alarm"}
        /\ at' = "transfers" => cursor < Len(StoredTransfers(snap))
    BY <1>4 DEF AuditTransfer, Goes
  <2>2. snap \in ChallengeRecords /\ Readable(snap) /\ RecordReconciles(snap) /\ cursor \in Nat
    BY <2>1 DEF AuditTypes, Past, Readable
  <2>3. Len(StoredTransfers(snap)) \in Nat BY <2>2, ReconciledShape DEF Snapped
  <2>4. at' = "transfers" => cursor' \in 1..Len(StoredTransfers(snap)) BY <2>1, <2>2, <2>3
  <2> QED BY <2>1, <2>2, <2>4 DEF AuditTypes, AuditSteps, Past, Snapped
<1>5. CASE AuditTopUp
  <2>1. UNCHANGED <<snap, cursor, overlapped, audits>> /\ at' \in {"ok", "alarm"} /\ at = "topup"
    BY <1>5 DEF AuditTopUp, Goes
  <2> QED BY <2>1 DEF AuditTypes, AuditSteps, Past, Snapped
<1>6. CASE Meanwhile
  <2>1. UNCHANGED <<at, snap, cursor, audits>> /\ overlapped' \in BOOLEAN BY <1>6 DEF Meanwhile
  <2> QED BY <2>1 DEF AuditTypes, Snapped
<1>7. CASE UNCHANGED <<vars, auditVars>> BY <1>7 DEF auditVars, AuditTypes, Snapped
<1> QED BY <1>1, <1>2, <1>3, <1>4, <1>5, <1>6, <1>7 DEF AuditNext

THEOREM AuditRecordSafety == AuditSpec => [](AuditTypes /\ Snapped)
<1>1. AuditInit => AuditTypes /\ Snapped BY AuditInits
<1>2. TypeInv /\ Truth /\ Shapes /\ AuditTypes /\ Snapped /\ [AuditNext]_<<vars, auditVars>>
        => AuditTypes' /\ Snapped'
  BY AuditTypesNext
<1> QED BY <1>1, <1>2, AuditImplementsChallenge, BooksSafety, TruthSafety, RecordsSafety, PTL DEF AuditSpec

(* Every variable of the audit has its type, and the audit looks only at   *)
(* transfers that the record it read has (auditChallengeTransfers):        *)
(* whatever was stored, a record without transfers is refused before,      *)
(* because its deposits have buckets that nothing allocates.               *)
THEOREM AuditTypeSafety == AuditSpec => []AuditTypeOK
<1>1. AuditTypes /\ Snapped => AuditTypeOK
  <2> SUFFICES ASSUME AuditTypes, Snapped PROVE AuditTypeOK OBVIOUS
  <2>1. Running => Readable(snap) BY DEF Running, AuditTypes, Past
  <2>2. at = "transfers" => cursor \in DOMAIN snap.resp.lines
    <3> SUFFICES ASSUME at = "transfers" PROVE cursor \in DOMAIN snap.resp.lines OBVIOUS
    <3>1. snap \in ChallengeRecords /\ Readable(snap) /\ RecordReconciles(snap)
          /\ cursor \in 1..Len(StoredTransfers(snap))
      BY DEF AuditTypes, Past, Readable
    <3> QED BY <3>1, ReconciledShape DEF Snapped
  <2> QED BY <2>1, <2>2 DEF AuditTypes, AuditTypeOK
<1> QED BY <1>1, AuditRecordSafety, PTL

-----------------------------------------------------------------------------
(* What the audit has seen of the transfers before its cursor: one that is *)
(* reported as executed is in a block and stays there; one that is not has *)
(* no transaction, as long as nothing it reads has changed.                *)

InBlock(txs, records, t) == txs[t.item] = "committed" /\ records[t.item].body = t

PaidBefore(txs, records, r, n) ==
  \A k \in DOMAIN r.resp.lines :
     k < n /\ Executed(r.resp.lines[k]) => InBlock(txs, records, r.request.transfers[k])

UnpaidBefore(txs, r, n) ==
  \A k \in DOMAIN r.resp.lines :
     k < n /\ ~Executed(r.resp.lines[k])
       => txs[r.request.transfers[k].item] \notin {"pending", "committed"}

Audited ==
  at \in {"transfers", "topup", "ok"} =>
     /\ PaidBefore(tx, itemRecord, snap, cursor)
     /\ ~overlapped => UnpaidBefore(tx, snap, cursor)
     /\ at # "transfers" => cursor > Len(snap.request.transfers)

(* The transfer at the cursor.                                             *)
LEMMA TransferSeen ==
  ASSUME TypeInv, Sent, NEW r \in ChallengeRecords, RecordShaped(r.request.id, r),
         RecordReconciles(r), NEW k \in DOMAIN r.resp.lines, TransferReconciles(r, k)
  PROVE  /\ Executed(r.resp.lines[k]) => InBlock(tx, itemRecord, r.request.transfers[k])
         /\ ~Executed(r.resp.lines[k])
              => tx[r.request.transfers[k].item] \notin {"pending", "committed"}
<1> DEFINE t == r.request.transfers[k]
           line == r.resp.lines[k]
           stored == itemRecord[t.item]
<1>1. /\ StoredTransfers(r)[k] = t /\ r.request \in Requests
      /\ k \in Lines(r.request)
  BY ReconciledShape, RequestTypes
<1>2. t.item \in Items BY <1>1, RequestTypes
<1>3. line \in LineResults
  <2>1. r.resp.lines \in Seq(LineResults) BY DEF ChallengeRecords, Responses
  <2> QED BY <2>1
<1>4. IF stored = NoRecord THEN ~line.attempted /\ ~HasHash(line, t.item)
      ELSE /\ stored.body = t
           /\ stored.resp.tx = HasHash(line, t.item)
           /\ HasHash(line, t.item) => LookupAgrees(t.item, line.status)
  BY <1>1 DEF TransferReconciles
<1>5. ASSUME Executed(line) PROVE InBlock(tx, itemRecord, t)
  <2>1. HasHash(line, t.item) BY <1>5 DEF HasHash
  <2> QED BY <1>4, <2>1 DEF LookupAgrees, MatchedExpected, InBlock
<1>6. ASSUME ~Executed(line) PROVE tx[t.item] \notin {"pending", "committed"}
  <2>1. line.status = "failed" BY <1>3, <1>6 DEF LineResults, LineStatuses, Executed
  <2>2. ~LookupAgrees(t.item, line.status)
    BY <2>1 DEF LookupAgrees, MatchedExpected, TxSuccess
  <2>3. stored # NoRecord => ~stored.resp.tx BY <1>4, <2>2
  <2>4. tx[t.item] = "none" BY <1>2, <2>3 DEF Sent
  <2> QED BY <2>4
<1> QED BY <1>5, <1>6

LEMMA PaidStays ==
  ASSUME TypeInv, Stays, NEW r \in ChallengeRecords, NEW n, DOMAIN r.resp.lines \subseteq Lines(r.request),
         PaidBefore(tx, itemRecord, r, n)
  PROVE  PaidBefore(tx', itemRecord', r, n)
<1> SUFFICES ASSUME NEW k \in DOMAIN r.resp.lines, k < n, Executed(r.resp.lines[k])
             PROVE  InBlock(tx', itemRecord', r.request.transfers[k])
  BY DEF PaidBefore
<1>1. InBlock(tx, itemRecord, r.request.transfers[k]) BY DEF PaidBefore
<1>2. r.request \in Requests BY DEF ChallengeRecords
<1>3. r.request.transfers[k].item \in Items BY <1>2, RequestTypes
<1> QED BY <1>1, <1>3 DEF InBlock, Stays

LEMMA AuditedNext ==
  ASSUME TypeInv, Books, Sent, AuditTypes, Snapped, Audited, [AuditNext]_<<vars, auditVars>>
  PROVE  Audited'
<1>0. at \in Past => /\ snap \in ChallengeRecords /\ Readable(snap) /\ RecordReconciles(snap)
                     /\ RecordShaped(snap.request.id, snap)
                     /\ snap.request \in Requests
                     /\ StoredTransfers(snap) = snap.request.transfers
                     /\ DOMAIN snap.resp.lines = 1..Len(snap.request.transfers)
                     /\ Len(snap.request.transfers) \in Nat
  <2> SUFFICES ASSUME at \in Past
               PROVE  /\ snap \in ChallengeRecords /\ Readable(snap) /\ RecordReconciles(snap)
                      /\ RecordShaped(snap.request.id, snap)
                      /\ snap.request \in Requests
                      /\ StoredTransfers(snap) = snap.request.transfers
                      /\ DOMAIN snap.resp.lines = 1..Len(snap.request.transfers)
                      /\ Len(snap.request.transfers) \in Nat
    OBVIOUS
  <2>1. snap \in ChallengeRecords /\ Readable(snap) /\ RecordReconciles(snap)
    BY DEF AuditTypes, Readable
  <2>2. RecordShaped(snap.request.id, snap) BY <2>1 DEF Snapped
  <2> QED BY <2>1, <2>2, ReconciledShape
<1>1. ASSUME NEW id \in Ids, AuditUnreadable(id) \/ AuditRecord(id) PROVE Audited'
  <2>1. at' \in {"run", "alarm", "error"} BY <1>1 DEF AuditUnreadable, AuditRecord, Start
  <2> QED BY <2>1 DEF Audited
<1>2. CASE AuditRun
  <2>1. UNCHANGED <<snap, cursor>> /\ at' \in {"transfers", "alarm"} /\ at = "run"
    BY <1>2 DEF AuditRun, Goes
  <2>2. cursor = 1 /\ at \in Past BY <2>1 DEF AuditTypes, Past
  <2>3. \A k \in DOMAIN snap.resp.lines : ~(k < cursor) BY <1>0, <2>2
  <2>4. PaidBefore(tx', itemRecord', snap, cursor) /\ UnpaidBefore(tx', snap, cursor)
    BY <2>3 DEF PaidBefore, UnpaidBefore
  <2> QED BY <2>1, <2>4 DEF Audited
<1>3. CASE AuditTransfer
  <2>1. /\ UNCHANGED <<snap, overlapped, tx, itemRecord>> /\ cursor' = cursor + 1 /\ at = "transfers"
        /\ at' \in {"transfers", "topup", "alarm"}
        /\ at' # "alarm" => TransferReconciles(snap, cursor)
        /\ at' = "topup" => ~(cursor < Len(StoredTransfers(snap)))
    BY <1>3 DEF AuditTransfer, Goes, vars
  <2>2. at \in Past /\ cursor \in 1..Len(StoredTransfers(snap)) BY <2>1 DEF AuditTypes, Past
  <2>3. CASE at' = "alarm" BY <2>3 DEF Audited
  <2>4. CASE at' # "alarm"
    <3>1. cursor \in DOMAIN snap.resp.lines /\ cursor \in Nat BY <1>0, <2>2
    <3>2. /\ Executed(snap.resp.lines[cursor]) => InBlock(tx, itemRecord, snap.request.transfers[cursor])
          /\ ~Executed(snap.resp.lines[cursor])
               => tx[snap.request.transfers[cursor].item] \notin {"pending", "committed"}
      BY <1>0, <2>1, <2>2, <2>4, <3>1, TransferSeen
    <3>3. \A k \in DOMAIN snap.resp.lines : k < cursor + 1 => k < cursor \/ k = cursor
      BY <1>0, <2>2, <3>1
    <3>4. PaidBefore(tx, itemRecord, snap, cursor) /\ (~overlapped => UnpaidBefore(tx, snap, cursor))
      BY <2>1 DEF Audited
    <3>5. PaidBefore(tx, itemRecord, snap, cursor + 1) BY <3>2, <3>3, <3>4 DEF PaidBefore
    <3>6. ~overlapped => UnpaidBefore(tx, snap, cursor + 1) BY <3>2, <3>3, <3>4 DEF UnpaidBefore
    <3>7. at' # "transfers" => cursor + 1 > Len(snap.request.transfers)
      BY <1>0, <2>1, <2>2, <2>4
    <3> QED BY <2>1, <3>5, <3>6, <3>7 DEF Audited
  <2> QED BY <2>3, <2>4
<1>4. CASE AuditTopUp
  <2>1. UNCHANGED <<snap, cursor, overlapped, tx, itemRecord>> /\ at' \in {"ok", "alarm"} /\ at = "topup"
    BY <1>4 DEF AuditTopUp, Goes, vars
  <2> QED BY <2>1 DEF Audited
<1>5. CASE Meanwhile
  <2>1. /\ UNCHANGED <<at, snap, cursor>> /\ Next
        /\ ~overlapped' => ~overlapped /\ UNCHANGED tx
    BY <1>5 DEF Meanwhile
  <2>2. Stays BY <2>1, SentNext
  <2> SUFFICES ASSUME at \in {"transfers", "topup", "ok"} PROVE Audited'
    BY <2>1 DEF Audited
  <2>3. at \in Past BY DEF Past
  <2>4. DOMAIN snap.resp.lines \subseteq Lines(snap.request) /\ snap \in ChallengeRecords
    BY <1>0, <2>3, RequestTypes
  <2>5. PaidBefore(tx', itemRecord', snap, cursor) BY <2>2, <2>4, PaidStays DEF Audited
  <2>6. ~overlapped' => UnpaidBefore(tx', snap, cursor) BY <2>1 DEF Audited
  <2> QED BY <2>1, <2>5, <2>6 DEF Audited
<1>6. CASE UNCHANGED <<vars, auditVars>> BY <1>6 DEF vars, auditVars, Audited
<1> QED BY <1>1, <1>2, <1>3, <1>4, <1>5, <1>6 DEF AuditNext

THEOREM AuditedSafety == AuditSpec => []Audited
<1>1. AuditInit => Audited BY DEF AuditInit, Audited
<1>2. TypeInv /\ Books /\ Sent /\ AuditTypes /\ Snapped /\ Audited /\ [AuditNext]_<<vars, auditVars>>
        => Audited'
  BY AuditedNext
<1> QED BY <1>1, <1>2, AuditImplementsChallenge, BooksSafety, RecordsSafety, AuditRecordSafety, PTL
        DEF AuditSpec

(* The transfers of one participant are those of its two buckets.          *)
LEMMA BucketsAddUp ==
  ASSUME NEW req \in InOrder, NEW d \in Funded(req)
  PROVE  SumFunctionOnSet([t \in Range(req.transfers) |-> t.amount],
                          {t \in Range(req.transfers) : t.party = d.party})
           = Allocated(req, d, "wager") + Allocated(req, d, "guarantee")
<1> DEFINE Of(bucket) == {k \in Lines(req) : /\ req.transfers[k].good
                                             /\ req.transfers[k].party = d.party
                                             /\ req.transfers[k].bucket = bucket}
           S == Of("wager") \cup Of("guarantee")
           P == {t \in Range(req.transfers) : t.party = d.party}
<1>1. req \in Requests /\ \A k \in Lines(req) : req.transfers[k].good
  BY DEF InOrder, TransfersValid, LineValid
<1>2. /\ IsFiniteSet(Lines(req))
      /\ \A k \in Lines(req) : req.transfers[k].amount \in Nat /\ req.transfers[k].bucket \in Buckets
  BY <1>1, RequestTypes DEF Transfers
<1>3. P = {req.transfers[k] : k \in S} BY <1>1, <1>2 DEF Range, Lines, Buckets
<1>4. /\ Of("wager") \in SUBSET Lines(req) /\ Of("guarantee") \in SUBSET Lines(req)
      /\ Of("wager") \cap Of("guarantee") = {} /\ S \in SUBSET Lines(req)
  OBVIOUS
<1>5. \A k \in Lines(req) : Amounts(req)[k] \in Nat BY <1>2 DEF Amounts
<1>6. /\ Allocated(req, d, "wager") = SumFunctionOnSet(Amounts(req), Of("wager"))
      /\ Allocated(req, d, "guarantee") = SumFunctionOnSet(Amounts(req), Of("guarantee"))
  BY DEF Allocated
<1> HIDE DEF Of
<1>7. SumFunctionOnSet(Amounts(req), S) = Allocated(req, d, "wager") + Allocated(req, d, "guarantee")
  BY <1>2, <1>4, <1>5, <1>6, SumUnion
<1> HIDE DEF P, S
<1>8. SumFunctionOnSet([t \in Range(req.transfers) |-> t.amount], P)
        = SumFunctionOnSet(Amounts(req), S)
  BY <1>3, <1>4, LinesAddUp
<1> QED BY <1>7, <1>8 DEF P

(* An audit that ends ok is true, whatever settlers, node and host do      *)
(* before and during it: what the stored challenge reports as executed is  *)
(* in blocks with its own payload, and for a challenge stored as ok it     *)
(* adds up to every deposit (auditSettlementChallenge).                    *)
THEOREM OkAuditSafety == AuditSpec => []OkAuditIsTrue
<1>1. AuditTypes /\ Snapped /\ Audited => OkAuditIsTrue
  <2> SUFFICES ASSUME AuditTypes, Snapped, Audited, at = "ok"
               PROVE  /\ \A k \in DOMAIN snap.resp.lines :
                            Executed(snap.resp.lines[k]) => OnChain(snap.request.transfers[k])
                      /\ RunOK(snap.resp) =>
                           \A d \in Funded(snap.request) :
                              d.total = SumFunctionOnSet([t \in Range(snap.request.transfers) |-> t.amount],
                                                         {t \in Range(snap.request.transfers) :
                                                            t.party = d.party /\ OnChain(t)})
    BY DEF OkAuditIsTrue
  <2>1. snap \in ChallengeRecords /\ Readable(snap) /\ RecordReconciles(snap)
    BY DEF AuditTypes, Past, Readable
  <2>2. /\ DOMAIN snap.resp.lines = 1..Len(snap.request.transfers)
        /\ Len(snap.request.transfers) \in Nat /\ snap.request \in Requests
    BY <2>1, ReconciledShape DEF Snapped
  <2>3. PaidBefore(tx, itemRecord, snap, cursor) /\ cursor > Len(snap.request.transfers) /\ cursor \in Nat
    BY DEF Audited, AuditTypes
  <2>4. \A k \in DOMAIN snap.resp.lines : k < cursor BY <2>2, <2>3
  <2>5. \A k \in DOMAIN snap.resp.lines :
          Executed(snap.resp.lines[k]) => OnChain(snap.request.transfers[k])
    BY <2>3, <2>4 DEF PaidBefore, InBlock, OnChain
  <2>6. ASSUME RunOK(snap.resp), NEW d \in Funded(snap.request)
        PROVE  d.total = SumFunctionOnSet([t \in Range(snap.request.transfers) |-> t.amount],
                                          {t \in Range(snap.request.transfers) :
                                             t.party = d.party /\ OnChain(t)})
    <3> DEFINE req == snap.request
    <3>1. req \in InOrder /\ \A k \in Lines(req) : OnChain(req.transfers[k])
      BY <2>1, <2>5, <2>6 DEF Snapped, OkComplete
    <3>2. {t \in Range(req.transfers) : t.party = d.party /\ OnChain(t)}
            = {t \in Range(req.transfers) : t.party = d.party}
      BY <3>1 DEF Range, Lines
    <3>3. /\ Allocated(req, d, "wager") = d.wager /\ Allocated(req, d, "guarantee") = d.guarantee
          /\ d.wager + d.guarantee = d.total
      BY <2>6, <3>1 DEF InOrder, AllocatesExactly, FundingVerifies, MemoVerifies
    <3>4. SumFunctionOnSet([t \in Range(req.transfers) |-> t.amount],
                           {t \in Range(req.transfers) : t.party = d.party})
            = Allocated(req, d, "wager") + Allocated(req, d, "guarantee")
      BY <2>6, <3>1, BucketsAddUp
    <3> HIDE DEF req
    <3>5. d.total = SumFunctionOnSet([t \in Range(req.transfers) |-> t.amount],
                                     {t \in Range(req.transfers) : t.party = d.party})
      BY <3>3, <3>4
    <3> QED BY <3>2, <3>5 DEF req
  <2> QED BY <2>5, <2>6
<1> QED BY <1>1, AuditRecordSafety, AuditedSafety, PTL

(* An audit that ends ok, and since whose start nothing it reads changed,  *)
(* has missed no payment: a transfer reported as failed has no transaction *)
(* in a block or on its way to one, also when it was misreported           *)
(* (auditChallengeTransfers, auditLookupMismatch).                         *)
THEOREM MissedPaymentSafety == AuditSpec => []OkAuditMissesNoPayment
<1>1. AuditTypes /\ Snapped /\ Audited => OkAuditMissesNoPayment
  <2> SUFFICES ASSUME AuditTypes, Snapped, Audited, at = "ok", ~overlapped,
                      NEW k \in DOMAIN snap.resp.lines, ~Executed(snap.resp.lines[k])
               PROVE  tx[snap.request.transfers[k].item] \notin {"pending", "committed"}
    BY DEF OkAuditMissesNoPayment
  <2>1. snap \in ChallengeRecords /\ Readable(snap) /\ RecordReconciles(snap)
    BY DEF AuditTypes, Past, Readable
  <2>2. /\ DOMAIN snap.resp.lines = 1..Len(snap.request.transfers)
        /\ Len(snap.request.transfers) \in Nat
    BY <2>1, ReconciledShape DEF Snapped
  <2>3. UnpaidBefore(tx, snap, cursor) /\ cursor > Len(snap.request.transfers) /\ cursor \in Nat
    BY DEF Audited, AuditTypes
  <2>4. k < cursor BY <2>2, <2>3
  <2> QED BY <2>3, <2>4 DEF UnpaidBefore
<1> QED BY <1>1, AuditRecordSafety, AuditedSafety, PTL

-----------------------------------------------------------------------------
(* Where an ok challenge comes from: a run record that is final, with the  *)
(* transfers, the status and the lines of the response.  A final run       *)
(* record is never replaced, because whoever executes a run holds its lock *)
(* and found a record that was still open.                                 *)

FinalRun(rr) == rr # NoRecord /\ settlementRunResponseIsFinal(rr)

OpenRun(rr, ts) == rr = NoRecord \/ (rr.payload = ts /\ ~settlementRunResponseIsFinal(rr))

Ran(rr, req, resp) ==
  RunOK(resp) => /\ FinalRun(rr) /\ rr.payload = req.transfers /\ rr.status = resp.run
                 /\ \A k \in Lines(req) : k \in DOMAIN rr.lines /\ rr.lines[k] = resp.lines[k]

SameLength(rr) == rr # NoRecord => DOMAIN rr.lines = DOMAIN rr.payload

Runs ==
  /\ \A s \in Settlers : pc[s] = "pick" => /\ runLock[job[s].id] = s
                                           /\ OpenRun(runRecord[job[s].id], job[s].transfers)
  /\ \A s \in Settlers : pc[s] = "write" => Ran(runRecord[job[s].id], job[s], draft[s])
  /\ \A id \in Ids : Readable(record[id]) => Ran(runRecord[id], record[id].request, record[id].resp)
  /\ \A id \in Ids : SameLength(runRecord[id])

LEMMA RunsInit == Init => Runs
BY DEF Init, Runs, Readable, SameLength

LEMMA RunsSame ==
  ASSUME Runs, UNCHANGED <<pc, job, draft, record, runLock, runRecord>>
  PROVE  Runs'
BY DEF Runs

LEMMA RunsElsewhere ==
  ASSUME TypeInv, Runs, NEW s \in Settlers, pc'[s] \notin {"pick", "write"},
         \A v \in Settlers \ {s} : pc'[v] = pc[v] /\ job'[v] = job[v] /\ draft'[v] = draft[v],
         UNCHANGED <<record, runLock, runRecord>>
  PROVE  Runs'
BY DEF Runs

LEMMA RunsGoto ==
  ASSUME TypeInv, Runs, NEW s \in Settlers, NEW label, label \notin {"pick", "write"}, Goto(s, label),
         UNCHANGED <<local, record, runLock, runRecord>>
  PROVE  Runs'
BY Moves, RunsElsewhere DEF local

LEMMA RunsStop ==
  ASSUME TypeInv, Runs, NEW s \in Settlers, Stop(s), UNCHANGED <<record, runLock, runRecord>>
  PROVE  Runs'
<1>1. /\ pc'[s] = "idle"
      /\ \A v \in Settlers \ {s} : pc'[v] = pc[v] /\ job'[v] = job[v] /\ draft'[v] = draft[v]
  BY Stops DEF Stop, TypeInv, LocalTypes
<1> QED BY <1>1, RunsElsewhere

LEMMA RunsAnswer ==
  ASSUME TypeInv, Runs, NEW s \in Settlers, NEW resp, Answer(s, resp),
         Ran(runRecord[job[s].id], job[s], resp), UNCHANGED <<job, record, runLock, runRecord>>
  PROVE  Runs'
<1>1. /\ pc'[s] = "write" /\ draft'[s] = resp
      /\ \A v \in Settlers \ {s} : pc'[v] = pc[v] /\ draft'[v] = draft[v]
  BY DEF TypeInv, LocalTypes, Answer, Goto
<1> QED BY <1>1 DEF Runs

LEMMA FailedRan ==
  ASSUME NEW rr, NEW req, NEW p, NEW retryable, NEW answer
  PROVE  Ran(rr, req, FailedResponse(req, p, retryable, answer))
BY DEF Ran, RunOK, FailedResponse

(* A run that executed nothing makes no ok challenge.                      *)
LEMMA NothingRan ==
  ASSUME NEW req \in InOrder, NEW p \in Plans, NEW status \in EmbeddedRuns,
         NEW lines \in Seq(LineResults), NEW retryable \in BOOLEAN,
         \A k \in DOMAIN lines : ~Executed(lines[k])
  PROVE  ~RunOK(MergedResponse(req, p, status, lines, retryable))
<1> DEFINE resp == MergedResponse(req, p, status, lines, retryable)
<1>1. req \in Requests /\ req.transfers # << >> BY RequestsAssumption DEF InOrder
<1>2. 1 \in Lines(req) BY <1>1, RequestTypes
<1>3. /\ \A k \in Lines(req) : Executed(resp.lines[k]) => k \in DOMAIN lines /\ resp.lines[k] = lines[k]
      /\ RunOK(resp) => \A k \in Lines(req) : Executed(resp.lines[k])
  BY <1>1, MergedTypes
<1> HIDE DEF resp
<1>4. ~RunOK(resp) BY <1>2, <1>3
<1> QED BY <1>4 DEF resp

LEMMA RunsArrive ==
  ASSUME TypeInv, Runs, NEW s \in Settlers, Arrive(s)
  PROVE  Runs'
<1>0. PICK req \in Requests : \E p : Submit(s, req, p)
  BY DEF Arrive, SubmitMalformed, SubmitUnfunded, SubmitMisallocated, SubmitRefused, SubmitFunded
<1>1. PICK p : Submit(s, req, p) BY <1>0
<1>2. pc'[s] = "lock" /\ \A v \in Settlers \ {s} : pc'[v] = pc[v] BY <1>1, Moves DEF Submit
<1>3. /\ \A v \in Settlers \ {s} : job'[v] = job[v] /\ draft'[v] = draft[v]
      /\ UNCHANGED <<record, runLock, runRecord>>
  BY <1>1 DEF Submit, TypeInv, LocalTypes, files, run
<1> QED BY <1>2, <1>3, RunsElsewhere

LEMMA RunsEnter ==
  ASSUME TypeInv, Runs, NEW s \in Settlers, Enter(s)
  PROVE  Runs'
<1> USE DEF files, run
<1>1. CASE CreateLock(s) BY <1>1, RunsGoto DEF CreateLock
<1>2. CASE LockFails(s) BY <1>2, RunsStop DEF LockFails
<1>3. CASE StatStale(s) BY <1>3, RunsGoto DEF StatStale
<1>4. CASE RemoveStale(s) BY <1>4, RunsGoto DEF RemoveStale
<1>5. CASE Conflict(s) BY <1>5, RunsGoto DEF Conflict
<1>6. CASE ReadInvalid(s) BY <1>6, RunsGoto DEF ReadInvalid
<1>7. CASE Replay(s) BY <1>7, RunsGoto DEF Replay
<1>8. CASE StoreRefusal(s) BY <1>8, FailedRan, RunsAnswer DEF StoreRefusal
<1>9. CASE Proceed(s)
  <2> DEFINE label == IF plan[s].topUp > 0 THEN "topup" ELSE "run"
  <2>1. Goto(s, label) /\ label \notin {"pick", "write"} /\ UNCHANGED <<local, record, runLock, runRecord>>
    BY <1>9 DEF Proceed
  <2> HIDE DEF label
  <2> QED BY <2>1, RunsGoto
<1> QED BY <1>1, <1>2, <1>3, <1>4, <1>5, <1>6, <1>7, <1>8, <1>9 DEF Enter

LEMMA RunsFund ==
  ASSUME TypeInv, Runs, NEW s \in Settlers, FundSigner(s)
  PROVE  Runs'
<1> USE DEF files, run
<1>1. CASE /\ \E label \in {"run", "await"} : Goto(s, label)
           /\ UNCHANGED <<local, record, runLock, runRecord>>
  BY <1>1, RunsGoto
<1>2. CASE /\ \E retryable \in BOOLEAN, answer \in {"refused", "failed"} :
                 Answer(s, FailedResponse(job[s], plan[s], retryable, answer))
           /\ UNCHANGED <<job, record, runLock, runRecord>>
  BY <1>2, FailedRan, RunsAnswer
<1>3. CASE TopUpConflict(s) BY <1>2, <1>3 DEF TopUpConflict
<1>4. CASE TopUpReplay(s)
  <2>1. CASE UNCHANGED draft /\ \E label \in {"run", "await"} : Goto(s, label)
    BY <1>1, <1>4, <2>1 DEF TopUpReplay, local
  <2>2. CASE \E answer \in {"refused", "failed"} :
               Answer(s, FailedResponse(job[s], plan[s], FALSE, answer))
    BY <1>2, <1>4, <2>2 DEF TopUpReplay
  <2> QED BY <1>4, <2>1, <2>2 DEF TopUpReplay
<1>5. CASE TopUpRefused(s) BY <1>2, <1>5 DEF TopUpRefused, EscrowRefusals
<1>6. CASE TopUpConfirmed(s) \/ TopUpAccepted(s) BY <1>1, <1>6 DEF TopUpConfirmed, TopUpAccepted
<1>7. CASE TopUpRejected(s) \/ TopUpMisreported(s)
  BY <1>2, <1>7 DEF TopUpRejected, TopUpMisreported
<1>8. CASE TopUpBusy(s) BY <1>2, <1>8 DEF TopUpBusy
<1>9. CASE BalanceReached(s) BY <1>1, <1>9 DEF BalanceReached
<1>10. CASE BalancePending(s) BY <1>2, <1>10 DEF BalancePending
<1> QED BY <1>3, <1>4, <1>5, <1>6, <1>7, <1>8, <1>9, <1>10 DEF FundSigner

(* A settler writes the run record of its id; nobody else executes it.     *)
LEMMA RunsStore ==
  ASSUME TypeInv, Runs, NEW s \in Settlers, NEW id \in Ids, id = job[s].id,
         ~FinalRun(runRecord[id]),
         \A v \in Settlers \ {s} : pc[v] = "pick" => job[v].id # id /\ job[v].id \in Ids,
         NEW rr, runRecord' = [runRecord EXCEPT ![id] = rr], SameLength(rr),
         \A jd \in Ids \ {id} : runLock'[jd] = runLock[jd],
         NEW resp, Answer(s, resp), Ran(rr, job[s], resp), UNCHANGED <<job, record>>
  PROVE  Runs'
<1>1. /\ pc'[s] = "write" /\ draft'[s] = resp
      /\ \A v \in Settlers \ {s} : pc'[v] = pc[v] /\ draft'[v] = draft[v]
  BY DEF TypeInv, LocalTypes, Answer, Goto
<1>2. runRecord'[id] = rr /\ \A jd \in Ids \ {id} : runRecord'[jd] = runRecord[jd]
  BY DEF TypeInv, RunTypes
<1>3. \A jd \in Ids : FinalRun(runRecord[jd]) => runRecord'[jd] = runRecord[jd] BY <1>2
<1>4. \A v \in Settlers : pc'[v] = "pick" => /\ runLock'[job'[v].id] = v
                                             /\ OpenRun(runRecord'[job'[v].id], job'[v].transfers)
  BY <1>1, <1>2 DEF Runs
<1>5. \A v \in Settlers : pc'[v] = "write" => Ran(runRecord'[job'[v].id], job'[v], draft'[v])
  <2> SUFFICES ASSUME NEW v \in Settlers, pc'[v] = "write"
               PROVE  Ran(runRecord'[job[v].id], job[v], draft'[v])
    OBVIOUS
  <2>1. CASE v = s BY <1>1, <1>2, <2>1
  <2>2. CASE v # s
    <3>1. pc[v] = "write" /\ draft'[v] = draft[v] BY <1>1, <2>2
    <3>2. job[v].id \in Ids BY <3>1, JobTypes DEF TypeInv
    <3>3. Ran(runRecord[job[v].id], job[v], draft[v]) BY <3>1 DEF Runs
    <3> QED BY <1>3, <3>1, <3>2, <3>3 DEF Ran
  <2> QED BY <2>1, <2>2
<1>6. \A jd \in Ids : Readable(record[jd]) => Ran(runRecord'[jd], record[jd].request, record[jd].resp)
  BY <1>3 DEF Runs, Ran
<1>7. \A jd \in Ids : SameLength(runRecord'[jd])
  BY <1>2 DEF Runs
<1> QED BY <1>4, <1>5, <1>6, <1>7 DEF Runs

(* Whoever found the lock of the run free, or holds it, is alone.          *)
LEMMA RunIsMine ==
  ASSUME TypeInv, Runs, NEW s \in Settlers, NEW id \in Ids, runLock[id] \in {NoLock, s}
  PROVE  \A v \in Settlers \ {s} : pc[v] = "pick" => job[v].id # id /\ job[v].id \in Ids
<1> SUFFICES ASSUME NEW v \in Settlers \ {s}, pc[v] = "pick" PROVE job[v].id # id /\ job[v].id \in Ids
  OBVIOUS
<1>1. job[v].id \in Ids BY JobTypes DEF TypeInv
<1>2. runLock[job[v].id] = v BY DEF Runs
<1> QED BY <1>1, <1>2, NilAssumption

LEMMA RunIsOpen ==
  ASSUME TypeInv, NEW s \in Settlers, pc[s] # "idle", ~OtherRun(s), ~RunIsFinal(s)
  PROVE  OpenRun(runRecord[job[s].id], job[s].transfers) /\ ~FinalRun(runRecord[job[s].id])
<1>1. runRecord[job[s].id] \in RunRecords \cup {NoRecord} BY JobTypes DEF TypeInv, RunTypes
<1> QED BY <1>1, RecordsAssumption DEF OpenRun, FinalRun, OtherRun, RunIsFinal, SameRun, Readable

LEMMA RunsRefused ==
  ASSUME TypeInv, Memory, Runs, NEW s \in Settlers, RunRefused(s)
  PROVE  Runs'
<1> DEFINE id == job[s].id
<1>0. /\ pc[s] = "run" /\ runLock[id] = NoLock /\ ~OtherRun(s) /\ ~RunIsFinal(s)
      /\ UNCHANGED <<job, record, runLock>>
  BY DEF RunRefused, files
<1>1. PICK retryable \in BOOLEAN :
        LET lines == [k \in Lines(job[s]) |-> Unattempted("refused", retryable)] IN
        /\ StoreRun(s, lines, "failed")
        /\ Answer(s, MergedResponse(job[s], plan[s], "failed", lines, retryable))
  BY DEF RunRefused
<1> DEFINE lines == [k \in Lines(job[s]) |-> Unattempted("refused", retryable)]
           rr == [payload |-> job[s].transfers, lines |-> lines, status |-> "failed"]
           resp == MergedResponse(job[s], plan[s], "failed", lines, retryable)
<1>2. /\ job[s] \in Requests /\ id \in Ids /\ plan[s] \in Plans BY <1>0, JobTypes DEF TypeInv
<1>3. job[s] \in InOrder BY <1>0, MemoryOf DEF Executing
<1>4. lines \in Seq(LineResults) /\ \A k \in DOMAIN lines : ~Executed(lines[k])
  <2>1. lines \in [Lines(job[s]) -> LineResults] BY LineTypes
  <2>2. \A k \in DOMAIN lines : ~Executed(lines[k]) BY DEF Executed, Unattempted
  <2> HIDE DEF lines
  <2> QED BY <1>2, <2>1, <2>2, LinesAreSeq
<1>5. runRecord' = [runRecord EXCEPT ![id] = rr] /\ Answer(s, resp) BY <1>1 DEF StoreRun
<1>6. SameLength(rr) BY DEF SameLength, Lines
<1>7. "failed" \in EmbeddedRuns BY DEF EmbeddedRuns, RunStatuses
<1> HIDE DEF lines
<1>8. Ran(rr, job[s], resp) BY <1>2, <1>3, <1>4, <1>7, NothingRan DEF Ran
<1>9. ~FinalRun(runRecord[id]) BY <1>0, RunIsOpen
<1>10. \A v \in Settlers \ {s} : pc[v] = "pick" => job[v].id # id /\ job[v].id \in Ids
  BY <1>0, <1>2, RunIsMine
<1> HIDE DEF rr, resp
<1> QED BY <1>0, <1>2, <1>5, <1>6, <1>8, <1>9, <1>10, RunsStore

LEMMA RunsEnds ==
  ASSUME TypeInv, Memory, Runs, NEW s \in Settlers, RunEnds(s)
  PROVE  Runs'
<1> DEFINE id == job[s].id
           lines == results[s]
           status == deriveSettlementRunStatus(Len(job[s].transfers), lines)
           retryable == \E k \in Lines(job[s]) : lines[k].retryable
           rr == [payload |-> job[s].transfers, lines |-> lines, status |-> status]
           resp == MergedResponse(job[s], plan[s], status, lines, retryable)
<1>0. pc[s] = "pick" /\ Len(lines) = Len(job[s].transfers) /\ UNCHANGED <<job, record>>
  BY DEF RunEnds, files
<1>1. /\ job[s] \in Requests /\ id \in Ids /\ plan[s] \in Plans /\ lines \in Seq(LineResults)
  BY <1>0, JobTypes DEF TypeInv, LocalTypes
<1>2. /\ DOMAIN lines = Lines(job[s]) /\ IsFiniteSet(Lines(job[s])) /\ Len(job[s].transfers) \in Nat
  BY <1>0, <1>1, RequestTypes
<1>3. runRecord' = [runRecord EXCEPT ![id] = rr] /\ Answer(s, resp)
  BY DEF RunEnds, StoreRun
<1>4. \A jd \in Ids \ {id} : runLock'[jd] = runLock[jd] BY DEF RunEnds, TypeInv, RunTypes
<1>5. SameLength(rr) BY <1>2 DEF SameLength, Lines
<1>6. /\ runLock[id] = s /\ OpenRun(runRecord[id], job[s].transfers) BY <1>0 DEF Runs
<1>7. ~FinalRun(runRecord[id]) BY <1>6 DEF FinalRun, OpenRun
<1>8. \A v \in Settlers \ {s} : pc[v] = "pick" => job[v].id # id /\ job[v].id \in Ids
  BY <1>1, <1>6, RunIsMine
<1>9. Ran(rr, job[s], resp)
  <2> SUFFICES ASSUME RunOK(resp)
               PROVE  /\ FinalRun(rr) /\ rr.payload = job[s].transfers /\ rr.status = resp.run
                      /\ \A k \in Lines(job[s]) : k \in DOMAIN rr.lines /\ rr.lines[k] = resp.lines[k]
    BY DEF Ran
  <2>1. status \in EmbeddedRuns /\ retryable \in BOOLEAN
    BY <1>1, <1>2, StatusType DEF EmbeddedRuns
  <2>2. \A k \in Lines(job[s]) : Executed(resp.lines[k]) /\ resp.lines[k] = lines[k]
    <3>1. /\ \A k \in Lines(job[s]) :
                Executed(resp.lines[k]) => k \in DOMAIN lines /\ resp.lines[k] = lines[k]
          /\ RunOK(resp) => \A k \in Lines(job[s]) : Executed(resp.lines[k])
      <4> HIDE DEF status, retryable, lines
      <4> QED BY <1>1, <2>1, MergedTypes
    <3> HIDE DEF resp
    <3> QED BY <3>1
  <2>3. LinesTrue(itemRecord, lines, job[s].transfers) BY <1>0, MemoryOf
  <2>4. \A k \in DOMAIN lines : ~lines[k].retryable BY <1>2, <2>2, <2>3 DEF LinesTrue, Settled
  <2>5. lines = [k \in Lines(job[s]) |-> IF k \in DOMAIN lines THEN lines[k]
                                         ELSE Unattempted("invalid", FALSE)]
    BY <1>1, <1>2
  <2>6. resp.status = status /\ resp.run = status
    BY <2>5 DEF MergedResponse, deriveSettlementChallengeStatus
  <2>7. rr \in RunRecords
    <3>1. job[s].transfers \in Seq(Transfers) /\ status \in RunStatuses
      BY <1>1, <1>2, RequestTypes, StatusType
    <3> HIDE DEF status, lines
    <3> QED BY <1>1, <3>1 DEF RunRecords
  <2> HIDE DEF resp, status, lines
  <2>8. FinalRun(rr)
    BY <2>4, <2>6, <2>7, RecordsAssumption DEF FinalRun, settlementRunResponseIsFinal, RunOK
  <2> QED BY <1>2, <2>2, <2>6, <2>8
<1> HIDE DEF rr, resp
<1> QED BY <1>0, <1>1, <1>3, <1>4, <1>5, <1>7, <1>8, <1>9, RunsStore

LEMMA RunsProceeds ==
  ASSUME TypeInv, Runs, NEW s \in Settlers, RunProceeds(s)
  PROVE  Runs'
<1> DEFINE id == job[s].id
<1>1. /\ pc[s] = "run" /\ runLock[id] = NoLock /\ ~OtherRun(s) /\ ~RunIsFinal(s)
      /\ UNCHANGED <<job, draft, record, runRecord>>
  BY DEF RunProceeds, files, local
<1>2. id \in Ids BY <1>1, JobTypes DEF TypeInv
<1>3. pc'[s] = "pick" /\ \A v \in Settlers \ {s} : pc'[v] = pc[v] BY Moves DEF RunProceeds
<1>4. runLock'[id] = s /\ \A jd \in Ids \ {id} : runLock'[jd] = runLock[jd]
  BY <1>2 DEF RunProceeds, TypeInv, RunTypes
<1>5. \A v \in Settlers \ {s} : pc[v] = "pick" => job[v].id # id /\ job[v].id \in Ids
  BY <1>1, <1>2, RunIsMine
<1>6. OpenRun(runRecord[id], job[s].transfers) BY <1>1, RunIsOpen
<1>7. \A v \in Settlers : pc'[v] = "pick" => /\ runLock'[job'[v].id] = v
                                             /\ OpenRun(runRecord'[job'[v].id], job'[v].transfers)
  BY <1>1, <1>3, <1>4, <1>5, <1>6 DEF Runs
<1> QED BY <1>1, <1>3, <1>7 DEF Runs

LEMMA RunsError ==
  ASSUME TypeInv, Runs, NEW s \in Settlers, RailError(s)
  PROVE  Runs'
<1>1. UNCHANGED <<job, draft, record, runRecord>> BY DEF RailError, files, local
<1>2. pc'[s] = "unlock" /\ \A v \in Settlers \ {s} : pc'[v] = pc[v] BY Moves DEF RailError
<1>3. \A v \in Settlers \ {s} : pc[v] = "pick" => runLock'[job[v].id] = v
  <2> SUFFICES ASSUME NEW v \in Settlers \ {s}, pc[v] = "pick" PROVE runLock'[job[v].id] = v OBVIOUS
  <2>1. job[v].id \in Ids /\ runLock[job[v].id] = v BY JobTypes DEF TypeInv, Runs
  <2> QED BY <2>1 DEF RailError
<1> QED BY <1>1, <1>2, <1>3 DEF Runs

LEMMA RunsRun ==
  ASSUME TypeInv, Memory, Runs, NEW s \in Settlers, ExecuteRun(s)
  PROVE  Runs'
<1> USE DEF files, run
<1>1. CASE RunUnavailable(s)
  <2>1. PICK retryable \in BOOLEAN :
          Answer(s, MergedResponse(job[s], plan[s], "unavailable", << >>, retryable))
    BY <1>1 DEF RunUnavailable
  <2>2. pc[s] = "run" /\ UNCHANGED <<job, record, runLock, runRecord>> BY <1>1 DEF RunUnavailable
  <2>3. job[s] \in InOrder /\ plan[s] \in Plans BY <2>2, JobTypes, MemoryOf DEF TypeInv, Executing
  <2>4. "unavailable" \in EmbeddedRuns /\ << >> \in Seq(LineResults) /\ DOMAIN << >> = {}
    BY DEF EmbeddedRuns
  <2>5. ~RunOK(MergedResponse(job[s], plan[s], "unavailable", << >>, retryable))
    BY <2>3, <2>4, NothingRan
  <2> QED BY <2>1, <2>2, <2>5, RunsAnswer DEF Ran
<1>2. CASE RunReplay(s)
  <2> DEFINE rr == runRecord[job[s].id]
             resp == MergedResponse(job[s], plan[s], rr.status, rr.lines, FALSE)
  <2>1. /\ pc[s] = "run" /\ RunIsFinal(s) /\ Answer(s, resp)
        /\ UNCHANGED <<job, record, runLock, runRecord>>
    BY <1>2 DEF RunReplay
  <2>2. job[s] \in Requests /\ job[s].id \in Ids /\ plan[s] \in Plans BY <2>1, JobTypes DEF TypeInv
  <2>3. rr \in RunRecords /\ FinalRun(rr) /\ rr.payload = job[s].transfers
    BY <2>1, <2>2 DEF RunIsFinal, SameRun, Readable, FinalRun, TypeInv, RunTypes
  <2>4. rr.status \in EmbeddedRuns /\ rr.lines \in Seq(LineResults)
    BY <2>3 DEF RunRecords, EmbeddedRuns
  <2>5. /\ \A k \in Lines(job[s]) :
              Executed(resp.lines[k]) => k \in DOMAIN rr.lines /\ resp.lines[k] = rr.lines[k]
        /\ RunOK(resp) => \A k \in Lines(job[s]) : Executed(resp.lines[k])
    <3> HIDE DEF rr
    <3> QED BY <2>2, <2>4, MergedTypes
  <2>6. resp.run = rr.status BY DEF MergedResponse
  <2> HIDE DEF resp
  <2>7. Ran(rr, job[s], resp) BY <2>3, <2>5, <2>6 DEF Ran
  <2> QED BY <2>1, <2>7, RunsAnswer
<1>3. CASE \/ ItemConflict(s) \/ ItemReplay(s) \/ ItemRefused(s) \/ ItemConfirmed(s)
           \/ ItemAccepted(s) \/ ItemRejected(s) \/ ItemMisreported(s) \/ ItemBusy(s)
  BY <1>3, RunsSame DEF ItemConflict, ItemReplay, ItemRefused, ItemConfirmed, ItemAccepted,
         ItemRejected, ItemMisreported, ItemBusy
<1> QED BY <1>1, <1>2, <1>3, RunsRefused, RunsEnds, RunsProceeds, RunsError DEF ExecuteRun

LEMMA RunsLeave ==
  ASSUME TypeInv, Runs, NEW s \in Settlers, Leave(s)
  PROVE  Runs'
<1> USE DEF files, run
<1>1. CASE WriteChallenge(s)
  <2> DEFINE id == job[s].id
             r == [fingerprint |-> Fingerprint(job[s], plan[s].stage), resp |-> draft[s],
                   request |-> job[s]]
  <2>1. pc[s] = "write" /\ pc'[s] = "unlock" /\ \A v \in Settlers \ {s} : pc'[v] = pc[v]
    BY <1>1, Moves DEF WriteChallenge
  <2>2. id \in Ids BY <2>1, JobTypes DEF TypeInv
  <2>3. record'[id] = r /\ \A jd \in Ids \ {id} : record'[jd] = record[jd]
    BY <1>1, <2>2 DEF WriteChallenge, TypeInv, FileTypes
  <2>4. Ran(runRecord[id], r.request, r.resp) BY <2>1 DEF Runs
  <2>5. UNCHANGED <<job, draft, runLock, runRecord>> BY <1>1 DEF WriteChallenge, local
  <2> HIDE DEF r, id
  <2> QED BY <2>1, <2>3, <2>4, <2>5 DEF Runs
<1>2. CASE WriteFails(s) BY <1>2, RunsGoto DEF WriteFails
<1>3. CASE Unlock(s) BY <1>3, RunsStop DEF Unlock
<1> QED BY <1>1, <1>2, <1>3 DEF Leave

LEMMA RunsEnvironment ==
  ASSUME TypeInv, Runs, Environment
  PROVE  Runs'
<1> USE DEF files, run
<1>1. CASE UNCHANGED <<pc, local, record, run>> BY <1>1, RunsSame DEF local
<1>2. ASSUME NEW s \in Settlers, Crash(s) PROVE Runs'
  BY <1>2, RunsStop DEF Crash
<1>3. CASE PowerLoss BY <1>3 DEF PowerLoss, Runs, Readable
<1>4. ASSUME NEW id \in Ids, ExpireRunLock(id) PROVE Runs'
  <2>1. /\ \A jd \in Ids \ {id} : runLock'[jd] = runLock[jd]
        /\ \A v \in Settlers : pc[v] = "pick" => job[v].id # id
        /\ UNCHANGED <<pc, job, draft, record, runRecord>>
    BY <1>4 DEF ExpireRunLock, TypeInv, RunTypes, local
  <2>2. \A v \in Settlers : pc[v] = "pick" => job[v].id \in Ids
    <3>1. \A v \in Settlers : pc[v] = "pick" => pc[v] # "idle" OBVIOUS
    <3> QED BY <3>1, JobTypes DEF TypeInv
  <2>3. \A v \in Settlers : pc[v] = "pick" => runLock'[job[v].id] = v BY <2>1, <2>2 DEF Runs
  <2> QED BY <2>1, <2>3 DEF Runs
<1> QED BY <1>1, <1>2, <1>3, <1>4 DEF Environment, AgeLock, SettleTopUp, SettleItem

LEMMA RunsNext ==
  ASSUME TypeInv, Memory, Runs, [Next]_vars
  PROVE  Runs'
<1>1. CASE UNCHANGED vars BY <1>1, RunsSame DEF vars
<1> QED BY <1>1, RunsArrive, RunsEnter, RunsFund, RunsRun, RunsLeave, RunsEnvironment DEF Next

(* A challenge stored as ok has a final run record that says the same,     *)
(* also after its lock was taken over, or after its run was left half done *)
(* and resumed (executeSettlementRun, mergeChallengeRunResults).           *)
THEOREM RunsSafety == Spec => []Runs
<1>1. Init => Runs BY RunsInit
<1>2. TypeInv /\ Truth /\ Runs /\ [Next]_vars => Runs' BY RunsNext DEF Truth
<1> QED BY <1>1, <1>2, BooksSafety, TruthSafety, PTL DEF Spec

-----------------------------------------------------------------------------
(* No false alarm: of a challenge stored as ok, every check of the audit   *)
(* passes, the last two once its transactions are in blocks.               *)

AllInBlocks(txs, records, r) ==
  /\ \A t \in Range(r.request.transfers) : InBlock(txs, records, t)
  /\ r.resp.topUp = "executed" => txs[r.request.id] = "committed"

LEMMA OkShape ==
  ASSUME TypeInv, Truth, Shapes, NEW id \in Ids, Readable(record[id]), RunOK(record[id].resp)
  PROVE  LET r == record[id] IN
         /\ r \in ChallengeRecords /\ r.request \in InOrder /\ r.request \in Requests
         /\ r.request.id = id
         /\ r.fingerprint = Fingerprint(r.request, "full")
         /\ StoredTransfers(r) = r.request.transfers
         /\ DOMAIN r.resp.lines = Lines(r.request)
         /\ \A k \in Lines(r.request) : Executed(r.resp.lines[k]) /\ Settled(r.resp.lines[k])
         /\ r.resp.topUp \in {"none", "executed"}
<1> DEFINE r == record[id]
<1>1. r \in ChallengeRecords BY DEF TypeInv, FileTypes, Readable
<1>2. r.request \in InOrder /\ \A k \in Lines(r.request) : k \in DOMAIN r.resp.lines /\ Executed(r.resp.lines[k])
  BY DEF Truth, RecordTruth, Truthful, OkComplete
<1>3. r.request \in Requests /\ r.request.transfers # << >>
  BY <1>2, RequestsAssumption DEF InOrder
<1>4. 1 \in Lines(r.request) BY <1>3, RequestTypes
<1>5. PICK stage \in Stages : /\ r.fingerprint = Fingerprint(r.request, stage)
                              /\ WellShaped(r.request, stage, r.resp)
  BY DEF Shapes, RecordShaped
<1>6. r.request.id = id BY DEF Shapes, RecordShaped
<1>7. stage = "full" /\ DOMAIN r.resp.lines = Lines(r.request)
  BY <1>2, <1>4, <1>5 DEF WellShaped, LinesOf
<1>8. StoredTransfers(r) = r.request.transfers BY <1>5, <1>7 DEF StoredTransfers, Fingerprint
<1>9. \A k \in Lines(r.request) : Settled(r.resp.lines[k])
  BY <1>2 DEF Truth, RecordTruth, Truthful, LinesTrue
<1>10. r.resp.topUp \in {"none", "executed"} BY <1>5 DEF WellShaped
<1> QED BY <1>1, <1>2, <1>3, <1>5, <1>6, <1>7, <1>8, <1>9, <1>10

LEMMA OkRecordReconciles ==
  ASSUME TypeInv, Truth, Shapes, NEW id \in Ids, Readable(record[id]), RunOK(record[id].resp)
  PROVE  RecordReconciles(record[id])
<1> DEFINE r == record[id]
           req == r.request
<1>1. /\ req \in InOrder /\ req \in Requests /\ r.fingerprint = Fingerprint(req, "full")
      /\ StoredTransfers(r) = req.transfers
      /\ \A k \in Lines(req) : Settled(r.resp.lines[k])
  BY OkShape
<1>2. StoredFunding(r) = Funded(req) BY <1>1 DEF StoredFunding, Funded, Fingerprint
<1>3. req.funding # << >> /\ req.funding \in Seq(Deposits)
  BY <1>1, RequestsAssumption DEF InOrder
<1>4. Funded(req) # {}
  <2>1. 1 \in DOMAIN req.funding BY <1>3
  <2> QED BY <2>1 DEF Funded
<1>5. \A k \in Lines(req) : req.transfers[k].good /\ Resolves(req, req.transfers[k].party)
  BY <1>1 DEF InOrder, TransfersValid, LineValid
<1> HIDE DEF req, r
<1>6. \A d, bucket : AuditedAllocation(r, d, bucket) = Allocated(req, d, bucket)
  <2> SUFFICES ASSUME NEW d, NEW bucket PROVE AuditedAllocation(r, d, bucket) = Allocated(req, d, bucket)
    OBVIOUS
  <2>1. {k \in DOMAIN req.transfers : req.transfers[k].party = d.party /\ req.transfers[k].bucket = bucket}
          = {k \in Lines(req) : /\ req.transfers[k].good /\ req.transfers[k].party = d.party
                                /\ req.transfers[k].bucket = bucket}
    BY <1>5 DEF Lines
  <2>2. [k \in DOMAIN req.transfers |-> req.transfers[k].amount] = Amounts(req) BY DEF Amounts, Lines
  <2> QED BY <1>1, <2>1, <2>2 DEF AuditedAllocation, Allocated
<1>7. \A d \in Funded(req) : /\ MemoVerifies(d)
                             /\ Allocated(req, d, "wager") = d.wager
                             /\ Allocated(req, d, "guarantee") = d.guarantee
  BY <1>1 DEF InOrder, FundingVerifies, AllocatesExactly
<1>8. \A k \in DOMAIN StoredTransfers(r) :
        /\ \E d \in StoredFunding(r) : d.party = StoredTransfers(r)[k].party
        /\ r.resp.lines[k].outcome # "invalid"
  BY <1>1, <1>2, <1>5 DEF Resolves, Settled, Lines
<1>9. RecordReconciles(r) BY <1>2, <1>4, <1>6, <1>7, <1>8 DEF RecordReconciles
<1> QED BY <1>9 DEF r

LEMMA OkRunReconciles ==
  ASSUME TypeInv, Truth, Shapes, Runs, NEW id \in Ids, Readable(record[id]), RunOK(record[id].resp)
  PROVE  RunReconciles(record[id], runRecord[id]) /\ RunLinesReconcile(record[id], runRecord[id])
<1> DEFINE r == record[id]
           rr == runRecord[id]
           req == r.request
<1>1. /\ req \in InOrder /\ StoredTransfers(r) = req.transfers /\ DOMAIN r.resp.lines = Lines(req)
  BY OkShape
<1>2. /\ FinalRun(rr) /\ rr.payload = req.transfers /\ rr.status = r.resp.run
      /\ \A k \in Lines(req) : k \in DOMAIN rr.lines /\ rr.lines[k] = r.resp.lines[k]
  BY DEF Runs, Ran
<1>3. rr # NoRecord /\ DOMAIN rr.lines = Lines(req)
  BY <1>2 DEF FinalRun, Runs, SameLength, Lines
<1>4. rr.status # "none"
  BY <1>2 DEF FinalRun, settlementRunResponseIsFinal, RunOK
<1> HIDE DEF r, rr, req
<1>5. RunReconciles(r, rr) BY <1>1, <1>2, <1>3, <1>4 DEF RunReconciles
<1>6. RunLinesReconcile(r, rr)
  <2> SUFFICES ASSUME NEW k \in DOMAIN r.resp.lines, NEW j \in DOMAIN rr.lines,
                      rr.payload[j].item = StoredTransfers(r)[k].item
               PROVE  /\ rr.lines[j].status = r.resp.lines[k].status
                      /\ HasHash(rr.lines[j], StoredTransfers(r)[k].item)
                           = HasHash(r.resp.lines[k], StoredTransfers(r)[k].item)
    BY DEF RunLinesReconcile
  <2>1. k \in Lines(req) /\ j \in Lines(req) /\ req.transfers[j].item = req.transfers[k].item
    BY <1>1, <1>2, <1>3
  <2>2. j = k BY <1>1, <2>1, OneLineEach
  <2>3. rr.lines[j] = r.resp.lines[k] BY <1>2, <2>1, <2>2
  <2> QED BY <2>3
<1> QED BY <1>5, <1>6 DEF r, rr

LEMMA OkTransferReconciles ==
  ASSUME TypeInv, Truth, Shapes, Sent, NEW id \in Ids, Readable(record[id]), RunOK(record[id].resp),
         AllInBlocks(tx, itemRecord, record[id]), NEW k \in DOMAIN record[id].resp.lines
  PROVE  TransferReconciles(record[id], k)
<1> DEFINE r == record[id]
           t == r.request.transfers[k]
           line == r.resp.lines[k]
           stored == itemRecord[t.item]
<1>1. /\ r.request \in Requests /\ StoredTransfers(r) = r.request.transfers
      /\ k \in Lines(r.request) /\ Executed(line)
  BY OkShape
<1>2. t.item \in Items /\ t \in Range(r.request.transfers) BY <1>1, RequestTypes DEF Range, Lines
<1>3. tx[t.item] = "committed" /\ stored.body = t BY <1>2 DEF AllInBlocks, InBlock
<1>4. stored # NoRecord /\ stored.resp.tx BY <1>2, <1>3 DEF Sent
<1>5. stored.resp.tx \in BOOLEAN
  <2>1. stored \in ItemRecords BY <1>2, <1>4 DEF TypeInv, RunTypes
  <2> QED BY <2>1 DEF ItemRecords, RailResponses, ItemResponses
<1>6. HasHash(line, t.item) BY <1>1 DEF HasHash
<1>7. LookupAgrees(t.item, line.status)
  BY <1>1, <1>3 DEF LookupAgrees, Found, MatchedExpected, TxSuccess, Executed
<1>8. stored.resp.tx = HasHash(line, t.item) BY <1>4, <1>5, <1>6 DEF HasHash
<1> QED BY <1>1, <1>3, <1>4, <1>7, <1>8 DEF TransferReconciles

LEMMA OkTopUpReconciles ==
  ASSUME TypeInv, Truth, Shapes, Sent, NEW id \in Ids, Readable(record[id]), RunOK(record[id].resp),
         AllInBlocks(tx, itemRecord, record[id])
  PROVE  TopUpReconciles(id, record[id])
<1>1. record[id].resp.topUp \in {"none", "executed"} /\ record[id].request.id = id BY OkShape
<1>2. CASE record[id].resp.topUp = "none" BY <1>2 DEF TopUpReconciles
<1>3. CASE record[id].resp.topUp = "executed"
  <2>1. tx[id] = "committed" BY <1>1, <1>3 DEF AllInBlocks
  <2>2. topUpRecord[id] # NoRecord /\ topUpRecord[id].resp.tx BY <2>1 DEF Sent
  <2>3. LookupAgrees(id, "confirmed") BY <2>1 DEF LookupAgrees, Found, MatchedExpected, TxSuccess
  <2> QED BY <1>3, <2>2, <2>3 DEF TopUpReconciles
<1> QED BY <1>1, <1>2, <1>3

(* Until something changes, the record that was read is the one in place.  *)
Fresh ==
  ~overlapped /\ Readable(snap) => snap.request.id \in Ids /\ record[snap.request.id] = snap

NoFalseAlarm ==
  at = "alarm" /\ ~overlapped /\ Readable(snap) /\ RunOK(snap.resp)
    => ~AllInBlocks(tx, itemRecord, snap)

LEMMA AlarmInit == AuditInit => Fresh /\ NoFalseAlarm
BY DEF AuditInit, Fresh, NoFalseAlarm, Readable

LEMMA AlarmStart ==
  ASSUME TypeInv, Truth, Shapes, NEW id \in Ids, AuditUnreadable(id) \/ AuditRecord(id)
  PROVE  Fresh' /\ NoFalseAlarm'
<1>1. PICK step : Start(id, step) BY DEF AuditUnreadable, AuditRecord
<1>2. snap' = record[id] /\ at' = step /\ UNCHANGED record BY <1>1 DEF Start, vars
<1>3. Readable(record[id]) => record[id].request.id = id BY DEF Shapes, RecordShaped
<1>4. Fresh' BY <1>2, <1>3 DEF Fresh, Readable
<1>5. at' = "alarm" /\ Readable(record[id]) => ~RunOK(record[id].resp)
  <2> SUFFICES ASSUME at' = "alarm", Readable(record[id]), RunOK(record[id].resp) PROVE FALSE OBVIOUS
  <2>1. RecordReconciles(record[id]) BY OkRecordReconciles
  <2> QED BY <2>1 DEF AuditUnreadable, AuditRecord, Start, Recorded
<1> QED BY <1>2, <1>4, <1>5 DEF NoFalseAlarm, Readable

LEMMA AlarmNext ==
  ASSUME TypeInv, Truth, Sent, Shapes, Runs, AuditTypes, Snapped, Fresh, NoFalseAlarm,
         [AuditNext]_<<vars, auditVars>>
  PROVE  Fresh' /\ NoFalseAlarm'
<1> DEFINE id == snap.request.id
           Healthy == ~overlapped /\ Readable(snap) /\ RunOK(snap.resp) /\ AllInBlocks(tx, itemRecord, snap)
<1>0. Healthy => /\ id \in Ids /\ record[id] = snap /\ Readable(record[id])
                  /\ RunOK(record[id].resp) /\ AllInBlocks(tx, itemRecord, record[id])
  BY DEF Fresh
<1>1. CASE AuditRun
  <2>1. UNCHANGED <<snap, overlapped, record, tx, itemRecord>>
    BY <1>1 DEF AuditRun, Goes, vars
  <2>2. Healthy => at' # "alarm"
    <3> SUFFICES ASSUME Healthy PROVE at' = "transfers" OBVIOUS
    <3>1. RunReconciles(snap, runRecord[id]) /\ RunLinesReconcile(snap, runRecord[id])
      BY <1>0, OkRunReconciles
    <3> QED BY <1>1, <3>1 DEF AuditRun, Goes
  <2> QED BY <2>1, <2>2 DEF Fresh, NoFalseAlarm
<1>2. CASE AuditTransfer
  <2>1. UNCHANGED <<snap, overlapped, record, tx, itemRecord>> /\ at = "transfers"
    BY <1>2 DEF AuditTransfer, Goes, vars
  <2>2. Healthy => at' # "alarm"
    <3> SUFFICES ASSUME Healthy PROVE at' # "alarm" OBVIOUS
    <3>1. snap \in ChallengeRecords /\ RecordReconciles(snap) /\ cursor \in 1..Len(StoredTransfers(snap))
      BY <2>1 DEF AuditTypes, Past, Readable
    <3>2. cursor \in DOMAIN snap.resp.lines BY <3>1, ReconciledShape DEF Snapped
    <3>3. TransferReconciles(snap, cursor) BY <1>0, <3>2, OkTransferReconciles
    <3> QED BY <1>2, <3>3 DEF AuditTransfer, Goes
  <2> QED BY <2>1, <2>2 DEF Fresh, NoFalseAlarm
<1>3. CASE AuditTopUp
  <2>1. UNCHANGED <<snap, overlapped, record, tx, itemRecord>> BY <1>3 DEF AuditTopUp, Goes, vars
  <2>2. Healthy => at' # "alarm"
    <3> SUFFICES ASSUME Healthy PROVE at' = "ok" OBVIOUS
    <3>1. TopUpReconciles(id, snap) BY <1>0, OkTopUpReconciles
    <3> QED BY <1>3, <3>1 DEF AuditTopUp, Goes
  <2> QED BY <2>1, <2>2 DEF Fresh, NoFalseAlarm
<1>4. CASE Meanwhile
  <2>1. /\ UNCHANGED <<at, snap>>
        /\ ~overlapped' => ~overlapped /\ UNCHANGED <<record, tx, itemRecord>>
    BY <1>4 DEF Meanwhile
  <2> QED BY <2>1 DEF Fresh, NoFalseAlarm
<1>5. CASE UNCHANGED <<vars, auditVars>> BY <1>5 DEF vars, auditVars, Fresh, NoFalseAlarm
<1> QED BY <1>1, <1>2, <1>3, <1>4, <1>5, AlarmStart DEF AuditNext

(* The audit gives no false alarm: when the stored challenge is ok, its    *)
(* transfers and its top-up are in blocks and nothing changes meanwhile,   *)
(* no check fails, over any history of attempts, crashes and takeovers     *)
(* (auditSettlementChallenge).                                             *)
THEOREM NoFalseAlarmSafety == AuditSpec => []SettledChallengeReconciles
<1>1. AuditInit => Fresh /\ NoFalseAlarm BY AlarmInit
<1>2. TypeInv /\ Truth /\ Sent /\ Shapes /\ Runs /\ AuditTypes /\ Snapped /\ Fresh /\ NoFalseAlarm
      /\ [AuditNext]_<<vars, auditVars>> => Fresh' /\ NoFalseAlarm'
  BY AlarmNext
<1>3. NoFalseAlarm => SettledChallengeReconciles
  BY DEF NoFalseAlarm, SettledChallengeReconciles, AllInBlocks, InBlock, OnChain
<1> QED BY <1>1, <1>2, <1>3, AuditImplementsChallenge, BooksSafety, TruthSafety, RecordsSafety, RunsSafety,
           AuditRecordSafety, PTL DEF AuditSpec
=============================================================================
