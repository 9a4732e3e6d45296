-------------------------- MODULE RequestRailProofs --------------------------
(***************************************************************************)
(* Proofs about RequestRail, for any number of workers, ids, request       *)
(* bodies and hashes and for any combination of faults.                    *)
(***************************************************************************)
EXTENDS RequestRail, TLAPS

LEMMA Types ==
  /\ NoResponse \in Responses
  /\ \A b \in BOOLEAN : Refused(b) \in Responses
  /\ \A s \in Statuses, h \in Hashes \cup {NoHash} : Reported(s, h) \in Responses
BY DEF NoResponse, Refused, Reported, Responses, Statuses

LEMMA RefusalTypes ==
  /\ \A role : \A r \in PreflightRefusals(role) : r.retryable \in BOOLEAN
  /\ \A e \in ExecErrors : e.retryable \in BOOLEAN
  /\ \A e \in LostOutputErrors : e.retryable \in BOOLEAN
<1>1. \A codes : /\ \A r \in Refusal(codes, TRUE) : r.retryable \in BOOLEAN
                 /\ \A r \in Refusal(codes, FALSE) : r.retryable \in BOOLEAN
  BY DEF Refusal
<1>2. \A r \in PayoutRefusals : r.retryable \in BOOLEAN
  BY <1>1 DEF PayoutRefusals
<1>3. \A r \in EscrowRefusals : r.retryable \in BOOLEAN
  BY <1>1 DEF EscrowRefusals
<1>4. \A e \in ExecErrors : e.retryable \in BOOLEAN
  BY <1>1 DEF ExecErrors
<1>5. \A e \in LostOutputErrors : e.retryable \in BOOLEAN
  BY <1>1 DEF LostOutputErrors
<1> QED BY <1>2, <1>3, <1>4, <1>5 DEF PreflightRefusals

(* A request as a worker holds it is also a request as a record stores it. *)
LEMMA RequestsAreStorable == Requests \subseteq StoredRequests
BY DEF Requests, StoredRequests

LEMMA TypeInit == Init => TypeOK
<1> SUFFICES ASSUME Init PROVE TypeOK
  OBVIOUS
<1>1. LegacyRecords \subseteq Records
  BY Types DEF LegacyRecords, Records, StoredRequests, Roles
<1> QED BY <1>1, Types DEF Init, TypeOK, PCs

LEMMA TypeStep ==
  ASSUME TypeOK, NEW w \in Workers, Step(w)
  PROVE  TypeOK'
<1> USE DEF TypeOK, PCs, Section, Goto
<1>1. CASE CreateLock(w) BY <1>1 DEF CreateLock, history, bounds, Jobs
<1>2. CASE LockExists(w) BY <1>2 DEF LockExists, files, history, bounds
<1>3. CASE InProgress(w) BY <1>3, Types DEF InProgress, Stop, files, history, bounds
<1>4. CASE StatStale(w) BY <1>4 DEF StatStale, files, history, bounds
<1>5. CASE RemoveStale(w) BY <1>5 DEF RemoveStale, Forfeit, bounds, Jobs
<1>6. CASE ReadConflict(w) BY <1>6, Types DEF ReadConflict, Return, files, history, bounds
<1>7. CASE Replay(w) BY <1>7 DEF Replay, Return, files, history, bounds, Records
<1>8. CASE ReadInvalid(w) BY <1>8, Types DEF ReadInvalid, Return, files, history, bounds
<1>9. CASE Proceed(w) BY <1>9 DEF Proceed, files, history, bounds
<1>10. CASE PreflightPasses(w) BY <1>10 DEF PreflightPasses, files, history, bounds
<1>11. CASE PreflightRefuses(w)
  BY <1>11, Types, RefusalTypes DEF PreflightRefuses, files, history, bounds
<1>12. CASE NodeAccepts(w)
  BY <1>12, Types DEF NodeAccepts, NewTx, Txs, TxState, Jobs, Statuses, files, history, bounds
<1>13. CASE NodeRejects(w)
  BY <1>13, Types DEF NodeRejects, NewTx, Txs, TxState, Jobs, Statuses, files, history, bounds
<1>14. CASE ExecFails(w) BY <1>14, Types, RefusalTypes DEF ExecFails, files, history, bounds
<1>15. CASE OutputLost(w)
  BY <1>15, Types, RefusalTypes DEF OutputLost, Forfeit, Jobs, files, history, bounds
<1>16. CASE OutputRead(w) BY <1>16 DEF OutputRead, files, history, bounds
<1>17. CASE ConfirmFound(w)
  BY <1>17, Types DEF ConfirmFound, Responses, Statuses, files, history, bounds
<1>18. CASE ConfirmTimesOut(w)
  BY <1>18, Types DEF ConfirmTimesOut, Responses, Statuses, files, history, bounds
<1>19. CASE ConfirmLookupFails(w)
  BY <1>19, Types DEF ConfirmLookupFails, Responses, Statuses, files, history, bounds
<1>20. CASE WriteRecord(w)
  BY <1>20, RequestsAreStorable DEF WriteRecord, Return, Records, Jobs, history, bounds
<1>21. CASE WriteFails(w) BY <1>21, Types DEF WriteFails, Return, Forfeit, files, bounds
<1>22. CASE Unlock(w)
  BY <1>22, Types DEF Unlock, Stop, Answers, Responses, Jobs, bounds
<1>23. CASE LockFails(w) BY <1>23, Types DEF LockFails, Stop, files, history, bounds
<1> QED
  BY <1>1, <1>2, <1>3, <1>4, <1>5, <1>6, <1>7, <1>8, <1>9, <1>10, <1>11, <1>12, <1>13,
     <1>14, <1>15, <1>16, <1>17, <1>18, <1>19, <1>20, <1>21, <1>22, <1>23 DEF Step

LEMMA TypeEnvironment ==
  ASSUME TypeOK
  PROVE  /\ \A w \in Workers, id \in Ids, req \in Requests : Submit(w, id, req) => TypeOK'
         /\ \A w \in Workers : Crash(w) => TypeOK'
         /\ \A torn \in SUBSET Ids : PowerLoss(torn) => TypeOK'
         /\ \A id \in Ids : AgeLock(id) => TypeOK'
         /\ \A h \in Hashes, state \in TxState : Settle(h, state) => TypeOK'
<1> USE DEF TypeOK, PCs, Section
<1>1. ASSUME NEW w \in Workers, NEW id \in Ids, NEW req \in Requests, Submit(w, id, req)
      PROVE  TypeOK'
  BY <1>1 DEF Submit, Goto, Jobs, files, history
<1>2. ASSUME NEW w \in Workers, Crash(w) PROVE TypeOK'
  BY <1>2, Types DEF Crash, Stop, Goto, Forfeit, files
<1>3. ASSUME NEW torn \in SUBSET Ids, PowerLoss(torn) PROVE TypeOK'
  BY <1>3, Types DEF PowerLoss, Forfeit
<1>4. ASSUME NEW id \in Ids, AgeLock(id) PROVE TypeOK'
  BY <1>4 DEF AgeLock, history, bounds
<1>5. ASSUME NEW h \in Hashes, NEW state \in TxState, Settle(h, state) PROVE TypeOK'
  BY <1>5 DEF Settle, Txs, files, history, bounds
<1> QED BY <1>1, <1>2, <1>3, <1>4, <1>5

(* Every step of the rail, of its callers and of its environment keeps the *)
(* types of RequestRail's variables.                                       *)
THEOREM TypeCorrect == Spec => []TypeOK
<1>1. TypeOK /\ [Next]_vars => TypeOK'
  <2> SUFFICES ASSUME TypeOK, [Next]_vars PROVE TypeOK'
    OBVIOUS
  <2>1. CASE UNCHANGED vars
    BY <2>1 DEF vars, TypeOK
  <2>2. CASE Next
    BY <2>2, TypeStep, TypeEnvironment DEF Next, TxState
  <2> QED BY <2>1, <2>2
<1> QED BY TypeInit, <1>1, PTL DEF Spec

-----------------------------------------------------------------------------
(* The inductive invariant.                                                *)

LEMMA RailInit == Init => RailInv
<1> SUFFICES ASSUME Init PROVE RailInv
  OBVIOUS
<1>1. \A r \in LegacyRecords : r.resp.tx = NoHash
  <2>1. \A r \in LegacyRecords : r.resp = Refused(TRUE)
    BY DEF LegacyRecords
  <2>2. Refused(TRUE).tx = NoHash
    BY DEF Refused
  <2> QED BY <2>1, <2>2
<1>2. \A id \in Ids : record[id] \in Records => record[id].resp.tx = NoHash
  BY <1>1, NilAssumption DEF Init
<1> QED
  BY <1>2 DEF Init, RailInv, LockInv, NoEarlyResponse, HolderOwnsLock, InSection, Section,
    OnceInv, ExecutesAlone, Executing, TxsAreKept, PaidAtMostOnce, TxsOf,
    AnswerInv, AnswerIsWritten, AnswersAreStored, ProofInv, ResponsesAreProofs, RecordsAreProofs

(* A new hash in an attempt's hands: what NodeAccepts and NodeRejects      *)
(* share.                                                                  *)
LEMMA NewTxKeepsOnce ==
  ASSUME TypeOK, RailInv, NEW w \in Workers, pc[w] = "exec",
         NEW h \in Hashes, NEW s \in TxState, txs[h] = NoTx, NewTx(w, h, s),
         NEW label \in InFlight, Goto(w, label),
         resp'[w].tx = h, \A v \in Workers : v # w => resp'[v] = resp[v],
         UNCHANGED <<job, record, forfeited>>
  PROVE  OnceInv'
<1> USE NilAssumption, HashAssumption
    DEF RailInv, TypeOK, Goto, Section, InFlight, NoResponse, Responses, Jobs, Records,
        OnceInv, LockInv, ExecutesAlone, Executing, TxsAreKept, PaidAtMostOnce, HoldsUnrecorded,
        NoEarlyResponse, HolderOwnsLock, InSection
<1> DEFINE i == job[w].id
<1>1. i \in Ids /\ resp[w].tx = NoHash
  OBVIOUS
<1>2. \A id \in Ids : TxsOf(id)' = IF id = i THEN TxsOf(id) \cup {h} ELSE TxsOf(id)
  BY <1>1 DEF TxsOf, NewTx, Txs
<1>3. i \notin forfeited => TxsOf(i) = {}
  <2>1. i \notin forfeited => TxsOf(i) \subseteq {NoHash}
    BY <1>1
  <2>2. TxsOf(i) \subseteq Hashes
    BY DEF TxsOf
  <2> QED BY <2>1, <2>2
<1>4. pc' = [pc EXCEPT ![w] = label] /\ forfeited' = forfeited /\ record' = record /\ job' = job
  OBVIOUS
<1>5. \A v \in Workers : v # w /\ pc[v] \in Section /\ job[v].id = i => i \in forfeited
  BY <1>1
<1>6. ExecutesAlone'
  <2> SUFFICES ASSUME NEW id \in Ids \ forfeited, NEW v \in Workers,
                      pc'[v] \in Executing, job[v].id = id
               PROVE  /\ record[id] # Unreadable
                      /\ record[id] \in Records => record[id].resp.tx = NoHash
                      /\ TxsOf(id)' \subseteq {resp'[v].tx}
    BY <1>4
  <2>1. CASE v = w
    <3>0. id = i
      BY <2>1
    <3>1. TxsOf(id)' = {h} /\ resp'[v].tx = h
      <4> HIDE DEF i
      <4> QED BY <2>1, <3>0, <1>2, <1>3
    <3>2. pc[v] \in Executing /\ job[v].id = id
      BY <2>1, <3>1 DEF Executing
    <3> QED BY <3>1, <3>2
  <2>2. CASE v # w
    BY <2>2, <1>2, <1>4, <1>5
  <2> QED BY <2>1, <2>2
<1>7. TxsAreKept'
  <2> SUFFICES ASSUME NEW id \in Ids \ forfeited, NEW g \in TxsOf(id)'
               PROVE  \/ record[id] = Unreadable
                      \/ record[id] \in Records /\ record[id].resp.tx = g
                      \/ \E v \in Workers : HoldsUnrecorded(v, id)' /\ resp'[v].tx = g
    BY <1>4
  <2>1. CASE id = i
    <3>1. g = h
      BY <2>1, <1>2, <1>3
    <3>2. HoldsUnrecorded(w, id)' /\ resp'[w].tx = g
      BY <2>1, <3>1, <1>4
    <3> QED BY <3>2
  <2>2. CASE id # i
    <3>1. g \in TxsOf(id)
      BY <2>2, <1>2
    <3>2. \A v \in Workers : HoldsUnrecorded(v, id) => v # w
      BY <2>2
    <3>3. \A v \in Workers : v # w => (HoldsUnrecorded(v, id)' <=> HoldsUnrecorded(v, id))
      BY <1>4
    <3>4. CASE \E v \in Workers : HoldsUnrecorded(v, id) /\ resp[v].tx = g
      <4>1. PICK v \in Workers : HoldsUnrecorded(v, id) /\ resp[v].tx = g
        BY <3>4
      <4>2. HoldsUnrecorded(v, id)' /\ resp'[v].tx = g
        BY <4>1, <3>2, <3>3
      <4> QED BY <4>2
    <3> QED BY <3>1, <3>4
  <2> QED BY <2>1, <2>2
<1>8. PaidAtMostOnce'
  <2> SUFFICES ASSUME NEW id \in Ids \ forfeited, NEW f \in TxsOf(id)', NEW g \in TxsOf(id)'
               PROVE  f = g
    BY <1>4
  <2>1. CASE id = i
    <3> HIDE DEF i
    <3> QED BY <2>1, <1>2, <1>3
  <2>2. CASE id # i
    <3>1. f \in TxsOf(id) /\ g \in TxsOf(id)
      <4> HIDE DEF i
      <4> QED BY <2>2, <1>2
    <3> QED BY <3>1
  <2> QED BY <2>1, <2>2
<1> QED BY <1>6, <1>7, <1>8

LEMMA NewTxKeepsProofs ==
  ASSUME TypeOK, RailInv, NEW w \in Workers, pc[w] = "exec",
         NEW h \in Hashes, NEW s \in TxState, txs[h] = NoTx, NewTx(w, h, s),
         NEW label \in InFlight, Goto(w, label),
         resp'[w].tx = h, resp'[w].status # "confirmed",
         \A v \in Workers : v # w => resp'[v] = resp[v],
         UNCHANGED <<job, record, forfeited>>
  PROVE  ProofInv'
<1> USE NilAssumption, HashAssumption
    DEF RailInv, TypeOK, ProofInv, ResponsesAreProofs, RecordsAreProofs
<1>1. /\ txs'[h] = [id |-> job[w].id, req |-> job[w].req, state |-> s]
      /\ txs'[h] # NoTx
      /\ \A g \in Hashes : g # h => txs'[g] = txs[g]
  BY DEF NewTx, Txs, Jobs
<1>2. \A v \in Workers : v # w => pc'[v] = pc[v]
  BY DEF Goto
<1>3. ResponsesAreProofs'
  <2> SUFFICES ASSUME NEW v \in Workers, pc'[v] # "idle", resp'[v].tx # NoHash
               PROVE  /\ txs'[resp'[v].tx] # NoTx
                      /\ txs'[resp'[v].tx].id = job[v].id
                      /\ SameRequest(txs'[resp'[v].tx].req, job[v].req)
                      /\ resp'[v].status = "confirmed" => txs'[resp'[v].tx].state = "committed"
    OBVIOUS
  <2>1. CASE v = w
    BY <2>1, <1>1 DEF SameRequest
  <2>2. CASE v # w
    <3>1. resp'[v] = resp[v] /\ resp[v].tx \in Hashes /\ pc[v] # "idle"
      BY <2>2, <1>2 DEF Responses
    <3>2. resp[v].tx # h
      BY <3>1
    <3> QED BY <3>1, <3>2, <1>1
  <2> QED BY <2>1, <2>2
<1>4. RecordsAreProofs'
  <2> SUFFICES ASSUME NEW id \in Ids, record[id] \in Records, record[id].resp.tx # NoHash
               PROVE  /\ txs'[record[id].resp.tx] # NoTx
                      /\ txs'[record[id].resp.tx].id = id
                      /\ SameRequest(record[id].req, txs'[record[id].resp.tx].req)
                      /\ record[id].resp.status = "confirmed"
                           => txs'[record[id].resp.tx].state = "committed"
    OBVIOUS
  <2>1. record[id].resp.tx \in Hashes
    BY DEF Records, Responses
  <2>2. record[id].resp.tx # h
    OBVIOUS
  <2> QED BY <2>1, <2>2, <1>1
<1> QED BY <1>3, <1>4

LEMMA WriteKeepsOnce ==
  ASSUME TypeOK, RailInv, NEW w \in Workers, WriteRecord(w)
  PROVE  OnceInv'
<1> DEFINE i == job[w].id
<1>1. /\ pc' = [pc EXCEPT ![w] = "unlock"] /\ pc[w] = "write"
      /\ record' = [record EXCEPT ![i] = [req |-> job[w].req, resp |-> resp[w]]]
      /\ resp' = [resp EXCEPT ![w] = resp[w]]
      /\ UNCHANGED <<job, txs, forfeited>>
  BY DEF WriteRecord, Return, Goto, history
<1>2. i \in Ids /\ record'[i] \in Records /\ record'[i].resp = resp[w] /\ resp' = resp
  BY <1>1, RequestsAreStorable DEF TypeOK, Jobs, Records
<1>3. \A id \in Ids : id # i => record'[id] = record[id]
  BY <1>1
<1>4. /\ \A v \in Workers : v # w => pc'[v] = pc[v]
      /\ pc'[w] = "unlock"
      /\ forfeited' = forfeited /\ job' = job
      /\ \A id \in Ids : TxsOf(id)' = TxsOf(id)
  BY <1>1 DEF TxsOf, TypeOK
<1>5. ExecutesAlone'
  <2>1. ASSUME NEW id \in Ids \ forfeited, NEW v \in Workers,
               pc'[v] \in Executing, job[v].id = id
        PROVE  /\ record'[id] # Unreadable
               /\ record'[id] \in Records => record'[id].resp.tx = NoHash
               /\ TxsOf(id) \subseteq {resp[v].tx}
    <3>1. v # w /\ pc[v] \in Executing
      BY <2>1, <1>4 DEF Executing
    <3>2. id # i
      BY <2>1, <3>1, <1>1 DEF RailInv, LockInv, HolderOwnsLock, InSection, Section, Executing
    <3> QED BY <2>1, <3>1, <3>2, <1>3 DEF RailInv, OnceInv, ExecutesAlone
  <2> QED BY <2>1, <1>2, <1>4 DEF ExecutesAlone
<1>6. TxsAreKept'
  <2>1. ASSUME NEW id \in Ids \ forfeited, NEW h \in TxsOf(id)
        PROVE  \/ record'[id] = Unreadable
               \/ record'[id] \in Records /\ record'[id].resp.tx = h
               \/ \E v \in Workers : HoldsUnrecorded(v, id)' /\ resp'[v].tx = h
    <3>1. CASE id = i
      <4>1. TxsOf(id) \subseteq {resp[w].tx}
        BY <3>1, <1>1, <1>2 DEF RailInv, OnceInv, ExecutesAlone, Executing
      <4> QED BY <3>1, <4>1, <1>2
    <3>2. CASE id # i
      <4>1. ASSUME NEW v \in Workers, HoldsUnrecorded(v, id), resp[v].tx = h
            PROVE  HoldsUnrecorded(v, id)' /\ resp'[v].tx = h
        BY <3>2, <4>1, <1>2, <1>4 DEF HoldsUnrecorded
      <4> QED BY <3>2, <4>1, <1>3 DEF RailInv, OnceInv, TxsAreKept
    <3> QED BY <3>1, <3>2
  <2> QED BY <2>1, <1>4 DEF TxsAreKept
<1>7. PaidAtMostOnce'
  BY <1>4 DEF RailInv, OnceInv, PaidAtMostOnce
<1> QED BY <1>5, <1>6, <1>7 DEF OnceInv

LEMMA WriteKeepsAnswers ==
  ASSUME TypeOK, RailInv, NEW w \in Workers, WriteRecord(w)
  PROVE  AnswerInv'
<1> DEFINE i == job[w].id
<1>1. /\ pc' = [pc EXCEPT ![w] = "unlock"] /\ pc[w] = "write"
      /\ record' = [record EXCEPT ![i] = [req |-> job[w].req, resp |-> resp[w]]]
      /\ resp' = [resp EXCEPT ![w] = resp[w]]
      /\ UNCHANGED <<job, answers, forfeited>>
  BY DEF WriteRecord, Return, Goto, history
<1>2. /\ i \in Ids /\ resp' = resp /\ record'[i] \in Records
      /\ record'[i].req = job[w].req /\ record'[i].resp = resp[w]
      /\ \A id \in Ids : id # i => record'[id] = record[id]
  BY <1>1, RequestsAreStorable DEF TypeOK, Jobs, Records
<1>3. AnswerIsWritten'
  <2>1. ASSUME NEW v \in Workers, pc'[v] = "unlock", resp[v].tx # NoHash,
               job[v].id \notin forfeited
        PROVE  /\ record'[job[v].id] \in Records
               /\ SameRequest(record'[job[v].id].req, job[v].req)
               /\ record'[job[v].id].resp.tx = resp[v].tx
               /\ record'[job[v].id].resp.status = resp[v].status
    <3>1. CASE v = w
      BY <3>1, <1>2 DEF SameRequest
    <3>2. CASE v # w
      <4>1. pc[v] = "unlock" /\ job[v].id \in Ids
        BY <2>1, <3>2, <1>1 DEF TypeOK, Jobs
      <4>2. job[v].id # i
        BY <2>1, <3>2, <4>1, <1>1 DEF RailInv, LockInv, HolderOwnsLock, InSection, Section
      <4> QED BY <2>1, <4>1, <4>2, <1>2 DEF RailInv, AnswerInv, AnswerIsWritten
    <3> QED BY <3>1, <3>2
  <2> QED BY <2>1, <1>1, <1>2 DEF AnswerIsWritten
<1>4. AnswersAreStored'
  <2>1. ASSUME NEW a \in answers, a.id \notin forfeited
        PROVE  a.id \in Ids /\ (record[a.id] = Unreadable \/ a.id # i)
    <3>1. a.id \in Ids /\ a.tx # NoHash
      BY HashAssumption DEF TypeOK, Answers
    <3>2. a.id = i => record[i] # Unreadable /\ (record[i] \in Records => record[i].resp.tx = NoHash)
      BY <2>1, <1>1, <1>2 DEF RailInv, OnceInv, ExecutesAlone, Executing
    <3> QED BY <2>1, <3>1, <3>2 DEF RailInv, AnswerInv, AnswersAreStored
  <2>2. i \notin forfeited => record[i] # Unreadable
    BY <1>1, <1>2 DEF RailInv, OnceInv, ExecutesAlone, Executing
  <2>3. ASSUME NEW a \in answers, a.id \notin forfeited
        PROVE  record'[a.id] = record[a.id]
    BY <2>1, <2>2, <2>3, <1>2
  <2> QED BY <2>3, <1>1 DEF RailInv, AnswerInv, AnswersAreStored
<1> QED BY <1>3, <1>4 DEF AnswerInv

LEMMA WriteKeepsProofs ==
  ASSUME TypeOK, RailInv, NEW w \in Workers, WriteRecord(w)
  PROVE  ProofInv'
<1> DEFINE i == job[w].id
<1>1. /\ pc' = [pc EXCEPT ![w] = "unlock"] /\ pc[w] = "write"
      /\ record' = [record EXCEPT ![i] = [req |-> job[w].req, resp |-> resp[w]]]
      /\ resp' = [resp EXCEPT ![w] = resp[w]]
      /\ UNCHANGED <<job, txs>>
  BY DEF WriteRecord, Return, Goto
<1>2. resp' = resp /\ i \in Ids /\ record'[i] = [req |-> job[w].req, resp |-> resp[w]]
  BY <1>1 DEF TypeOK, Jobs
<1>3. \A v \in Workers : pc'[v] # "idle" => pc[v] # "idle"
  BY <1>1 DEF TypeOK
<1>4. ResponsesAreProofs'
  BY <1>1, <1>2, <1>3 DEF RailInv, ProofInv, ResponsesAreProofs
<1>5. RecordsAreProofs'
  <2> SUFFICES ASSUME NEW id \in Ids, record'[id] \in Records, record'[id].resp.tx # NoHash
               PROVE  /\ txs[record'[id].resp.tx] # NoTx
                      /\ txs[record'[id].resp.tx].id = id
                      /\ SameRequest(record'[id].req, txs[record'[id].resp.tx].req)
                      /\ record'[id].resp.status = "confirmed"
                           => txs[record'[id].resp.tx].state = "committed"
    BY <1>1 DEF RecordsAreProofs
  <2>1. CASE id = i
    <3>1. record'[id].resp = resp[w] /\ record'[id].req = job[w].req
      BY <2>1, <1>2
    <3>2. /\ txs[resp[w].tx] # NoTx
          /\ txs[resp[w].tx].id = i
          /\ SameRequest(txs[resp[w].tx].req, job[w].req)
          /\ resp[w].status = "confirmed" => txs[resp[w].tx].state = "committed"
      BY <3>1, <1>1 DEF RailInv, ProofInv, ResponsesAreProofs
    <3>3. SameRequest(job[w].req, txs[resp[w].tx].req)
      BY <3>2 DEF SameRequest
    <3> QED BY <2>1, <3>1, <3>2, <3>3
  <2>2. CASE id # i
    <3>1. record'[id] = record[id]
      BY <2>2, <1>1 DEF TypeOK
    <3> QED BY <3>1 DEF RailInv, ProofInv, RecordsAreProofs
  <2> QED BY <2>1, <2>2
<1> QED BY <1>4, <1>5 DEF ProofInv

LEMMA ReplayKeepsProofs ==
  ASSUME TypeOK, RailInv, NEW w \in Workers, Replay(w)
  PROVE  ProofInv'
<1> DEFINE r == record[job[w].id]
<1>1. /\ pc' = [pc EXCEPT ![w] = "unlock"] /\ pc[w] = "read"
      /\ resp' = [resp EXCEPT ![w] = r.resp]
      /\ UNCHANGED <<job, record, txs>>
  BY DEF Replay, Return, Goto, files
<1>2. r \in Records /\ SameRequest(r.req, job[w].req) /\ job[w].id \in Ids
  BY DEF Replay, TypeOK, Jobs
<1>3. ASSUME NEW v \in Workers, pc'[v] # "idle", resp'[v].tx # NoHash
      PROVE  /\ txs[resp'[v].tx] # NoTx
             /\ txs[resp'[v].tx].id = job[v].id
             /\ SameRequest(txs[resp'[v].tx].req, job[v].req)
             /\ resp'[v].status = "confirmed" => txs[resp'[v].tx].state = "committed"
  <2>1. CASE v = w
    <3>1. resp'[v] = r.resp
      BY <2>1, <1>1 DEF TypeOK
    <3>2. /\ txs[r.resp.tx] # NoTx
          /\ txs[r.resp.tx].id = job[w].id
          /\ SameRequest(r.req, txs[r.resp.tx].req)
          /\ r.resp.status = "confirmed" => txs[r.resp.tx].state = "committed"
      BY <1>3, <2>1, <3>1, <1>2 DEF RailInv, ProofInv, RecordsAreProofs
    <3>3. SameRequest(txs[r.resp.tx].req, job[w].req)
      BY <3>2, <1>2 DEF SameRequest
    <3> QED BY <2>1, <3>1, <3>2, <3>3
  <2>2. CASE v # w
    BY <1>3, <2>2, <1>1 DEF RailInv, ProofInv, ResponsesAreProofs, TypeOK
  <2> QED BY <2>1, <2>2
<1>4. ResponsesAreProofs'
  BY <1>1, <1>3 DEF ResponsesAreProofs
<1>5. RecordsAreProofs'
  BY <1>1 DEF RailInv, ProofInv, RecordsAreProofs
<1> QED BY <1>4, <1>5 DEF ProofInv

LEMMA NodeKeepsOnceAndProofs ==
  ASSUME TypeOK, RailInv, NEW w \in Workers, NodeAccepts(w) \/ NodeRejects(w)
  PROVE  OnceInv' /\ ProofInv'
<1>1. ASSUME NodeAccepts(w) PROVE OnceInv' /\ ProofInv'
  <2>1. PICK h \in Hashes : /\ txs[h] = NoTx
                            /\ NewTx(w, h, "pending")
                            /\ resp' = [resp EXCEPT ![w] = Reported("none", h)]
    BY <1>1 DEF NodeAccepts
  <2>2. /\ resp'[w].tx = h /\ resp'[w].status # "confirmed"
        /\ \A v \in Workers : v # w => resp'[v] = resp[v]
    BY <2>1 DEF Reported, TypeOK
  <2>3. pc[w] = "exec" /\ Goto(w, "output") /\ UNCHANGED <<job, record, forfeited>>
    BY <1>1 DEF NodeAccepts, files, history
  <2>4. "pending" \in TxState /\ "output" \in InFlight
    BY DEF TxState, InFlight
  <2> QED BY <2>1, <2>2, <2>3, <2>4, NewTxKeepsOnce, NewTxKeepsProofs
<1>2. ASSUME NodeRejects(w) PROVE OnceInv' /\ ProofInv'
  <2>1. PICK h \in Hashes : /\ txs[h] = NoTx
                            /\ NewTx(w, h, "rejected")
                            /\ resp' = [resp EXCEPT ![w] = Reported("failed", h)]
    BY <1>2 DEF NodeRejects
  <2>2. /\ resp'[w].tx = h /\ resp'[w].status # "confirmed"
        /\ \A v \in Workers : v # w => resp'[v] = resp[v]
    BY <2>1 DEF Reported, TypeOK
  <2>3. pc[w] = "exec" /\ Goto(w, "write") /\ UNCHANGED <<job, record, forfeited>>
    BY <1>2 DEF NodeRejects, files, history
  <2>4. "rejected" \in TxState /\ "write" \in InFlight
    BY DEF TxState, InFlight
  <2> QED BY <2>1, <2>2, <2>3, <2>4, NewTxKeepsOnce, NewTxKeepsProofs
<1> QED BY <1>1, <1>2

(* One worker moves and no file or transaction changes: the invariants of  *)
(* the other workers stand, so only the mover's own part is left to show.  *)
LEMMA MoverKeepsAnswers ==
  ASSUME TypeOK, RailInv, NEW w \in Workers,
         UNCHANGED <<record, answers>>, forfeited \subseteq forfeited',
         \A v \in Workers : v # w => /\ pc'[v] = pc[v] /\ job'[v] = job[v]
                                      /\ resp'[v] = resp[v],
         pc'[w] # "unlock" \/ resp'[w].tx = NoHash
  PROVE  AnswerInv'
<1>1. AnswerIsWritten'
  BY DEF RailInv, AnswerInv, AnswerIsWritten
<1>2. AnswersAreStored'
  BY DEF RailInv, AnswerInv, AnswersAreStored
<1> QED BY <1>1, <1>2 DEF AnswerInv

LEMMA MoverKeepsProofs ==
  ASSUME TypeOK, RailInv, NEW w \in Workers,
         UNCHANGED <<record, txs>>,
         \A v \in Workers : v # w => /\ pc'[v] = pc[v] /\ job'[v] = job[v]
                                      /\ resp'[v] = resp[v],
         \/ pc'[w] = "idle"
         \/ resp'[w].tx = NoHash
         \/ /\ pc[w] # "idle" /\ job'[w] = job[w] /\ resp'[w].tx = resp[w].tx
            /\ resp'[w].status = "confirmed" => \/ resp[w].status = "confirmed"
                                                \/ txs[resp[w].tx].state = "committed"
  PROVE  ProofInv'
<1>1. ResponsesAreProofs'
  <2> SUFFICES ASSUME NEW v \in Workers, pc'[v] # "idle", resp'[v].tx # NoHash
               PROVE  /\ txs[resp'[v].tx] # NoTx
                      /\ txs[resp'[v].tx].id = job'[v].id
                      /\ SameRequest(txs[resp'[v].tx].req, job'[v].req)
                      /\ resp'[v].status = "confirmed" => txs[resp'[v].tx].state = "committed"
    BY DEF ResponsesAreProofs, SameRequest, StoredRole
  <2>1. CASE v # w
    BY <2>1 DEF RailInv, ProofInv, ResponsesAreProofs
  <2>2. CASE v = w
    BY <2>2 DEF RailInv, ProofInv, ResponsesAreProofs
  <2> QED BY <2>1, <2>2
<1>2. RecordsAreProofs'
  BY DEF RailInv, ProofInv, RecordsAreProofs
<1> QED BY <1>1, <1>2 DEF ProofInv

(* The lock of a kept id excludes, step by step. *)
LEMMA LockInvStep ==
  ASSUME TypeOK, TypeOK', RailInv, NEW w \in Workers, Step(w)
  PROVE  LockInv'
<1> USE NilAssumption, HashAssumption, LockAssumption
    DEF RailInv, TypeOK, Goto, Section, InFlight, files, history, bounds, NoResponse,
        Responses, Jobs, Txs, Records,
        LockInv, NoEarlyResponse, HolderOwnsLock, InSection
<1>1. CASE CreateLock(w) BY <1>1 DEF CreateLock
<1>2. CASE LockExists(w) BY <1>2 DEF LockExists
<1>3. CASE InProgress(w) BY <1>3 DEF InProgress, Stop
<1>4. CASE StatStale(w) BY <1>4 DEF StatStale
<1>5. CASE RemoveStale(w) BY <1>5 DEF RemoveStale, Forfeit
<1>6. CASE ReadConflict(w) BY <1>6 DEF ReadConflict, Return, Refused
<1>7. CASE Replay(w) BY <1>7 DEF Replay, Return
<1>8. CASE ReadInvalid(w) BY <1>8 DEF ReadInvalid, Return, Refused
<1>9. CASE Proceed(w) BY <1>9 DEF Proceed, IsFinal
<1>10. CASE PreflightPasses(w) BY <1>10 DEF PreflightPasses
<1>11. CASE PreflightRefuses(w) BY <1>11 DEF PreflightRefuses, Refused
<1>12. CASE NodeAccepts(w) BY <1>12 DEF NodeAccepts, NewTx, Reported
<1>13. CASE NodeRejects(w) BY <1>13 DEF NodeRejects, NewTx, Reported
<1>14. CASE ExecFails(w) BY <1>14 DEF ExecFails, Refused
<1>15. CASE OutputLost(w) BY <1>15 DEF OutputLost, Forfeit, Refused
<1>16. CASE OutputRead(w) BY <1>16 DEF OutputRead
<1>17. CASE ConfirmFound(w) BY <1>17 DEF ConfirmFound, Reported
<1>18. CASE ConfirmTimesOut(w) BY <1>18 DEF ConfirmTimesOut, Reported
<1>19. CASE ConfirmLookupFails(w) BY <1>19 DEF ConfirmLookupFails, Reported
<1>20. CASE WriteRecord(w) BY <1>20 DEF WriteRecord, Return
<1>21. CASE WriteFails(w) BY <1>21 DEF WriteFails, Return, Forfeit, HoldsUnrecorded
<1>22. CASE Unlock(w) BY <1>22 DEF Unlock, Stop
<1>23. CASE LockFails(w) BY <1>23 DEF LockFails, Stop
<1> QED
  BY <1>1, <1>2, <1>3, <1>4, <1>5, <1>6, <1>7, <1>8, <1>9, <1>10, <1>11, <1>12, <1>13,
     <1>14, <1>15, <1>16, <1>17, <1>18, <1>19, <1>20, <1>21, <1>22, <1>23 DEF Step

(* The one transaction of a kept id stays accounted for, step by step. *)
LEMMA OnceInvStep ==
  ASSUME TypeOK, TypeOK', RailInv, NEW w \in Workers, Step(w)
  PROVE  OnceInv'
<1> USE NilAssumption, HashAssumption, LockAssumption
    DEF RailInv, TypeOK, Goto, Section, InFlight, files, history, bounds, NoResponse,
        Responses, Jobs, Txs, Records,
        OnceInv, LockInv, ExecutesAlone, TxsAreKept, PaidAtMostOnce, TxsOf, HoldsUnrecorded,
        Executing, NoEarlyResponse, HolderOwnsLock, InSection
<1>1. CASE CreateLock(w) BY <1>1 DEF CreateLock
<1>2. CASE LockExists(w) BY <1>2 DEF LockExists
<1>3. CASE InProgress(w) BY <1>3 DEF InProgress, Stop
<1>4. CASE StatStale(w) BY <1>4 DEF StatStale
<1>5. CASE RemoveStale(w) BY <1>5 DEF RemoveStale, Forfeit
<1>6. CASE ReadConflict(w)
  <2>1. /\ pc' = [pc EXCEPT ![w] = "unlock"] /\ pc[w] = "read"
        /\ resp' = [resp EXCEPT ![w] = Refused(FALSE)]
        /\ UNCHANGED <<job, record, txs, forfeited>>
    BY <1>6 DEF ReadConflict, Return
  <2>2. ExecutesAlone' BY <2>1 DEF Refused
  <2>3. TxsAreKept' BY <2>1 DEF Refused
  <2>4. PaidAtMostOnce' BY <2>1
  <2> QED BY <2>2, <2>3, <2>4
<1>7. CASE Replay(w)
  <2>1. /\ pc' = [pc EXCEPT ![w] = "unlock"] /\ pc[w] = "read"
        /\ resp' = [resp EXCEPT ![w] = record[job[w].id].resp]
        /\ UNCHANGED <<job, record, txs, forfeited>>
    BY <1>7 DEF Replay, Return
  <2>2. ExecutesAlone' BY <2>1
  <2>3. TxsAreKept' BY <2>1
  <2>4. PaidAtMostOnce' BY <2>1
  <2> QED BY <2>2, <2>3, <2>4
<1>8. CASE ReadInvalid(w) BY <1>8 DEF ReadInvalid, Return, Refused
<1>9. CASE Proceed(w)
  <2>1. /\ pc' = [pc EXCEPT ![w] = "preflight"] /\ pc[w] = "read"
        /\ UNCHANGED <<job, resp, record, txs, forfeited>>
    BY <1>9 DEF Proceed
  <2>2. /\ record[job[w].id] # Unreadable
        /\ record[job[w].id] \in Records => record[job[w].id].resp.tx = NoHash
    BY <1>9 DEF Proceed, IsFinal
  <2>3. job[w].id \notin forfeited => TxsOf(job[w].id) = {}
    BY <2>1, <2>2
  <2>4. ExecutesAlone' BY <2>1, <2>2, <2>3
  <2>5. TxsAreKept' BY <2>1
  <2>6. PaidAtMostOnce' BY <2>1
  <2> QED BY <2>4, <2>5, <2>6
<1>10. CASE PreflightPasses(w) BY <1>10 DEF PreflightPasses
<1>11. CASE PreflightRefuses(w) BY <1>11 DEF PreflightRefuses, Refused
<1>12. CASE NodeAccepts(w)
  BY <1>12, NodeKeepsOnceAndProofs
<1>13. CASE NodeRejects(w)
  BY <1>13, NodeKeepsOnceAndProofs
<1>14. CASE ExecFails(w) BY <1>14 DEF ExecFails, Refused
<1>15. CASE OutputLost(w) BY <1>15 DEF OutputLost, Forfeit, Refused
<1>16. CASE OutputRead(w) BY <1>16 DEF OutputRead
<1>17. CASE ConfirmFound(w) BY <1>17 DEF ConfirmFound, Reported
<1>18. CASE ConfirmTimesOut(w) BY <1>18 DEF ConfirmTimesOut, Reported
<1>19. CASE ConfirmLookupFails(w) BY <1>19 DEF ConfirmLookupFails, Reported
<1>20. CASE WriteRecord(w)
  BY <1>20, WriteKeepsOnce
<1>21. CASE WriteFails(w) BY <1>21 DEF WriteFails, Return, Forfeit
<1>22. CASE Unlock(w) BY <1>22 DEF Unlock, Stop
<1>23. CASE LockFails(w) BY <1>23 DEF LockFails, Stop
<1> QED
  BY <1>1, <1>2, <1>3, <1>4, <1>5, <1>6, <1>7, <1>8, <1>9, <1>10, <1>11, <1>12, <1>13,
     <1>14, <1>15, <1>16, <1>17, <1>18, <1>19, <1>20, <1>21, <1>22, <1>23 DEF Step

(* Answers stay in their records, step by step. *)
LEMMA AnswerInvStep ==
  ASSUME TypeOK, TypeOK', RailInv, NEW w \in Workers, Step(w)
  PROVE  AnswerInv'
<1> USE DEF TypeOK, Goto, files, history, bounds
<1>0. pc[w] \in {"idle", "lock", "stat", "steal", "read", "preflight", "exec"} => resp[w].tx = NoHash
  BY DEF RailInv, LockInv, NoEarlyResponse, NoResponse
<1>1. CASE CreateLock(w) BY <1>0, <1>1, MoverKeepsAnswers DEF CreateLock
<1>2. CASE LockExists(w) BY <1>0, <1>2, MoverKeepsAnswers DEF LockExists
<1>3. CASE InProgress(w) BY <1>0, <1>3, MoverKeepsAnswers DEF InProgress, Stop, NoResponse
<1>4. CASE StatStale(w) BY <1>0, <1>4, MoverKeepsAnswers DEF StatStale
<1>5. CASE RemoveStale(w) BY <1>0, <1>5, MoverKeepsAnswers DEF RemoveStale, Forfeit
<1>6. CASE ReadConflict(w) BY <1>0, <1>6, MoverKeepsAnswers DEF ReadConflict, Return, Refused
<1>7. CASE Replay(w)
  <2>1. /\ pc' = [pc EXCEPT ![w] = "unlock"] /\ resp' = [resp EXCEPT ![w] = record[job[w].id].resp]
        /\ UNCHANGED <<job, record, answers, forfeited>>
        /\ record[job[w].id] \in Records /\ SameRequest(record[job[w].id].req, job[w].req)
    BY <1>7 DEF Replay, Return
  <2>2. AnswerIsWritten'
    <3> SUFFICES ASSUME NEW v \in Workers, pc'[v] = "unlock", resp'[v].tx # NoHash,
                        job[v].id \notin forfeited
                 PROVE  /\ record[job[v].id] \in Records
                        /\ SameRequest(record[job[v].id].req, job[v].req)
                        /\ record[job[v].id].resp.tx = resp'[v].tx
                        /\ record[job[v].id].resp.status = resp'[v].status
      BY <2>1 DEF AnswerIsWritten
    <3>1. CASE v = w
      BY <3>1, <2>1
    <3>2. CASE v # w
      BY <3>2, <2>1 DEF RailInv, AnswerInv, AnswerIsWritten
    <3> QED BY <3>1, <3>2
  <2>3. AnswersAreStored'
    BY <2>1 DEF RailInv, AnswerInv, AnswersAreStored
  <2> QED BY <2>2, <2>3 DEF AnswerInv
<1>8. CASE ReadInvalid(w) BY <1>0, <1>8, MoverKeepsAnswers DEF ReadInvalid, Return, Refused
<1>9. CASE Proceed(w) BY <1>0, <1>9, MoverKeepsAnswers DEF Proceed
<1>10. CASE PreflightPasses(w) BY <1>0, <1>10, MoverKeepsAnswers DEF PreflightPasses
<1>11. CASE PreflightRefuses(w) BY <1>0, <1>11, MoverKeepsAnswers DEF PreflightRefuses, Refused
<1>12. CASE NodeAccepts(w) BY <1>0, <1>12, MoverKeepsAnswers DEF NodeAccepts
<1>13. CASE NodeRejects(w) BY <1>0, <1>13, MoverKeepsAnswers DEF NodeRejects
<1>14. CASE ExecFails(w) BY <1>0, <1>14, MoverKeepsAnswers DEF ExecFails, Refused
<1>15. CASE OutputLost(w) BY <1>0, <1>15, MoverKeepsAnswers DEF OutputLost, Forfeit, Refused
<1>16. CASE OutputRead(w) BY <1>0, <1>16, MoverKeepsAnswers DEF OutputRead
<1>17. CASE ConfirmFound(w) BY <1>0, <1>17, MoverKeepsAnswers DEF ConfirmFound, Reported
<1>18. CASE ConfirmTimesOut(w) BY <1>0, <1>18, MoverKeepsAnswers DEF ConfirmTimesOut, Reported
<1>19. CASE ConfirmLookupFails(w) BY <1>0, <1>19, MoverKeepsAnswers DEF ConfirmLookupFails, Reported
<1>20. CASE WriteRecord(w)
  BY <1>20, WriteKeepsAnswers
<1>21. CASE WriteFails(w) BY <1>0, <1>21, MoverKeepsAnswers DEF WriteFails, Return, Forfeit, NoResponse
<1>22. CASE Unlock(w)
  <2>1. /\ pc' = [pc EXCEPT ![w] = "idle"] /\ pc[w] = "unlock"
        /\ UNCHANGED <<record, forfeited>>
        /\ job' = [job EXCEPT ![w] = NoJob] /\ resp' = [resp EXCEPT ![w] = NoResponse]
    BY <1>22 DEF Unlock, Stop
  <2>2. \A a \in answers' : \/ a \in answers
                             \/ /\ a.id = job[w].id /\ a.req = job[w].req
                                /\ a.status = resp[w].status /\ a.tx = resp[w].tx
                                /\ a.tx # NoHash
    BY <1>22 DEF Unlock
  <2>3. AnswerIsWritten'
    BY <2>1 DEF RailInv, AnswerInv, AnswerIsWritten
  <2>4. AnswersAreStored'
    <3> SUFFICES ASSUME NEW a \in answers', a.id \notin forfeited
                 PROVE  \/ record[a.id] = Unreadable
                        \/ /\ record[a.id] \in Records
                           /\ SameRequest(record[a.id].req, a.req)
                           /\ record[a.id].resp.tx = a.tx
                           /\ record[a.id].resp.status = a.status
      BY <2>1 DEF AnswersAreStored
    <3>1. CASE a \in answers
      BY <3>1 DEF RailInv, AnswerInv, AnswersAreStored
    <3>2. CASE a \notin answers
      BY <3>2, <2>1, <2>2 DEF RailInv, AnswerInv, AnswerIsWritten
    <3> QED BY <3>1, <3>2
  <2> QED BY <2>3, <2>4 DEF AnswerInv
<1>23. CASE LockFails(w) BY <1>0, <1>23, MoverKeepsAnswers DEF LockFails, Stop, NoResponse
<1> QED
  BY <1>1, <1>2, <1>3, <1>4, <1>5, <1>6, <1>7, <1>8, <1>9, <1>10, <1>11, <1>12, <1>13,
     <1>14, <1>15, <1>16, <1>17, <1>18, <1>19, <1>20, <1>21, <1>22, <1>23 DEF Step

(* What is said of a transaction stays true, step by step. *)
LEMMA ProofInvStep ==
  ASSUME TypeOK, TypeOK', RailInv, NEW w \in Workers, Step(w)
  PROVE  ProofInv'
<1> USE DEF TypeOK, Goto, files, history, bounds
<1>0. pc[w] \in {"idle", "lock", "stat", "steal", "read", "preflight", "exec"} => resp[w].tx = NoHash
  BY DEF RailInv, LockInv, NoEarlyResponse, NoResponse
<1>1. CASE CreateLock(w) BY <1>0, <1>1, MoverKeepsProofs DEF CreateLock
<1>2. CASE LockExists(w) BY <1>0, <1>2, MoverKeepsProofs DEF LockExists
<1>3. CASE InProgress(w) BY <1>0, <1>3, MoverKeepsProofs DEF InProgress, Stop, NoResponse
<1>4. CASE StatStale(w) BY <1>0, <1>4, MoverKeepsProofs DEF StatStale
<1>5. CASE RemoveStale(w) BY <1>0, <1>5, MoverKeepsProofs DEF RemoveStale, Forfeit
<1>6. CASE ReadConflict(w) BY <1>0, <1>6, MoverKeepsProofs DEF ReadConflict, Return, Refused
<1>7. CASE Replay(w)
  BY <1>7, ReplayKeepsProofs
<1>8. CASE ReadInvalid(w) BY <1>0, <1>8, MoverKeepsProofs DEF ReadInvalid, Return, Refused
<1>9. CASE Proceed(w) BY <1>0, <1>9, MoverKeepsProofs DEF Proceed
<1>10. CASE PreflightPasses(w) BY <1>0, <1>10, MoverKeepsProofs DEF PreflightPasses
<1>11. CASE PreflightRefuses(w) BY <1>0, <1>11, MoverKeepsProofs DEF PreflightRefuses, Refused
<1>12. CASE NodeAccepts(w)
  BY <1>12, NodeKeepsOnceAndProofs
<1>13. CASE NodeRejects(w)
  BY <1>13, NodeKeepsOnceAndProofs
<1>14. CASE ExecFails(w) BY <1>0, <1>14, MoverKeepsProofs DEF ExecFails, Refused
<1>15. CASE OutputLost(w) BY <1>0, <1>15, MoverKeepsProofs DEF OutputLost, Forfeit, Refused
<1>16. CASE OutputRead(w) BY <1>0, <1>16, MoverKeepsProofs DEF OutputRead
<1>17. CASE ConfirmFound(w) BY <1>0, <1>17, MoverKeepsProofs DEF ConfirmFound, Reported
<1>18. CASE ConfirmTimesOut(w) BY <1>0, <1>18, MoverKeepsProofs DEF ConfirmTimesOut, Reported
<1>19. CASE ConfirmLookupFails(w) BY <1>0, <1>19, MoverKeepsProofs DEF ConfirmLookupFails, Reported
<1>20. CASE WriteRecord(w)
  BY <1>20, WriteKeepsProofs
<1>21. CASE WriteFails(w) BY <1>0, <1>21, MoverKeepsProofs DEF WriteFails, Return, Forfeit, NoResponse
<1>22. CASE Unlock(w) BY <1>0, <1>22, MoverKeepsProofs DEF Unlock, Stop
<1>23. CASE LockFails(w) BY <1>0, <1>23, MoverKeepsProofs DEF LockFails, Stop, NoResponse
<1> QED
  BY <1>1, <1>2, <1>3, <1>4, <1>5, <1>6, <1>7, <1>8, <1>9, <1>10, <1>11, <1>12, <1>13,
     <1>14, <1>15, <1>16, <1>17, <1>18, <1>19, <1>20, <1>21, <1>22, <1>23 DEF Step

(* The callers, time, crashes and the chain keep the invariant as well.    *)
LEMMA LockInvEnvironment ==
  ASSUME TypeOK, TypeOK', RailInv,
         \/ \E w \in Workers, id \in Ids, req \in Requests : Submit(w, id, req)
         \/ \E w \in Workers : Crash(w)
         \/ \E torn \in SUBSET Ids : PowerLoss(torn)
         \/ \E id \in Ids : AgeLock(id)
         \/ \E h \in Hashes, state \in {"committed", "failed", "dropped"} : Settle(h, state)
  PROVE  LockInv'
<1> USE NilAssumption, HashAssumption, LockAssumption
    DEF RailInv, TypeOK, Goto, Section, InFlight, files, history, bounds, NoResponse,
        Responses, Jobs, Txs, Records,
        LockInv, NoEarlyResponse, HolderOwnsLock, InSection
<1>1. ASSUME NEW w \in Workers, NEW i \in Ids, NEW req \in Requests, Submit(w, i, req)
      PROVE  LockInv'
  BY <1>1 DEF Submit
<1>2. ASSUME NEW w \in Workers, Crash(w)
      PROVE  LockInv'
  BY <1>2 DEF Crash, Stop, Forfeit, HoldsUnrecorded
<1>3. ASSUME NEW torn \in SUBSET Ids, PowerLoss(torn)
      PROVE  LockInv'
  BY <1>3 DEF PowerLoss, Forfeit, HoldsUnrecorded
<1>4. ASSUME NEW i \in Ids, AgeLock(i)
      PROVE  LockInv'
  BY <1>4 DEF AgeLock
<1>5. ASSUME NEW k \in Hashes, NEW state \in {"committed", "failed", "dropped"}, Settle(k, state)
      PROVE  LockInv'
  BY <1>5 DEF Settle
<1> HIDE DEF LockInv
<1> QED BY <1>1, <1>2, <1>3, <1>4, <1>5

LEMMA OnceInvEnvironment ==
  ASSUME TypeOK, TypeOK', RailInv,
         \/ \E w \in Workers, id \in Ids, req \in Requests : Submit(w, id, req)
         \/ \E w \in Workers : Crash(w)
         \/ \E torn \in SUBSET Ids : PowerLoss(torn)
         \/ \E id \in Ids : AgeLock(id)
         \/ \E h \in Hashes, state \in {"committed", "failed", "dropped"} : Settle(h, state)
  PROVE  OnceInv'
<1> USE NilAssumption, HashAssumption, LockAssumption
    DEF RailInv, TypeOK, Goto, Section, InFlight, files, history, bounds, NoResponse,
        Responses, Jobs, Txs, Records,
        OnceInv, LockInv, ExecutesAlone, TxsAreKept, PaidAtMostOnce, TxsOf, HoldsUnrecorded,
        Executing, NoEarlyResponse, HolderOwnsLock, InSection
<1>1. ASSUME NEW w \in Workers, NEW i \in Ids, NEW req \in Requests, Submit(w, i, req)
      PROVE  OnceInv'
  BY <1>1 DEF Submit
<1>2. ASSUME NEW w \in Workers, Crash(w)
      PROVE  OnceInv'
  BY <1>2 DEF Crash, Stop, Forfeit
<1>3. ASSUME NEW torn \in SUBSET Ids, PowerLoss(torn)
      PROVE  OnceInv'
  BY <1>3 DEF PowerLoss, Forfeit
<1>4. ASSUME NEW i \in Ids, AgeLock(i)
      PROVE  OnceInv'
  BY <1>4 DEF AgeLock
<1>5. ASSUME NEW k \in Hashes, NEW state \in {"committed", "failed", "dropped"}, Settle(k, state)
      PROVE  OnceInv'
  BY <1>5 DEF Settle
<1> HIDE DEF OnceInv
<1> QED BY <1>1, <1>2, <1>3, <1>4, <1>5

LEMMA AnswerInvEnvironment ==
  ASSUME TypeOK, TypeOK', RailInv,
         \/ \E w \in Workers, id \in Ids, req \in Requests : Submit(w, id, req)
         \/ \E w \in Workers : Crash(w)
         \/ \E torn \in SUBSET Ids : PowerLoss(torn)
         \/ \E id \in Ids : AgeLock(id)
         \/ \E h \in Hashes, state \in {"committed", "failed", "dropped"} : Settle(h, state)
  PROVE  AnswerInv'
<1> USE DEF TypeOK, Goto, files, history, bounds
<1>1. ASSUME NEW w \in Workers, NEW i \in Ids, NEW req \in Requests, Submit(w, i, req)
      PROVE  AnswerInv'
  BY <1>1, MoverKeepsAnswers DEF Submit
<1>2. ASSUME NEW w \in Workers, Crash(w)
      PROVE  AnswerInv'
  BY <1>2, MoverKeepsAnswers DEF Crash, Stop, Forfeit
<1>3. ASSUME NEW torn \in SUBSET Ids, PowerLoss(torn)
      PROVE  AnswerInv'
  <2>1. AnswerIsWritten' BY <1>3 DEF PowerLoss, AnswerIsWritten
  <2>2. AnswersAreStored'
    <3>1. /\ answers' = answers /\ forfeited \subseteq forfeited'
          /\ \A id \in Ids : record'[id] \in {record[id], Unreadable}
      BY <1>3 DEF PowerLoss, Forfeit
    <3> QED BY <3>1, NilAssumption DEF Answers, RailInv, AnswerInv, AnswersAreStored
  <2> QED BY <2>1, <2>2 DEF AnswerInv
<1>4. ASSUME NEW i \in Ids, AgeLock(i)
      PROVE  AnswerInv'
  <2>1. UNCHANGED <<pc, job, resp, record, answers, forfeited>>
    BY <1>4 DEF AgeLock
  <2> QED BY <2>1 DEF RailInv, AnswerInv, AnswerIsWritten, AnswersAreStored, SameRequest
<1>5. ASSUME NEW k \in Hashes, NEW state \in {"committed", "failed", "dropped"}, Settle(k, state)
      PROVE  AnswerInv'
  <2>1. UNCHANGED <<pc, job, resp, record, answers, forfeited>>
    BY <1>5 DEF Settle
  <2> QED BY <2>1 DEF RailInv, AnswerInv, AnswerIsWritten, AnswersAreStored, SameRequest
<1> QED BY <1>1, <1>2, <1>3, <1>4, <1>5

LEMMA ProofInvEnvironment ==
  ASSUME TypeOK, TypeOK', RailInv,
         \/ \E w \in Workers, id \in Ids, req \in Requests : Submit(w, id, req)
         \/ \E w \in Workers : Crash(w)
         \/ \E torn \in SUBSET Ids : PowerLoss(torn)
         \/ \E id \in Ids : AgeLock(id)
         \/ \E h \in Hashes, state \in {"committed", "failed", "dropped"} : Settle(h, state)
  PROVE  ProofInv'
<1> USE NilAssumption, HashAssumption, LockAssumption
    DEF RailInv, TypeOK, Goto, Section, InFlight, files, history, bounds, NoResponse,
        Responses, Jobs, Txs, Records,
        ProofInv, LockInv, ResponsesAreProofs, RecordsAreProofs, SameRequest, NoEarlyResponse
<1>1. ASSUME NEW w \in Workers, NEW i \in Ids, NEW req \in Requests, Submit(w, i, req)
      PROVE  ProofInv'
  <2> HIDE DEF ProofInv
  <2>1. resp[w].tx = NoHash /\ resp' = resp
    BY <1>1 DEF Submit
  <2> HIDE DEF RailInv, LockInv, ResponsesAreProofs, RecordsAreProofs
  <2> QED BY <1>1, <2>1, MoverKeepsProofs DEF Submit
<1>2. ASSUME NEW w \in Workers, Crash(w)
      PROVE  ProofInv'
  <2>1. /\ pc' = [pc EXCEPT ![w] = "idle"] /\ resp' = [resp EXCEPT ![w] = NoResponse]
        /\ job' = [job EXCEPT ![w] = NoJob]
        /\ UNCHANGED <<record, txs>>
    BY <1>2 DEF Crash, Stop
  <2>2. ResponsesAreProofs' BY <2>1
  <2>3. RecordsAreProofs' BY <2>1
  <2> QED BY <2>2, <2>3
<1>3. ASSUME NEW torn \in SUBSET Ids, PowerLoss(torn)
      PROVE  ProofInv'
  BY <1>3 DEF PowerLoss, Forfeit, HoldsUnrecorded
<1>4. ASSUME NEW i \in Ids, AgeLock(i)
      PROVE  ProofInv'
  BY <1>4 DEF AgeLock
<1>5. ASSUME NEW k \in Hashes, NEW state \in {"committed", "failed", "dropped"}, Settle(k, state)
      PROVE  ProofInv'
  <2>1. \A h \in Hashes : txs[h] # NoTx =>
          /\ txs'[h] # NoTx /\ txs'[h].id = txs[h].id /\ txs'[h].req = txs[h].req
          /\ txs[h].state = "committed" => txs'[h].state = "committed"
    <3>1. txs[k] \in Txs /\ txs[k].state = "pending"
          /\ txs' = [txs EXCEPT ![k] = [txs[k] EXCEPT !.state = state]]
      BY <1>5 DEF Settle
    <3>2. [txs[k] EXCEPT !.state = state] \in Txs /\ txs \in [Hashes -> Txs \cup {NoTx}]
      BY <3>1 DEF TxState
    <3> HIDE DEF RailInv, ProofInv, TypeOK, Txs, ResponsesAreProofs, RecordsAreProofs
    <3>3. TAKE h \in Hashes
    <3>4. CASE h = k
      <4>1. txs'[k] = [txs[k] EXCEPT !.state = state]
        BY <3>1, <3>2
      <4>2. txs'[k] # NoTx
        BY <4>1, <3>2
      <4>3. txs'[k].id = txs[k].id /\ txs'[k].req = txs[k].req
        BY <4>1, <3>1 DEF Txs
      <4> QED BY <3>1, <3>4, <4>2, <4>3
    <3>5. CASE h # k
      BY <3>1, <3>2, <3>5
    <3> QED BY <3>4, <3>5
  <2>2. UNCHANGED <<pc, job, resp, record>>
    BY <1>5 DEF Settle
  <2> HIDE DEF Txs, Jobs, LockInv, NoEarlyResponse
  <2>3. ResponsesAreProofs' BY <2>1, <2>2
  <2>4. RecordsAreProofs'
    <3> SUFFICES ASSUME NEW id \in Ids, record[id] \in Records, record[id].resp.tx # NoHash
                 PROVE  /\ txs'[record[id].resp.tx] # NoTx
                        /\ txs'[record[id].resp.tx].id = id
                        /\ SameRequest(record[id].req, txs'[record[id].resp.tx].req)
                        /\ record[id].resp.status = "confirmed"
                             => txs'[record[id].resp.tx].state = "committed"
      BY <2>2
    <3>1. record[id].resp.tx \in Hashes
      OBVIOUS
    <3>2. /\ txs[record[id].resp.tx] # NoTx
          /\ txs[record[id].resp.tx].id = id
          /\ SameRequest(record[id].req, txs[record[id].resp.tx].req)
          /\ record[id].resp.status = "confirmed"
               => txs[record[id].resp.tx].state = "committed"
      OBVIOUS
    <3> HIDE DEF RailInv, ProofInv, TypeOK, ResponsesAreProofs, RecordsAreProofs, SameRequest
    <3> QED BY <2>1, <3>1, <3>2
  <2> QED BY <2>3, <2>4
<1> HIDE DEF ProofInv
<1> QED BY <1>1, <1>2, <1>3, <1>4, <1>5

(* RailInv holds in every reachable state.                                 *)
THEOREM RailInvariance == Spec => []RailInv
<1>1. TypeOK /\ TypeOK' /\ RailInv /\ [Next]_vars => RailInv'
  <2> SUFFICES ASSUME TypeOK, TypeOK', RailInv, [Next]_vars PROVE RailInv'
    OBVIOUS
  <2>1. CASE UNCHANGED vars
    BY <2>1 DEF vars, RailInv, LockInv, NoEarlyResponse, HolderOwnsLock, InSection,
      OnceInv, ExecutesAlone, TxsAreKept, HoldsUnrecorded, PaidAtMostOnce, TxsOf,
      AnswerInv, AnswerIsWritten, AnswersAreStored, ProofInv, ResponsesAreProofs, RecordsAreProofs
  <2>2. CASE \E w \in Workers : Step(w)
    BY <2>2, LockInvStep, OnceInvStep, AnswerInvStep, ProofInvStep DEF RailInv
  <2>3. CASE Next /\ ~ \E w \in Workers : Step(w)
    <3>1. LockInv' BY <2>3, LockInvEnvironment DEF Next
    <3>2. OnceInv' BY <2>3, OnceInvEnvironment DEF Next
    <3>3. AnswerInv' BY <2>3, AnswerInvEnvironment DEF Next
    <3>4. ProofInv' BY <2>3, ProofInvEnvironment DEF Next
    <3> QED BY <3>1, <3>2, <3>3, <3>4 DEF RailInv
  <2> QED BY <2>1, <2>2, <2>3
<1> QED BY TypeCorrect, RailInit, <1>1, PTL DEF Spec

(* Whatever crashes, stalls, timeouts and retries do, an id whose outcome  *)
(* the rail never lost has at most one transaction (executeSettlement and  *)
(* executeEscrowTransfer over the stored record).                          *)
THEOREM PaidAtMostOnceHolds == Spec => []PaidAtMostOnce
BY RailInvariance, PTL DEF RailInv, OnceInv

(* The lock file of a request id excludes as long as no live worker's lock *)
(* file was removed (withRequestLock).                                     *)
THEOREM LockExcludesHolds == Spec => []LockExcludes
<1>1. RailInv => LockExcludes
  BY DEF RailInv, LockInv, HolderOwnsLock, LockExcludes
<1> QED BY <1>1, RailInvariance, PTL

(* A caller is only ever told of a transaction that is in the record.      *)
THEOREM AnswersAreStoredHolds == Spec => []AnswersAreStored
BY RailInvariance, PTL DEF RailInv, AnswerInv

(* A stored hash is a transaction of that id and payload, and confirmed    *)
(* means committed, even for ids the rail lost track of.                   *)
THEOREM RecordsAreProofsHolds == Spec => []RecordsAreProofs
BY RailInvariance, PTL DEF RailInv, ProofInv

-----------------------------------------------------------------------------
(* What a step may not do, and the refinement.                             *)

(* A stored tx hash is never overwritten while the rail has not lost track *)
(* of the id (executeSettlement writes only after it found no final        *)
(* record, under the lock).                                                *)
THEOREM TxRecordIsFinalHolds == Spec => TxRecordIsFinal
<1>1. ASSUME TypeOK, RailInv, [Next]_vars,
             NEW id \in Ids \ forfeited, record[id] \in Records, record[id].resp.tx # NoHash
      PROVE  record'[id] \in {record[id], Unreadable}
  <2>1. CASE record' = record
    BY <2>1
  <2>2. ASSUME NEW w \in Workers, WriteRecord(w) PROVE record'[id] = record[id]
    <3>1. pc[w] \in Executing
      BY <2>2 DEF WriteRecord, Executing
    <3>2. job[w].id # id
      BY <1>1, <3>1 DEF RailInv, OnceInv, ExecutesAlone
    <3> QED BY <1>1, <2>2, <3>2 DEF WriteRecord, TypeOK
  <2>3. ASSUME NEW torn \in SUBSET Ids, PowerLoss(torn)
        PROVE  record'[id] \in {record[id], Unreadable}
    BY <2>3 DEF PowerLoss
  <2>4. \/ record' = record
        \/ \E w \in Workers : WriteRecord(w)
        \/ \E torn \in SUBSET Ids : PowerLoss(torn)
    BY <1>1 DEF Next, Step, vars, files, CreateLock, LockFails, LockExists, InProgress, StatStale,
      RemoveStale, ReadConflict, Replay, ReadInvalid, Proceed, PreflightPasses,
      PreflightRefuses, NodeAccepts, NodeRejects, ExecFails, OutputLost, OutputRead,
      ConfirmFound, ConfirmTimesOut, ConfirmLookupFails, WriteFails, Unlock, Submit,
      Crash, AgeLock, Settle
  <2> QED BY <2>1, <2>2, <2>3, <2>4
<1>2. TypeOK /\ RailInv /\ [Next]_vars =>
        [\A id \in Ids : record[id] \in Records /\ record[id].resp.tx # NoHash
                         /\ id \notin forfeited
           => record'[id] \in {record[id], Unreadable}]_vars
  BY <1>1
<1> QED BY <1>2, TypeCorrect, RailInvariance, PTL DEF Spec, TxRecordIsFinal

(* What an id was paid with changes only when the node takes a             *)
(* transaction.                                                            *)
LEMMA PaidChanges ==
  ASSUME TypeOK, [Next]_vars,
         ~ \E w \in Workers : NodeAccepts(w) \/ NodeRejects(w)
  PROVE  \A id \in Ids : TxsOf(id)' = TxsOf(id)
<1>1. CASE txs' = txs
  BY <1>1 DEF TxsOf
<1>2. ASSUME NEW k \in Hashes, NEW state \in {"committed", "failed", "dropped"}, Settle(k, state)
      PROVE  \A id \in Ids : TxsOf(id)' = TxsOf(id)
  <2>1. txs[k] \in Txs /\ txs' = [txs EXCEPT ![k] = [txs[k] EXCEPT !.state = state]]
    BY <1>2 DEF Settle, TypeOK
  <2>2. [txs[k] EXCEPT !.state = state] \in Txs /\ txs \in [Hashes -> Txs \cup {NoTx}]
    BY <2>1 DEF Txs, TxState, TypeOK
  <2>3. txs'[k] = [txs[k] EXCEPT !.state = state]
    BY <2>1, <2>2
  <2>4. txs'[k] # NoTx /\ txs[k] # NoTx
    BY <2>1, <2>2, <2>3, NilAssumption
  <2>5. txs'[k].id = txs[k].id
    BY <2>1, <2>3 DEF Txs
  <2>6. \A h \in Hashes : h # k => txs'[h] = txs[h]
    BY <2>1, <2>2
  <2>7. \A h \in Hashes : (txs'[h] # NoTx <=> txs[h] # NoTx)
                           /\ (txs[h] # NoTx => txs'[h].id = txs[h].id)
    BY <2>4, <2>5, <2>6
  <2> QED BY <2>7 DEF TxsOf
<1>3. \/ txs' = txs
      \/ \E h \in Hashes, state \in {"committed", "failed", "dropped"} : Settle(h, state)
  BY DEF Next, Step, vars, CreateLock, LockFails, LockExists, InProgress, StatStale,
    RemoveStale, ReadConflict, Replay, ReadInvalid, Proceed, PreflightPasses,
    PreflightRefuses, ExecFails, OutputLost, OutputRead, ConfirmFound,
    ConfirmTimesOut, ConfirmLookupFails, WriteRecord, WriteFails, Unlock, Submit,
    Crash, PowerLoss, AgeLock
<1> QED BY <1>1, <1>2, <1>3

(* A broadcast is a Pay of the abstract specification.                     *)
LEMMA BroadcastPays ==
  ASSUME TypeOK, RailInv, NEW w \in Workers, NodeAccepts(w) \/ NodeRejects(w)
  PROVE  Payments!Next
<1> DEFINE i == job[w].id
<1>1. PICK h \in Hashes, s \in TxState : txs[h] = NoTx /\ NewTx(w, h, s)
  BY DEF NodeAccepts, NodeRejects, TxState
<1>2. pc[w] = "exec" /\ i \in Ids /\ UNCHANGED <<answers, forfeited>>
  BY DEF NodeAccepts, NodeRejects, TypeOK, Jobs, history
<1>3. \A id \in Ids : TxsOf(id)' = IF id = i THEN TxsOf(id) \cup {h} ELSE TxsOf(id)
  BY <1>1, <1>2, NilAssumption DEF NewTx, TypeOK, Txs, TxsOf, Jobs
<1>4. i \in forfeited \/ TxsOf(i) = {}
  <2>1. resp[w].tx = NoHash
    BY <1>2 DEF RailInv, LockInv, NoEarlyResponse, NoResponse
  <2>2. i \in forfeited \/ TxsOf(i) \subseteq {NoHash}
    BY <1>2, <2>1 DEF RailInv, OnceInv, ExecutesAlone, Executing
  <2> QED BY <2>2, HashAssumption DEF TxsOf
<1>5. \A id \in Ids : h \notin TxsOf(id)
  BY <1>1 DEF TxsOf
<1>6. PICK id \in Ids : id = i
  BY <1>2
<1> HIDE DEF i
<1>7. Payments!Pay(id, h)
  BY <1>2, <1>3, <1>4, <1>5, <1>6 DEF Payments!Pay
<1> QED BY <1>7 DEF Payments!Next

(* An answer with a tx hash is a Tell.                                     *)
LEMMA AnswerTells ==
  ASSUME TypeOK, RailInv, NEW w \in Workers, Unlock(w),
         \A id \in Ids : TxsOf(id)' = TxsOf(id)
  PROVE  [Payments!Next]_(Payments!vars)
<1> DEFINE i == job[w].id
           told == {<<a.id, a.tx>> : a \in answers}
<1>1. /\ pc[w] = "unlock" /\ forfeited' = forfeited
      /\ answers' = answers \cup
           { a \in {[id |-> i, req |-> job[w].req, status |-> resp[w].status, tx |-> resp[w].tx]} :
               a.tx # NoHash }
      /\ i \in Ids /\ resp[w].tx \in Hashes \cup {NoHash}
  BY DEF Unlock, TypeOK, Jobs, Responses
<1>2. [id \in Ids |-> TxsOf(id)]' = [id \in Ids |-> TxsOf(id)]
  OBVIOUS
<1>3. CASE resp[w].tx = NoHash
  <2>1. answers' = answers
    BY <1>1, <1>3
  <2> QED BY <2>1, <1>1, <1>2 DEF Payments!vars
<1>4. CASE resp[w].tx # NoHash
  <2>1. resp[w].tx \in TxsOf(i)
    BY <1>1, <1>4 DEF RailInv, ProofInv, ResponsesAreProofs, TxsOf
  <2>2. told' = told \cup {<<i, resp[w].tx>>}
    <3> DEFINE new == [id |-> i, req |-> job[w].req, status |-> resp[w].status, tx |-> resp[w].tx]
    <3>1. answers' = answers \cup {new}
      BY <1>1, <1>4
    <3>2. new.id = i /\ new.tx = resp[w].tx
      OBVIOUS
    <3> HIDE DEF new
    <3> QED BY <3>1, <3>2
  <2>3. PICK id \in Ids, h \in Hashes : id = i /\ h = resp[w].tx
    BY <1>1, <1>4
  <2>4. Payments!Tell(id, h)
    BY <1>1, <1>2, <2>1, <2>2, <2>3 DEF Payments!Tell
  <2> QED BY <2>4 DEF Payments!Next
<1> QED BY <1>3, <1>4

(* The rail implements IdempotentPayments: every reachable step is a Pay,  *)
(* a Tell, a Lose or invisible to callers.                                 *)
THEOREM Refinement == Spec => ImplementsPayments
<1>1. Init => Payments!Init
  BY DEF Init, Payments!Init, TxsOf
<1>2. TypeOK /\ TypeOK' /\ RailInv /\ [Next]_vars => [Payments!Next]_(Payments!vars)
  <2> SUFFICES ASSUME TypeOK, TypeOK', RailInv, [Next]_vars
               PROVE  [Payments!Next]_(Payments!vars)
    OBVIOUS
  <2>1. CASE \E w \in Workers : NodeAccepts(w) \/ NodeRejects(w)
    BY <2>1, BroadcastPays
  <2>2. CASE ~ \E w \in Workers : NodeAccepts(w) \/ NodeRejects(w)
    <3>1. \A id \in Ids : TxsOf(id)' = TxsOf(id)
      BY <2>2, PaidChanges
    <3>2. CASE \E w \in Workers : Unlock(w)
      BY <3>1, <3>2, AnswerTells
    <3>3. CASE answers' = answers /\ forfeited \subseteq forfeited'
      <4>1. [id \in Ids |-> TxsOf(id)]' = [id \in Ids |-> TxsOf(id)]
        BY <3>1
      <4>2. forfeited' \in SUBSET Ids /\ forfeited' = forfeited \cup forfeited'
        BY <3>3 DEF TypeOK
      <4>3. Payments!Lose(forfeited')
        BY <3>3, <4>1, <4>2 DEF Payments!Lose
      <4> QED BY <4>2, <4>3 DEF Payments!Next
    <3>4. ASSUME NEW w \in Workers, Step(w), ~Unlock(w)
          PROVE  answers' = answers /\ forfeited \subseteq forfeited'
      BY <2>2, <3>4 DEF Step, history, Forfeit, CreateLock, LockFails, LockExists, InProgress,
        StatStale, RemoveStale, ReadConflict, Replay, ReadInvalid, Proceed, PreflightPasses,
        PreflightRefuses, ExecFails, OutputLost, OutputRead, ConfirmFound, ConfirmTimesOut,
        ConfirmLookupFails, WriteRecord, WriteFails
    <3>5. CASE ~ \E w \in Workers : Step(w)
      <4>1. answers' = answers /\ forfeited \subseteq forfeited'
        BY <3>5 DEF Next, vars, history, Forfeit, Submit, Crash, PowerLoss, AgeLock, Settle
      <4> QED BY <4>1, <3>3
    <3> QED BY <3>2, <3>3, <3>4, <3>5
  <2> QED BY <2>1, <2>2
<1> QED BY <1>1, <1>2, TypeCorrect, RailInvariance, PTL
     DEF Spec, ImplementsPayments, Payments!Spec

-----------------------------------------------------------------------------
(* Failures are true as long as no confirmation lookup fails.              *)

(* A transaction that will never move money: it was refused by CheckTx or  *)
(* failed in its block.                                                    *)
Dead(tx) == tx # NoTx /\ tx.state \in {"failed", "rejected"}

(* A failure with a tx hash, held by a worker or stored.                   *)
SaysFailed(r) == r.status = "failed" /\ r.tx # NoHash

(* Whoever says that a transaction failed is right, for forfeited ids too. *)
FailuresAreTrue ==
  /\ \A w \in Workers : SaysFailed(resp[w]) => Dead(txs[resp[w].tx])
  /\ \A id \in Ids : record[id] \in Records /\ SaysFailed(record[id].resp)
                     => Dead(txs[record[id].resp.tx])

LEMMA DeadStaysDead ==
  ASSUME TypeOK, [Next]_vars, NEW h \in Hashes, Dead(txs[h])
  PROVE  Dead(txs'[h])
<1>1. ASSUME NEW w \in Workers, NEW g \in Hashes, NEW s, txs[g] = NoTx, NewTx(w, g, s)
      PROVE  Dead(txs'[h])
  BY <1>1 DEF NewTx, TypeOK, Dead
<1>2. ASSUME NEW g \in Hashes, NEW s, Settle(g, s)
      PROVE  Dead(txs'[h])
  <2>1. g # h
    BY <1>2 DEF Settle, Dead
  <2> QED BY <1>2, <2>1 DEF Settle, TypeOK, Dead
<1>3. CASE txs' = txs
  BY <1>3 DEF Dead
<1>4. ASSUME NEW w \in Workers, Step(w)
      PROVE  Dead(txs'[h])
  <2>1. CASE NodeAccepts(w)
    BY <2>1, <1>1 DEF NodeAccepts
  <2>2. CASE NodeRejects(w)
    BY <2>2, <1>1 DEF NodeRejects
  <2>3. CASE ~NodeAccepts(w) /\ ~NodeRejects(w)
    <3>1. txs' = txs
      BY <2>3, <1>4 DEF Step, CreateLock, LockFails, LockExists, InProgress,
        StatStale, RemoveStale, ReadConflict, Replay, ReadInvalid, Proceed, PreflightPasses,
        PreflightRefuses, ExecFails, OutputLost, OutputRead, ConfirmFound, ConfirmTimesOut,
        ConfirmLookupFails, WriteRecord, WriteFails, Unlock
    <3> QED BY <3>1, <1>3
  <2> QED BY <2>1, <2>2, <2>3
<1>5. CASE ~(\E w \in Workers : Step(w)) /\ ~(\E g \in Hashes, s \in TxState : Settle(g, s))
  <2>1. txs' = txs
    BY <1>5 DEF Next, vars, Submit, Crash, PowerLoss, AgeLock, TxState
  <2> QED BY <2>1, <1>3
<1> QED BY <1>2, <1>4, <1>5

(* What a worker newly says of a transaction: it is the outcome of a       *)
(* broadcast or a lookup, or what the record says.                         *)
LEMMA FailuresOfStep ==
  ASSUME TypeOK, RailInv, FailuresAreTrue, "lookup_failed" \notin Faults,
         NEW w \in Workers, Step(w), SaysFailed(resp'[w])
  PROVE  \/ resp'[w] = resp[w]
         \/ resp'[w].tx \in Hashes /\ Dead(txs[resp'[w].tx])
         \/ resp'[w].tx \in Hashes /\ Dead(txs'[resp'[w].tx])
<1> DEFINE r == resp'[w]
<1> USE HashAssumption, NilAssumption DEF TypeOK, SaysFailed
<1>1. \A b : ~SaysFailed(Refused(b))
  BY DEF Refused
<1>2. \A s, h : s # "failed" => ~SaysFailed(Reported(s, h))
  BY DEF Reported
<1>3. ~SaysFailed(NoResponse)
  BY DEF NoResponse
<1>4. \A rr \in Responses : SaysFailed(rr) => rr.tx \in Hashes
  BY DEF Responses
<1>5. CASE UNCHANGED resp
  BY <1>5
<1>6. CASE Replay(w)
  <2>1. /\ record[job[w].id] \in Records /\ r = record[job[w].id].resp
        /\ job[w].id \in Ids /\ r \in Responses
    BY <1>6 DEF Replay, Return, Jobs, Records
  <2>2. Dead(txs[r.tx])
    BY <2>1 DEF FailuresAreTrue
  <2> QED BY <1>4, <2>1, <2>2
<1>7. CASE NodeRejects(w)
  <2>1. PICK h \in Hashes : NewTx(w, h, "rejected") /\ r = Reported("failed", h)
    BY <1>7 DEF NodeRejects
  <2>2. r.tx = h
    BY <2>1 DEF Reported
  <2>3. txs'[h] = [id |-> job[w].id, req |-> job[w].req, state |-> "rejected"]
    BY <2>1 DEF NewTx
  <2>4. job[w] \in Jobs /\ txs'[h] \in Txs
    BY <1>7, <2>3 DEF NodeRejects, Jobs, Txs, TxState
  <2> QED BY <2>2, <2>3, <2>4 DEF Dead
<1>8. CASE NodeAccepts(w)
  BY <1>2, <1>8 DEF NodeAccepts
<1>9. CASE ConfirmFound(w)
  <2> DEFINE h == resp[w].tx
  <2>1. h \in Hashes /\ txs[h] # NoTx
    BY <1>9 DEF ConfirmFound, RailInv, LockInv, NoEarlyResponse, ProofInv, ResponsesAreProofs, Responses
  <2>2. txs[h].state \in {"committed", "failed"}
        /\ r = Reported(IF txs[h].state = "committed" THEN "confirmed" ELSE "failed", h)
    BY <1>9 DEF ConfirmFound
  <2>3. txs[h].state = "failed" /\ r = Reported("failed", h)
    BY <1>2, <2>2
  <2>4. r.tx = h
    BY <2>3 DEF Reported
  <2> QED BY <2>1, <2>3, <2>4 DEF Dead
<1>10. CASE ConfirmTimesOut(w)
  BY <1>2, <1>10 DEF ConfirmTimesOut
<1>11. CASE WriteRecord(w)
  BY <1>11 DEF WriteRecord, Return
<1>12. CASE InProgress(w) \/ LockFails(w) \/ Unlock(w) \/ WriteFails(w)
  BY <1>3, <1>12 DEF InProgress, LockFails, Unlock, WriteFails, Stop, Return
<1>13. CASE ReadConflict(w) \/ ReadInvalid(w) \/ PreflightRefuses(w) \/ ExecFails(w) \/ OutputLost(w)
  <2>1. \E b : resp' = [resp EXCEPT ![w] = Refused(b)]
    BY <1>13 DEF ReadConflict, ReadInvalid, PreflightRefuses, ExecFails, OutputLost, Return
  <2> QED BY <1>1, <2>1
<1>14. ~ConfirmLookupFails(w)
  BY DEF ConfirmLookupFails
<1>15. CASE \/ CreateLock(w) \/ LockExists(w) \/ StatStale(w) \/ RemoveStale(w) \/ Proceed(w)
            \/ PreflightPasses(w) \/ OutputRead(w)
  BY <1>5, <1>15 DEF CreateLock, LockExists, StatStale, RemoveStale, Proceed, PreflightPasses, OutputRead
<1> QED
  BY <1>6, <1>7, <1>8, <1>9, <1>10, <1>11, <1>12, <1>13, <1>14, <1>15 DEF Step

LEMMA FailuresStep ==
  ASSUME TypeOK, TypeOK', RailInv, FailuresAreTrue, "lookup_failed" \notin Faults, [Next]_vars
  PROVE  FailuresAreTrue'
<1> USE HashAssumption
<1>1. \A r \in Responses : SaysFailed(r) => r.tx \in Hashes
  BY DEF Responses, SaysFailed
<1>2. ASSUME NEW w \in Workers, SaysFailed(resp'[w])
      PROVE  Dead(txs'[resp'[w].tx])
  <2>1. resp'[w] \in Responses /\ resp[w] \in Responses
    BY DEF TypeOK
  <2>2. CASE resp'[w] = resp[w]
    BY <1>1, <1>2, <2>1, <2>2, DeadStaysDead DEF FailuresAreTrue
  <2>3. CASE Step(w)
    BY <1>2, <2>2, <2>3, FailuresOfStep, DeadStaysDead
  <2>4. ASSUME NEW v \in Workers \ {w}, Step(v)
        PROVE  resp'[w] = resp[w]
    BY <2>4 DEF TypeOK, Step, CreateLock, LockFails, LockExists, InProgress, StatStale, RemoveStale,
      ReadConflict, Replay, ReadInvalid, Proceed, PreflightPasses, PreflightRefuses, NodeAccepts,
      NodeRejects, ExecFails, OutputLost, OutputRead, ConfirmFound, ConfirmTimesOut,
      ConfirmLookupFails, WriteRecord, WriteFails, Unlock, Stop, Return
  <2>5. ~SaysFailed(NoResponse)
    BY DEF NoResponse, SaysFailed
  <2>6. CASE ~ \E v \in Workers : Step(v)
    <3>1. resp'[w] = resp[w] \/ resp'[w] = NoResponse
      BY <2>6 DEF TypeOK, Next, vars, Submit, Crash, PowerLoss, AgeLock, Settle, Stop
    <3> QED BY <1>2, <2>2, <2>5, <3>1
  <2> QED BY <2>2, <2>3, <2>4, <2>6
<1>3. ASSUME NEW id \in Ids, record'[id] \in Records, SaysFailed(record'[id].resp)
      PROVE  Dead(txs'[record'[id].resp.tx])
  <2>1. record'[id].resp \in Responses /\ (record[id] \in Records => record[id].resp \in Responses)
    BY <1>3 DEF Records
  <2>2. CASE record'[id] = record[id]
    BY <1>1, <1>3, <2>1, <2>2, DeadStaysDead DEF FailuresAreTrue
  <2>3. ASSUME NEW w \in Workers, WriteRecord(w)
        PROVE  record'[id] = record[id] \/ record'[id].resp = resp'[w]
    BY <2>3 DEF WriteRecord, Return, TypeOK, Jobs
  <2>4. ASSUME NEW w \in Workers, Step(w), ~WriteRecord(w)
        PROVE  record' = record
    BY <2>4 DEF Step, files, CreateLock, LockFails, LockExists, InProgress, StatStale, RemoveStale,
      ReadConflict, Replay, ReadInvalid, Proceed, PreflightPasses, PreflightRefuses, NodeAccepts,
      NodeRejects, ExecFails, OutputLost, OutputRead, ConfirmFound, ConfirmTimesOut,
      ConfirmLookupFails, WriteFails, Unlock
  <2>5. CASE ~ \E v \in Workers : Step(v)
    <3>1. CASE \E torn \in SUBSET Ids : PowerLoss(torn)
      BY <3>1, <2>2, <1>3, NilAssumption DEF PowerLoss
    <3>2. CASE ~ \E torn \in SUBSET Ids : PowerLoss(torn)
      <4>1. record' = record
        BY <2>5, <3>2 DEF Next, vars, files, Submit, Crash, AgeLock, Settle
      <4> QED BY <4>1, <2>2
    <3> QED BY <3>1, <3>2
  <2> QED BY <1>2, <1>3, <2>2, <2>3, <2>4, <2>5
<1> QED BY <1>2, <1>3 DEF FailuresAreTrue

(* A stored failure with a tx hash never hides a payment, for forfeited    *)
(* ids too, as long as waitForTxConfirmation's lookups answer found or not *)
(* found: ConfirmLookupFails is the only step that can make it untrue (and *)
(* does, see the run rail_lookup_failed).                                  *)
THEOREM FailedMeansUnpaidHolds ==
  ASSUME "lookup_failed" \notin Faults
  PROVE  Spec => []FailedMeansUnpaid
<1>1. Init => FailuresAreTrue
  <2>1. \A r \in LegacyRecords : ~SaysFailed(r.resp)
    <3>1. \A r \in LegacyRecords : r.resp = Refused(TRUE)
      BY DEF LegacyRecords
    <3>2. Refused(TRUE).tx = NoHash
      BY DEF Refused
    <3> QED BY <3>1, <3>2 DEF SaysFailed
  <2>2. ~SaysFailed(NoResponse)
    BY DEF NoResponse, SaysFailed
  <2> QED BY <2>1, <2>2, NilAssumption DEF Init, FailuresAreTrue
<1>2. TypeOK /\ TypeOK' /\ RailInv /\ FailuresAreTrue /\ [Next]_vars => FailuresAreTrue'
  BY FailuresStep
<1>3. FailuresAreTrue => FailedMeansUnpaid
  BY DEF FailuresAreTrue, FailedMeansUnpaid, SaysFailed, Dead
<1> QED BY <1>1, <1>2, <1>3, TypeCorrect, RailInvariance, PTL DEF Spec
=============================================================================
