---------------------------- MODULE SettlementRun ----------------------------
(***************************************************************************)
(* Grouped settlement runs: executeSettlementRun.  A run request names a   *)
(* run id and up to 250 payout lines; each ready line is executed, one     *)
(* after the other, through the request-level rail.                        *)
(*                                                                         *)
(*   plan -> run lock -> read run record -> items -> write run record ->   *)
(*   remove run lock                                                       *)
(*                                                                         *)
(* The rail is used through what RequestRail establishes: an item is       *)
(* executed by one attempt at a time, its record decides between conflict, *)
(* replay and execution, and an executed item leaves a record.  How an     *)
(* item itself is lost (a crash inside the in-flight window) is            *)
(* RequestRail's subject and does not happen here.                         *)
(***************************************************************************)
EXTENDS RunResults, Sequences, FiniteSetsExt

CONSTANTS
  Runners,      \* handler goroutines and CLI processes
  Runs,         \* settlement run ids
  Items,        \* request ids of payout lines, given or derived from run and index
  Bodies,       \* what a line asks for: to_address, amount, memo, signer role
  Requests,     \* the run requests clients submit
  BadLine,      \* a line that normalizeSettlementRequest refuses
  NoJob,        \* what an idle runner works on
  NoLock,       \* the lock file does not exist
  NoRecord,     \* the record file does not exist
  Unreadable,   \* the record file exists and does not parse
  Faults,       \* which of FaultKinds may happen in this instance
  LinesPerTTL,  \* lines a run executes before its lock may be older than RequestLockTTL
  MaxSubmits,   \* bound: attempts submitted over the whole behaviour
  MaxCrashes    \* bound: crashes and power losses over the whole behaviour

FaultKinds == {"crash",        \* a runner dies
               "power_loss",   \* the host dies, records may be torn
               "item_error",   \* an item returns an error instead of a response
               "write_failed"} \* a file of the state directory cannot be written

Lines == [item : Items, body : Bodies]

(* A request whose header does not validate (run id, signer role, source   *)
(* ids, number of lines) has valid = FALSE.                                *)
ASSUME RequestsAssumption ==
  \A req \in Requests :
     /\ req.run \in Runs
     /\ req.lines \in Seq(Lines \cup {BadLine})
     /\ req.valid \in BOOLEAN
     /\ req.lines = << >> => ~req.valid
ASSUME FaultsAssumption == Faults \subseteq FaultKinds
ASSUME BoundsAssumption == LinesPerTTL \in Nat /\ MaxSubmits \in Nat /\ MaxCrashes \in Nat
ASSUME NilAssumption    == NoLock \notin Runners /\ BadLine \notin Lines /\ NoJob \notin Requests

ItemRecords == [body : Bodies, resp : RailResponses]

ASSUME RecordsAssumption ==
  NoRecord \notin ItemRecords /\ Unreadable \notin ItemRecords /\ NoRecord # Unreadable

-----------------------------------------------------------------------------
(* prepareSettlementRunRequest.                                            *)

(* The lines that go into the normalised request; a bad line and a second  *)
(* use of a request id do not.                                             *)
ReadyLines(req) ==
  IF ~req.valid THEN {}
  ELSE {k \in DOMAIN req.lines :
          /\ req.lines[k] # BadLine
          /\ \A j \in 1..(k - 1) :
               req.lines[j] = BadLine \/ req.lines[j].item # req.lines[k].item}

(* Lines the response lists: none when the header does not validate.       *)
ListedLines(req) == IF req.valid THEN DOMAIN req.lines ELSE {}

(* hashSettlementRunRequest over the normalised request, which is empty    *)
(* when the header does not validate and has no trace of the lines that    *)
(* are not ready.                                                          *)
Fingerprint(req) ==
  IF ~req.valid THEN [valid |-> FALSE]
  ELSE [valid |-> TRUE, payouts |-> [k \in ReadyLines(req) |-> req.lines[k]]]

-----------------------------------------------------------------------------
VARIABLES
  pc,          \* where each runner is in executeSettlementRun
  job,         \* the request each runner works on
  plan,        \* the plan it built, before it took the run lock
  results,     \* the line results it has collected
  lock,        \* run lock file: the runner that created it, or NoLock
  stale,       \* the run lock file is older than RequestLockTTL
  runRecord,   \* run record file
  itemLock,    \* request lock file of each item
  itemRecord,  \* record file of each item
  contested,   \* history: runs whose lock was removed under a live attempt
  submits,
  crashes

vars == <<pc, job, plan, results, lock, stale, runRecord, itemLock, itemRecord,
          contested, submits, crashes>>

local  == <<job, plan, results>>
runs   == <<lock, stale, runRecord>>
items  == <<itemLock, itemRecord>>
bounds == <<submits, crashes>>

NoPlan == [ok |-> FALSE, retryable |-> FALSE]

Section == {"read", "pick", "item", "unlock"}
PCs     == {"idle", "plan", "lock", "stat", "steal"} \cup Section

InSection(w, run) == pc[w] \in Section /\ job[w].run = run

Goto(w, label) == pc' = [pc EXCEPT ![w] = label]

Stop(w) ==
  /\ Goto(w, "idle")
  /\ job' = [job EXCEPT ![w] = NoJob]
  /\ plan' = [plan EXCEPT ![w] = NoPlan]
  /\ results' = [results EXCEPT ![w] = << >>]

Init ==
  /\ pc = [w \in Runners |-> "idle"]
  /\ job = [w \in Runners |-> NoJob]
  /\ plan = [w \in Runners |-> NoPlan]
  /\ results = [w \in Runners |-> << >>]
  /\ lock = [run \in Runs |-> NoLock]
  /\ stale = [run \in Runs |-> FALSE]
  /\ runRecord = [run \in Runs |-> NoRecord]
  /\ itemLock = [i \in Items |-> NoLock]
  /\ itemRecord = [i \in Items |-> NoRecord]
  /\ contested = {}
  /\ submits = 0
  /\ crashes = 0

-----------------------------------------------------------------------------
(* Entering: buildSettlementRunPlan, then withRunLock.                     *)

Submit(w, req) ==
  /\ pc[w] = "idle"
  /\ submits < MaxSubmits
  /\ submits' = submits + 1
  /\ job' = [job EXCEPT ![w] = req]
  /\ Goto(w, "plan")
  /\ UNCHANGED <<plan, results, runs, items, contested, crashes>>

(* A request without a ready line is INVALID_RUN.  Any other is validated, *)
(* or refused by the signer's health, by the signer rule for bet markets   *)
(* or by the capacity check of its total.                                  *)
Plan(w) ==
  /\ pc[w] = "plan"
  /\ \E ok, retryable \in BOOLEAN :
       /\ ok => ReadyLines(job[w]) # {} /\ ~retryable
       /\ retryable => ReadyLines(job[w]) # {}
       /\ plan' = [plan EXCEPT ![w] = [ok |-> ok, retryable |-> retryable]]
  /\ Goto(w, "lock")
  /\ UNCHANGED <<job, results, runs, items, contested, bounds>>

(* Variant: os.OpenFile without O_EXCL.                                    *)
CreateLockShared(w) ==
  /\ pc[w] = "lock"
  /\ lock' = [lock EXCEPT ![job[w].run] = w]
  /\ stale' = [stale EXCEPT ![job[w].run] = FALSE]
  /\ Goto(w, "read")
  /\ UNCHANGED <<local, runRecord, items, contested, bounds>>

CreateLock(w) ==
  /\ pc[w] = "lock"
  /\ lock[job[w].run] = NoLock
  /\ lock' = [lock EXCEPT ![job[w].run] = w]
  /\ stale' = [stale EXCEPT ![job[w].run] = FALSE]
  /\ Goto(w, "read")
  /\ UNCHANGED <<local, runRecord, items, contested, bounds>>

LockFails(w) ==
  /\ pc[w] = "lock"
  /\ "write_failed" \in Faults
  /\ Stop(w)
  /\ UNCHANGED <<runs, items, contested, bounds>>

LockExists(w) ==
  /\ pc[w] = "lock"
  /\ lock[job[w].run] # NoLock
  /\ Goto(w, "stat")
  /\ UNCHANGED <<local, runs, items, contested, bounds>>

(* RUN_IN_PROGRESS.                                                        *)
InProgress(w) ==
  /\ pc[w] = "stat"
  /\ lock[job[w].run] = NoLock \/ ~stale[job[w].run]
  /\ Stop(w)
  /\ UNCHANGED <<runs, items, contested, bounds>>

StatStale(w) ==
  /\ pc[w] = "stat"
  /\ lock[job[w].run] # NoLock
  /\ stale[job[w].run]
  /\ Goto(w, "steal")
  /\ UNCHANGED <<local, runs, items, contested, bounds>>

RemoveStale(w) ==
  LET run == job[w].run IN
  /\ pc[w] = "steal"
  /\ lock' = [lock EXCEPT ![run] = NoLock]
  /\ stale' = [stale EXCEPT ![run] = FALSE]
  /\ contested' = contested \cup {r \in {run} : \E v \in Runners : InSection(v, r)}
  /\ Goto(w, "lock")
  /\ UNCHANGED <<local, runRecord, items, bounds>>

-----------------------------------------------------------------------------
(* Inside the run lock: the run record decides.                            *)

(* IDEMPOTENCY_CONFLICT, STATE_FILE_INVALID or the stored final response:  *)
(* nothing is written.                                                     *)
Conflict(w) ==
  LET r == runRecord[job[w].run] IN
  /\ pc[w] = "read"
  /\ r \notin {NoRecord, Unreadable}
  /\ r.fingerprint # Fingerprint(job[w])
  /\ Goto(w, "unlock")
  /\ UNCHANGED <<local, runs, items, contested, bounds>>

ReadInvalid(w) ==
  /\ pc[w] = "read"
  /\ runRecord[job[w].run] = Unreadable
  /\ Goto(w, "unlock")
  /\ UNCHANGED <<local, runs, items, contested, bounds>>

Replay(w) ==
  LET r == runRecord[job[w].run] IN
  /\ pc[w] = "read"
  /\ r \notin {NoRecord, Unreadable}
  /\ r.fingerprint = Fingerprint(job[w])
  /\ settlementRunResponseIsFinal(r)
  /\ Goto(w, "unlock")
  /\ UNCHANGED <<local, runs, items, contested, bounds>>

(* Variant: a stored final response does not stop a retry.                 *)
MayExecuteAgain(w) ==
  LET r == runRecord[job[w].run] IN
  /\ pc[w] = "read"
  /\ \/ r = NoRecord
     \/ r \notin {NoRecord, Unreadable} /\ r.fingerprint = Fingerprint(job[w])

(* The record, if any, is of the same payload and not final.               *)
MayExecute(w) ==
  LET r == runRecord[job[w].run] IN
  /\ pc[w] = "read"
  /\ \/ r = NoRecord
     \/ /\ r \notin {NoRecord, Unreadable}
        /\ r.fingerprint = Fingerprint(job[w])
        /\ ~settlementRunResponseIsFinal(r)

(* The plan refuses: the refusal is stored, over whatever was stored, with *)
(* every ready line refused (markRunReadyPayoutsRefused).                  *)
StoreRefusal(w) ==
  LET req == job[w] IN
  /\ MayExecute(w)
  /\ ~plan[w].ok
  /\ runRecord' = [runRecord EXCEPT ![req.run] =
       [fingerprint |-> Fingerprint(req), status |-> "failed",
        lines |-> [k \in ListedLines(req) |->
                     IF k \in ReadyLines(req)
                     THEN Unattempted("refused", plan[w].retryable)
                     ELSE Unattempted("invalid", FALSE)],
        request |-> req]]
  /\ Goto(w, "unlock")
  /\ UNCHANGED <<local, lock, stale, items, contested, bounds>>

Proceed(w) ==
  /\ MayExecute(w)
  /\ plan[w].ok
  /\ Goto(w, "pick")
  /\ UNCHANGED <<local, runs, items, contested, bounds>>

-----------------------------------------------------------------------------
(* The items, in the order of their lines.                                 *)

Remaining(w) == ReadyLines(job[w]) \ DOMAIN results[w]
Current(w)   == Min(Remaining(w))
Item(w)      == job[w].lines[Current(w)].item
Body(w)      == job[w].lines[Current(w)].body

Collect(w, line) ==
  /\ results' = [results EXCEPT ![w] =
                   [k \in DOMAIN results[w] \cup {Current(w)} |->
                      IF k = Current(w) THEN line ELSE results[w][k]]]
  /\ Goto(w, "pick")

(* withRequestLock: another attempt is at this item; REQUEST_IN_PROGRESS.  *)
ItemInProgress(w) ==
  /\ pc[w] = "pick"
  /\ Remaining(w) # {}
  /\ itemLock[Item(w)] # NoLock
  /\ Collect(w, Attempted("failed", "refused", TRUE))
  /\ UNCHANGED <<job, plan, runs, items, contested, bounds>>

StartItem(w) ==
  /\ pc[w] = "pick"
  /\ Remaining(w) # {}
  /\ itemLock[Item(w)] = NoLock
  /\ itemLock' = [itemLock EXCEPT ![Item(w)] = w]
  /\ Goto(w, "item")
  /\ UNCHANGED <<local, runs, itemRecord, contested, bounds>>

(* The item's id is stored with another payload.                           *)
ItemConflict(w) ==
  LET r == itemRecord[Item(w)] IN
  /\ pc[w] = "item"
  /\ r \notin {NoRecord, Unreadable}
  /\ r.body # Body(w)
  /\ Collect(w, Attempted("failed", "refused", FALSE))
  /\ itemLock' = [itemLock EXCEPT ![Item(w)] = NoLock]
  /\ UNCHANGED <<job, plan, runs, itemRecord, contested, bounds>>

(* The item's record does not parse: STATE_FILE_INVALID.                   *)
ItemInvalid(w) ==
  /\ pc[w] = "item"
  /\ itemRecord[Item(w)] = Unreadable
  /\ Collect(w, Attempted("failed", "refused", FALSE))
  /\ itemLock' = [itemLock EXCEPT ![Item(w)] = NoLock]
  /\ UNCHANGED <<job, plan, runs, itemRecord, contested, bounds>>

(* Variant: a replayed line is reported as executed.                       *)
ItemReplayAsConfirmed(w) ==
  LET r == itemRecord[Item(w)] IN
  /\ pc[w] = "item"
  /\ r \notin {NoRecord, Unreadable}
  /\ r.body = Body(w)
  /\ ~r.resp.retryable
  /\ Collect(w, Attempted("confirmed", "idempotent_replay", r.resp.retryable))
  /\ itemLock' = [itemLock EXCEPT ![Item(w)] = NoLock]
  /\ UNCHANGED <<job, plan, runs, itemRecord, contested, bounds>>

(* The item's stored response is final.                                    *)
ItemReplay(w) ==
  LET r == itemRecord[Item(w)] IN
  /\ pc[w] = "item"
  /\ r \notin {NoRecord, Unreadable}
  /\ r.body = Body(w)
  /\ ~r.resp.retryable
  /\ Collect(w, Attempted(r.resp.status, "idempotent_replay", r.resp.retryable))
  /\ itemLock' = [itemLock EXCEPT ![Item(w)] = NoLock]
  /\ UNCHANGED <<job, plan, runs, itemRecord, contested, bounds>>

(* The item runs through the rail and leaves a record.                     *)
ItemExecutes(w) ==
  LET r == itemRecord[Item(w)] IN
  /\ pc[w] = "item"
  /\ \/ r = NoRecord
     \/ r \notin {NoRecord, Unreadable} /\ r.body = Body(w) /\ r.resp.retryable
  /\ \E resp \in RailResponses :
       /\ itemRecord' = [itemRecord EXCEPT ![Item(w)] = [body |-> Body(w), resp |-> resp]]
       /\ Collect(w, Attempted(resp.status, Outcome(resp), resp.retryable))
  /\ itemLock' = [itemLock EXCEPT ![Item(w)] = NoLock]
  /\ UNCHANGED <<job, plan, runs, contested, bounds>>

(* The item returns an error: the run returns it and writes no record.     *)
ItemError(w) ==
  /\ pc[w] = "item"
  /\ "item_error" \in Faults
  /\ itemLock' = [itemLock EXCEPT ![Item(w)] = NoLock]
  /\ Goto(w, "unlock")
  /\ UNCHANGED <<local, runs, itemRecord, contested, bounds>>

-----------------------------------------------------------------------------
(* Leaving.                                                                *)

(* Variant: the status of the plan is not reset, so none is derived.       *)
WriteRunValidated(w) ==
  LET req == job[w] IN
  /\ pc[w] = "pick"
  /\ Remaining(w) = {}
  /\ runRecord' = [runRecord EXCEPT ![req.run] =
       [fingerprint |-> Fingerprint(req), status |-> "validated", lines |-> results[w],
        request |-> req]]
  /\ Goto(w, "unlock")
  /\ UNCHANGED <<local, lock, stale, items, contested, bounds>>

(* The response is finalised over the items only: lines that were not      *)
(* ready are no longer listed.  The field request is history: the request  *)
(* the lines are about.                                                    *)
WriteRun(w) ==
  LET req == job[w] IN
  /\ pc[w] = "pick"
  /\ Remaining(w) = {}
  /\ runRecord' = [runRecord EXCEPT ![req.run] =
       [fingerprint |-> Fingerprint(req),
        status |-> deriveSettlementRunStatus(Len(req.lines), results[w]),
        lines |-> results[w],
        request |-> req]]
  /\ Goto(w, "unlock")
  /\ UNCHANGED <<local, lock, stale, items, contested, bounds>>

(* writeSettlementRunStoredResult fails, for the results or a refusal.     *)
WriteFails(w) ==
  /\ "write_failed" \in Faults
  /\ \/ pc[w] = "pick" /\ Remaining(w) = {}
     \/ MayExecute(w) /\ ~plan[w].ok
  /\ Goto(w, "unlock")
  /\ UNCHANGED <<local, runs, items, contested, bounds>>

Unlock(w) ==
  /\ pc[w] = "unlock"
  /\ lock' = [lock EXCEPT ![job[w].run] = NoLock]
  /\ stale' = [stale EXCEPT ![job[w].run] = FALSE]
  /\ Stop(w)
  /\ UNCHANGED <<runRecord, items, contested, bounds>>

-----------------------------------------------------------------------------
(* The environment.                                                        *)

(* RequestLockTTL passes for the lock of a dead runner, or of a live one   *)
(* that has executed LinesPerTTL lines: the lock is not refreshed.         *)
AgeLock(run) ==
  /\ lock[run] # NoLock
  /\ ~stale[run]
  /\ InSection(lock[run], run) => Cardinality(DOMAIN results[lock[run]]) >= LinesPerTTL
  /\ stale' = [stale EXCEPT ![run] = TRUE]
  /\ UNCHANGED <<pc, local, lock, runRecord, items, contested, bounds>>

(* The request lock a dead runner left is removed as stale.                *)
ReleaseItem(i) ==
  /\ itemLock[i] # NoLock
  /\ ~ (pc[itemLock[i]] = "item" /\ Item(itemLock[i]) = i)
  /\ itemLock' = [itemLock EXCEPT ![i] = NoLock]
  /\ UNCHANGED <<pc, local, runs, itemRecord, contested, bounds>>

Crash(w) ==
  /\ "crash" \in Faults
  /\ pc[w] # "idle"
  /\ crashes < MaxCrashes
  /\ crashes' = crashes + 1
  /\ Stop(w)
  /\ UNCHANGED <<runs, items, contested, submits>>

PowerLoss(torn, tornItems) ==
  /\ "power_loss" \in Faults
  /\ crashes < MaxCrashes
  /\ crashes' = crashes + 1
  /\ runRecord' = [run \in Runs |-> IF run \in torn /\ runRecord[run] # NoRecord
                                    THEN Unreadable ELSE runRecord[run]]
  /\ itemRecord' = [i \in Items |-> IF i \in tornItems /\ itemRecord[i] # NoRecord
                                    THEN Unreadable ELSE itemRecord[i]]
  /\ pc' = [w \in Runners |-> "idle"]
  /\ job' = [w \in Runners |-> NoJob]
  /\ plan' = [w \in Runners |-> NoPlan]
  /\ results' = [w \in Runners |-> << >>]
  /\ UNCHANGED <<lock, stale, itemLock, contested, submits>>

Step(w) ==
  \/ Plan(w)
  \/ CreateLock(w) \/ LockFails(w) \/ LockExists(w) \/ InProgress(w) \/ StatStale(w)
  \/ RemoveStale(w)
  \/ Conflict(w) \/ ReadInvalid(w) \/ Replay(w) \/ StoreRefusal(w) \/ Proceed(w)
  \/ ItemInProgress(w) \/ StartItem(w)
  \/ ItemConflict(w) \/ ItemInvalid(w) \/ ItemReplay(w) \/ ItemExecutes(w) \/ ItemError(w)
  \/ WriteRun(w) \/ WriteFails(w) \/ Unlock(w)

Next ==
  \/ \E w \in Runners : Step(w)
  \/ \E w \in Runners, req \in Requests : Submit(w, req)
  \/ \E w \in Runners : Crash(w)
  \/ \E torn \in SUBSET Runs, tornItems \in SUBSET Items : PowerLoss(torn, tornItems)
  \/ \E run \in Runs : AgeLock(run)
  \/ \E i \in Items : ReleaseItem(i)

Spec == Init /\ [][Next]_vars

-----------------------------------------------------------------------------
(* Properties.                                                             *)

(* Sets of line numbers a result may be indexed by.                        *)
LineNumbers == UNION {DOMAIN req.lines : req \in Requests}
SomeResults == UNION {[K -> LineResults] : K \in SUBSET LineNumbers}

RunRecords == [fingerprint : {Fingerprint(req) : req \in Requests},
               status : RunStatuses,
               lines : SomeResults,
               request : Requests]

(* Every variable has its type.                                            *)
TypeOK ==
  /\ pc \in [Runners -> PCs]
  /\ job \in [Runners -> Requests \cup {NoJob}]
  /\ \A w \in Runners : job[w] = NoJob <=> pc[w] = "idle"
  /\ plan \in [Runners -> [ok : BOOLEAN, retryable : BOOLEAN]]
  /\ results \in [Runners -> SomeResults]
  /\ lock \in [Runs -> Runners \cup {NoLock}]
  /\ stale \in [Runs -> BOOLEAN]
  /\ runRecord \in [Runs -> RunRecords \cup {NoRecord, Unreadable}]
  /\ itemLock \in [Items -> Runners \cup {NoLock}]
  /\ itemRecord \in [Items -> ItemRecords \cup {NoRecord, Unreadable}]
  /\ contested \subseteq Runs
  /\ submits \in 0..MaxSubmits
  /\ crashes \in 0..MaxCrashes

Recorded(run) == runRecord[run] \notin {NoRecord, Unreadable}

(* The item record of line k of a run's stored request.                    *)
ItemOf(run, k) == itemRecord[runRecord[run].request.lines[k].item]

(* Item record r is of this payload, as far as it can still be read.       *)
Answers(r, body) == r = Unreadable \/ (r # NoRecord /\ r.body = body)

(* Two attempts are inside the lock of one run only after the lock file of *)
(* a live attempt was removed (withRunLock).                               *)
RunLockExcludes ==
  \A run \in Runs \ contested : \A v, w \in Runners :
     InSection(v, run) /\ InSection(w, run) => v = w

(* A line that a stored run reports as executed is executed: the item's    *)
(* own record says the same of the same payload, whoever executed it and   *)
(* whatever happened since (executeSettlementRun's item loop).             *)
ReportedLinesAreExecuted ==
  \A run \in Runs : Recorded(run) =>
     \A k \in DOMAIN runRecord[run].lines :
        Executed(runRecord[run].lines[k]) =>
          /\ Answers(ItemOf(run, k), runRecord[run].request.lines[k].body)
          /\ ItemOf(run, k) # Unreadable =>
               ItemOf(run, k).resp.status = runRecord[run].lines[k].status /\ ItemOf(run, k).resp.tx

(* A run stored as ok has paid every line its client asked for, also the   *)
(* ones that did not make it into the normalised request                   *)
(* (deriveSettlementRunStatus compares with RequestedPayoutCount).         *)
OkRunPaidEveryLine ==
  \A run \in Runs : Recorded(run) /\ RunOK(runRecord[run]) =>
     \A k \in DOMAIN runRecord[run].request.lines :
        LET line == runRecord[run].request.lines[k] IN
        /\ line # BadLine
        /\ Answers(itemRecord[line.item], line.body)
        /\ itemRecord[line.item] # Unreadable => Executed(itemRecord[line.item].resp)

(* A final run leaves no attempted line open: its item will not be         *)
(* executed by a later attempt (settlementRunResponseIsFinal).             *)
FinalRunIsSettled ==
  \A run \in Runs : Recorded(run) /\ settlementRunResponseIsFinal(runRecord[run]) =>
     \A k \in DOMAIN runRecord[run].lines :
        runRecord[run].lines[k].attempted =>
           /\ ItemOf(run, k) # NoRecord
           /\ \/ ItemOf(run, k) = Unreadable
              \/ ItemOf(run, k).body # runRecord[run].request.lines[k].body
              \/ ~ItemOf(run, k).resp.retryable

(* A run reported as failed, with no attempt at it under way, moved no     *)
(* money: "no payouts executed successfully"                               *)
(* (settlementRunExecutionDetail).                                         *)
FailedRunPaidNothing ==
  \A run \in Runs :
     Recorded(run) /\ runRecord[run].status = "failed" /\ (\A w \in Runners : ~InSection(w, run))
     => \A k \in DOMAIN runRecord[run].lines :
          runRecord[run].request.lines[k] # BadLine
            => ItemOf(run, k) \in {NoRecord, Unreadable} \/ ~Executed(ItemOf(run, k).resp)

(* A final run record is only ever replaced by a torn file, unless the     *)
(* run's lock was taken from a live attempt.                               *)
FinalRunIsKept ==
  [][\A run \in Runs \ contested :
       Recorded(run) /\ settlementRunResponseIsFinal(runRecord[run])
         => runRecord'[run] \in {runRecord[run], Unreadable}]_vars
=============================================================================
