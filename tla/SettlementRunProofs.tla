------------------------- MODULE SettlementRunProofs -------------------------
(***************************************************************************)
(* Proofs about SettlementRun, for any number of runners, runs, lines and  *)
(* items, any requests and any faults.                                     *)
(*                                                                         *)
(* The argument has three layers.  The types, with the place of each       *)
(* runner in its request.  Then the lock: outside contested runs, whoever  *)
(* is inside the lock is the one named in it, and a runner that got past   *)
(* the record works on a run that is not final.  Last the items: a final   *)
(* item record is never replaced by a different one, so what a line result *)
(* said of its item when it was collected stays true, in the runner's      *)
(* memory and in the run record.                                           *)
(***************************************************************************)
EXTENDS SettlementRun, RunResultsProofs

LEMMA RequestTypes ==
  ASSUME NEW req \in Requests
  PROVE  /\ req.run \in Runs
         /\ Len(req.lines) \in Nat /\ DOMAIN req.lines = 1..Len(req.lines)
         /\ \A k \in DOMAIN req.lines : req.lines[k] \in Lines \cup {BadLine}
         /\ DOMAIN req.lines \subseteq LineNumbers
         /\ ReadyLines(req) \subseteq DOMAIN req.lines
         /\ ListedLines(req) \subseteq DOMAIN req.lines
         /\ \A k \in ReadyLines(req) : /\ req.lines[k] # BadLine
                                       /\ req.lines[k].item \in Items /\ req.lines[k].body \in Bodies
<1>1. req.run \in Runs /\ req.lines \in Seq(Lines \cup {BadLine}) /\ req.valid \in BOOLEAN
  BY RequestsAssumption
<1>2. /\ Len(req.lines) \in Nat /\ DOMAIN req.lines = 1..Len(req.lines)
      /\ \A k \in DOMAIN req.lines : req.lines[k] \in Lines \cup {BadLine}
  BY <1>1
<1>3. DOMAIN req.lines \subseteq LineNumbers BY DEF LineNumbers
<1>4. ReadyLines(req) \subseteq DOMAIN req.lines /\ \A k \in ReadyLines(req) : req.lines[k] # BadLine
  BY DEF ReadyLines
<1>5. ListedLines(req) \subseteq DOMAIN req.lines BY DEF ListedLines
<1> QED BY <1>1, <1>2, <1>3, <1>4, <1>5 DEF Lines

(* The line a runner picks next is one of its request that is ready.       *)
LEMMA CurrentLine ==
  ASSUME NEW w \in Runners, job[w] \in Requests, Remaining(w) # {}
  PROVE  /\ Current(w) \in ReadyLines(job[w])
         /\ Current(w) \notin DOMAIN results[w]
         /\ Current(w) \in LineNumbers
         /\ Item(w) \in Items /\ Body(w) \in Bodies
<1>1. Remaining(w) \in SUBSET Nat
  BY RequestTypes DEF Remaining
<1>2. Current(w) \in Remaining(w) BY <1>1, LeastNumber DEF Current
<1> QED BY <1>2, RequestTypes DEF Remaining, Item, Body

LEMMA EmptyResults == << >> \in SomeResults
<1>1. << >> \in [{} -> LineResults] OBVIOUS
<1>2. {} \in SUBSET LineNumbers OBVIOUS
<1> QED BY <1>1, <1>2 DEF SomeResults

LEMMA ResultTypes ==
  ASSUME NEW f \in SomeResults
  PROVE  /\ DOMAIN f \subseteq LineNumbers
         /\ \A k \in DOMAIN f : f[k] \in LineResults
         /\ f = [k \in DOMAIN f |-> f[k]]
BY DEF SomeResults

LEMMA OneMoreResult ==
  ASSUME NEW f \in SomeResults, NEW c \in LineNumbers, NEW line \in LineResults
  PROVE  [k \in DOMAIN f \cup {c} |-> IF k = c THEN line ELSE f[k]] \in SomeResults
<1> DEFINE K == DOMAIN f \cup {c}
           g == [k \in K |-> IF k = c THEN line ELSE f[k]]
<1>1. K \in SUBSET LineNumbers BY ResultTypes
<1>2. g \in [K -> LineResults] BY ResultTypes
<1> QED BY <1>1, <1>2 DEF SomeResults

LEMMA OutcomeTypes ==
  /\ \A resp \in RailResponses :
       /\ Attempted(resp.status, Outcome(resp), resp.retryable) \in LineResults
       /\ Attempted(resp.status, "idempotent_replay", resp.retryable) \in LineResults
  /\ \A retryable \in BOOLEAN :
       /\ Attempted("failed", "refused", retryable) \in LineResults
       /\ Unattempted("refused", retryable) \in LineResults
  /\ Unattempted("invalid", FALSE) \in LineResults
<1>1. \A resp \in RailResponses : /\ resp.status \in LineStatuses /\ resp.retryable \in BOOLEAN
                                  /\ Outcome(resp) \in Outcomes
  BY DEF RailResponses, ItemResponses, Outcome, LineStatuses, Outcomes
<1> QED BY <1>1 DEF Attempted, Unattempted, LineResults, LineStatuses, Outcomes

-----------------------------------------------------------------------------
(* Types, and the place of a runner in its request.                        *)

(* A runner at an item has a line left; results are of ready lines.        *)
Placed ==
  \A w \in Runners :
     /\ pc[w] = "item" => Remaining(w) # {}
     /\ pc[w] \in {"pick", "item"} => DOMAIN results[w] \subseteq ReadyLines(job[w])
     /\ pc[w] \notin {"pick", "item", "unlock"} => DOMAIN results[w] = {}

TypeInv == TypeOK /\ Placed

LEMMA JobTypes ==
  ASSUME TypeInv, NEW w \in Runners, pc[w] # "idle"
  PROVE  /\ job[w] \in Requests /\ job[w].run \in Runs
         /\ pc[w] = "item" => /\ Current(w) \in ReadyLines(job[w])
                              /\ Current(w) \notin DOMAIN results[w]
                              /\ Current(w) \in LineNumbers
                              /\ Item(w) \in Items /\ Body(w) \in Bodies
<1>1. job[w] \in Requests BY DEF TypeInv, TypeOK
<1> QED BY <1>1, RequestTypes, CurrentLine DEF TypeInv, Placed

LEMMA TypeInit == Init => TypeInv
BY EmptyResults, BoundsAssumption DEF Init, TypeInv, TypeOK, Placed, PCs, NoPlan

(* What Goto, Stop and Collect do to the runner that takes them, and to    *)
(* the others.                                                             *)
LEMMA StopTypes ==
  ASSUME TypeInv, NEW w \in Runners, Stop(w)
  PROVE  /\ pc' \in [Runners -> PCs] /\ job' \in [Runners -> Requests \cup {NoJob}]
         /\ \A v \in Runners : job'[v] = NoJob <=> pc'[v] = "idle"
         /\ plan' \in [Runners -> [ok : BOOLEAN, retryable : BOOLEAN]]
         /\ results' \in [Runners -> SomeResults]
         /\ Placed'
         /\ pc'[w] = "idle"
         /\ \A v \in Runners \ {w} : pc'[v] = pc[v] /\ job'[v] = job[v] /\ results'[v] = results[v]
<1> USE DEF TypeInv, TypeOK, Stop, Goto
<1>1. /\ pc' \in [Runners -> PCs] /\ job' \in [Runners -> Requests \cup {NoJob}]
      /\ plan' \in [Runners -> [ok : BOOLEAN, retryable : BOOLEAN]]
      /\ results' \in [Runners -> SomeResults]
  BY EmptyResults DEF PCs, NoPlan
<1>2. /\ pc'[w] = "idle" /\ job'[w] = NoJob /\ results'[w] = << >>
      /\ \A v \in Runners \ {w} : pc'[v] = pc[v] /\ job'[v] = job[v] /\ results'[v] = results[v]
  OBVIOUS
<1>3. \A v \in Runners : job'[v] = NoJob <=> pc'[v] = "idle" BY <1>2
<1>4. Placed' BY <1>2 DEF Placed, Remaining
<1> QED BY <1>1, <1>2, <1>3, <1>4

(* A step that only moves the runner, to a place that asks nothing new of  *)
(* its results.                                                            *)
LEMMA GotoTypes ==
  ASSUME TypeInv, NEW w \in Runners, pc[w] # "idle", NEW label \in PCs \ {"idle"},
         Goto(w, label), UNCHANGED <<job, results>>,
         \/ label = "unlock"
         \/ label \in {"lock", "stat", "steal", "read"} /\ pc[w] \notin {"pick", "item", "unlock"}
         \/ label \in {"pick"} /\ pc[w] = "read"
         \/ label = "item" /\ pc[w] = "pick" /\ Remaining(w) # {}
  PROVE  /\ pc' \in [Runners -> PCs] /\ job' \in [Runners -> Requests \cup {NoJob}]
         /\ \A v \in Runners : job'[v] = NoJob <=> pc'[v] = "idle"
         /\ results' \in [Runners -> SomeResults]
         /\ Placed'
         /\ pc'[w] = label
         /\ \A v \in Runners \ {w} : pc'[v] = pc[v]
<1> USE DEF TypeInv, TypeOK, Goto
<1>1. /\ pc' \in [Runners -> PCs] /\ pc'[w] = label
      /\ \A v \in Runners \ {w} : pc'[v] = pc[v]
  OBVIOUS
<1>2. \A v \in Runners : job'[v] = NoJob <=> pc'[v] = "idle" BY <1>1
<1>3. Placed' BY <1>1 DEF Placed, Remaining
<1> QED BY <1>1, <1>2, <1>3

(* A result is collected for the line the runner is at.                    *)
LEMMA CollectTypes ==
  ASSUME TypeInv, NEW w \in Runners, pc[w] \in {"pick", "item"}, Remaining(w) # {},
         NEW line \in LineResults, Collect(w, line), UNCHANGED job
  PROVE  /\ pc' \in [Runners -> PCs] /\ job' \in [Runners -> Requests \cup {NoJob}]
         /\ \A v \in Runners : job'[v] = NoJob <=> pc'[v] = "idle"
         /\ results' \in [Runners -> SomeResults]
         /\ Placed'
         /\ pc'[w] = "pick"
         /\ DOMAIN results'[w] = DOMAIN results[w] \cup {Current(w)}
         /\ results'[w][Current(w)] = line
         /\ \A k \in DOMAIN results[w] : results'[w][k] = results[w][k]
         /\ \A v \in Runners \ {w} : pc'[v] = pc[v] /\ results'[v] = results[v]
<1>1. job[w] \in Requests BY DEF TypeInv, TypeOK
<1>2. /\ Current(w) \in ReadyLines(job[w]) /\ Current(w) \notin DOMAIN results[w]
      /\ Current(w) \in LineNumbers
  BY <1>1, CurrentLine
<1> DEFINE new == [k \in DOMAIN results[w] \cup {Current(w)} |->
                     IF k = Current(w) THEN line ELSE results[w][k]]
<1>3. new \in SomeResults
  <2>1. results[w] \in SomeResults BY DEF TypeInv, TypeOK
  <2> QED BY <1>2, <2>1, OneMoreResult
<1>4. results' = [results EXCEPT ![w] = new] /\ pc' = [pc EXCEPT ![w] = "pick"]
  BY DEF Collect, Goto
<1>5. /\ DOMAIN new = DOMAIN results[w] \cup {Current(w)} /\ new[Current(w)] = line
      /\ \A k \in DOMAIN results[w] : new[k] = results[w][k]
  BY <1>2
<1> HIDE DEF new
<1>6. /\ results' \in [Runners -> SomeResults] /\ results'[w] = new
      /\ \A v \in Runners \ {w} : pc'[v] = pc[v] /\ results'[v] = results[v]
      /\ pc' \in [Runners -> PCs] /\ pc'[w] = "pick"
  BY <1>3, <1>4 DEF TypeInv, TypeOK, PCs, Section
<1>7. \A v \in Runners : job'[v] = NoJob <=> pc'[v] = "idle"
  BY <1>6 DEF TypeInv, TypeOK
<1>8. Placed'
  <2> SUFFICES ASSUME NEW v \in Runners
               PROVE  /\ pc'[v] = "item" => Remaining(v)' # {}
                      /\ pc'[v] \in {"pick", "item"} => DOMAIN results'[v] \subseteq ReadyLines(job'[v])
                      /\ pc'[v] \notin {"pick", "item", "unlock"} => DOMAIN results'[v] = {}
    BY DEF Placed
  <2>1. CASE v = w BY <2>1, <1>2, <1>5, <1>6 DEF TypeInv, Placed
  <2>2. CASE v # w BY <2>2, <1>6 DEF TypeInv, Placed, Remaining
  <2> QED BY <2>1, <2>2
<1> QED BY <1>5, <1>6, <1>7, <1>8 DEF TypeInv, TypeOK

LEMMA TypeEnter ==
  ASSUME TypeInv, NEW w \in Runners,
         \/ Plan(w) \/ CreateLock(w) \/ LockFails(w) \/ LockExists(w) \/ InProgress(w)
         \/ StatStale(w) \/ RemoveStale(w)
  PROVE  TypeInv'
<1> USE DEF TypeInv, runs, items, bounds, local
<1> DEFINE run == job[w].run
<1>1. CASE Plan(w)
  <2>1. plan' \in [Runners -> [ok : BOOLEAN, retryable : BOOLEAN]]
    BY <1>1 DEF Plan, TypeOK
  <2> QED BY <1>1, <2>1, GotoTypes DEF Plan, TypeOK, PCs
<1>2. CASE CreateLock(w)
  <2>1. lock' \in [Runs -> Runners \cup {NoLock}] /\ stale' \in [Runs -> BOOLEAN]
    BY <1>2 DEF CreateLock, TypeOK
  <2> QED BY <1>2, <2>1, GotoTypes DEF CreateLock, TypeOK, PCs, Section
<1>3. CASE LockFails(w) BY <1>3, StopTypes DEF LockFails, TypeOK
<1>4. CASE LockExists(w) BY <1>4, GotoTypes DEF LockExists, TypeOK, PCs
<1>5. CASE InProgress(w) BY <1>5, StopTypes DEF InProgress, TypeOK
<1>6. CASE StatStale(w) BY <1>6, GotoTypes DEF StatStale, TypeOK, PCs
<1>7. CASE RemoveStale(w)
  <2>1. lock' \in [Runs -> Runners \cup {NoLock}] /\ stale' \in [Runs -> BOOLEAN]
    BY <1>7 DEF RemoveStale, TypeOK
  <2>2. contested' \subseteq Runs BY <1>7, JobTypes DEF RemoveStale, TypeOK
  <2> QED BY <1>7, <2>1, <2>2, GotoTypes DEF RemoveStale, TypeOK, PCs
<1> QED BY <1>1, <1>2, <1>3, <1>4, <1>5, <1>6, <1>7

(* The records that are written.                                           *)
LEMMA RefusalType ==
  ASSUME NEW req \in Requests, NEW retryable \in BOOLEAN
  PROVE  [fingerprint |-> Fingerprint(req), status |-> "failed",
          lines |-> [k \in ListedLines(req) |-> IF k \in ReadyLines(req)
                                                THEN Unattempted("refused", retryable)
                                                ELSE Unattempted("invalid", FALSE)],
          request |-> req] \in RunRecords
<1> DEFINE f == [k \in ListedLines(req) |-> IF k \in ReadyLines(req)
                                            THEN Unattempted("refused", retryable)
                                            ELSE Unattempted("invalid", FALSE)]
<1>1. f \in [ListedLines(req) -> LineResults] BY OutcomeTypes
<1>2. ListedLines(req) \in SUBSET LineNumbers BY RequestTypes
<1>3. f \in SomeResults BY <1>1, <1>2 DEF SomeResults
<1> HIDE DEF f
<1> QED BY <1>3 DEF RunRecords, RunStatuses, f

LEMMA ResultsType ==
  ASSUME NEW req \in Requests, NEW f \in SomeResults, DOMAIN f \subseteq ReadyLines(req)
  PROVE  [fingerprint |-> Fingerprint(req),
          status |-> deriveSettlementRunStatus(Len(req.lines), f),
          lines |-> f, request |-> req] \in RunRecords
<1>1. DOMAIN f \in SUBSET (1..Len(req.lines)) /\ Len(req.lines) \in Nat BY RequestTypes
<1>2. IsFiniteSet(DOMAIN f)
  <2>1. IsFiniteSet(1..Len(req.lines)) BY <1>1, FS_Interval
  <2> QED BY <1>1, <2>1, FS_Subset
<1>3. deriveSettlementRunStatus(Len(req.lines), f) \in RunStatuses BY <1>1, <1>2, StatusType
<1> QED BY <1>3 DEF RunRecords

LEMMA TypeRead ==
  ASSUME TypeInv, NEW w \in Runners,
         Conflict(w) \/ ReadInvalid(w) \/ Replay(w) \/ StoreRefusal(w) \/ Proceed(w)
  PROVE  TypeInv'
<1> USE DEF TypeInv, runs, items, bounds, local
<1>1. CASE Conflict(w) BY <1>1, GotoTypes DEF Conflict, TypeOK, PCs, Section
<1>2. CASE ReadInvalid(w) BY <1>2, GotoTypes DEF ReadInvalid, TypeOK, PCs, Section
<1>3. CASE Replay(w) BY <1>3, GotoTypes DEF Replay, TypeOK, PCs, Section
<1>4. CASE StoreRefusal(w)
  <2>1. job[w] \in Requests /\ job[w].run \in Runs /\ plan[w].retryable \in BOOLEAN
    BY <1>4, JobTypes DEF StoreRefusal, MayExecute, TypeOK
  <2>2. runRecord' \in [Runs -> RunRecords \cup {NoRecord, Unreadable}]
    BY <1>4, <2>1, RefusalType DEF StoreRefusal, TypeOK
  <2> QED BY <1>4, <2>2, GotoTypes DEF StoreRefusal, MayExecute, TypeOK, PCs, Section
<1>5. CASE Proceed(w) BY <1>5, GotoTypes DEF Proceed, MayExecute, TypeOK, PCs, Section
<1> QED BY <1>1, <1>2, <1>3, <1>4, <1>5

LEMMA TypeItem ==
  ASSUME TypeInv, NEW w \in Runners,
         \/ ItemInProgress(w) \/ StartItem(w) \/ ItemConflict(w) \/ ItemInvalid(w)
         \/ ItemReplay(w) \/ ItemExecutes(w) \/ ItemError(w)
  PROVE  TypeInv'
<1> USE DEF TypeInv, runs, items, bounds, local
<1>0. ASSUME NEW i, NEW l \in Runners \cup {NoLock}, itemLock' = [itemLock EXCEPT ![i] = l]
      PROVE  itemLock' \in [Items -> Runners \cup {NoLock}]
  BY <1>0 DEF TypeOK
<1>1. CASE ItemInProgress(w)
  BY <1>1, CollectTypes, OutcomeTypes DEF ItemInProgress, TypeOK
<1>2. CASE StartItem(w)
  BY <1>2, <1>0, GotoTypes DEF StartItem, TypeOK, PCs, Section
<1>3. CASE ItemConflict(w)
  BY <1>3, <1>0, CollectTypes, OutcomeTypes DEF ItemConflict, TypeOK, Placed
<1>4. CASE ItemInvalid(w)
  BY <1>4, <1>0, CollectTypes, OutcomeTypes DEF ItemInvalid, TypeOK, Placed
<1>5. CASE ItemReplay(w)
  <2>1. itemRecord[Item(w)] \in ItemRecords BY <1>5, JobTypes DEF ItemReplay, TypeOK
  <2>2. itemRecord[Item(w)].resp \in RailResponses BY <2>1 DEF ItemRecords
  <2> QED BY <1>5, <2>2, <1>0, CollectTypes, OutcomeTypes DEF ItemReplay, TypeOK, Placed
<1>6. CASE ItemExecutes(w)
  <2>1. PICK resp \in RailResponses :
          /\ itemRecord' = [itemRecord EXCEPT ![Item(w)] = [body |-> Body(w), resp |-> resp]]
          /\ Collect(w, Attempted(resp.status, Outcome(resp), resp.retryable))
    BY <1>6 DEF ItemExecutes
  <2>2. [body |-> Body(w), resp |-> resp] \in ItemRecords
    BY <1>6, JobTypes DEF ItemExecutes, ItemRecords
  <2>3. itemRecord' \in [Items -> ItemRecords \cup {NoRecord, Unreadable}]
    BY <2>1, <2>2 DEF TypeOK
  <2> QED BY <1>6, <2>1, <2>3, <1>0, CollectTypes, OutcomeTypes DEF ItemExecutes, TypeOK, Placed
<1>7. CASE ItemError(w)
  BY <1>7, <1>0, GotoTypes DEF ItemError, TypeOK, PCs, Section
<1> QED BY <1>1, <1>2, <1>3, <1>4, <1>5, <1>6, <1>7

LEMMA TypeLeave ==
  ASSUME TypeInv, NEW w \in Runners, WriteRun(w) \/ WriteFails(w) \/ Unlock(w)
  PROVE  TypeInv'
<1> USE DEF TypeInv, runs, items, bounds, local
<1>1. CASE WriteRun(w)
  <2>1. /\ job[w] \in Requests /\ job[w].run \in Runs /\ results[w] \in SomeResults
        /\ DOMAIN results[w] \subseteq ReadyLines(job[w])
    BY <1>1, JobTypes DEF WriteRun, TypeOK, Placed
  <2>2. runRecord' \in [Runs -> RunRecords \cup {NoRecord, Unreadable}]
    BY <1>1, <2>1, ResultsType DEF WriteRun, TypeOK
  <2> QED BY <1>1, <2>2, GotoTypes DEF WriteRun, TypeOK, PCs, Section
<1>2. CASE WriteFails(w)
  BY <1>2, GotoTypes DEF WriteFails, MayExecute, TypeOK, PCs, Section
<1>3. CASE Unlock(w)
  <2>1. lock' \in [Runs -> Runners \cup {NoLock}] /\ stale' \in [Runs -> BOOLEAN]
    BY <1>3 DEF Unlock, TypeOK
  <2> QED BY <1>3, <2>1, StopTypes DEF Unlock, TypeOK
<1> QED BY <1>1, <1>2, <1>3

LEMMA TypeSubmit ==
  ASSUME TypeInv, NEW w \in Runners, NEW req \in Requests, Submit(w, req)
  PROVE  TypeInv'
<1> USE DEF TypeInv, TypeOK, runs, items, Submit, Goto
<1>1. pc' \in [Runners -> PCs] /\ job' \in [Runners -> Requests \cup {NoJob}]
  BY DEF PCs
<1>2. /\ pc'[w] = "plan" /\ job'[w] = req
      /\ \A v \in Runners \ {w} : pc'[v] = pc[v] /\ job'[v] = job[v]
  OBVIOUS
<1>3. \A v \in Runners : job'[v] = NoJob <=> pc'[v] = "idle" BY <1>2, NilAssumption
<1>4. Placed' BY <1>2 DEF Placed, Remaining
<1>5. submits' \in 0..MaxSubmits BY BoundsAssumption
<1> QED BY <1>1, <1>3, <1>4, <1>5

LEMMA TypeEnvironment ==
  ASSUME TypeInv,
         \/ \E w \in Runners : Crash(w)
         \/ \E torn \in SUBSET Runs, tornItems \in SUBSET Items : PowerLoss(torn, tornItems)
         \/ \E run \in Runs : AgeLock(run)
         \/ \E i \in Items : ReleaseItem(i)
  PROVE  TypeInv'
<1> USE DEF TypeInv, runs, items, bounds, local
<1>1. ASSUME NEW w \in Runners, Crash(w) PROVE TypeInv'
  <2>1. crashes' \in 0..MaxCrashes BY <1>1, BoundsAssumption DEF Crash, TypeOK
  <2> QED BY <1>1, <2>1, StopTypes DEF Crash, TypeOK
<1>2. ASSUME NEW torn, NEW tornItems, PowerLoss(torn, tornItems) PROVE TypeInv'
  <2>1. crashes' \in 0..MaxCrashes BY <1>2, BoundsAssumption DEF PowerLoss, TypeOK
  <2>2. /\ runRecord' \in [Runs -> RunRecords \cup {NoRecord, Unreadable}]
        /\ itemRecord' \in [Items -> ItemRecords \cup {NoRecord, Unreadable}]
    BY <1>2 DEF PowerLoss, TypeOK
  <2>3. /\ pc' = [w \in Runners |-> "idle"] /\ job' = [w \in Runners |-> NoJob]
        /\ plan' = [w \in Runners |-> NoPlan] /\ results' = [w \in Runners |-> << >>]
    BY <1>2 DEF PowerLoss
  <2>4. Placed' BY <2>3 DEF Placed
  <2> QED BY <1>2, <2>1, <2>2, <2>3, <2>4, EmptyResults DEF PowerLoss, TypeOK, PCs, NoPlan
<1>3. ASSUME NEW run \in Runs, AgeLock(run) PROVE TypeInv'
  BY <1>3 DEF AgeLock, TypeOK, Placed, Remaining
<1>4. ASSUME NEW i \in Items, ReleaseItem(i) PROVE TypeInv'
  BY <1>4 DEF ReleaseItem, TypeOK, Placed, Remaining
<1> QED BY <1>1, <1>2, <1>3, <1>4

LEMMA TypeNext == TypeInv /\ [Next]_vars => TypeInv'
<1> SUFFICES ASSUME TypeInv, [Next]_vars PROVE TypeInv'
  OBVIOUS
<1>1. ASSUME UNCHANGED vars PROVE TypeInv'
  BY <1>1 DEF TypeInv, TypeOK, Placed, Remaining, vars
<1>2. ASSUME NEW w \in Runners, Step(w) PROVE TypeInv'
  BY <1>2, TypeEnter, TypeRead, TypeItem, TypeLeave DEF Step
<1> QED BY <1>1, <1>2, TypeSubmit, TypeEnvironment DEF Next

(* In every behaviour of the runs every variable has its type.             *)
THEOREM RunTypeSafety == Spec => []TypeOK
<1>1. TypeInv => TypeOK BY DEF TypeInv
<1> QED BY <1>1, TypeInit, TypeNext, PTL DEF Spec

-----------------------------------------------------------------------------
(* The lock.                                                               *)

FinalRun(run) == Recorded(run) /\ settlementRunResponseIsFinal(runRecord[run])

LockHeld ==
  \A run \in Runs \ contested : \A w \in Runners : InSection(w, run) => lock[run] = w

(* Whoever is at its items found the run open, and nobody else has closed  *)
(* it since.                                                               *)
WorksOnOpenRun ==
  \A w \in Runners :
     pc[w] \in {"pick", "item"} /\ job[w].run \notin contested => ~FinalRun(job[w].run)

LockInv == LockHeld /\ WorksOnOpenRun

LEMMA LockInit == Init => LockInv
BY DEF Init, LockInv, LockHeld, WorksOnOpenRun, InSection, Section

(* A step that does not touch the lock: it enters neither the section nor  *)
(* the items of a final run, and only writes the record of its own run, on *)
(* its way out.                                                            *)
LEMMA LockUntouched ==
  ASSUME TypeInv, TypeInv', LockInv, NEW w \in Runners,
         lock' = lock, contested' = contested,
         \A v \in Runners \ {w} : pc'[v] = pc[v] /\ job'[v] = job[v],
         pc'[w] \in Section => pc[w] \in Section /\ job'[w] = job[w],
         pc'[w] \in {"pick", "item"} => pc[w] \in {"pick", "item"} \/ ~FinalRun(job[w].run),
         \A run \in Runs : \/ runRecord'[run] = runRecord[run]
                           \/ InSection(w, run) /\ pc'[w] \notin {"pick", "item"}
  PROVE  LockInv'
<1>1. LockHeld'
  BY DEF LockInv, LockHeld, InSection
<1>2. WorksOnOpenRun'
  <2> SUFFICES ASSUME NEW v \in Runners, pc'[v] \in {"pick", "item"}, job'[v].run \notin contested
               PROVE  ~FinalRun(job[v].run)'
    BY DEF WorksOnOpenRun
  <2>1. job'[v] = job[v] /\ pc[v] \in Section
    BY DEF Section
  <2>2. job[v].run \in Runs
    BY <2>1, JobTypes DEF Section
  <2>3. ~FinalRun(job[v].run)
    BY <2>1 DEF LockInv, WorksOnOpenRun
  <2>4. runRecord'[job[v].run] = runRecord[job[v].run]
    <3> SUFFICES ASSUME InSection(w, job[v].run), pc'[w] \notin {"pick", "item"}
                 PROVE  FALSE
      BY <2>2
    <3>1. InSection(v, job[v].run) BY <2>1 DEF InSection
    <3> QED BY <3>1, <2>2 DEF LockInv, LockHeld
  <2> QED BY <2>1, <2>3, <2>4 DEF FinalRun, Recorded
<1> QED BY <1>1, <1>2 DEF LockInv

LEMMA LockEnter ==
  ASSUME TypeInv, TypeInv', LockInv, NEW w \in Runners,
         \/ Plan(w) \/ CreateLock(w) \/ LockFails(w) \/ LockExists(w) \/ InProgress(w)
         \/ StatStale(w) \/ RemoveStale(w)
  PROVE  LockInv'
<1> USE DEF runs, local, Goto, Section
<1>1. CASE Plan(w) BY <1>1, LockUntouched DEF Plan, TypeInv, TypeOK
<1>2. CASE CreateLock(w)
  <2>1. /\ pc'[w] = "read" /\ lock[job[w].run] = NoLock /\ lock'[job[w].run] = w
        /\ \A v \in Runners \ {w} : pc'[v] = pc[v]
        /\ \A run \in Runs \ {job[w].run} : lock'[run] = lock[run]
        /\ UNCHANGED <<job, runRecord, contested>> /\ job[w].run \in Runs
    BY <1>2, JobTypes DEF CreateLock, TypeInv, TypeOK
  <2>2. job[w].run \notin contested => \A v \in Runners : ~InSection(v, job[w].run)
    BY <2>1, NilAssumption DEF LockInv, LockHeld
  <2>3. LockHeld'
    BY <2>1, <2>2 DEF LockInv, LockHeld, InSection
  <2>4. WorksOnOpenRun'
    BY <2>1 DEF LockInv, WorksOnOpenRun, FinalRun, Recorded
  <2> QED BY <2>3, <2>4 DEF LockInv
<1>3. CASE LockFails(w) BY <1>3, StopTypes, LockUntouched DEF LockFails
<1>4. CASE LockExists(w) BY <1>4, LockUntouched DEF LockExists, TypeInv, TypeOK
<1>5. CASE InProgress(w) BY <1>5, StopTypes, LockUntouched DEF InProgress
<1>6. CASE StatStale(w) BY <1>6, LockUntouched DEF StatStale, TypeInv, TypeOK
<1>7. CASE RemoveStale(w)
  <2>1. /\ pc'[w] = "lock"
        /\ \A v \in Runners \ {w} : pc'[v] = pc[v]
        /\ \A run \in Runs \ {job[w].run} : lock'[run] = lock[run]
        /\ UNCHANGED <<job, runRecord>> /\ job[w].run \in Runs
    BY <1>7, JobTypes DEF RemoveStale, TypeInv, TypeOK
  <2>2. /\ contested \subseteq contested'
        /\ job[w].run \notin contested' => \A v \in Runners : ~InSection(v, job[w].run)
    BY <1>7 DEF RemoveStale
  <2>3. LockHeld'
    BY <2>1, <2>2 DEF LockInv, LockHeld, InSection
  <2>4. WorksOnOpenRun'
    BY <2>1, <2>2 DEF LockInv, WorksOnOpenRun, FinalRun, Recorded
  <2> QED BY <2>3, <2>4 DEF LockInv
<1> QED BY <1>1, <1>2, <1>3, <1>4, <1>5, <1>6, <1>7

LEMMA LockRead ==
  ASSUME TypeInv, TypeInv', LockInv, NEW w \in Runners,
         Conflict(w) \/ ReadInvalid(w) \/ Replay(w) \/ StoreRefusal(w) \/ Proceed(w)
  PROVE  LockInv'
<1> USE DEF runs, local, Goto, Section
<1>1. CASE Conflict(w) BY <1>1, LockUntouched DEF Conflict, TypeInv, TypeOK
<1>2. CASE ReadInvalid(w) BY <1>2, LockUntouched DEF ReadInvalid, TypeInv, TypeOK
<1>3. CASE Replay(w) BY <1>3, LockUntouched DEF Replay, TypeInv, TypeOK
<1>4. CASE StoreRefusal(w)
  <2>1. \A run \in Runs \ {job[w].run} : runRecord'[run] = runRecord[run]
    BY <1>4 DEF StoreRefusal, TypeInv, TypeOK
  <2>2. /\ pc[w] = "read" /\ pc'[w] = "unlock" /\ \A v \in Runners \ {w} : pc'[v] = pc[v]
        /\ UNCHANGED <<job, lock, contested>>
    BY <1>4 DEF StoreRefusal, MayExecute, TypeInv, TypeOK
  <2> QED BY <2>1, <2>2, LockUntouched DEF InSection
<1>5. CASE Proceed(w)
  <2>1. ~FinalRun(job[w].run)
    BY <1>5 DEF Proceed, MayExecute, FinalRun, Recorded
  <2>2. /\ pc[w] = "read" /\ pc'[w] = "pick" /\ \A v \in Runners \ {w} : pc'[v] = pc[v]
        /\ UNCHANGED <<job, lock, contested, runRecord>>
    BY <1>5 DEF Proceed, MayExecute, TypeInv, TypeOK
  <2> QED BY <2>1, <2>2, LockUntouched
<1> QED BY <1>1, <1>2, <1>3, <1>4, <1>5

LEMMA LockItem ==
  ASSUME TypeInv, TypeInv', LockInv, NEW w \in Runners,
         \/ ItemInProgress(w) \/ StartItem(w) \/ ItemConflict(w) \/ ItemInvalid(w)
         \/ ItemReplay(w) \/ ItemExecutes(w) \/ ItemError(w)
  PROVE  LockInv'
<1>1. /\ pc[w] \in {"pick", "item"} /\ pc'[w] \in Section
      /\ \A v \in Runners \ {w} : pc'[v] = pc[v]
      /\ UNCHANGED <<job, lock, runRecord, contested>>
  <2> USE DEF TypeInv, TypeOK, Section, Goto, Collect, runs, items, local
  <2>1. CASE ItemInProgress(w) BY <2>1 DEF ItemInProgress
  <2>2. CASE StartItem(w) BY <2>2 DEF StartItem
  <2>3. CASE ItemConflict(w) BY <2>3 DEF ItemConflict
  <2>4. CASE ItemInvalid(w) BY <2>4 DEF ItemInvalid
  <2>5. CASE ItemReplay(w) BY <2>5 DEF ItemReplay
  <2>6. CASE ItemExecutes(w) BY <2>6 DEF ItemExecutes
  <2>7. CASE ItemError(w) BY <2>7 DEF ItemError
  <2> QED BY <2>1, <2>2, <2>3, <2>4, <2>5, <2>6, <2>7
<1> QED BY <1>1, LockUntouched DEF Section

LEMMA LockLeave ==
  ASSUME TypeInv, TypeInv', LockInv, NEW w \in Runners, WriteRun(w) \/ WriteFails(w) \/ Unlock(w)
  PROVE  LockInv'
<1> USE DEF runs, local, Goto, Section
<1>1. CASE WriteRun(w)
  <2>1. \A run \in Runs \ {job[w].run} : runRecord'[run] = runRecord[run]
    BY <1>1 DEF WriteRun, TypeInv, TypeOK
  <2>2. /\ pc[w] = "pick" /\ pc'[w] = "unlock" /\ \A v \in Runners \ {w} : pc'[v] = pc[v]
        /\ UNCHANGED <<job, lock, contested>>
    BY <1>1 DEF WriteRun, TypeInv, TypeOK
  <2> QED BY <2>1, <2>2, LockUntouched DEF InSection
<1>2. CASE WriteFails(w)
  <2>1. /\ pc[w] \in Section /\ pc'[w] = "unlock" /\ \A v \in Runners \ {w} : pc'[v] = pc[v]
        /\ UNCHANGED <<job, lock, contested, runRecord>>
    BY <1>2 DEF WriteFails, MayExecute, TypeInv, TypeOK
  <2> QED BY <2>1, LockUntouched
<1>3. CASE Unlock(w)
  <2>1. /\ pc[w] = "unlock" /\ pc'[w] = "idle" /\ job[w].run \in Runs
        /\ \A v \in Runners \ {w} : pc'[v] = pc[v] /\ job'[v] = job[v]
        /\ \A run \in Runs \ {job[w].run} : lock'[run] = lock[run]
        /\ UNCHANGED <<runRecord, contested>>
    BY <1>3, StopTypes, JobTypes DEF Unlock, TypeInv, TypeOK
  <2>2. \A v \in Runners \ {w} : job[w].run \notin contested => ~InSection(v, job[w].run)
    BY <2>1 DEF LockInv, LockHeld, InSection
  <2>3. LockHeld' BY <2>1, <2>2 DEF LockInv, LockHeld, InSection
  <2>4. WorksOnOpenRun' BY <2>1 DEF LockInv, WorksOnOpenRun, FinalRun, Recorded
  <2> QED BY <2>3, <2>4 DEF LockInv
<1> QED BY <1>1, <1>2, <1>3

LEMMA LockNext == TypeInv /\ TypeInv' /\ LockInv /\ [Next]_vars => LockInv'
<1> SUFFICES ASSUME TypeInv, TypeInv', LockInv, [Next]_vars PROVE LockInv'
  OBVIOUS
<1> USE DEF LockInv, LockHeld, WorksOnOpenRun, InSection, FinalRun, Recorded, Section
<1>1. ASSUME UNCHANGED vars PROVE LockInv' BY <1>1 DEF vars
<1>2. ASSUME NEW w \in Runners, Step(w) PROVE LockInv'
  BY <1>2, LockEnter, LockRead, LockItem, LockLeave DEF Step
<1>3. ASSUME NEW w \in Runners, NEW req \in Requests, Submit(w, req) PROVE LockInv'
  BY <1>3, LockUntouched DEF Submit, Goto, runs, TypeInv, TypeOK
<1>4. ASSUME NEW w \in Runners, Crash(w) PROVE LockInv'
  BY <1>4, StopTypes, LockUntouched DEF Crash, runs
<1>5. ASSUME NEW torn, NEW tornItems, PowerLoss(torn, tornItems) PROVE LockInv'
  BY <1>5 DEF PowerLoss
<1>6. ASSUME NEW run \in Runs, AgeLock(run) PROVE LockInv'
  BY <1>6 DEF AgeLock, local
<1>7. ASSUME NEW i \in Items, ReleaseItem(i) PROVE LockInv'
  BY <1>7 DEF ReleaseItem, local, runs
<1> QED BY <1>1, <1>2, <1>3, <1>4, <1>5, <1>6, <1>7 DEF Next

(* In every behaviour two attempts are inside the lock of one run only     *)
(* after the lock file of a live attempt was removed.                      *)
THEOREM RunLockSafety == Spec => []RunLockExcludes
<1>1. LockInv => RunLockExcludes BY DEF LockInv, LockHeld, RunLockExcludes
<1> QED BY <1>1, TypeInit, TypeNext, LockInit, LockNext, PTL DEF Spec

(* Who writes run records.                                                 *)
LEMMA RecordWriters ==
  ASSUME TypeInv, Next, NEW run \in Runs, runRecord'[run] # runRecord[run]
  PROVE  \/ runRecord'[run] = Unreadable
         \/ \E w \in Runners : (StoreRefusal(w) \/ WriteRun(w)) /\ job[w].run = run
<1> USE DEF runs
<1>1. ASSUME NEW w \in Runners, Step(w)
      PROVE  (StoreRefusal(w) \/ WriteRun(w)) /\ job[w].run = run
  <2>1. StoreRefusal(w) \/ WriteRun(w) \/ runRecord' = runRecord
    BY <1>1 DEF Step, Plan, CreateLock, LockFails, LockExists, InProgress, StatStale, RemoveStale,
         Conflict, ReadInvalid, Replay, Proceed, ItemInProgress, StartItem, ItemConflict, ItemInvalid,
         ItemReplay, ItemExecutes, ItemError, WriteFails, Unlock
  <2>2. StoreRefusal(w) \/ WriteRun(w) => job[w].run = run
    BY DEF StoreRefusal, WriteRun, TypeInv, TypeOK
  <2> QED BY <2>1, <2>2
<1>2. ASSUME NEW torn, NEW tornItems, PowerLoss(torn, tornItems)
      PROVE  runRecord'[run] = Unreadable
  BY <1>2 DEF PowerLoss
<1> QED BY <1>1, <1>2 DEF Next, Submit, Crash, AgeLock, ReleaseItem

(* A final run record is only ever replaced by a torn file, outside        *)
(* contested runs: no interleaving of attempts, crashes and takeovers      *)
(* overwrites what a client was told was the end of a run.                 *)
THEOREM FinalRunSafety == Spec => FinalRunIsKept
<1>1. TypeInv /\ LockInv /\ [Next]_vars =>
        [\A run \in Runs \ contested :
           Recorded(run) /\ settlementRunResponseIsFinal(runRecord[run])
             => runRecord'[run] \in {runRecord[run], Unreadable}]_vars
  <2> SUFFICES ASSUME TypeInv, LockInv, Next, NEW run \in Runs \ contested, FinalRun(run)
               PROVE  runRecord'[run] \in {runRecord[run], Unreadable}
    BY DEF FinalRun
  <2>1. ASSUME NEW w \in Runners, StoreRefusal(w), job[w].run = run PROVE FALSE
    BY <2>1 DEF StoreRefusal, MayExecute, FinalRun, Recorded
  <2>2. ASSUME NEW w \in Runners, WriteRun(w), job[w].run = run PROVE FALSE
    BY <2>2 DEF WriteRun, LockInv, WorksOnOpenRun
  <2> QED BY <2>1, <2>2, RecordWriters
<1> QED BY <1>1, TypeInit, TypeNext, LockInit, LockNext, PTL DEF Spec, FinalRunIsKept

-----------------------------------------------------------------------------
(* The items.                                                              *)

(* Item record r bears line result l of payload body out: an executed line *)
(* has the status of the record, and a line that is not to be retried is   *)
(* one the rail will not execute again.                                    *)
BearsOut(r, l, body) ==
  /\ Executed(l) => /\ Answers(r, body)
                    /\ r # Unreadable => r.resp.status = l.status /\ r.resp.tx
  /\ l.attempted /\ ~l.retryable =>
       /\ r # NoRecord
       /\ r = Unreadable \/ r.body # body \/ ~r.resp.retryable

(* What result l says of line k of a request is true of these records.     *)
LineTrue(records, l, req, k) ==
  l.attempted \/ Executed(l) =>
    k \in ReadyLines(req) /\ BearsOut(records[req.lines[k].item], l, req.lines[k].body)

ResultsTrue ==
  \A w \in Runners : pc[w] \in {"pick", "item"} =>
     \A k \in DOMAIN results[w] : LineTrue(itemRecord, results[w][k], job[w], k)

(* A run is ok only with every line of its request executed.               *)
OkIsComplete(r) ==
  RunOK(r) => \A k \in DOMAIN r.request.lines : k \in DOMAIN r.lines /\ Executed(r.lines[k])

RecordsTrue ==
  \A run \in Runs : Recorded(run) =>
     /\ \A k \in DOMAIN runRecord[run].lines :
          LineTrue(itemRecord, runRecord[run].lines[k], runRecord[run].request, k)
     /\ OkIsComplete(runRecord[run])

ItemInv == ResultsTrue /\ RecordsTrue

LEMMA ItemInit == Init => ItemInv
BY DEF Init, ItemInv, ResultsTrue, RecordsTrue, Recorded

(* What a step may do to an item record: nothing, tear it, write the       *)
(* first, or replace one that asked for a retry by another of its payload. *)
Follows(r, q) ==
  \/ q = r
  \/ r = NoRecord
  \/ q = Unreadable
  \/ r \in ItemRecords /\ q \in ItemRecords /\ r.resp.retryable /\ q.body = r.body

LEMMA ItemRecordSteps ==
  ASSUME TypeInv, TypeInv', [Next]_vars, NEW i \in Items
  PROVE  Follows(itemRecord[i], itemRecord'[i])
<1> USE DEF items
<1>1. ASSUME NEW w \in Runners, Step(w) PROVE Follows(itemRecord[i], itemRecord'[i])
  <2>1. ItemExecutes(w) \/ itemRecord' = itemRecord
    BY <1>1 DEF Step, Plan, CreateLock, LockFails, LockExists, InProgress, StatStale, RemoveStale,
         Conflict, ReadInvalid, Replay, StoreRefusal, Proceed, ItemInProgress, StartItem,
         ItemConflict, ItemInvalid, ItemReplay, ItemError, WriteRun, WriteFails, Unlock
  <2>2. CASE ItemExecutes(w)
    <3>1. PICK resp \in RailResponses :
            itemRecord' = [itemRecord EXCEPT ![Item(w)] = [body |-> Body(w), resp |-> resp]]
      BY <2>2 DEF ItemExecutes
    <3>2. Item(w) \in Items /\ Body(w) \in Bodies BY <2>2, JobTypes DEF ItemExecutes
    <3>3. CASE i # Item(w) BY <3>1, <3>3 DEF Follows, TypeInv, TypeOK
    <3>4. CASE i = Item(w)
      <4>1. itemRecord'[i] = [body |-> Body(w), resp |-> resp] /\ itemRecord'[i] \in ItemRecords
        BY <3>1, <3>2, <3>4 DEF TypeInv, TypeOK, ItemRecords
      <4>2. \/ itemRecord[i] = NoRecord
            \/ itemRecord[i] \in ItemRecords /\ itemRecord[i].body = Body(w) /\ itemRecord[i].resp.retryable
        BY <2>2, <3>4 DEF ItemExecutes, TypeInv, TypeOK
      <4> QED BY <4>1, <4>2 DEF Follows
    <3> QED BY <3>3, <3>4
  <2> QED BY <2>1, <2>2 DEF Follows
<1>2. ASSUME NEW torn, NEW tornItems, PowerLoss(torn, tornItems)
      PROVE  Follows(itemRecord[i], itemRecord'[i])
  BY <1>2 DEF PowerLoss, Follows
<1>3. CASE UNCHANGED vars BY <1>3 DEF vars, Follows
<1> QED BY <1>1, <1>2, <1>3 DEF Next, Submit, Crash, AgeLock, ReleaseItem, Follows

(* What is borne out stays so.                                             *)
LEMMA StaysBorneOut ==
  ASSUME NEW r \in ItemRecords \cup {NoRecord, Unreadable},
         NEW q \in ItemRecords \cup {NoRecord, Unreadable},
         NEW l \in LineResults, NEW body, Follows(r, q), BearsOut(r, l, body)
  PROVE  BearsOut(q, l, body)
<1>1. CASE q = r BY <1>1
<1>2. CASE r = NoRecord
  BY <1>2, RecordsAssumption DEF BearsOut, Answers
<1>3. CASE q = Unreadable
  BY <1>3, RecordsAssumption DEF BearsOut, Answers
<1>4. CASE r \in ItemRecords /\ q \in ItemRecords /\ r.resp.retryable /\ q.body = r.body
  <2>1. r.resp \in RailResponses /\ r \notin {NoRecord, Unreadable} /\ q # NoRecord
    BY <1>4, RecordsAssumption DEF ItemRecords
  <2>2. ~r.resp.tx BY <1>4, <2>1 DEF RailResponses, ItemResponses
  <2>3. ~Executed(l) BY <2>1, <2>2 DEF BearsOut
  <2> QED BY <1>4, <2>1, <2>3 DEF BearsOut
<1> QED BY <1>1, <1>2, <1>3, <1>4 DEF Follows

LEMMA StaysTrue ==
  ASSUME TypeInv, TypeInv', [Next]_vars, NEW req \in Requests, NEW k, NEW l \in LineResults,
         LineTrue(itemRecord, l, req, k)
  PROVE  LineTrue(itemRecord', l, req, k)
<1> SUFFICES ASSUME l.attempted \/ Executed(l)
             PROVE  /\ k \in ReadyLines(req)
                    /\ BearsOut(itemRecord'[req.lines[k].item], l, req.lines[k].body)
  BY DEF LineTrue
<1>1. k \in ReadyLines(req) /\ BearsOut(itemRecord[req.lines[k].item], l, req.lines[k].body)
  BY DEF LineTrue
<1>2. req.lines[k].item \in Items BY <1>1, RequestTypes
<1>3. /\ itemRecord[req.lines[k].item] \in ItemRecords \cup {NoRecord, Unreadable}
      /\ itemRecord'[req.lines[k].item] \in ItemRecords \cup {NoRecord, Unreadable}
  BY <1>2 DEF TypeInv, TypeOK
<1>4. Follows(itemRecord[req.lines[k].item], itemRecord'[req.lines[k].item])
  BY <1>2, ItemRecordSteps
<1> QED BY <1>1, <1>3, <1>4, StaysBorneOut

(* The results of a runner that collects a true one, or none, stay true.   *)
LEMMA ResultsStayTrue ==
  ASSUME TypeInv, TypeInv', [Next]_vars, ResultsTrue, NEW w \in Runners, pc'[w] \in {"pick", "item"},
         pc[w] \in {"pick", "item"}, job'[w] = job[w],
         \A k \in DOMAIN results'[w] :
            \/ k \in DOMAIN results[w] /\ results'[w][k] = results[w][k]
            \/ LineTrue(itemRecord', results'[w][k], job[w], k)
  PROVE  \A k \in DOMAIN results'[w] : LineTrue(itemRecord', results'[w][k], job'[w], k)
<1> SUFFICES ASSUME NEW k \in DOMAIN results[w], results'[w][k] = results[w][k]
             PROVE  LineTrue(itemRecord', results'[w][k], job'[w], k)
  OBVIOUS
<1>1. LineTrue(itemRecord, results[w][k], job[w], k) BY DEF ResultsTrue
<1>2. job[w] \in Requests /\ results[w][k] \in LineResults
  <2>1. job[w] \in Requests BY JobTypes
  <2>2. results[w] \in SomeResults BY DEF TypeInv, TypeOK
  <2> QED BY <2>1, <2>2, ResultTypes
<1>3. LineTrue(itemRecord', results[w][k], job[w], k) BY <1>1, <1>2, StaysTrue
<1> QED BY <1>3

(* The result an item step collects is true of the records after it.       *)
LEMMA CollectedIsTrue ==
  ASSUME TypeInv, TypeInv', NEW w \in Runners,
         \/ ItemInProgress(w) \/ ItemConflict(w) \/ ItemInvalid(w) \/ ItemReplay(w) \/ ItemExecutes(w)
  PROVE  /\ pc[w] \in {"pick", "item"}
         /\ \A k \in DOMAIN results'[w] :
              \/ k \in DOMAIN results[w] /\ results'[w][k] = results[w][k]
              \/ LineTrue(itemRecord', results'[w][k], job[w], k)
         /\ \A v \in Runners \ {w} : pc'[v] = pc[v] /\ results'[v] = results[v]
         /\ UNCHANGED <<job, runRecord>>
<1>1. /\ pc[w] \in {"pick", "item"} /\ Remaining(w) # {} /\ job[w] \in Requests
      /\ UNCHANGED <<job, runRecord>>
  <2>1. pc[w] \in {"pick", "item"} /\ Remaining(w) # {} /\ UNCHANGED <<job, runRecord>>
    BY DEF ItemInProgress, ItemConflict, ItemInvalid, ItemReplay, ItemExecutes, runs, items,
       TypeInv, Placed
  <2> QED BY <2>1, JobTypes
<1>2. /\ Current(w) \in ReadyLines(job[w]) /\ Item(w) \in Items /\ Body(w) \in Bodies
  BY <1>1, CurrentLine
<1>3. /\ itemRecord[Item(w)] \in ItemRecords \cup {NoRecord, Unreadable}
      /\ itemRecord[Item(w)] \in ItemRecords => itemRecord[Item(w)].resp \in RailResponses
  BY <1>2 DEF TypeInv, TypeOK, ItemRecords
<1> DEFINE Tells(l) == l \in LineResults /\ BearsOut(itemRecord'[Item(w)], l, Body(w))
<1>4. ASSUME NEW l, Tells(l), Collect(w, l)
      PROVE  /\ \A k \in DOMAIN results'[w] :
                  \/ k \in DOMAIN results[w] /\ results'[w][k] = results[w][k]
                  \/ LineTrue(itemRecord', results'[w][k], job[w], k)
             /\ \A v \in Runners \ {w} : pc'[v] = pc[v] /\ results'[v] = results[v]
  <2>1. /\ DOMAIN results'[w] = DOMAIN results[w] \cup {Current(w)}
        /\ results'[w][Current(w)] = l
        /\ \A k \in DOMAIN results[w] : results'[w][k] = results[w][k]
        /\ \A v \in Runners \ {w} : pc'[v] = pc[v] /\ results'[v] = results[v]
    BY <1>1, <1>4, CollectTypes
  <2>2. LineTrue(itemRecord', l, job[w], Current(w))
    BY <1>2, <1>4 DEF LineTrue, Item, Body
  <2> QED BY <2>1, <2>2
<1>5. \E l : Tells(l) /\ Collect(w, l)
  <2> USE DEF items, Executed, Attempted
  <2>1. CASE ItemInProgress(w)
    <3>1. Tells(Attempted("failed", "refused", TRUE)) BY OutcomeTypes DEF BearsOut
    <3> QED BY <2>1, <3>1 DEF ItemInProgress
  <2>2. CASE ItemConflict(w)
    <3>1. Tells(Attempted("failed", "refused", FALSE))
      BY <2>2, OutcomeTypes DEF BearsOut, ItemConflict
    <3> QED BY <2>2, <3>1 DEF ItemConflict
  <2>3. CASE ItemInvalid(w)
    <3>1. Tells(Attempted("failed", "refused", FALSE))
      BY <2>3, OutcomeTypes, RecordsAssumption DEF BearsOut, ItemInvalid
    <3> QED BY <2>3, <3>1 DEF ItemInvalid
  <2>4. CASE ItemReplay(w)
    <3> DEFINE r == itemRecord[Item(w)]
    <3>1. /\ r \in ItemRecords /\ r.resp \in RailResponses /\ r # NoRecord
          /\ r.body = Body(w) /\ ~r.resp.retryable
          /\ itemRecord'[Item(w)] = r
          /\ Collect(w, Attempted(r.resp.status, "idempotent_replay", r.resp.retryable))
      BY <2>4, <1>3 DEF ItemReplay
    <3>2. Executed(r.resp) => r.resp.tx BY <3>1 DEF RailResponses, ItemResponses
    <3>3. Tells(Attempted(r.resp.status, "idempotent_replay", r.resp.retryable))
      BY <3>1, <3>2, OutcomeTypes DEF BearsOut, Answers
    <3> QED BY <3>1, <3>3
  <2>5. CASE ItemExecutes(w)
    <3>1. PICK resp \in RailResponses :
            /\ itemRecord' = [itemRecord EXCEPT ![Item(w)] = [body |-> Body(w), resp |-> resp]]
            /\ Collect(w, Attempted(resp.status, Outcome(resp), resp.retryable))
      BY <2>5 DEF ItemExecutes
    <3>2. /\ itemRecord'[Item(w)] = [body |-> Body(w), resp |-> resp]
          /\ itemRecord'[Item(w)] \in ItemRecords
      BY <1>2, <3>1 DEF TypeInv, TypeOK, ItemRecords
    <3>3. itemRecord'[Item(w)] # NoRecord /\ itemRecord'[Item(w)] # Unreadable
      BY <3>2, RecordsAssumption
    <3>4. Executed(resp) => resp.tx BY <3>1 DEF RailResponses, ItemResponses
    <3> DEFINE l == Attempted(resp.status, Outcome(resp), resp.retryable)
    <3>5. l \in LineResults /\ l.status = resp.status /\ l.retryable = resp.retryable
      BY <3>1, OutcomeTypes
    <3>6. Executed(l) => Executed(resp) BY <3>5
    <3>7. /\ itemRecord'[Item(w)].body = Body(w)
          /\ itemRecord'[Item(w)].resp.status = l.status
          /\ itemRecord'[Item(w)].resp.tx = resp.tx
          /\ itemRecord'[Item(w)].resp.retryable = l.retryable
      BY <3>2, <3>5
    <3> HIDE DEF l
    <3>8. Tells(l) BY <3>3, <3>4, <3>5, <3>6, <3>7 DEF BearsOut, Answers
    <3> QED BY <3>1, <3>8 DEF l
  <2> QED BY <2>1, <2>2, <2>3, <2>4, <2>5
<1> QED BY <1>1, <1>4, <1>5

(* Every step but Proceed and those that collect leaves runners where they *)
(* were or takes them away from their items.                               *)
LEMMA QuietSteps ==
  ASSUME TypeInv, Next, NEW v \in Runners, pc'[v] \in {"pick", "item"},
         ~Proceed(v),
         ~(ItemInProgress(v) \/ ItemConflict(v) \/ ItemInvalid(v) \/ ItemReplay(v) \/ ItemExecutes(v))
  PROVE  pc[v] \in {"pick", "item"} /\ job'[v] = job[v] /\ results'[v] = results[v]
<1> USE DEF TypeInv, TypeOK, Goto, Stop, Collect, local
<1>1. ASSUME NEW w \in Runners, Step(w), w # v PROVE pc'[v] = pc[v] /\ job'[v] = job[v] /\ results'[v] = results[v]
  BY <1>1 DEF Step, Plan, CreateLock, LockFails, LockExists, InProgress, StatStale, RemoveStale,
         Conflict, ReadInvalid, Replay, StoreRefusal, Proceed, ItemInProgress, StartItem,
         ItemConflict, ItemInvalid, ItemReplay, ItemExecutes, ItemError, WriteRun, WriteFails, Unlock
<1>2. ASSUME Step(v) PROVE pc[v] \in {"pick", "item"} /\ job'[v] = job[v] /\ results'[v] = results[v]
  BY <1>2 DEF Step, Plan, CreateLock, LockFails, LockExists, InProgress, StatStale, RemoveStale,
         Conflict, ReadInvalid, Replay, StoreRefusal, StartItem,
         ItemError, WriteRun, WriteFails, Unlock
<1>3. ASSUME NEW w \in Runners, NEW req \in Requests, Submit(w, req)
      PROVE  pc'[v] = pc[v] /\ job'[v] = job[v] /\ results'[v] = results[v]
  BY <1>3 DEF Submit
<1>4. ASSUME NEW w \in Runners, Crash(w) PROVE pc'[v] = pc[v] /\ job'[v] = job[v] /\ results'[v] = results[v]
  BY <1>4 DEF Crash
<1>5. ASSUME NEW torn, NEW tornItems, PowerLoss(torn, tornItems) PROVE FALSE
  BY <1>5 DEF PowerLoss
<1> QED BY <1>1, <1>2, <1>3, <1>4, <1>5 DEF Next, AgeLock, ReleaseItem

LEMMA ResultsNext == TypeInv /\ TypeInv' /\ ResultsTrue /\ [Next]_vars => ResultsTrue'
<1> SUFFICES ASSUME TypeInv, TypeInv', ResultsTrue, [Next]_vars,
                    NEW v \in Runners, pc'[v] \in {"pick", "item"}
             PROVE  \A k \in DOMAIN results'[v] : LineTrue(itemRecord', results'[v][k], job'[v], k)
  BY DEF ResultsTrue
<1>1. CASE UNCHANGED vars BY <1>1, ResultsStayTrue DEF vars
<1>2. CASE Proceed(v)
  BY <1>2 DEF Proceed, MayExecute, local, TypeInv, Placed
<1>3. CASE ItemInProgress(v) \/ ItemConflict(v) \/ ItemInvalid(v) \/ ItemReplay(v) \/ ItemExecutes(v)
  BY <1>3, CollectedIsTrue, ResultsStayTrue
<1>4. CASE /\ Next /\ ~Proceed(v)
           /\ ~(ItemInProgress(v) \/ ItemConflict(v) \/ ItemInvalid(v) \/ ItemReplay(v) \/ ItemExecutes(v))
  BY <1>4, QuietSteps, ResultsStayTrue
<1> QED BY <1>1, <1>2, <1>3, <1>4

(* The record a step stores for its run is true and, if ok, complete.      *)
LEMMA RefusalIsTrue ==
  ASSUME TypeInv, NEW w \in Runners, StoreRefusal(w), NEW run \in Runs, job[w].run = run
  PROVE  /\ \A k \in DOMAIN runRecord'[run].lines :
              LineTrue(itemRecord', runRecord'[run].lines[k], runRecord'[run].request, k)
         /\ OkIsComplete(runRecord'[run])
<1> DEFINE f == [k \in ListedLines(job[w]) |-> IF k \in ReadyLines(job[w])
                                               THEN Unattempted("refused", plan[w].retryable)
                                               ELSE Unattempted("invalid", FALSE)]
           r == [fingerprint |-> Fingerprint(job[w]), status |-> "failed", lines |-> f,
                 request |-> job[w]]
<1>1. runRecord'[run] = r BY DEF StoreRefusal, TypeInv, TypeOK
<1>2. \A k \in DOMAIN f : ~f[k].attempted /\ ~Executed(f[k]) BY DEF Unattempted, Executed
<1>3. r.lines = f /\ r.status = "failed" OBVIOUS
<1> HIDE DEF r, f
<1> QED BY <1>1, <1>2, <1>3 DEF LineTrue, OkIsComplete, RunOK

LEMMA WrittenIsTrue ==
  ASSUME TypeInv, ResultsTrue, NEW w \in Runners, WriteRun(w), NEW run \in Runs, job[w].run = run
  PROVE  /\ \A k \in DOMAIN runRecord'[run].lines :
              LineTrue(itemRecord', runRecord'[run].lines[k], runRecord'[run].request, k)
         /\ OkIsComplete(runRecord'[run])
<1> DEFINE status == deriveSettlementRunStatus(Len(job[w].lines), results[w])
           r == [fingerprint |-> Fingerprint(job[w]), status |-> status, lines |-> results[w],
                 request |-> job[w]]
<1>1. runRecord'[run] = r /\ itemRecord' = itemRecord BY DEF WriteRun, TypeInv, TypeOK, items
<1>2. r.lines = results[w] /\ r.status = status /\ r.request = job[w] OBVIOUS
<1>3. /\ job[w] \in Requests /\ DOMAIN results[w] \subseteq ReadyLines(job[w])
      /\ \A k \in DOMAIN results[w] : LineTrue(itemRecord, results[w][k], job[w], k)
  BY JobTypes DEF WriteRun, TypeInv, Placed, ResultsTrue
<1>4. Len(job[w].lines) \in Nat /\ DOMAIN results[w] \subseteq 1..Len(job[w].lines)
      /\ DOMAIN job[w].lines = 1..Len(job[w].lines)
  BY <1>3, RequestTypes
<1>5. status \in {"confirmed", "accepted"} =>
        \A k \in DOMAIN job[w].lines : k \in DOMAIN results[w] /\ Executed(results[w][k])
  BY <1>4, OkMeansAll
<1> HIDE DEF r, status
<1> QED BY <1>1, <1>2, <1>3, <1>5 DEF OkIsComplete, RunOK

LEMMA RecordsNext ==
  TypeInv /\ TypeInv' /\ ResultsTrue /\ RecordsTrue /\ [Next]_vars => RecordsTrue'
<1> SUFFICES ASSUME TypeInv, TypeInv', ResultsTrue, RecordsTrue, [Next]_vars,
                    NEW run \in Runs, Recorded(run)'
             PROVE  /\ \A k \in DOMAIN runRecord'[run].lines :
                         LineTrue(itemRecord', runRecord'[run].lines[k], runRecord'[run].request, k)
                    /\ OkIsComplete(runRecord'[run])
  BY DEF RecordsTrue
<1>1. CASE runRecord'[run] = runRecord[run]
  <2>1. Recorded(run) /\ runRecord[run] \in RunRecords
    BY <1>1 DEF Recorded, TypeInv, TypeOK
  <2>2. runRecord[run].request \in Requests /\ runRecord[run].lines \in SomeResults
    BY <2>1 DEF RunRecords
  <2>3. \A k \in DOMAIN runRecord[run].lines : runRecord[run].lines[k] \in LineResults
    BY <2>2, ResultTypes
  <2>4. \A k \in DOMAIN runRecord[run].lines :
          LineTrue(itemRecord, runRecord[run].lines[k], runRecord[run].request, k)
    BY <2>1 DEF RecordsTrue
  <2>5. \A k \in DOMAIN runRecord[run].lines :
          LineTrue(itemRecord', runRecord[run].lines[k], runRecord[run].request, k)
    BY <2>2, <2>3, <2>4, StaysTrue
  <2> QED BY <1>1, <2>1, <2>5 DEF RecordsTrue
<1>2. CASE runRecord'[run] # runRecord[run]
  <2>1. Next BY <1>2 DEF vars
  <2>2. PICK w \in Runners : (StoreRefusal(w) \/ WriteRun(w)) /\ job[w].run = run
    BY <1>2, <2>1, RecordWriters DEF Recorded
  <2> QED BY <2>2, RefusalIsTrue, WrittenIsTrue
<1> QED BY <1>1, <1>2

LEMMA ItemNext == TypeInv /\ TypeInv' /\ ItemInv /\ [Next]_vars => ItemInv'
BY ResultsNext, RecordsNext DEF ItemInv

LEMMA RecordTypes ==
  ASSUME TypeInv, ItemInv, NEW run \in Runs, Recorded(run)
  PROVE  /\ runRecord[run].request \in Requests
         /\ \A k \in DOMAIN runRecord[run].lines :
              LineTrue(itemRecord, runRecord[run].lines[k], runRecord[run].request, k)
         /\ OkIsComplete(runRecord[run])
BY DEF Recorded, TypeInv, TypeOK, RunRecords, ItemInv, RecordsTrue

(* In every behaviour a line a stored run reports as executed is executed, *)
(* in the item's own record and for the same payload, through any number   *)
(* of retries, crashes and competing runs that share the item.             *)
THEOREM ReportedLinesSafety == Spec => []ReportedLinesAreExecuted
<1>1. TypeInv /\ ItemInv => ReportedLinesAreExecuted
  <2> SUFFICES ASSUME TypeInv, ItemInv, NEW run \in Runs, Recorded(run),
                      NEW k \in DOMAIN runRecord[run].lines, Executed(runRecord[run].lines[k])
               PROVE  /\ Answers(ItemOf(run, k), runRecord[run].request.lines[k].body)
                      /\ ItemOf(run, k) # Unreadable =>
                           /\ ItemOf(run, k).resp.status = runRecord[run].lines[k].status
                           /\ ItemOf(run, k).resp.tx
    BY DEF ReportedLinesAreExecuted
  <2> QED BY RecordTypes DEF LineTrue, BearsOut, ItemOf
<1> QED BY <1>1, TypeInit, TypeNext, ItemInit, ItemNext, PTL DEF Spec

(* In every behaviour a run stored as ok has paid every line its client    *)
(* asked for, however many there are and whichever attempt paid them.      *)
THEOREM OkRunSafety == Spec => []OkRunPaidEveryLine
<1>1. TypeInv /\ ItemInv => OkRunPaidEveryLine
  <2> SUFFICES ASSUME TypeInv, ItemInv, NEW run \in Runs, Recorded(run), RunOK(runRecord[run]),
                      NEW k \in DOMAIN runRecord[run].request.lines
               PROVE  LET line == runRecord[run].request.lines[k] IN
                      /\ line # BadLine
                      /\ Answers(itemRecord[line.item], line.body)
                      /\ itemRecord[line.item] # Unreadable => Executed(itemRecord[line.item].resp)
    BY DEF OkRunPaidEveryLine
  <2>1. k \in DOMAIN runRecord[run].lines /\ Executed(runRecord[run].lines[k])
    BY RecordTypes DEF OkIsComplete
  <2>2. k \in ReadyLines(runRecord[run].request)
    BY <2>1, RecordTypes DEF LineTrue
  <2>3. runRecord[run].request.lines[k] # BadLine
    BY <2>2, RecordTypes, RequestTypes
  <2> QED BY <2>1, <2>3, RecordTypes DEF LineTrue, BearsOut, Executed
<1> QED BY <1>1, TypeInit, TypeNext, ItemInit, ItemNext, PTL DEF Spec

(* In every behaviour a final run leaves no attempted line that a later    *)
(* attempt at its item would execute.                                      *)
THEOREM FinalRunSettledSafety == Spec => []FinalRunIsSettled
<1>1. TypeInv /\ ItemInv => FinalRunIsSettled
  <2> SUFFICES ASSUME TypeInv, ItemInv, NEW run \in Runs, Recorded(run),
                      settlementRunResponseIsFinal(runRecord[run]),
                      NEW k \in DOMAIN runRecord[run].lines, runRecord[run].lines[k].attempted
               PROVE  /\ ItemOf(run, k) # NoRecord
                      /\ \/ ItemOf(run, k) = Unreadable
                         \/ ItemOf(run, k).body # runRecord[run].request.lines[k].body
                         \/ ~ItemOf(run, k).resp.retryable
    BY DEF FinalRunIsSettled
  <2>1. ~runRecord[run].lines[k].retryable BY DEF settlementRunResponseIsFinal
  <2> QED BY <2>1, RecordTypes DEF LineTrue, BearsOut, ItemOf
<1> QED BY <1>1, TypeInit, TypeNext, ItemInit, ItemNext, PTL DEF Spec
=============================================================================
