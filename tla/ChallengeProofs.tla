--------------------------- MODULE ChallengeProofs ---------------------------
(***************************************************************************)
(* Proofs about Challenge, for any number of settlers, ids, transfers and  *)
(* deposits, any requests and any faults.                                  *)
(***************************************************************************)
EXTENDS Challenge, RunResultsProofs

(* What the assumptions say of one request.                                *)
LEMMA RequestTypes ==
  ASSUME NEW req \in Requests
  PROVE  /\ req.id \in Ids
         /\ req.valid \in BOOLEAN
         /\ req.funding \in Seq(Deposits)
         /\ req.transfers \in Seq(Transfers)
         /\ Len(req.transfers) \in Nat
         /\ Lines(req) = 1..Len(req.transfers)
         /\ IsFiniteSet(Lines(req))
         /\ \A k \in Lines(req) : /\ req.transfers[k] \in Transfers
                                  /\ req.transfers[k].item \in Items
                                  /\ req.transfers[k].amount \in Nat
<1>1. /\ req.id \in Ids /\ req.valid \in BOOLEAN
      /\ req.funding \in Seq(Deposits) /\ req.transfers \in Seq(Transfers)
  BY RequestsAssumption
<1>2. /\ Len(req.transfers) \in Nat /\ Lines(req) = 1..Len(req.transfers)
      /\ \A k \in Lines(req) : req.transfers[k] \in Transfers
  BY <1>1 DEF Lines
<1>3. IsFiniteSet(Lines(req)) BY <1>2, FS_Interval
<1> QED BY <1>1, <1>2, <1>3 DEF Transfers

LEMMA TotalType == Total \in [Requests -> Nat]
<1> SUFFICES ASSUME NEW req \in Requests PROVE SumFunctionOnSet(Amounts(req), Lines(req)) \in Nat
  BY DEF Total
<1>1. \A k \in Lines(req) : Amounts(req)[k] \in Nat BY RequestTypes DEF Amounts
<1> QED BY <1>1, RequestTypes, SumType

-----------------------------------------------------------------------------
(* The values that the steps compute.                                      *)

LEMMA LineTypes ==
  /\ \A resp \in RailResponses :
       /\ Attempted(resp.status, Outcome(resp), resp.retryable) \in LineResults
       /\ Attempted(resp.status, "idempotent_replay", FALSE) \in LineResults
  /\ \A retryable \in BOOLEAN :
       /\ Attempted("failed", "refused", retryable) \in LineResults
       /\ Unattempted("refused", retryable) \in LineResults
  /\ Unattempted("invalid", FALSE) \in LineResults
<1>1. \A resp \in RailResponses : /\ resp.status \in LineStatuses /\ resp.retryable \in BOOLEAN
                                  /\ Outcome(resp) \in Outcomes
  BY DEF RailResponses, ItemResponses, Outcome, LineStatuses, Outcomes
<1> QED BY <1>1 DEF Attempted, Unattempted, LineResults, LineStatuses, Outcomes

LEMMA RailTypes ==
  /\ \A retryable \in BOOLEAN : Response("failed", retryable, FALSE) \in RailResponses
  /\ {Response("failed", FALSE, TRUE), Response("confirmed", FALSE, TRUE),
      Response("accepted", FALSE, TRUE)} \subseteq RailResponses
BY DEF Response, RailResponses, ItemResponses, LineStatuses

LEMMA PlanTypes ==
  ASSUME NEW stage \in Stages, NEW retryable \in BOOLEAN, NEW req \in Requests, NEW balance \in Int
  PROVE  /\ RefusedPlan(stage, retryable) \in Plans
         /\ [RefusedPlan(stage, retryable) EXCEPT !.run = ValidatedRun(req, balance),
                                                  !.topUp = Shortfall(req, balance)] \in Plans
         /\ [RefusedPlan(stage, retryable) EXCEPT !.run = "failed"] \in Plans
         /\ AcceptedPlan(req, balance) \in Plans
         /\ RequiredBalance(req) \in Nat /\ Shortfall(req, balance) \in Nat
<1>1. Total[req] \in Nat BY TotalType
<1>2. FixedFee \in Nat /\ Floor \in Nat /\ Len(req.transfers) \in Nat
  BY AmountsAssumption, FeesAssumption, RequestTypes
<1>3. EstimatedFee(req) \in Nat BY <1>2 DEF EstimatedFee
<1>4. RequiredBalance(req) \in Nat BY <1>1, <1>2, <1>3 DEF RequiredBalance
<1>5. Shortfall(req, balance) \in Nat BY <1>4 DEF Shortfall
<1>6. ValidatedRun(req, balance) \in EmbeddedRuns BY DEF ValidatedRun, EmbeddedRuns, RunStatuses
<1>7. CapacityShort(req, balance) \in BOOLEAN BY DEF CapacityShort
<1>8. RefusedPlan(stage, retryable) \in Plans
  BY DEF RefusedPlan, Plans, EmbeddedRuns
<1>9. [RefusedPlan(stage, retryable) EXCEPT !.run = ValidatedRun(req, balance),
                                            !.topUp = Shortfall(req, balance)] \in Plans
  BY <1>5, <1>6 DEF RefusedPlan, Plans
<1>10. [RefusedPlan(stage, retryable) EXCEPT !.run = "failed"] \in Plans
  BY DEF RefusedPlan, Plans, EmbeddedRuns, RunStatuses
<1>11. AcceptedPlan(req, balance) \in Plans
  BY <1>4, <1>5, <1>6, <1>7 DEF AcceptedPlan, Plans, Stages
<1> QED BY <1>4, <1>5, <1>8, <1>9, <1>10, <1>11

LEMMA NoValues == NoPlan \in Plans /\ << >> \in Seq(LineResults) /\ NoDraft \in Responses
<1>1. NoPlan \in Plans BY DEF NoPlan, RefusedPlan, Plans, Stages, EmbeddedRuns
<1>2. << >> \in Seq(LineResults) OBVIOUS
<1> QED BY <1>1, <1>2 DEF NoDraft, Responses, RunStatuses, EmbeddedRuns, TopUpResults

(* A function over the lines of a request is a sequence of their length.   *)
LEMMA LinesAreSeq ==
  ASSUME NEW req \in Requests, NEW f \in [Lines(req) -> LineResults]
  PROVE  f \in Seq(LineResults) /\ DOMAIN f = 1..Len(req.transfers)
BY RequestTypes

LEMMA FailedTypes ==
  ASSUME NEW req \in Requests, NEW p \in Plans, NEW retryable \in BOOLEAN, NEW answer \in TopUpResults
  PROVE  /\ FailedResponse(req, p, retryable, answer) \in Responses
         /\ FailedResponse(req, p, retryable, answer).status = "failed"
         /\ \A k \in DOMAIN FailedResponse(req, p, retryable, answer).lines :
               ~Executed(FailedResponse(req, p, retryable, answer).lines[k])
<1> DEFINE L == IF p.stage = "full" THEN Lines(req) ELSE {}
           f == [k \in L |-> IF LineValid(req, k) THEN Unattempted("refused", retryable)
                             ELSE Unattempted("invalid", FALSE)]
<1>1. f \in [L -> LineResults] BY LineTypes
<1>2. f \in Seq(LineResults)
  <2>1. CASE L = Lines(req) BY <1>1, <2>1, LinesAreSeq
  <2>2. CASE L = {}
    <3>1. L = 1..0 BY <2>2
    <3>2. f \in [1..0 -> LineResults] BY <1>1, <3>1
    <3> HIDE DEF f, L
    <3> QED BY <3>2
  <2> QED BY <2>1, <2>2
<1>3. \A k \in DOMAIN f : ~Executed(f[k]) BY DEF Executed, Unattempted
<1>4. (retryable \/ p.retryable) \in BOOLEAN /\ p.run \in EmbeddedRuns BY DEF Plans
<1>5. FailedResponse(req, p, retryable, answer) =
        [status |-> "failed", lines |-> f, retryable |-> retryable \/ p.retryable, run |-> p.run,
         topUp |-> answer]
  BY DEF FailedResponse
<1> HIDE DEF f
<1> QED BY <1>2, <1>3, <1>4, <1>5 DEF Responses, RunStatuses

LEMMA MergedTypes ==
  ASSUME NEW req \in Requests, NEW p \in Plans, NEW status \in EmbeddedRuns,
         NEW runLines \in Seq(LineResults), NEW retryable \in BOOLEAN
  PROVE  LET resp == MergedResponse(req, p, status, runLines, retryable) IN
         /\ resp \in Responses
         /\ DOMAIN resp.lines = Lines(req)
         /\ \A k \in Lines(req) : Executed(resp.lines[k]) =>
               k \in DOMAIN runLines /\ resp.lines[k] = runLines[k]
         /\ RunOK(resp) => \A k \in Lines(req) : Executed(resp.lines[k])
<1> DEFINE f == [k \in Lines(req) |-> IF k \in DOMAIN runLines THEN runLines[k]
                                      ELSE Unattempted("invalid", FALSE)]
           st == deriveSettlementRunStatus(Len(req.transfers), f)
           rt == retryable \/ \E k \in Lines(req) : f[k].retryable
           tu == IF p.topUp > 0 THEN "executed" ELSE "none"
           resp == MergedResponse(req, p, status, runLines, retryable)
<1>1. f \in [Lines(req) -> LineResults]
  <2>1. \A k \in DOMAIN runLines : runLines[k] \in LineResults OBVIOUS
  <2> QED BY <2>1, LineTypes
<1>2. f \in Seq(LineResults) /\ DOMAIN f = 1..Len(req.transfers) BY <1>1, LinesAreSeq
<1>3. \A k \in Lines(req) : Executed(f[k]) => k \in DOMAIN runLines /\ f[k] = runLines[k]
  BY DEF Executed, Unattempted
<1>4. resp = [status |-> st, lines |-> f, retryable |-> rt, run |-> status, topUp |-> tu]
  BY DEF MergedResponse, deriveSettlementChallengeStatus
<1>5. rt \in BOOLEAN /\ tu \in TopUpResults BY DEF TopUpResults
<1>6. st \in RunStatuses
  <2>1. IsFiniteSet(DOMAIN f) /\ Len(req.transfers) \in Nat BY <1>2, RequestTypes
  <2> HIDE DEF f
  <2> QED BY <2>1, StatusType
<1>7. st \in {"confirmed", "accepted"} => \A k \in Lines(req) : Executed(f[k])
  <2>1. DOMAIN f \subseteq 1..Len(req.transfers) /\ Len(req.transfers) \in Nat BY <1>2, RequestTypes
  <2> HIDE DEF f
  <2> QED BY <2>1, OkMeansAll, RequestTypes
<1> HIDE DEF f, st, rt, tu
<1>8. resp \in Responses BY <1>2, <1>4, <1>5, <1>6 DEF Responses
<1>9. DOMAIN resp.lines = Lines(req) BY <1>1, <1>4
<1> QED BY <1>3, <1>4, <1>7, <1>8, <1>9 DEF RunOK

-----------------------------------------------------------------------------
(* Types.  That no balance is overdrawn needs more than types, and comes   *)
(* with the transactions that are pending.                                 *)

LocalTypes ==
  /\ pc \in [Settlers -> PCs]
  /\ job \in [Settlers -> Requests \cup {NoJob}]
  /\ \A s \in Settlers : job[s] = NoJob <=> pc[s] = "idle"
  /\ plan \in [Settlers -> Plans]
  /\ results \in [Settlers -> Seq(LineResults)]
  /\ draft \in [Settlers -> Responses]

FileTypes ==
  /\ lock \in [Ids -> Settlers \cup {NoLock}]
  /\ stale \in [Ids -> BOOLEAN]
  /\ record \in [Ids -> ChallengeRecords \cup {NoRecord, Unreadable}]
  /\ contested \subseteq Ids

RunTypes ==
  /\ runLock \in [Ids -> Settlers \cup {NoLock}]
  /\ runRecord \in [Ids -> RunRecords \cup {NoRecord}]
  /\ itemRecord \in [Items -> ItemRecords \cup {NoRecord}]

ChainTypes ==
  /\ payout \in Int /\ escrow \in Int
  /\ tx \in [Items \cup Ids -> TxStates]

TopUpTypes ==
  /\ topUpRecord \in [Ids -> TopUpRecords \cup {NoRecord}]
  /\ topUps \in [Ids -> Nat]

BoundTypes == submits \in 0..MaxSubmits /\ crashes \in 0..MaxCrashes

TypeInv == LocalTypes /\ FileTypes /\ RunTypes /\ ChainTypes /\ TopUpTypes /\ BoundTypes

(* What a step leaves alone keeps its type.                                *)
LEMMA LocalKept == ASSUME LocalTypes, UNCHANGED <<pc, local>> PROVE LocalTypes'
BY DEF LocalTypes, local
LEMMA FilesKept == ASSUME FileTypes, UNCHANGED files PROVE FileTypes'
BY DEF FileTypes, files
LEMMA RunKept == ASSUME RunTypes, UNCHANGED run PROVE RunTypes'
BY DEF RunTypes, run
LEMMA ChainKept == ASSUME ChainTypes, UNCHANGED chain PROVE ChainTypes'
BY DEF ChainTypes, chain
LEMMA TopUpKept == ASSUME TopUpTypes, UNCHANGED topUp PROVE TopUpTypes'
BY DEF TopUpTypes, topUp
LEMMA BoundsKept == ASSUME BoundTypes, UNCHANGED bounds PROVE BoundTypes'
BY DEF BoundTypes, bounds

LEMMA JobTypes ==
  ASSUME LocalTypes, NEW s \in Settlers, pc[s] # "idle"
  PROVE  job[s] \in Requests /\ job[s].id \in Ids /\ plan[s] \in Plans
<1>1. job[s] \in Requests BY DEF LocalTypes
<1> QED BY <1>1, RequestTypes DEF LocalTypes

LEMMA LineOfJob ==
  ASSUME LocalTypes, NEW s \in Settlers, AtLine(s)
  PROVE  /\ pc[s] = "pick" /\ job[s] \in Requests /\ results[s] \in Seq(LineResults)
         /\ Current(s) \in Lines(job[s])
         /\ Line(s) \in Transfers /\ Line(s) = job[s].transfers[Current(s)]
         /\ Line(s).item \in Items /\ Line(s).amount \in Nat
<1>1. pc[s] = "pick" /\ Current(s) \in Lines(job[s]) BY DEF AtLine
<1>2. job[s] \in Requests BY <1>1, JobTypes
<1> QED BY <1>1, <1>2, RequestTypes DEF Line, LocalTypes

(* The pieces that the actions are made of.                                *)
LEMMA GotoTypes ==
  ASSUME LocalTypes, NEW s \in Settlers, pc[s] # "idle", NEW label \in PCs \ {"idle"},
         Goto(s, label), UNCHANGED local
  PROVE  LocalTypes'
<1>1. /\ pc' \in [Settlers -> PCs] /\ pc'[s] = label
      /\ \A v \in Settlers \ {s} : pc'[v] = pc[v]
  BY DEF LocalTypes, Goto
<1>2. \A v \in Settlers : job'[v] = NoJob <=> pc'[v] = "idle" BY <1>1 DEF LocalTypes, local
<1> QED BY <1>1, <1>2 DEF LocalTypes, local

LEMMA AnswerTypes ==
  ASSUME LocalTypes, NEW s \in Settlers, pc[s] # "idle", NEW resp \in Responses,
         Answer(s, resp), UNCHANGED <<job, plan, results>>
  PROVE  LocalTypes'
<1>1. /\ pc' \in [Settlers -> PCs] /\ pc'[s] = "write"
      /\ \A v \in Settlers \ {s} : pc'[v] = pc[v]
      /\ draft' \in [Settlers -> Responses]
  BY DEF LocalTypes, Answer, Goto, PCs, Section
<1>2. \A v \in Settlers : job'[v] = NoJob <=> pc'[v] = "idle" BY <1>1 DEF LocalTypes
<1> QED BY <1>1, <1>2 DEF LocalTypes

LEMMA CollectTypes ==
  ASSUME LocalTypes, NEW s \in Settlers, NEW line \in LineResults,
         Collect(s, line), UNCHANGED <<pc, job, plan, draft>>
  PROVE  LocalTypes'
<1>1. results[s] \in Seq(LineResults) BY DEF LocalTypes
<1>2. Append(results[s], line) \in Seq(LineResults) BY <1>1
<1>3. results' \in [Settlers -> Seq(LineResults)] BY <1>2 DEF LocalTypes, Collect
<1> QED BY <1>3 DEF LocalTypes

LEMMA StopTypes ==
  ASSUME LocalTypes, NEW s \in Settlers, Stop(s)
  PROVE  LocalTypes'
<1>1. /\ pc' \in [Settlers -> PCs] /\ job' \in [Settlers -> Requests \cup {NoJob}]
      /\ pc'[s] = "idle" /\ job'[s] = NoJob
      /\ \A v \in Settlers \ {s} : pc'[v] = pc[v] /\ job'[v] = job[v]
  BY DEF LocalTypes, Stop, Goto, PCs
<1>2. \A v \in Settlers : job'[v] = NoJob <=> pc'[v] = "idle" BY <1>1 DEF LocalTypes
<1>3. /\ plan' \in [Settlers -> Plans] /\ results' \in [Settlers -> Seq(LineResults)]
      /\ draft' \in [Settlers -> Responses]
  BY NoValues DEF LocalTypes, Stop
<1> QED BY <1>1, <1>2, <1>3 DEF LocalTypes

LEMMA SubmitTypes ==
  ASSUME TypeInv, NEW s \in Settlers, NEW req \in Requests, NEW p \in Plans,
         MaySubmit(s), Submit(s, req, p)
  PROVE  TypeInv'
<1>1. LocalTypes'
  <2>1. /\ pc' \in [Settlers -> PCs] /\ job' \in [Settlers -> Requests \cup {NoJob}]
        /\ pc'[s] = "lock" /\ job'[s] = req
        /\ \A v \in Settlers \ {s} : pc'[v] = pc[v] /\ job'[v] = job[v]
        /\ plan' \in [Settlers -> Plans] /\ UNCHANGED <<results, draft>>
    BY DEF TypeInv, LocalTypes, Submit, Goto, PCs
  <2>2. \A v \in Settlers : job'[v] = NoJob <=> pc'[v] = "idle"
    BY <2>1, NilAssumption DEF TypeInv, LocalTypes
  <2> QED BY <2>1, <2>2 DEF TypeInv, LocalTypes
<1>2. BoundTypes' BY AmountsAssumption DEF TypeInv, BoundTypes, MaySubmit, Submit
<1> QED BY <1>1, <1>2, FilesKept, RunKept, ChainKept, TopUpKept DEF TypeInv, Submit

LEMMA TypeInit == Init => TypeInv
<1> SUFFICES ASSUME Init PROVE TypeInv OBVIOUS
<1>1. LocalTypes BY NoValues DEF Init, LocalTypes, PCs
<1>2. FileTypes /\ RunTypes BY DEF Init, FileTypes, RunTypes
<1>3. ChainTypes BY AmountsAssumption DEF Init, ChainTypes, TxStates
<1>4. TopUpTypes BY DEF Init, TopUpTypes
<1>5. BoundTypes BY AmountsAssumption DEF Init, BoundTypes
<1> QED BY <1>1, <1>2, <1>3, <1>4, <1>5 DEF TypeInv

LEMMA TypeArrive ==
  ASSUME TypeInv, NEW s \in Settlers, Arrive(s)
  PROVE  TypeInv'
<1>1. PICK req \in Requests : \/ SubmitMalformed(s, req) \/ SubmitUnfunded(s, req)
                               \/ SubmitMisallocated(s, req) \/ SubmitRefused(s, req)
                               \/ SubmitFunded(s, req)
  BY DEF Arrive
<1>2. payout \in Int BY DEF TypeInv, ChainTypes
<1>3. PICK p \in Plans : MaySubmit(s) /\ Submit(s, req, p)
  <2>1. CASE SubmitMalformed(s, req) BY <1>2, <2>1, PlanTypes DEF SubmitMalformed, Stages
  <2>2. CASE SubmitUnfunded(s, req) BY <1>2, <2>2, PlanTypes DEF SubmitUnfunded, Stages
  <2>3. CASE SubmitMisallocated(s, req) BY <1>2, <2>3, PlanTypes DEF SubmitMisallocated, Stages
  <2>4. CASE SubmitRefused(s, req) BY <1>2, <2>4, PlanTypes DEF SubmitRefused, Stages
  <2>5. CASE SubmitFunded(s, req) BY <1>2, <2>5, PlanTypes DEF SubmitFunded, Stages
  <2> QED BY <1>1, <2>1, <2>2, <2>3, <2>4, <2>5
<1> QED BY <1>3, SubmitTypes

LEMMA TypeEnter ==
  ASSUME TypeInv, NEW s \in Settlers, Enter(s)
  PROVE  TypeInv'
<1> USE DEF TypeInv
<1> USE FilesKept, RunKept, ChainKept, TopUpKept, BoundsKept
<1>1. CASE CreateLock(s)
  <2>1. FileTypes' BY <1>1, JobTypes DEF CreateLock, FileTypes
  <2> QED BY <1>1, <2>1, GotoTypes DEF CreateLock, PCs, Section
<1>2. CASE LockFails(s) BY <1>2, StopTypes DEF LockFails
<1>3. CASE StatStale(s) BY <1>3, GotoTypes DEF StatStale, PCs
<1>4. CASE RemoveStale(s)
  <2>1. FileTypes' BY <1>4, JobTypes DEF RemoveStale, FileTypes
  <2> QED BY <1>4, <2>1, GotoTypes DEF RemoveStale, PCs
<1>5. CASE Conflict(s) BY <1>5, GotoTypes DEF Conflict, PCs, Section
<1>6. CASE ReadInvalid(s) BY <1>6, GotoTypes DEF ReadInvalid, PCs, Section
<1>7. CASE Replay(s) BY <1>7, GotoTypes DEF Replay, PCs, Section
<1>8. CASE StoreRefusal(s)
  <2>1. pc[s] = "read" BY <1>8 DEF StoreRefusal, MayExecute
  <2>2. job[s] \in Requests /\ plan[s] \in Plans /\ plan[s].retryable \in BOOLEAN
    BY <2>1, JobTypes DEF Plans
  <2> DEFINE answer == IF plan[s].topUp > 0 THEN "unanswered" ELSE "none"
  <2>3. answer \in TopUpResults BY DEF TopUpResults
  <2>4. FailedResponse(job[s], plan[s], plan[s].retryable, answer) \in Responses
    BY <2>2, <2>3, FailedTypes
  <2> QED BY <1>8, <2>1, <2>4, AnswerTypes DEF StoreRefusal
<1>9. CASE Proceed(s)
  <2>1. pc[s] = "read" BY <1>9 DEF Proceed, MayExecute
  <2> DEFINE label == IF plan[s].topUp > 0 THEN "topup" ELSE "run"
  <2>2. label \in PCs \ {"idle"} BY DEF PCs, Section
  <2> QED BY <1>9, <2>1, <2>2, GotoTypes DEF Proceed
<1> QED BY <1>1, <1>2, <1>3, <1>4, <1>5, <1>6, <1>7, <1>8, <1>9 DEF Enter

(* An answer of the top-up and of the run.                                 *)
LEMMA RefusedAnswer ==
  ASSUME LocalTypes, NEW s \in Settlers, pc[s] # "idle", NEW retryable \in BOOLEAN,
         NEW answer \in TopUpResults
  PROVE  FailedResponse(job[s], plan[s], retryable, answer) \in Responses
BY JobTypes, FailedTypes

LEMMA StoreTopUpTypes ==
  ASSUME TypeInv, NEW s \in Settlers, pc[s] # "idle", NEW resp \in RailResponses, StoreTopUp(s, resp),
         UNCHANGED topUps \/ TookTopUp(s)
  PROVE  TopUpTypes'
<1>1. [amount |-> plan[s].topUp, resp |-> resp] \in TopUpRecords
  BY JobTypes DEF TypeInv, TopUpRecords, Plans
<1>2. topUpRecord' \in [Ids -> TopUpRecords \cup {NoRecord}]
  BY <1>1, JobTypes DEF TypeInv, TopUpTypes, StoreTopUp
<1>3. topUps' \in [Ids -> Nat] BY JobTypes DEF TypeInv, TopUpTypes, TookTopUp
<1> QED BY <1>2, <1>3 DEF TopUpTypes

LEMMA BecomesTypes ==
  ASSUME ChainTypes, NEW name \in Items \cup Ids, NEW fate \in TxStates, BecomesTx(name, fate),
         payout' \in Int, escrow' \in Int
  PROVE  ChainTypes'
BY DEF ChainTypes, BecomesTx

LEMMA TypeFund ==
  ASSUME TypeInv, NEW s \in Settlers, FundSigner(s)
  PROVE  TypeInv'
<1> USE DEF TypeInv
<1> USE FilesKept, RunKept, ChainKept, TopUpKept, BoundsKept
<1>0. pc[s] # "idle" /\ (SendsTopUp(s) => pc[s] = "topup")
  BY DEF FundSigner, TopUpConflict, TopUpReplay, TopUpRefused, TopUpConfirmed, TopUpAccepted,
         TopUpRejected, TopUpMisreported, TopUpBusy, BalanceReached, BalancePending, SendsTopUp
<1>a. job[s] \in Requests /\ job[s].id \in Ids /\ job[s].id \in Items \cup Ids
  BY <1>0, JobTypes
<1>b. /\ plan[s].topUp \in Nat /\ Fee \in Nat /\ payout \in Int /\ escrow \in Int
  BY <1>0, JobTypes, AmountsAssumption DEF Plans, ChainTypes
<1>c. \A retryable \in BOOLEAN :
        /\ FailedResponse(job[s], plan[s], retryable, "refused") \in Responses
        /\ FailedResponse(job[s], plan[s], retryable, "failed") \in Responses
  BY <1>0, RefusedAnswer DEF TopUpResults
<1>1. CASE TopUpConflict(s) BY <1>1, <1>0, <1>c, AnswerTypes DEF TopUpConflict
<1>2. CASE TopUpReplay(s)
  <2>1. LocalTypes'
    <3>1. CASE Goto(s, "run") /\ UNCHANGED draft
      BY <1>0, <1>2, <3>1, GotoTypes DEF TopUpReplay, PCs, Section, local
    <3>2. CASE Goto(s, "await") /\ UNCHANGED draft
      BY <1>0, <1>2, <3>2, GotoTypes DEF TopUpReplay, PCs, Section, local
    <3>3. CASE \E a \in {"failed", "refused"} :
                  Answer(s, FailedResponse(job[s], plan[s], FALSE, a))
      BY <1>0, <1>2, <3>3, <1>c, AnswerTypes DEF TopUpReplay
    <3> QED BY <1>2, <3>1, <3>2, <3>3 DEF TopUpReplay
  <2> QED BY <1>2, <2>1 DEF TopUpReplay
<1>3. CASE TopUpRefused(s)
  <2>1. PICK retryable \in BOOLEAN :
          /\ StoreTopUp(s, Response("failed", retryable, FALSE))
          /\ Answer(s, FailedResponse(job[s], plan[s], retryable, "refused"))
    BY <1>3 DEF TopUpRefused, EscrowRefusals
  <2>2. TopUpTypes' BY <1>0, <1>3, <2>1, RailTypes, StoreTopUpTypes DEF TopUpRefused
  <2>3. LocalTypes' BY <1>0, <1>3, <2>1, <1>c, AnswerTypes DEF TopUpRefused
  <2> QED BY <1>3, <2>2, <2>3 DEF TopUpRefused
<1>4. CASE TopUpConfirmed(s)
  <2>1. TopUpTypes' BY <1>0, <1>4, RailTypes, StoreTopUpTypes DEF TopUpConfirmed
  <2>2. ChainTypes' BY <1>4, <1>a, <1>b, BecomesTypes DEF TopUpConfirmed, TxStates
  <2>3. LocalTypes' BY <1>0, <1>4, GotoTypes DEF TopUpConfirmed, PCs, Section
  <2> QED BY <1>4, <2>1, <2>2, <2>3 DEF TopUpConfirmed
<1>5. CASE TopUpAccepted(s)
  <2>1. TopUpTypes' BY <1>0, <1>5, RailTypes, StoreTopUpTypes DEF TopUpAccepted
  <2>2. ChainTypes' BY <1>5, <1>a, <1>b, BecomesTypes DEF TopUpAccepted, TxStates
  <2>3. LocalTypes' BY <1>0, <1>5, GotoTypes DEF TopUpAccepted, PCs, Section
  <2> QED BY <1>5, <2>1, <2>2, <2>3 DEF TopUpAccepted
<1>6. CASE TopUpRejected(s)
  <2>1. TopUpTypes' BY <1>0, <1>6, RailTypes, StoreTopUpTypes DEF TopUpRejected
  <2>2. ChainTypes'
    <3>1. CASE UNCHANGED <<escrow, tx, topUps>> BY <1>6, <3>1 DEF TopUpRejected, chain
    <3>2. CASE escrow' = escrow - Fee /\ BecomesTx(job[s].id, "failed")
      BY <1>6, <3>2, <1>a, <1>b, BecomesTypes DEF TopUpRejected, TxStates
    <3> QED BY <1>6, <3>1, <3>2 DEF TopUpRejected
  <2>3. LocalTypes' BY <1>0, <1>6, <1>c, AnswerTypes DEF TopUpRejected
  <2> QED BY <1>6, <2>1, <2>2, <2>3 DEF TopUpRejected
<1>7. CASE TopUpMisreported(s)
  <2>1. TopUpTypes' BY <1>0, <1>7, RailTypes, StoreTopUpTypes DEF TopUpMisreported
  <2>2. ChainTypes' BY <1>7, <1>a, <1>b, BecomesTypes DEF TopUpMisreported, TxStates
  <2>3. LocalTypes' BY <1>0, <1>7, <1>c, AnswerTypes DEF TopUpMisreported
  <2> QED BY <1>7, <2>1, <2>2, <2>3 DEF TopUpMisreported
<1>8. CASE TopUpBusy(s) BY <1>0, <1>8, <1>c, AnswerTypes DEF TopUpBusy
<1>9. CASE BalanceReached(s) BY <1>0, <1>9, GotoTypes DEF BalanceReached, PCs, Section
<1>10. CASE BalancePending(s) BY <1>0, <1>10, <1>c, AnswerTypes DEF BalancePending
<1> QED BY <1>1, <1>2, <1>3, <1>4, <1>5, <1>6, <1>7, <1>8, <1>9, <1>10 DEF FundSigner

LEMMA StoreRunTypes ==
  ASSUME TypeInv, NEW s \in Settlers, pc[s] # "idle", NEW lines \in Seq(LineResults),
         NEW status \in RunStatuses, StoreRun(s, lines, status),
         runLock' \in [Ids -> Settlers \cup {NoLock}], UNCHANGED itemRecord
  PROVE  RunTypes'
<1>1. job[s] \in Requests BY JobTypes DEF TypeInv
<1>2. [payload |-> job[s].transfers, lines |-> lines, status |-> status] \in RunRecords
  BY <1>1, RequestTypes DEF RunRecords
<1>3. runRecord' \in [Ids -> RunRecords \cup {NoRecord}]
  BY <1>2, JobTypes DEF TypeInv, RunTypes, StoreRun
<1> QED BY <1>3 DEF TypeInv, RunTypes

LEMMA StoreItemTypes ==
  ASSUME TypeInv, NEW s \in Settlers, AtLine(s), NEW resp \in RailResponses, StoreItem(s, resp),
         UNCHANGED <<pc, job, plan, draft, runLock, runRecord>>
  PROVE  LocalTypes' /\ RunTypes'
<1>1. [body |-> Line(s), resp |-> resp] \in ItemRecords
  BY LineOfJob DEF TypeInv, ItemRecords
<1>2. itemRecord' \in [Items -> ItemRecords \cup {NoRecord}]
  BY <1>1, LineOfJob DEF TypeInv, RunTypes, StoreItem
<1>3. Attempted(resp.status, Outcome(resp), resp.retryable) \in LineResults BY LineTypes
<1>4. LocalTypes' BY <1>3, CollectTypes DEF TypeInv, StoreItem
<1> QED BY <1>2, <1>4 DEF TypeInv, RunTypes

(* What a run reports to the challenge.                                    *)
LEMMA RunAnswer ==
  ASSUME LocalTypes, NEW s \in Settlers, pc[s] # "idle", NEW status \in EmbeddedRuns,
         NEW lines \in Seq(LineResults), NEW retryable \in BOOLEAN
  PROVE  MergedResponse(job[s], plan[s], status, lines, retryable) \in Responses
BY JobTypes, MergedTypes

LEMMA RefusedLines ==
  ASSUME NEW req \in Requests, NEW retryable \in BOOLEAN
  PROVE  [k \in Lines(req) |-> Unattempted("refused", retryable)] \in Seq(LineResults)
<1> DEFINE f == [k \in Lines(req) |-> Unattempted("refused", retryable)]
<1>1. f \in [Lines(req) -> LineResults] BY LineTypes
<1> HIDE DEF f
<1>2. f \in Seq(LineResults) BY <1>1, LinesAreSeq
<1> QED BY <1>2 DEF f

LEMMA StatusOfResults ==
  ASSUME NEW req \in Requests, NEW lines \in Seq(LineResults)
  PROVE  deriveSettlementRunStatus(Len(req.transfers), lines) \in RunStatuses
<1>1. DOMAIN lines = 1..Len(lines) /\ Len(lines) \in Nat OBVIOUS
<1>2. IsFiniteSet(DOMAIN lines) BY <1>1, FS_Interval
<1> QED BY <1>2, RequestTypes, StatusType

LEMMA TypeRun ==
  ASSUME TypeInv, NEW s \in Settlers,
         \/ RunUnavailable(s) \/ RunReplay(s) \/ RunRefused(s) \/ RunProceeds(s) \/ RunEnds(s)
         \/ RailError(s)
  PROVE  TypeInv'
<1> USE DEF TypeInv
<1> USE FilesKept, RunKept, ChainKept, TopUpKept, BoundsKept
<1>0. pc[s] # "idle"
  BY DEF RunUnavailable, RunReplay, RunRefused, RunProceeds, RunEnds, RailError, AtLine
<1>a. job[s] \in Requests /\ job[s].id \in Ids /\ results[s] \in Seq(LineResults)
  BY <1>0, JobTypes DEF LocalTypes
<1>b. RunStatuses \subseteq EmbeddedRuns /\ "unavailable" \in EmbeddedRuns BY DEF EmbeddedRuns
<1>1. CASE RunUnavailable(s)
  <2>1. \A retryable \in BOOLEAN :
          MergedResponse(job[s], plan[s], "unavailable", << >>, retryable) \in Responses
    BY <1>0, <1>b, NoValues, RunAnswer
  <2> QED BY <1>0, <1>1, <2>1, AnswerTypes DEF RunUnavailable
<1>2. CASE RunReplay(s)
  <2> DEFINE r == runRecord[job[s].id]
  <2>1. r \in RunRecords BY <1>2, <1>a DEF RunReplay, RunIsFinal, SameRun, Readable, RunTypes
  <2>2. r.status \in EmbeddedRuns /\ r.lines \in Seq(LineResults) BY <2>1, <1>b DEF RunRecords
  <2>3. MergedResponse(job[s], plan[s], r.status, r.lines, FALSE) \in Responses
    BY <1>0, <2>2, RunAnswer
  <2> QED BY <1>0, <1>2, <2>3, AnswerTypes DEF RunReplay
<1>3. CASE RunRefused(s)
  <2>1. PICK retryable \in BOOLEAN :
          LET lines == [k \in Lines(job[s]) |-> Unattempted("refused", retryable)] IN
          /\ StoreRun(s, lines, "failed")
          /\ Answer(s, MergedResponse(job[s], plan[s], "failed", lines, retryable))
    BY <1>3 DEF RunRefused
  <2> DEFINE lines == [k \in Lines(job[s]) |-> Unattempted("refused", retryable)]
  <2>2. lines \in Seq(LineResults) BY <1>a, RefusedLines
  <2>3. StoreRun(s, lines, "failed") /\ Answer(s, MergedResponse(job[s], plan[s], "failed", lines, retryable))
    BY <2>1
  <2> HIDE DEF lines
  <2>4. "failed" \in RunStatuses BY DEF RunStatuses
  <2>5. RunTypes' BY <1>0, <1>3, <2>2, <2>3, <2>4, StoreRunTypes DEF RunRefused, RunTypes
  <2>6. MergedResponse(job[s], plan[s], "failed", lines, retryable) \in Responses
    BY <1>0, <1>b, <2>2, <2>4, RunAnswer
  <2>7. LocalTypes' BY <1>0, <1>3, <2>3, <2>6, AnswerTypes DEF RunRefused
  <2> QED BY <1>3, <2>5, <2>7 DEF RunRefused
<1>4. CASE RunProceeds(s)
  <2>1. RunTypes' BY <1>4, <1>a DEF RunProceeds, RunTypes
  <2>2. LocalTypes' BY <1>0, <1>4, GotoTypes DEF RunProceeds, PCs, Section
  <2> QED BY <1>4, <2>1, <2>2 DEF RunProceeds
<1>5. CASE RunEnds(s)
  <2> DEFINE status == deriveSettlementRunStatus(Len(job[s].transfers), results[s])
             retryable == \E k \in Lines(job[s]) : results[s][k].retryable
  <2>1. status \in RunStatuses /\ retryable \in BOOLEAN BY <1>a, StatusOfResults
  <2>2. /\ StoreRun(s, results[s], status)
        /\ Answer(s, MergedResponse(job[s], plan[s], status, results[s], retryable))
    BY <1>5 DEF RunEnds
  <2> HIDE DEF status, retryable
  <2>3. runLock' \in [Ids -> Settlers \cup {NoLock}] BY <1>5, <1>a DEF RunEnds, RunTypes
  <2>4. RunTypes' BY <1>0, <1>5, <1>a, <2>1, <2>2, <2>3, StoreRunTypes DEF RunEnds
  <2>5. MergedResponse(job[s], plan[s], status, results[s], retryable) \in Responses
    BY <1>0, <1>a, <1>b, <2>1, RunAnswer
  <2>6. LocalTypes' BY <1>0, <1>5, <2>2, <2>5, AnswerTypes DEF RunEnds
  <2> QED BY <1>5, <2>4, <2>6 DEF RunEnds
<1>6. CASE RailError(s)
  <2>1. RunTypes' BY <1>6 DEF RailError, RunTypes
  <2>2. LocalTypes' BY <1>0, <1>6, GotoTypes DEF RailError, PCs, Section
  <2> QED BY <1>6, <2>1, <2>2 DEF RailError
<1> QED BY <1>1, <1>2, <1>3, <1>4, <1>5, <1>6

LEMMA TypeItem ==
  ASSUME TypeInv, NEW s \in Settlers,
         \/ ItemConflict(s) \/ ItemReplay(s) \/ ItemRefused(s) \/ ItemConfirmed(s) \/ ItemAccepted(s)
         \/ ItemRejected(s) \/ ItemMisreported(s) \/ ItemBusy(s)
  PROVE  TypeInv'
<1> USE DEF TypeInv
<1> USE FilesKept, RunKept, ChainKept, TopUpKept, BoundsKept
<1>0. AtLine(s)
  BY DEF ItemConflict, ItemReplay, ItemRefused, ItemConfirmed, ItemAccepted, ItemRejected,
         ItemMisreported, ItemBusy, SendsItem
<1>a. /\ Line(s).item \in Items /\ Line(s).item \in Items \cup Ids /\ Line(s).amount \in Nat
      /\ Fee \in Nat /\ payout \in Int /\ escrow \in Int
  BY <1>0, LineOfJob, AmountsAssumption DEF ChainTypes
<1>1. CASE ItemConflict(s) BY <1>1, LineTypes, CollectTypes DEF ItemConflict
<1>2. CASE ItemReplay(s)
  <2>1. Stored(s) \in ItemRecords BY <1>2, <1>a DEF ItemReplay, Stored, RunTypes
  <2>2. Stored(s).resp \in RailResponses BY <2>1 DEF ItemRecords
  <2>3. Attempted(Stored(s).resp.status, "idempotent_replay", FALSE) \in LineResults
    BY <2>2, LineTypes
  <2> QED BY <1>2, <2>3, CollectTypes DEF ItemReplay
<1>3. CASE ItemRefused(s)
  <2>1. PICK retryable \in BOOLEAN : StoreItem(s, Response("failed", retryable, FALSE))
    BY <1>3 DEF ItemRefused, PayoutRefusals
  <2>2. LocalTypes' /\ RunTypes' BY <1>0, <1>3, <2>1, RailTypes, StoreItemTypes DEF ItemRefused
  <2> QED BY <1>3, <2>2 DEF ItemRefused
<1>4. CASE ItemConfirmed(s)
  <2>1. LocalTypes' /\ RunTypes' BY <1>0, <1>4, RailTypes, StoreItemTypes DEF ItemConfirmed
  <2>2. ChainTypes' BY <1>4, <1>a, BecomesTypes DEF ItemConfirmed, TxStates
  <2> QED BY <1>4, <2>1, <2>2 DEF ItemConfirmed
<1>5. CASE ItemAccepted(s)
  <2>1. LocalTypes' /\ RunTypes' BY <1>0, <1>5, RailTypes, StoreItemTypes DEF ItemAccepted
  <2>2. ChainTypes' BY <1>5, <1>a, BecomesTypes DEF ItemAccepted, TxStates
  <2> QED BY <1>5, <2>1, <2>2 DEF ItemAccepted
<1>6. CASE ItemRejected(s)
  <2>1. LocalTypes' /\ RunTypes' BY <1>0, <1>6, RailTypes, StoreItemTypes DEF ItemRejected
  <2>2. ChainTypes'
    <3>1. CASE UNCHANGED <<payout, tx>> BY <1>6, <3>1 DEF ItemRejected, chain
    <3>2. CASE payout' = payout - Fee /\ BecomesTx(Line(s).item, "failed")
      BY <1>6, <3>2, <1>a, BecomesTypes DEF ItemRejected, TxStates
    <3> QED BY <1>6, <3>1, <3>2 DEF ItemRejected
  <2> QED BY <1>6, <2>1, <2>2 DEF ItemRejected
<1>7. CASE ItemMisreported(s)
  <2>1. LocalTypes' /\ RunTypes' BY <1>0, <1>7, RailTypes, StoreItemTypes DEF ItemMisreported
  <2>2. ChainTypes' BY <1>7, <1>a, BecomesTypes DEF ItemMisreported, TxStates
  <2> QED BY <1>7, <2>1, <2>2 DEF ItemMisreported
<1>8. CASE ItemBusy(s) BY <1>8, LineTypes, CollectTypes DEF ItemBusy
<1> QED BY <1>1, <1>2, <1>3, <1>4, <1>5, <1>6, <1>7, <1>8

LEMMA RecordType ==
  ASSUME LocalTypes, NEW s \in Settlers, pc[s] # "idle"
  PROVE  [fingerprint |-> Fingerprint(job[s], plan[s].stage), resp |-> draft[s], request |-> job[s]]
           \in ChallengeRecords
<1>1. job[s] \in Requests BY JobTypes
<1>2. << >> \in Seq(Deposits) /\ << >> \in Seq(Transfers) OBVIOUS
<1>3. Fingerprint(job[s], plan[s].stage) \in [funding : Seq(Deposits), transfers : Seq(Transfers)]
  BY <1>1, <1>2, RequestTypes DEF Fingerprint
<1> QED BY <1>1, <1>3 DEF ChallengeRecords, LocalTypes

LEMMA TypeLeave ==
  ASSUME TypeInv, NEW s \in Settlers, Leave(s)
  PROVE  TypeInv'
<1> USE DEF TypeInv
<1> USE FilesKept, RunKept, ChainKept, TopUpKept, BoundsKept
<1>0. pc[s] # "idle" BY DEF Leave, WriteChallenge, WriteFails, Unlock
<1>1. CASE WriteChallenge(s)
  <2>1. FileTypes' BY <1>0, <1>1, JobTypes, RecordType DEF WriteChallenge, FileTypes
  <2> QED BY <1>0, <1>1, <2>1, GotoTypes DEF WriteChallenge, PCs, Section
<1>2. CASE WriteFails(s) BY <1>0, <1>2, GotoTypes DEF WriteFails, PCs, Section
<1>3. CASE Unlock(s)
  <2>1. FileTypes' BY <1>0, <1>3, JobTypes DEF Unlock, FileTypes
  <2> QED BY <1>3, <2>1, StopTypes DEF Unlock
<1> QED BY <1>1, <1>2, <1>3 DEF Leave

(* A pending transaction has the record of the request it was sent for.    *)
Backed ==
  /\ \A i \in paying : itemRecord[i] # NoRecord /\ ~itemRecord[i].resp.retryable
  /\ \A id \in toppingUp : topUpRecord[id] # NoRecord /\ ~topUpRecord[id].resp.retryable

LEMMA TypeEnvironment ==
  ASSUME TypeInv, Backed, Environment
  PROVE  TypeInv'
<1> USE DEF TypeInv
<1> USE LocalKept, FilesKept, RunKept, ChainKept, TopUpKept, BoundsKept
<1>1. ASSUME NEW id \in Ids, AgeLock(id) PROVE TypeInv'
  <2>1. FileTypes' BY <1>1 DEF AgeLock, FileTypes
  <2> QED BY <1>1, <2>1 DEF AgeLock
<1>2. ASSUME NEW id \in Ids, ExpireRunLock(id) PROVE TypeInv'
  <2>1. RunTypes' BY <1>2 DEF ExpireRunLock, RunTypes
  <2> QED BY <1>2, <2>1 DEF ExpireRunLock
<1>3. ASSUME NEW id \in Ids, SettleTopUp(id) PROVE TypeInv'
  <2>1. topUpRecord[id] \in TopUpRecords
    BY <1>3 DEF SettleTopUp, Backed, TopUpTypes
  <2>2. /\ topUpRecord[id].amount \in Nat /\ Fee \in Nat /\ payout \in Int /\ escrow \in Int
        /\ id \in Items \cup Ids
    BY <2>1, AmountsAssumption DEF TopUpRecords, ChainTypes
  <2>3. ChainTypes'
    <3>1. CASE BecomesTx(id, "dropped") /\ UNCHANGED <<payout, escrow>>
      BY <2>2, <3>1, BecomesTypes DEF TxStates
    <3>2. CASE BecomesTx(id, "failed") /\ escrow' = escrow - Fee /\ UNCHANGED payout
      BY <2>2, <3>2, BecomesTypes DEF TxStates
    <3>3. CASE /\ BecomesTx(id, "committed") /\ payout' = payout + topUpRecord[id].amount
               /\ escrow' = escrow - topUpRecord[id].amount - Fee
      BY <2>2, <3>3, BecomesTypes DEF TxStates
    <3> QED BY <1>3, <3>1, <3>2, <3>3 DEF SettleTopUp
  <2> QED BY <1>3, <2>3 DEF SettleTopUp
<1>4. ASSUME NEW i \in Items, SettleItem(i) PROVE TypeInv'
  <2>1. itemRecord[i] \in ItemRecords
    BY <1>4 DEF SettleItem, Backed, RunTypes
  <2>2. /\ itemRecord[i].body.amount \in Nat /\ Fee \in Nat /\ payout \in Int /\ escrow \in Int
        /\ i \in Items \cup Ids
    BY <2>1, AmountsAssumption DEF ItemRecords, Transfers, ChainTypes
  <2>3. ChainTypes'
    <3>1. CASE BecomesTx(i, "dropped") /\ UNCHANGED payout
      BY <1>4, <2>2, <3>1, BecomesTypes DEF SettleItem, TxStates
    <3>2. CASE BecomesTx(i, "failed") /\ payout' = payout - Fee
      BY <1>4, <2>2, <3>2, BecomesTypes DEF SettleItem, TxStates
    <3>3. CASE BecomesTx(i, "committed") /\ payout' = payout - itemRecord[i].body.amount - Fee
      BY <1>4, <2>2, <3>3, BecomesTypes DEF SettleItem, TxStates
    <3> QED BY <1>4, <3>1, <3>2, <3>3 DEF SettleItem
  <2> QED BY <1>4, <2>3 DEF SettleItem
<1>5. ASSUME NEW s \in Settlers, Crash(s) PROVE TypeInv'
  <2>1. BoundTypes' BY <1>5, AmountsAssumption DEF Crash, BoundTypes
  <2> QED BY <1>5, <2>1, StopTypes DEF Crash
<1>6. CASE PowerLoss
  <2>1. BoundTypes' BY <1>6, AmountsAssumption DEF PowerLoss, BoundTypes
  <2>2. LocalTypes' BY <1>6, NoValues DEF PowerLoss, LocalTypes, PCs
  <2>3. FileTypes' BY <1>6 DEF PowerLoss, FileTypes
  <2> QED BY <1>6, <2>1, <2>2, <2>3 DEF PowerLoss
<1> QED BY <1>1, <1>2, <1>3, <1>4, <1>5, <1>6 DEF Environment

-----------------------------------------------------------------------------
(* The books: what is pending of a signer is at most one transaction, its  *)
(* balance covers that one, and the record of its request is there to stay. *)

PayoutBooks ==
  /\ payout \in Nat
  /\ \A i \in paying : /\ itemRecord[i] # NoRecord
                       /\ ~itemRecord[i].resp.retryable
                       /\ payout >= itemRecord[i].body.amount + Fee
  /\ \A i, j \in paying : i = j

EscrowBooks ==
  /\ escrow \in Nat
  /\ \A id \in toppingUp : /\ topUpRecord[id] # NoRecord
                           /\ ~topUpRecord[id].resp.retryable
                           /\ escrow >= topUpRecord[id].amount + Fee
  /\ \A id, jd \in toppingUp : id = jd

(* A top-up that the node took has a record that says so for good.         *)
TopUpOnce ==
  \A id \in Ids : topUps[id] # 0 => /\ topUps[id] = 1
                                    /\ topUpRecord[id] # NoRecord
                                    /\ ~topUpRecord[id].resp.retryable

Books == PayoutBooks /\ EscrowBooks /\ TopUpOnce

LEMMA BooksInit == Init => Books
BY AmountsAssumption
   DEF Init, Books, PayoutBooks, EscrowBooks, TopUpOnce, paying, toppingUp

LEMMA BooksBack == Books => Backed
BY DEF Books, PayoutBooks, EscrowBooks, Backed

(* Each signer's books depend on its own transactions alone.               *)
LEMMA PayoutKept ==
  ASSUME PayoutBooks, itemRecord \in [Items -> ItemRecords \cup {NoRecord}], UNCHANGED itemRecord,
         payout' \in Nat, payout' >= payout, \A i \in Items : tx'[i] = tx[i]
  PROVE  PayoutBooks'
<1>1. paying' = paying BY DEF paying
<1> SUFFICES ASSUME NEW i \in paying PROVE payout' >= itemRecord[i].body.amount + Fee
  BY <1>1 DEF PayoutBooks
<1>2. itemRecord[i] \in ItemRecords BY DEF PayoutBooks, paying
<1>3. itemRecord[i].body.amount \in Nat /\ Fee \in Nat
  BY <1>2, AmountsAssumption DEF ItemRecords, Transfers
<1> QED BY <1>3 DEF PayoutBooks

LEMMA EscrowKept ==
  ASSUME EscrowBooks, TopUpOnce, UNCHANGED <<escrow, topUp>>, \A id \in Ids : tx'[id] = tx[id]
  PROVE  EscrowBooks' /\ TopUpOnce'
<1>1. toppingUp' = toppingUp BY DEF toppingUp
<1> QED BY <1>1 DEF EscrowBooks, TopUpOnce, topUp

LEMMA QuietKept ==
  ASSUME TypeInv, Books, UNCHANGED <<chain, topUp, itemRecord>>
  PROVE  Books'
<1>1. PayoutBooks' BY PayoutKept DEF TypeInv, RunTypes, Books, PayoutBooks, chain
<1>2. EscrowBooks' /\ TopUpOnce' BY EscrowKept DEF Books, chain
<1> QED BY <1>1, <1>2 DEF Books

(* A transfer is sent again only while its record is not there to stay;    *)
(* then nothing of it is pending.                                          *)
LEMMA SendsFresh ==
  ASSUME TypeInv, PayoutBooks, NEW s \in Settlers, SendsItem(s), NEW resp, StoreItem(s, resp)
  PROVE  /\ Line(s).item \in Items \ paying
         /\ itemRecord'[Line(s).item] = [body |-> Line(s), resp |-> resp]
         /\ \A i \in Items \ {Line(s).item} : itemRecord'[i] = itemRecord[i]
<1>1. Line(s).item \in Items BY LineOfJob DEF SendsItem, TypeInv
<1>2. Line(s).item \notin paying BY <1>1 DEF SendsItem, Stored, PayoutBooks
<1> QED BY <1>1, <1>2 DEF StoreItem, TypeInv, RunTypes

LEMMA BecomesOnly ==
  ASSUME TypeInv, NEW name \in Items \cup Ids, NEW fate, BecomesTx(name, fate)
  PROVE  /\ tx'[name] = fate
         /\ \A other \in (Items \cup Ids) \ {name} : tx'[other] = tx[other]
BY DEF TypeInv, ChainTypes, BecomesTx

LEMMA BooksItem ==
  ASSUME TypeInv, Books, NEW s \in Settlers,
         \/ ItemRefused(s) \/ ItemConfirmed(s) \/ ItemAccepted(s)
         \/ ItemRejected(s) \/ ItemMisreported(s)
  PROVE  Books'
<1> DEFINE i == Line(s).item
<1>0. AtLine(s) /\ SendsItem(s)
  BY DEF ItemRefused, ItemConfirmed, ItemAccepted, ItemRejected, ItemMisreported, SendsItem
<1>a. /\ i \in Items /\ i \notin Ids /\ i \in Items \cup Ids /\ Line(s).amount \in Nat
      /\ Fee \in Nat /\ Floor \in Nat /\ payout \in Nat
  BY <1>0, LineOfJob, NamesAssumption, AmountsAssumption DEF TypeInv, Books, PayoutBooks
<1>b. \A fate : BecomesTx(i, fate) => /\ \A id \in Ids : tx'[id] = tx[id]
                                      /\ tx'[i] = fate
                                      /\ \A j \in Items \ {i} : tx'[j] = tx[j]
  BY <1>a, BecomesOnly
<1>c. \A resp : StoreItem(s, resp) =>
        /\ i \notin paying
        /\ itemRecord'[i] = [body |-> Line(s), resp |-> resp]
        /\ \A j \in Items \ {i} : itemRecord'[j] = itemRecord[j]
  BY <1>0, SendsFresh DEF Books
<1> HIDE DEF i
<1>1. CASE ItemRefused(s)
  <2>1. PICK resp : StoreItem(s, resp) BY <1>1 DEF ItemRefused
  <2>2. paying' = paying BY <1>1 DEF ItemRefused, paying, chain
  <2>3. \A j \in paying : itemRecord'[j] = itemRecord[j]
    BY <2>1, <1>c DEF paying
  <2>4. PayoutBooks' BY <1>1, <2>2, <2>3 DEF ItemRefused, Books, PayoutBooks, chain
  <2>5. EscrowBooks' /\ TopUpOnce' BY <1>1, EscrowKept DEF ItemRefused, Books, chain
  <2> QED BY <2>4, <2>5 DEF Books
<1>2. CASE ItemConfirmed(s)
  <2>1. paying = {} /\ payout >= Line(s).amount + Fee BY <1>2 DEF ItemConfirmed, PayoutCanPay
  <2>2. BecomesTx(i, "committed") BY <1>2 DEF ItemConfirmed, i
  <2>3. paying' = {} BY <1>b, <2>1, <2>2 DEF paying
  <2>4. payout' \in Nat BY <1>2, <1>a, <2>1 DEF ItemConfirmed
  <2>5. PayoutBooks' BY <2>3, <2>4 DEF PayoutBooks
  <2>6. EscrowBooks' /\ TopUpOnce' BY <1>2, <1>b, <2>2, EscrowKept DEF ItemConfirmed, Books
  <2> QED BY <2>5, <2>6 DEF Books
<1>3. CASE ItemAccepted(s) \/ ItemMisreported(s)
  <2>1. paying = {} /\ payout >= Line(s).amount + Fee
    BY <1>3 DEF ItemAccepted, ItemMisreported, PayoutCanPay
  <2>2. BecomesTx(i, "pending") BY <1>3 DEF ItemAccepted, ItemMisreported, i
  <2>3. paying' = {i} BY <1>a, <1>b, <2>1, <2>2 DEF paying
  <2>4. PICK resp \in RailResponses : StoreItem(s, resp) /\ ~resp.retryable
    <3>1. /\ ~Response("accepted", FALSE, TRUE).retryable
          /\ ~Response("failed", FALSE, TRUE).retryable
      BY DEF Response
    <3> QED BY <1>3, <3>1, RailTypes DEF ItemAccepted, ItemMisreported
  <2>5. itemRecord'[i] = [body |-> Line(s), resp |-> resp] BY <1>c, <2>4
  <2>6. itemRecord'[i] # NoRecord
    <3>2. Line(s) \in Transfers BY <1>0, LineOfJob DEF TypeInv
    <3>3. itemRecord'[i] \in ItemRecords BY <2>5, <3>2 DEF ItemRecords
    <3> QED BY <3>3, RecordsAssumption
  <2>7. payout' = payout BY <1>3 DEF ItemAccepted, ItemMisreported
  <2>8. PayoutBooks' BY <1>a, <2>1, <2>3, <2>4, <2>5, <2>6, <2>7 DEF PayoutBooks
  <2>9. EscrowBooks' /\ TopUpOnce'
    BY <1>3, <1>b, <2>2, EscrowKept DEF ItemAccepted, ItemMisreported, Books
  <2> QED BY <2>8, <2>9 DEF Books
<1>4. CASE ItemRejected(s)
  <2>1. paying = {} /\ payout >= Line(s).amount + Fee BY <1>4 DEF ItemRejected, PayoutCanPay
  <2>2. \/ UNCHANGED <<payout, tx>>
        \/ payout' = payout - Fee /\ BecomesTx(i, "failed")
    BY <1>4 DEF ItemRejected, i
  <2>3. paying' = {} BY <1>b, <2>1, <2>2 DEF paying
  <2>4. payout' \in Nat BY <1>a, <2>1, <2>2
  <2>5. PayoutBooks' BY <2>3, <2>4 DEF PayoutBooks
  <2>6. \A id \in Ids : tx'[id] = tx[id] BY <1>b, <2>2
  <2>7. EscrowBooks' /\ TopUpOnce' BY <1>4, <2>6, EscrowKept DEF ItemRejected, Books
  <2> QED BY <2>5, <2>7 DEF Books
<1> QED BY <1>1, <1>2, <1>3, <1>4

(* Likewise for the escrow signer; moreover, a top-up that was taken is    *)
(* never sent again.                                                       *)
LEMMA SendsTopUpFresh ==
  ASSUME TypeInv, Books, NEW s \in Settlers, SendsTopUp(s), NEW resp \in RailResponses,
         StoreTopUp(s, resp)
  PROVE  /\ job[s].id \in Ids \ toppingUp
         /\ topUps[job[s].id] = 0
         /\ topUpRecord'[job[s].id] = [amount |-> plan[s].topUp, resp |-> resp]
         /\ topUpRecord'[job[s].id] # NoRecord
         /\ \A id \in Ids \ {job[s].id} : topUpRecord'[id] = topUpRecord[id]
<1>1. job[s].id \in Ids /\ plan[s].topUp \in Nat BY JobTypes DEF SendsTopUp, TypeInv, Plans
<1>2. job[s].id \notin toppingUp BY DEF SendsTopUp, Books, EscrowBooks
<1>3. topUps[job[s].id] = 0 BY <1>1 DEF SendsTopUp, Books, TopUpOnce
<1>4. /\ topUpRecord'[job[s].id] = [amount |-> plan[s].topUp, resp |-> resp]
      /\ \A id \in Ids \ {job[s].id} : topUpRecord'[id] = topUpRecord[id]
  BY <1>1 DEF StoreTopUp, TypeInv, TopUpTypes
<1>5. [amount |-> plan[s].topUp, resp |-> resp] \in TopUpRecords BY <1>1 DEF TopUpRecords
<1> QED BY <1>1, <1>2, <1>3, <1>4, <1>5, RecordsAssumption

LEMMA BooksRefused ==
  ASSUME TypeInv, Books, NEW s \in Settlers, TopUpRefused(s)
  PROVE  Books'
<1> DEFINE id == job[s].id
<1>1. PICK resp \in RailResponses : StoreTopUp(s, resp) BY RailTypes DEF TopUpRefused, EscrowRefusals
<1>2. SendsTopUp(s) BY DEF TopUpRefused
<1>3. /\ id \in Ids \ toppingUp /\ topUps[id] = 0
      /\ \A jd \in Ids \ {id} : topUpRecord'[jd] = topUpRecord[jd]
  BY <1>1, <1>2, SendsTopUpFresh
<1> HIDE DEF id
<1>4. toppingUp' = toppingUp BY DEF TopUpRefused, toppingUp, chain
<1>5. \A jd \in toppingUp : topUpRecord'[jd] = topUpRecord[jd] BY <1>3 DEF toppingUp
<1>6. EscrowBooks' BY <1>4, <1>5 DEF TopUpRefused, Books, EscrowBooks, chain
<1>7. TopUpOnce'
  <2>1. UNCHANGED topUps BY DEF TopUpRefused
  <2>2. \A jd \in Ids : topUps[jd] # 0 => jd # id BY <1>3
  <2> QED BY <2>1, <2>2, <1>3 DEF Books, TopUpOnce
<1>8. PayoutBooks'
  BY PayoutKept DEF TopUpRefused, TypeInv, RunTypes, Books, PayoutBooks, chain, run
<1> QED BY <1>6, <1>7, <1>8 DEF Books

LEMMA BooksFund ==
  ASSUME TypeInv, Books, NEW s \in Settlers,
         TopUpConfirmed(s) \/ TopUpAccepted(s) \/ TopUpRejected(s) \/ TopUpMisreported(s)
  PROVE  Books'
<1> DEFINE id == job[s].id
<1>0. SendsTopUp(s) /\ pc[s] # "idle" /\ UNCHANGED itemRecord
  BY DEF TopUpConfirmed, TopUpAccepted, TopUpRejected, TopUpMisreported, SendsTopUp, run
<1>a. /\ id \in Ids /\ id \notin Items /\ id \in Items \cup Ids /\ plan[s].topUp \in Nat
      /\ Fee \in Nat /\ payout \in Nat /\ escrow \in Nat
  BY <1>0, JobTypes, NamesAssumption, AmountsAssumption
     DEF TypeInv, Books, PayoutBooks, EscrowBooks, Plans
<1>b. \A fate : BecomesTx(id, fate) => /\ \A i \in Items : tx'[i] = tx[i]
                                       /\ tx'[id] = fate
                                       /\ \A jd \in Ids \ {id} : tx'[jd] = tx[jd]
  BY <1>a, BecomesOnly
<1>c. PICK resp \in RailResponses : StoreTopUp(s, resp) /\ ~resp.retryable
  <2>1. /\ ~Response("accepted", FALSE, TRUE).retryable
        /\ ~Response("confirmed", FALSE, TRUE).retryable
        /\ ~Response("failed", FALSE, TRUE).retryable
    BY DEF Response
  <2> QED BY <2>1, RailTypes DEF TopUpConfirmed, TopUpAccepted, TopUpRejected, TopUpMisreported
<1>d. /\ id \notin toppingUp /\ topUps[id] = 0
      /\ topUpRecord'[id] = [amount |-> plan[s].topUp, resp |-> resp]
      /\ topUpRecord'[id] # NoRecord
      /\ \A jd \in Ids \ {id} : topUpRecord'[jd] = topUpRecord[jd]
  BY <1>0, <1>c, SendsTopUpFresh
<1>e. TookTopUp(s) => topUps'[id] = 1 /\ \A jd \in Ids \ {id} : topUps'[jd] = topUps[jd]
  BY <1>a, <1>d DEF TookTopUp, TypeInv, TopUpTypes
<1>f. TopUpOnce'
  <2>1. UNCHANGED topUps \/ TookTopUp(s)
    BY DEF TopUpConfirmed, TopUpAccepted, TopUpRejected, TopUpMisreported
  <2> SUFFICES ASSUME NEW jd \in Ids, topUps'[jd] # 0
               PROVE  topUps'[jd] = 1 /\ topUpRecord'[jd] # NoRecord /\ ~topUpRecord'[jd].resp.retryable
    BY DEF TopUpOnce
  <2>2. CASE jd = id BY <2>1, <2>2, <1>c, <1>d, <1>e
  <2>3. CASE jd # id BY <2>1, <2>3, <1>d, <1>e DEF Books, TopUpOnce
  <2> QED BY <2>2, <2>3
<1>g. toppingUp = {} /\ escrow >= plan[s].topUp + Fee
  BY DEF TopUpConfirmed, TopUpAccepted, TopUpRejected, TopUpMisreported, EscrowCanPay
<1>h. ASSUME payout' \in Nat, payout' >= payout, \A i \in Items : tx'[i] = tx[i] PROVE PayoutBooks'
  BY <1>0, <1>h, PayoutKept DEF TypeInv, RunTypes, Books
<1> HIDE DEF id
<1>1. CASE TopUpConfirmed(s)
  <2>1. BecomesTx(id, "committed") BY <1>1 DEF TopUpConfirmed, id
  <2>2. toppingUp' = {} BY <1>b, <1>g, <2>1 DEF toppingUp
  <2>3. escrow' \in Nat /\ payout' \in Nat /\ payout' >= payout BY <1>1, <1>a, <1>g DEF TopUpConfirmed
  <2>4. EscrowBooks' BY <2>2, <2>3 DEF EscrowBooks
  <2>5. PayoutBooks' BY <1>b, <1>h, <2>1, <2>3
  <2> QED BY <1>f, <2>4, <2>5 DEF Books
<1>2. CASE TopUpAccepted(s) \/ TopUpMisreported(s)
  <2>1. BecomesTx(id, "pending") /\ UNCHANGED <<payout, escrow>>
    BY <1>2 DEF TopUpAccepted, TopUpMisreported, id
  <2>2. toppingUp' = {id} BY <1>a, <1>b, <1>g, <2>1 DEF toppingUp
  <2>3. EscrowBooks' BY <1>a, <1>c, <1>d, <1>g, <2>1, <2>2 DEF EscrowBooks
  <2>4. PayoutBooks' BY <1>a, <1>b, <1>h, <2>1
  <2> QED BY <1>f, <2>3, <2>4 DEF Books
<1>3. CASE TopUpRejected(s)
  <2>1. \/ UNCHANGED <<escrow, tx>>
        \/ escrow' = escrow - Fee /\ BecomesTx(id, "failed")
    BY <1>3 DEF TopUpRejected, id
  <2>2. toppingUp' = {} BY <1>b, <1>g, <2>1 DEF toppingUp
  <2>3. escrow' \in Nat BY <1>a, <1>g, <2>1
  <2>4. EscrowBooks' BY <2>2, <2>3 DEF EscrowBooks
  <2>5. UNCHANGED payout /\ \A i \in Items : tx'[i] = tx[i] BY <1>3, <1>b, <2>1 DEF TopUpRejected
  <2>6. PayoutBooks' BY <1>a, <1>h, <2>5
  <2> QED BY <1>f, <2>4, <2>6 DEF Books
<1> QED BY <1>1, <1>2, <1>3

LEMMA BooksSettle ==
  ASSUME TypeInv, Books,
         (\E i \in Items : SettleItem(i)) \/ (\E id \in Ids : SettleTopUp(id))
  PROVE  Books'
<1>1. ASSUME NEW i \in Items, SettleItem(i) PROVE Books'
  <2>1. i \in paying /\ i \in Items \cup Ids /\ i \notin Ids
    BY <1>1, NamesAssumption DEF SettleItem
  <2>2. itemRecord[i] \in ItemRecords BY <2>1 DEF TypeInv, RunTypes, Books, PayoutBooks
  <2>3. /\ itemRecord[i].body.amount \in Nat /\ Fee \in Nat /\ payout \in Nat
        /\ payout >= itemRecord[i].body.amount + Fee
    BY <2>1, <2>2, AmountsAssumption DEF ItemRecords, Transfers, Books, PayoutBooks
  <2>4. PICK fate \in {"committed", "failed", "dropped"} : BecomesTx(i, fate) BY <1>1 DEF SettleItem
  <2>5. tx'[i] = fate /\ \A other \in (Items \cup Ids) \ {i} : tx'[other] = tx[other]
    BY <2>1, <2>4, BecomesOnly
  <2>6. paying' = {} BY <2>1, <2>4, <2>5 DEF paying, Books, PayoutBooks
  <2>7. payout' \in Nat BY <1>1, <2>3 DEF SettleItem
  <2>8. PayoutBooks' BY <2>6, <2>7 DEF PayoutBooks
  <2>9. \A id \in Ids : tx'[id] = tx[id] BY <2>1, <2>5
  <2>10. EscrowBooks' /\ TopUpOnce' BY <1>1, <2>9, EscrowKept DEF SettleItem, Books
  <2> QED BY <2>8, <2>10 DEF Books
<1>2. ASSUME NEW id \in Ids, SettleTopUp(id) PROVE Books'
  <2>1. id \in toppingUp /\ id \in Items \cup Ids /\ id \notin Items
    BY <1>2, NamesAssumption DEF SettleTopUp
  <2>2. topUpRecord[id] \in TopUpRecords BY <2>1 DEF TypeInv, TopUpTypes, Books, EscrowBooks
  <2>3. /\ topUpRecord[id].amount \in Nat /\ Fee \in Nat /\ payout \in Nat /\ escrow \in Nat
        /\ escrow >= topUpRecord[id].amount + Fee
    BY <2>1, <2>2, AmountsAssumption DEF TopUpRecords, Books, EscrowBooks, PayoutBooks
  <2>4. PICK fate \in {"committed", "failed", "dropped"} : BecomesTx(id, fate) BY <1>2 DEF SettleTopUp
  <2>5. tx'[id] = fate /\ \A other \in (Items \cup Ids) \ {id} : tx'[other] = tx[other]
    BY <2>1, <2>4, BecomesOnly
  <2>6. toppingUp' = {} BY <2>1, <2>4, <2>5 DEF toppingUp, Books, EscrowBooks
  <2>7. escrow' \in Nat /\ payout' \in Nat /\ payout' >= payout BY <1>2, <2>3 DEF SettleTopUp
  <2>8. EscrowBooks' BY <2>6, <2>7 DEF EscrowBooks
  <2>9. TopUpOnce' BY <1>2 DEF SettleTopUp, Books, TopUpOnce, topUp
  <2>10. PayoutBooks'
    BY <1>2, <2>1, <2>5, <2>7, PayoutKept DEF SettleTopUp, TypeInv, RunTypes, Books, run
  <2> QED BY <2>8, <2>9, <2>10 DEF Books
<1> QED BY <1>1, <1>2

(* The other steps leave the books alone.                                  *)
LEMMA QuietSteps ==
  ASSUME NEW s \in Settlers,
         \/ Arrive(s) \/ Enter(s) \/ Leave(s)
         \/ TopUpConflict(s) \/ TopUpReplay(s) \/ TopUpBusy(s) \/ BalanceReached(s) \/ BalancePending(s)
         \/ RunUnavailable(s) \/ RunReplay(s) \/ RunRefused(s) \/ RunProceeds(s) \/ RunEnds(s)
         \/ ItemConflict(s) \/ ItemReplay(s) \/ ItemBusy(s) \/ RailError(s) \/ Crash(s)
  PROVE  UNCHANGED <<chain, topUp, itemRecord>>
<1> USE DEF run
<1>1. CASE Arrive(s)
  BY <1>1 DEF Arrive, SubmitMalformed, SubmitUnfunded, SubmitMisallocated, SubmitRefused, SubmitFunded,
              Submit
<1>2. CASE Enter(s)
  BY <1>2 DEF Enter, CreateLock, LockFails, StatStale, RemoveStale, Conflict, ReadInvalid, Replay,
              StoreRefusal, Proceed
<1>3. CASE Leave(s) BY <1>3 DEF Leave, WriteChallenge, WriteFails, Unlock
<1>4. CASE TopUpConflict(s) \/ TopUpReplay(s) \/ TopUpBusy(s) \/ BalanceReached(s) \/ BalancePending(s)
  BY <1>4 DEF TopUpConflict, TopUpReplay, TopUpBusy, BalanceReached, BalancePending
<1>5. CASE RunUnavailable(s) \/ RunReplay(s) \/ RunRefused(s) \/ RunProceeds(s) \/ RunEnds(s)
  BY <1>5 DEF RunUnavailable, RunReplay, RunRefused, RunProceeds, RunEnds
<1>6. CASE ItemConflict(s) \/ ItemReplay(s) \/ ItemBusy(s) \/ RailError(s) \/ Crash(s)
  BY <1>6 DEF ItemConflict, ItemReplay, ItemBusy, RailError, Crash
<1> QED BY <1>1, <1>2, <1>3, <1>4, <1>5, <1>6

LEMMA BooksNext ==
  ASSUME TypeInv, Books, Next
  PROVE  Books'
<1>1. ASSUME NEW s \in Settlers, Arrive(s) \/ Enter(s) \/ Leave(s) PROVE Books'
  BY <1>1, QuietSteps, QuietKept
<1>2. ASSUME NEW s \in Settlers, FundSigner(s) PROVE Books'
  BY <1>2, QuietSteps, QuietKept, BooksRefused, BooksFund DEF FundSigner
<1>3. ASSUME NEW s \in Settlers, ExecuteRun(s) PROVE Books'
  BY <1>3, QuietSteps, QuietKept, BooksItem DEF ExecuteRun
<1>4. ASSUME Environment PROVE Books'
  <2>1. ASSUME NEW id \in Ids, AgeLock(id) \/ ExpireRunLock(id) PROVE Books'
    BY <2>1, QuietKept DEF AgeLock, ExpireRunLock, run
  <2>2. CASE PowerLoss BY <2>2, QuietKept DEF PowerLoss, run
  <2> QED BY <1>4, <2>1, <2>2, BooksSettle, QuietSteps, QuietKept DEF Environment
<1> QED BY <1>1, <1>2, <1>3, <1>4 DEF Next

LEMMA TypeNext ==
  ASSUME TypeInv, Books, Next
  PROVE  TypeInv'
<1>1. Backed BY BooksBack
<1>2. ASSUME NEW s \in Settlers, ExecuteRun(s) PROVE TypeInv'
  BY <1>2, TypeRun, TypeItem DEF ExecuteRun
<1> QED BY <1>1, <1>2, TypeArrive, TypeEnter, TypeFund, TypeLeave, TypeEnvironment DEF Next

(* Nothing of either invariant depends on more than vars.                  *)
LEMMA TypeStutter == TypeInv /\ Books /\ UNCHANGED vars => TypeInv' /\ Books'
<1> SUFFICES ASSUME TypeInv, Books, UNCHANGED vars PROVE TypeInv' /\ Books' OBVIOUS
<1>1. TypeInv'
  BY LocalKept, FilesKept, RunKept, ChainKept, TopUpKept, BoundsKept
     DEF TypeInv, vars, local, files, run, chain, topUp, bounds
<1>2. Books' BY QuietKept DEF vars, chain, topUp
<1> QED BY <1>1, <1>2

(* The types and the books hold at all times.                              *)
THEOREM BooksSafety == Spec => [](TypeInv /\ Books)
<1>1. Init => TypeInv /\ Books BY TypeInit, BooksInit
<1>2. TypeInv /\ Books /\ [Next]_vars => TypeInv' /\ Books'
  BY TypeNext, BooksNext, TypeStutter
<1> QED BY <1>1, <1>2, PTL DEF Spec

(* Every variable has its type at all times and no balance is overdrawn:   *)
(* preflightExecution, preflightEscrowSigner and the node's own check keep *)
(* the balance of a signer above what its pending transaction will take.   *)
THEOREM ChallengeTypeSafety == Spec => []TypeOK
<1>1. TypeInv /\ Books => TypeOK
  BY DEF TypeInv, LocalTypes, FileTypes, RunTypes, ChainTypes, TopUpTypes, BoundTypes,
         Books, PayoutBooks, EscrowBooks, TypeOK
<1> QED BY <1>1, BooksSafety, PTL

(* Escrow is debited at most once for a settlement id, over any number of  *)
(* retries, crashes and takeovers: a top-up that the node took leaves a    *)
(* record that is never retried (deriveSettlementChallengeTopUpRequestID). *)
THEOREM TopUpSafety == Spec => []EscrowTopsUpOnce
<1>1. TypeInv /\ Books => EscrowTopsUpOnce
  BY DEF TypeInv, TopUpTypes, Books, TopUpOnce, EscrowTopsUpOnce
<1> QED BY <1>1, BooksSafety, PTL

-----------------------------------------------------------------------------
(* What is said of transfers: a line that says executed is about a         *)
(* transfer the rail executed with this payload, in the memory of a        *)
(* settler, in the run record and in the challenge record; a response that *)
(* is ok is about a request in order, all of whose transfers were          *)
(* executed.  It stays true because the record of an executed transfer is  *)
(* never replaced.  Such a line has no more to do (Settled).               *)

PaidIn(records, t) ==
  records[t.item] # NoRecord /\ records[t.item].body = t /\ Executed(records[t.item].resp)

Settled(line) == line.outcome # "invalid" /\ ~line.retryable

LinesTrue(records, lines, ts) ==
  \A k \in DOMAIN lines :
     Executed(lines[k]) => k \in DOMAIN ts /\ PaidIn(records, ts[k]) /\ Settled(lines[k])

OkComplete(req, resp) ==
  RunOK(resp) => /\ req \in InOrder
                 /\ \A k \in Lines(req) : k \in DOMAIN resp.lines /\ Executed(resp.lines[k])

Truthful(records, req, resp) ==
  LinesTrue(records, resp.lines, req.transfers) /\ OkComplete(req, resp)

Executing == {"topup", "await", "run", "pick"}

MemoryTrue(records, place, req, p, res, resp) ==
  /\ place = "idle" => res = << >> /\ resp = NoDraft
  /\ place # "idle" => /\ LinesTrue(records, res, req.transfers)
                       /\ Truthful(records, req, resp)
                       /\ p.ok => req \in InOrder
  /\ place \in Executing => p.ok

Memory == \A s \in Settlers :
            MemoryTrue(itemRecord, pc[s], job[s], plan[s], results[s], draft[s])

RunTruth ==
  \A id \in Ids : runRecord[id] # NoRecord =>
     LinesTrue(itemRecord, runRecord[id].lines, runRecord[id].payload)

RecordTruth ==
  \A id \in Ids : Readable(record[id]) =>
     Truthful(itemRecord, record[id].request, record[id].resp)

Truth == Memory /\ RunTruth /\ RecordTruth

Grows(old, new) == \A t \in Transfers : PaidIn(old, t) => PaidIn(new, t)

LEMMA LinesGrow ==
  ASSUME NEW old, NEW new, Grows(old, new), NEW lines, NEW ts \in Seq(Transfers),
         LinesTrue(old, lines, ts)
  PROVE  LinesTrue(new, lines, ts)
<1> SUFFICES ASSUME NEW k \in DOMAIN lines, Executed(lines[k])
             PROVE  k \in DOMAIN ts /\ PaidIn(new, ts[k]) /\ Settled(lines[k])
  BY DEF LinesTrue
<1>1. k \in DOMAIN ts /\ PaidIn(old, ts[k]) /\ Settled(lines[k]) BY DEF LinesTrue
<1>2. ts[k] \in Transfers BY <1>1
<1> QED BY <1>1, <1>2 DEF Grows

LEMMA TruthfulGrows ==
  ASSUME NEW old, NEW new, Grows(old, new), NEW req \in Requests, NEW resp, Truthful(old, req, resp)
  PROVE  Truthful(new, req, resp)
BY RequestTypes, LinesGrow DEF Truthful

LEMMA MemoryGrows ==
  ASSUME NEW old, NEW new, Grows(old, new), NEW place, NEW req, place # "idle" => req \in Requests,
         NEW p, NEW res, NEW resp, MemoryTrue(old, place, req, p, res, resp)
  PROVE  MemoryTrue(new, place, req, p, res, resp)
BY RequestTypes, LinesGrow, TruthfulGrows DEF MemoryTrue

LEMMA TruthInit == Init => Truth
<1> SUFFICES ASSUME Init PROVE Truth OBVIOUS
<1>1. Memory BY DEF Init, Memory, MemoryTrue, Executing
<1>2. RunTruth BY DEF Init, RunTruth
<1>3. RecordTruth BY DEF Init, RecordTruth, Readable
<1> QED BY <1>1, <1>2, <1>3 DEF Truth

(* The records of executed transfers are kept.                             *)
LEMMA SendGrows ==
  ASSUME TypeInv, Books, NEW s \in Settlers, SendsItem(s), NEW resp \in RailResponses,
         StoreItem(s, resp)
  PROVE  /\ Grows(itemRecord, itemRecord')
         /\ Executed(resp) => PaidIn(itemRecord', Line(s))
<1> DEFINE i == Line(s).item
<1>1. /\ i \in Items
      /\ itemRecord'[i] = [body |-> Line(s), resp |-> resp]
      /\ \A j \in Items \ {i} : itemRecord'[j] = itemRecord[j]
  BY SendsFresh DEF Books
<1>2. \A t \in Transfers : PaidIn(itemRecord, t) => t.item # i
  <2> SUFFICES ASSUME NEW t \in Transfers, PaidIn(itemRecord, t), t.item = i PROVE FALSE
    OBVIOUS
  <2>1. itemRecord[i] \in ItemRecords /\ Executed(itemRecord[i].resp)
    BY <1>1 DEF PaidIn, TypeInv, RunTypes
  <2>2. ~itemRecord[i].resp.retryable
    BY <2>1 DEF ItemRecords, RailResponses, ItemResponses, Executed
  <2> QED BY <2>1, <2>2, RecordsAssumption DEF SendsItem, Stored
<1>3. \A t \in Transfers : t.item \in Items BY DEF Transfers
<1>4. Grows(itemRecord, itemRecord') BY <1>1, <1>2, <1>3 DEF Grows, PaidIn
<1>5. Line(s) \in Transfers BY LineOfJob DEF SendsItem, TypeInv
<1>6. [body |-> Line(s), resp |-> resp] \in ItemRecords BY <1>5 DEF ItemRecords
<1> QED BY <1>1, <1>4, <1>6, RecordsAssumption DEF PaidIn

LEMMA SameGrows == Grows(itemRecord, itemRecord)
BY DEF Grows

(* The memory of a settler over the pieces its steps are made of.          *)
LEMMA OthersKeep ==
  ASSUME TypeInv, Memory, Grows(itemRecord, itemRecord'), NEW s \in Settlers,
         \A v \in Settlers \ {s} : /\ pc'[v] = pc[v] /\ job'[v] = job[v] /\ plan'[v] = plan[v]
                                   /\ results'[v] = results[v] /\ draft'[v] = draft[v],
         MemoryTrue(itemRecord', pc'[s], job'[s], plan'[s], results'[s], draft'[s])
  PROVE  Memory'
<1> SUFFICES ASSUME NEW v \in Settlers \ {s}
             PROVE  MemoryTrue(itemRecord', pc'[v], job'[v], plan'[v], results'[v], draft'[v])
  BY DEF Memory
<1>1. MemoryTrue(itemRecord, pc[v], job[v], plan[v], results[v], draft[v]) BY DEF Memory
<1>2. pc[v] # "idle" => job[v] \in Requests BY JobTypes DEF TypeInv
<1>3. MemoryTrue(itemRecord', pc[v], job[v], plan[v], results[v], draft[v])
  BY <1>1, <1>2, MemoryGrows
<1> QED BY <1>3

LEMMA MemoryOf ==
  ASSUME TypeInv, Memory, NEW s \in Settlers, pc[s] # "idle"
  PROVE  /\ LinesTrue(itemRecord, results[s], job[s].transfers)
         /\ Truthful(itemRecord, job[s], draft[s])
         /\ plan[s].ok => job[s] \in InOrder
         /\ pc[s] \in Executing => plan[s].ok
BY DEF Memory, MemoryTrue

LEMMA GotoKeeps ==
  ASSUME TypeInv, Memory, NEW s \in Settlers, pc[s] # "idle", NEW label, label # "idle",
         Goto(s, label), label \in Executing => plan[s].ok,
         UNCHANGED <<local, itemRecord>>
  PROVE  Memory'
<1>1. pc'[s] = label /\ \A v \in Settlers \ {s} : pc'[v] = pc[v]
  BY DEF TypeInv, LocalTypes, Goto
<1>2. MemoryTrue(itemRecord', pc'[s], job'[s], plan'[s], results'[s], draft'[s])
  BY <1>1, MemoryOf DEF MemoryTrue, local
<1>3. Grows(itemRecord, itemRecord') BY SameGrows
<1> QED BY <1>1, <1>2, <1>3, OthersKeep DEF local

LEMMA AnswerKeeps ==
  ASSUME TypeInv, Memory, NEW s \in Settlers, pc[s] # "idle", NEW resp, Answer(s, resp),
         Truthful(itemRecord, job[s], resp), UNCHANGED <<job, plan, results, itemRecord>>
  PROVE  Memory'
<1>1. /\ pc'[s] = "write" /\ draft'[s] = resp
      /\ \A v \in Settlers \ {s} : pc'[v] = pc[v] /\ draft'[v] = draft[v]
  BY DEF TypeInv, LocalTypes, Answer, Goto
<1>2. MemoryTrue(itemRecord', pc'[s], job'[s], plan'[s], results'[s], draft'[s])
  BY <1>1, MemoryOf DEF MemoryTrue, Executing
<1>3. Grows(itemRecord, itemRecord') BY SameGrows
<1> QED BY <1>1, <1>2, <1>3, OthersKeep

LEMMA StopKeeps ==
  ASSUME TypeInv, Memory, NEW s \in Settlers, Stop(s), UNCHANGED itemRecord
  PROVE  Memory'
<1>1. /\ pc'[s] = "idle" /\ draft'[s] = NoDraft /\ results'[s] = << >>
      /\ \A v \in Settlers \ {s} : /\ pc'[v] = pc[v] /\ job'[v] = job[v] /\ plan'[v] = plan[v]
                                   /\ results'[v] = results[v] /\ draft'[v] = draft[v]
  BY DEF TypeInv, LocalTypes, Stop, Goto
<1>2. MemoryTrue(itemRecord', pc'[s], job'[s], plan'[s], results'[s], draft'[s])
  BY <1>1 DEF MemoryTrue, Executing
<1>3. Grows(itemRecord, itemRecord') BY SameGrows
<1> QED BY <1>1, <1>2, <1>3, OthersKeep

LEMMA CollectKeeps ==
  ASSUME TypeInv, Memory, NEW s \in Settlers, AtLine(s), NEW line, Collect(s, line),
         Grows(itemRecord, itemRecord'),
         Executed(line) => PaidIn(itemRecord', Line(s)) /\ Settled(line),
         UNCHANGED <<pc, job, plan, draft>>
  PROVE  Memory'
<1>1. /\ job[s] \in Requests /\ results[s] \in Seq(LineResults) /\ pc[s] = "pick"
      /\ Current(s) \in Lines(job[s]) /\ Line(s) = job[s].transfers[Current(s)]
      /\ Current(s) = Len(results[s]) + 1
  BY LineOfJob DEF TypeInv, Current
<1>2. /\ results'[s] = Append(results[s], line)
      /\ \A v \in Settlers \ {s} : results'[v] = results[v]
  BY DEF Collect, TypeInv, LocalTypes
<1>3. LinesTrue(itemRecord', results[s], job[s].transfers)
  BY <1>1, MemoryOf, RequestTypes, LinesGrow
<1>4. LinesTrue(itemRecord', results'[s], job[s].transfers)
  <2> SUFFICES ASSUME NEW k \in DOMAIN Append(results[s], line), Executed(Append(results[s], line)[k])
               PROVE  /\ k \in DOMAIN job[s].transfers /\ PaidIn(itemRecord', job[s].transfers[k])
                      /\ Settled(Append(results[s], line)[k])
    BY <1>2 DEF LinesTrue
  <2>1. CASE k = Current(s)
    <3>1. Append(results[s], line)[k] = line BY <1>1, <2>1
    <3> QED BY <1>1, <2>1, <3>1 DEF Lines
  <2>2. CASE k # Current(s)
    <3>1. k \in DOMAIN results[s] /\ Append(results[s], line)[k] = results[s][k] BY <1>1, <2>2
    <3> QED BY <1>3, <3>1 DEF LinesTrue
  <2> QED BY <2>1, <2>2
<1>5. Truthful(itemRecord', job[s], draft[s]) BY <1>1, MemoryOf, TruthfulGrows
<1>6. MemoryTrue(itemRecord', pc'[s], job'[s], plan'[s], results'[s], draft'[s])
  BY <1>1, <1>4, <1>5, MemoryOf DEF MemoryTrue, Executing
<1> QED BY <1>2, <1>6, OthersKeep

(* The two files.                                                          *)
LEMMA RunRecordKept ==
  ASSUME TypeInv, RunTruth, Grows(itemRecord, itemRecord'), UNCHANGED runRecord
  PROVE  RunTruth'
<1> SUFFICES ASSUME NEW id \in Ids, runRecord[id] # NoRecord
             PROVE  LinesTrue(itemRecord', runRecord[id].lines, runRecord[id].payload)
  BY DEF RunTruth
<1>1. runRecord[id] \in RunRecords BY DEF TypeInv, RunTypes
<1>2. runRecord[id].payload \in Seq(Transfers) BY <1>1 DEF RunRecords
<1> QED BY <1>2, LinesGrow DEF RunTruth

LEMMA RecordKept ==
  ASSUME TypeInv, RecordTruth, Grows(itemRecord, itemRecord'), UNCHANGED record
  PROVE  RecordTruth'
<1> SUFFICES ASSUME NEW id \in Ids, Readable(record[id])
             PROVE  Truthful(itemRecord', record[id].request, record[id].resp)
  BY DEF RecordTruth
<1>1. record[id] \in ChallengeRecords BY DEF TypeInv, FileTypes, Readable
<1>2. record[id].request \in Requests BY <1>1 DEF ChallengeRecords
<1> QED BY <1>2, TruthfulGrows DEF RecordTruth

(* What the settlers answer is true when they answer it.                   *)
LEMMA FailedIsTrue ==
  ASSUME LocalTypes, NEW s \in Settlers, pc[s] # "idle", NEW retryable \in BOOLEAN,
         NEW answer \in TopUpResults
  PROVE  Truthful(itemRecord, job[s], FailedResponse(job[s], plan[s], retryable, answer))
<1> DEFINE resp == FailedResponse(job[s], plan[s], retryable, answer)
<1>1. resp.status = "failed" /\ \A k \in DOMAIN resp.lines : ~Executed(resp.lines[k])
  BY JobTypes, FailedTypes
<1> HIDE DEF resp
<1>2. Truthful(itemRecord, job[s], resp) BY <1>1 DEF Truthful, LinesTrue, OkComplete, RunOK
<1> QED BY <1>2 DEF resp

LEMMA MergedIsTrue ==
  ASSUME TypeInv, Memory, NEW s \in Settlers, pc[s] \in Executing, NEW status \in EmbeddedRuns,
         NEW lines \in Seq(LineResults), NEW retryable \in BOOLEAN,
         LinesTrue(itemRecord, lines, job[s].transfers)
  PROVE  Truthful(itemRecord, job[s], MergedResponse(job[s], plan[s], status, lines, retryable))
<1> DEFINE resp == MergedResponse(job[s], plan[s], status, lines, retryable)
<1>1. pc[s] # "idle" BY DEF Executing
<1>2. /\ DOMAIN resp.lines = Lines(job[s])
      /\ \A k \in Lines(job[s]) : Executed(resp.lines[k]) => k \in DOMAIN lines /\ resp.lines[k] = lines[k]
      /\ RunOK(resp) => \A k \in Lines(job[s]) : Executed(resp.lines[k])
  BY <1>1, JobTypes, MergedTypes DEF TypeInv
<1> HIDE DEF resp
<1>3. job[s] \in InOrder BY <1>1, MemoryOf
<1>4. LinesTrue(itemRecord, resp.lines, job[s].transfers) BY <1>2 DEF LinesTrue
<1>5. OkComplete(job[s], resp) BY <1>2, <1>3 DEF OkComplete
<1>6. Truthful(itemRecord, job[s], resp) BY <1>4, <1>5 DEF Truthful
<1> QED BY <1>6 DEF resp

LEMMA FilesTrue ==
  ASSUME TypeInv, Truth, Grows(itemRecord, itemRecord'), UNCHANGED <<runRecord, record>>, Memory'
  PROVE  Truth'
BY RunRecordKept, RecordKept DEF Truth

LEMMA TruthArrive ==
  ASSUME TypeInv, Truth, NEW s \in Settlers, Arrive(s)
  PROVE  Truth'
<1>1. PICK req \in Requests : \/ SubmitMalformed(s, req) \/ SubmitUnfunded(s, req)
                               \/ SubmitMisallocated(s, req) \/ SubmitRefused(s, req)
                               \/ SubmitFunded(s, req)
  BY DEF Arrive
<1>2. PICK p : MaySubmit(s) /\ Submit(s, req, p) /\ (p.ok => req \in InOrder)
  <2>1. /\ \A stage, retryable : ~RefusedPlan(stage, retryable).ok
        /\ \A stage, retryable, e : ~[RefusedPlan(stage, retryable) EXCEPT !.run = e].ok
        /\ \A stage, retryable, e, f : ~[RefusedPlan(stage, retryable) EXCEPT !.run = e, !.topUp = f].ok
    BY DEF RefusedPlan
  <2> HIDE DEF RefusedPlan
  <2>2. CASE SubmitMalformed(s, req) BY <2>1, <2>2 DEF SubmitMalformed
  <2>3. CASE SubmitUnfunded(s, req) BY <2>1, <2>3 DEF SubmitUnfunded
  <2>4. CASE SubmitMisallocated(s, req) BY <2>1, <2>4 DEF SubmitMisallocated
  <2>5. CASE SubmitRefused(s, req) BY <2>1, <2>5 DEF SubmitRefused
  <2>6. CASE SubmitFunded(s, req) BY <2>6 DEF SubmitFunded
  <2> QED BY <1>1, <2>2, <2>3, <2>4, <2>5, <2>6
<1>3. pc[s] = "idle" /\ results[s] = << >> /\ draft[s] = NoDraft
  BY <1>2 DEF MaySubmit, Truth, Memory, MemoryTrue
<1>4. /\ pc'[s] = "lock" /\ job'[s] = req /\ plan'[s] = p /\ results'[s] = << >> /\ draft'[s] = NoDraft
      /\ \A v \in Settlers \ {s} : /\ pc'[v] = pc[v] /\ job'[v] = job[v] /\ plan'[v] = plan[v]
                                   /\ results'[v] = results[v] /\ draft'[v] = draft[v]
      /\ UNCHANGED <<itemRecord, runRecord, record>>
  BY <1>2, <1>3 DEF Submit, Goto, TypeInv, LocalTypes, run, files
<1>5. LinesTrue(itemRecord, << >>, req.transfers) BY DEF LinesTrue
<1>6. Truthful(itemRecord, req, NoDraft)
  BY <1>5 DEF Truthful, OkComplete, RunOK, NoDraft
<1>7. MemoryTrue(itemRecord', pc'[s], job'[s], plan'[s], results'[s], draft'[s])
  BY <1>2, <1>4, <1>5, <1>6 DEF MemoryTrue, Executing
<1>8. Grows(itemRecord, itemRecord') BY <1>4, SameGrows
<1>9. Memory' BY <1>4, <1>7, <1>8, OthersKeep DEF Truth
<1> QED BY <1>4, <1>8, <1>9, FilesTrue

LEMMA TruthEnter ==
  ASSUME TypeInv, Truth, NEW s \in Settlers, Enter(s)
  PROVE  Truth'
<1>0. pc[s] # "idle" /\ UNCHANGED <<itemRecord, runRecord, record>>
  BY DEF Enter, CreateLock, LockFails, StatStale, RemoveStale, Conflict, ReadInvalid, Replay,
         StoreRefusal, Proceed, MayExecute, files, run
<1>1. Memory'
  <2> USE DEF Truth
  <2>1. CASE CreateLock(s) BY <1>0, <2>1, GotoKeeps DEF CreateLock, Executing
  <2>2. CASE LockFails(s) BY <1>0, <2>2, StopKeeps DEF LockFails
  <2>3. CASE StatStale(s) BY <1>0, <2>3, GotoKeeps DEF StatStale, Executing
  <2>4. CASE RemoveStale(s) BY <1>0, <2>4, GotoKeeps DEF RemoveStale, Executing
  <2>5. CASE Conflict(s) BY <1>0, <2>5, GotoKeeps DEF Conflict, Executing
  <2>6. CASE ReadInvalid(s) BY <1>0, <2>6, GotoKeeps DEF ReadInvalid, Executing
  <2>7. CASE Replay(s) BY <1>0, <2>7, GotoKeeps DEF Replay, Executing
  <2>8. CASE StoreRefusal(s)
    <3> DEFINE answer == IF plan[s].topUp > 0 THEN "unanswered" ELSE "none"
    <3>1. answer \in TopUpResults /\ plan[s].retryable \in BOOLEAN
      BY <1>0, JobTypes DEF TopUpResults, TypeInv, Plans
    <3>2. Truthful(itemRecord, job[s], FailedResponse(job[s], plan[s], plan[s].retryable, answer))
      BY <1>0, <3>1, FailedIsTrue DEF TypeInv
    <3> QED BY <1>0, <2>8, <3>2, AnswerKeeps DEF StoreRefusal
  <2>9. CASE Proceed(s)
    <3> DEFINE label == IF plan[s].topUp > 0 THEN "topup" ELSE "run"
    <3>1. Goto(s, label) /\ label # "idle" /\ plan[s].ok /\ UNCHANGED local BY <2>9 DEF Proceed
    <3> HIDE DEF label
    <3> QED BY <1>0, <3>1, GotoKeeps
  <2> QED BY <2>1, <2>2, <2>3, <2>4, <2>5, <2>6, <2>7, <2>8, <2>9 DEF Enter
<1> QED BY <1>0, <1>1, SameGrows, FilesTrue

LEMMA TruthFund ==
  ASSUME TypeInv, Truth, NEW s \in Settlers, FundSigner(s)
  PROVE  Truth'
<1>0. pc[s] \in {"topup", "await"} /\ UNCHANGED <<itemRecord, runRecord, record>>
  BY DEF FundSigner, TopUpConflict, TopUpReplay, TopUpRefused, TopUpConfirmed, TopUpAccepted,
         TopUpRejected, TopUpMisreported, TopUpBusy, BalanceReached, BalancePending, SendsTopUp,
         files, run
<1>a. plan[s].ok BY <1>0, MemoryOf DEF Truth, Executing
<1>b. \A retryable \in BOOLEAN :
        /\ Truthful(itemRecord, job[s], FailedResponse(job[s], plan[s], retryable, "refused"))
        /\ Truthful(itemRecord, job[s], FailedResponse(job[s], plan[s], retryable, "failed"))
  BY <1>0, FailedIsTrue DEF TypeInv, TopUpResults
<1>1. Memory'
  <2> USE DEF Truth
  <2>1. CASE \E label \in {"run", "await"} : Goto(s, label) /\ UNCHANGED local
    BY <1>0, <1>a, <2>1, GotoKeeps
  <2>2. CASE /\ \E retryable \in BOOLEAN, answer \in {"refused", "failed"} :
                   Answer(s, FailedResponse(job[s], plan[s], retryable, answer))
             /\ UNCHANGED <<job, plan, results>>
    BY <1>0, <1>b, <2>2, AnswerKeeps
  <2> QED
    <3>1. CASE TopUpConflict(s) BY <3>1, <2>2 DEF TopUpConflict
    <3>2. CASE TopUpReplay(s) BY <3>2, <2>1, <2>2 DEF TopUpReplay, local
    <3>3. CASE TopUpRefused(s) BY <3>3, <2>2 DEF TopUpRefused, EscrowRefusals
    <3>4. CASE TopUpConfirmed(s) \/ TopUpAccepted(s) BY <3>4, <2>1 DEF TopUpConfirmed, TopUpAccepted
    <3>5. CASE TopUpRejected(s) \/ TopUpMisreported(s) \/ TopUpBusy(s)
      BY <3>5, <2>2 DEF TopUpRejected, TopUpMisreported, TopUpBusy
    <3>6. CASE BalanceReached(s) BY <3>6, <2>1 DEF BalanceReached
    <3>7. CASE BalancePending(s) BY <3>7, <2>2 DEF BalancePending
    <3> QED BY <3>1, <3>2, <3>3, <3>4, <3>5, <3>6, <3>7 DEF FundSigner
<1> QED BY <1>0, <1>1, SameGrows, FilesTrue

LEMMA TruthItem ==
  ASSUME TypeInv, Books, Truth, NEW s \in Settlers,
         \/ ItemConflict(s) \/ ItemReplay(s) \/ ItemRefused(s) \/ ItemConfirmed(s) \/ ItemAccepted(s)
         \/ ItemRejected(s) \/ ItemMisreported(s) \/ ItemBusy(s)
  PROVE  Truth'
<1>0. AtLine(s) /\ UNCHANGED <<pc, job, plan, draft, runRecord, record>>
  BY DEF ItemConflict, ItemReplay, ItemRefused, ItemConfirmed, ItemAccepted, ItemRejected,
         ItemMisreported, ItemBusy, SendsItem, files, run
<1>1. CASE ItemConflict(s) \/ ItemBusy(s)
  <2>1. PICK retryable : Collect(s, Attempted("failed", "refused", retryable)) /\ UNCHANGED itemRecord
    BY <1>1 DEF ItemConflict, ItemBusy, run
  <2>2. ~Executed(Attempted("failed", "refused", retryable)) BY DEF Executed, Attempted
  <2>3. Grows(itemRecord, itemRecord') BY <2>1, SameGrows
  <2> QED BY <1>0, <2>1, <2>2, <2>3, CollectKeeps, FilesTrue DEF Truth
<1>2. CASE ItemReplay(s)
  <2> DEFINE line == Attempted(Stored(s).resp.status, "idempotent_replay", FALSE)
  <2>1. Collect(s, line) /\ UNCHANGED itemRecord BY <1>2 DEF ItemReplay, run
  <2>2. Executed(line) => PaidIn(itemRecord', Line(s)) /\ Settled(line)
    BY <1>2, <2>1 DEF ItemReplay, Executed, Attempted, PaidIn, Stored, Settled
  <2>3. Grows(itemRecord, itemRecord') BY <2>1, SameGrows
  <2> HIDE DEF line
  <2> QED BY <1>0, <2>1, <2>2, <2>3, CollectKeeps, FilesTrue DEF Truth
<1>3. CASE ItemRefused(s) \/ ItemConfirmed(s) \/ ItemAccepted(s) \/ ItemRejected(s) \/ ItemMisreported(s)
  <2>1. PICK resp \in RailResponses : SendsItem(s) /\ StoreItem(s, resp)
    <3>1. CASE ItemRefused(s) BY <3>1, RailTypes DEF ItemRefused, PayoutRefusals
    <3>2. CASE ItemConfirmed(s) \/ ItemAccepted(s) \/ ItemRejected(s) \/ ItemMisreported(s)
      BY <3>2, RailTypes DEF ItemConfirmed, ItemAccepted, ItemRejected, ItemMisreported
    <3> QED BY <1>3, <3>1, <3>2
  <2> DEFINE line == Attempted(resp.status, Outcome(resp), resp.retryable)
  <2>2. Collect(s, line) BY <2>1 DEF StoreItem
  <2>3. Grows(itemRecord, itemRecord') /\ (Executed(resp) => PaidIn(itemRecord', Line(s)))
    BY <2>1, SendGrows
  <2>4. Executed(line) => Executed(resp) /\ Settled(line)
    BY DEF Executed, Attempted, Settled, RailResponses, ItemResponses, Outcome
  <2> HIDE DEF line
  <2> QED BY <1>0, <2>2, <2>3, <2>4, CollectKeeps, FilesTrue DEF Truth
<1> QED BY <1>1, <1>2, <1>3

(* A run record that is written is about the transfers of the request.     *)
LEMMA StoreRunTrue ==
  ASSUME TypeInv, RunTruth, NEW s \in Settlers, pc[s] # "idle", NEW lines, NEW status,
         StoreRun(s, lines, status), LinesTrue(itemRecord, lines, job[s].transfers),
         UNCHANGED itemRecord
  PROVE  RunTruth'
<1>1. job[s].id \in Ids BY JobTypes DEF TypeInv
<1>2. /\ runRecord'[job[s].id] = [payload |-> job[s].transfers, lines |-> lines, status |-> status]
      /\ \A id \in Ids \ {job[s].id} : runRecord'[id] = runRecord[id]
  BY <1>1 DEF StoreRun, TypeInv, RunTypes
<1> SUFFICES ASSUME NEW id \in Ids, runRecord'[id] # NoRecord
             PROVE  LinesTrue(itemRecord', runRecord'[id].lines, runRecord'[id].payload)
  BY DEF RunTruth
<1>3. CASE id = job[s].id BY <1>2, <1>3
<1>4. CASE id # job[s].id BY <1>2, <1>4 DEF RunTruth
<1> QED BY <1>3, <1>4

LEMMA TruthRun ==
  ASSUME TypeInv, Truth, NEW s \in Settlers,
         \/ RunUnavailable(s) \/ RunReplay(s) \/ RunRefused(s) \/ RunProceeds(s) \/ RunEnds(s)
         \/ RailError(s)
  PROVE  Truth'
<1> USE DEF Truth
<1>0. pc[s] \in Executing /\ pc[s] # "idle" /\ UNCHANGED <<itemRecord, record>>
  BY DEF RunUnavailable, RunReplay, RunRefused, RunProceeds, RunEnds, RailError, AtLine, Executing,
         files, run
<1>a. job[s] \in Requests /\ job[s].id \in Ids /\ results[s] \in Seq(LineResults) /\ plan[s].ok
  BY <1>0, JobTypes, MemoryOf DEF TypeInv, LocalTypes
<1>b. Grows(itemRecord, itemRecord') BY <1>0, SameGrows
<1>c. RunStatuses \subseteq EmbeddedRuns /\ "unavailable" \in EmbeddedRuns BY DEF EmbeddedRuns
<1>1. CASE RunUnavailable(s)
  <2>1. LinesTrue(itemRecord, << >>, job[s].transfers) BY DEF LinesTrue
  <2>2. \A retryable \in BOOLEAN :
          Truthful(itemRecord, job[s], MergedResponse(job[s], plan[s], "unavailable", << >>, retryable))
    BY <1>0, <1>c, <2>1, NoValues, MergedIsTrue
  <2>3. Memory' BY <1>0, <1>1, <2>2, AnswerKeeps DEF RunUnavailable
  <2> QED BY <1>0, <1>1, <1>b, <2>3, FilesTrue DEF RunUnavailable, run
<1>2. CASE RunReplay(s)
  <2> DEFINE r == runRecord[job[s].id]
  <2>1. r # NoRecord /\ r \in RunRecords /\ r.payload = job[s].transfers
    BY <1>2, <1>a DEF RunReplay, RunIsFinal, SameRun, Readable, TypeInv, RunTypes
  <2>2. r.status \in EmbeddedRuns /\ r.lines \in Seq(LineResults) BY <2>1, <1>c DEF RunRecords
  <2>3. LinesTrue(itemRecord, r.lines, job[s].transfers) BY <1>a, <2>1 DEF RunTruth
  <2>4. Truthful(itemRecord, job[s], MergedResponse(job[s], plan[s], r.status, r.lines, FALSE))
    BY <1>0, <2>2, <2>3, MergedIsTrue
  <2>5. Memory' BY <1>0, <1>2, <2>4, AnswerKeeps DEF RunReplay
  <2> QED BY <1>0, <1>2, <1>b, <2>5, FilesTrue DEF RunReplay, run
<1>3. CASE RunRefused(s)
  <2>1. PICK retryable \in BOOLEAN :
          LET lines == [k \in Lines(job[s]) |-> Unattempted("refused", retryable)] IN
          /\ StoreRun(s, lines, "failed")
          /\ Answer(s, MergedResponse(job[s], plan[s], "failed", lines, retryable))
    BY <1>3 DEF RunRefused
  <2> DEFINE lines == [k \in Lines(job[s]) |-> Unattempted("refused", retryable)]
  <2>2. lines \in Seq(LineResults) BY <1>a, RefusedLines
  <2>3. StoreRun(s, lines, "failed") /\ Answer(s, MergedResponse(job[s], plan[s], "failed", lines, retryable))
    BY <2>1
  <2>4. LinesTrue(itemRecord, lines, job[s].transfers) BY DEF LinesTrue, Executed, Unattempted
  <2> HIDE DEF lines
  <2>5. RunTruth' BY <1>0, <2>3, <2>4, StoreRunTrue
  <2>6. Truthful(itemRecord, job[s], MergedResponse(job[s], plan[s], "failed", lines, retryable))
    BY <1>0, <1>c, <2>2, <2>4, MergedIsTrue DEF RunStatuses
  <2>7. Memory' BY <1>0, <1>3, <2>3, <2>6, AnswerKeeps DEF RunRefused
  <2> QED BY <1>0, <1>b, <2>5, <2>7, RecordKept
<1>4. CASE RunProceeds(s)
  <2>1. Memory' BY <1>0, <1>4, <1>a, GotoKeeps DEF RunProceeds
  <2> QED BY <1>0, <1>4, <1>b, <2>1, FilesTrue DEF RunProceeds
<1>5. CASE RunEnds(s)
  <2> DEFINE status == deriveSettlementRunStatus(Len(job[s].transfers), results[s])
             retryable == \E k \in Lines(job[s]) : results[s][k].retryable
  <2>1. status \in RunStatuses /\ retryable \in BOOLEAN BY <1>a, StatusOfResults
  <2>2. /\ StoreRun(s, results[s], status)
        /\ Answer(s, MergedResponse(job[s], plan[s], status, results[s], retryable))
    BY <1>5 DEF RunEnds
  <2> HIDE DEF status, retryable
  <2>3. LinesTrue(itemRecord, results[s], job[s].transfers) BY <1>0, MemoryOf
  <2>4. RunTruth' BY <1>0, <2>2, <2>3, StoreRunTrue
  <2>5. Truthful(itemRecord, job[s], MergedResponse(job[s], plan[s], status, results[s], retryable))
    BY <1>0, <1>a, <1>c, <2>1, <2>3, MergedIsTrue
  <2>6. Memory' BY <1>0, <1>5, <2>2, <2>5, AnswerKeeps DEF RunEnds
  <2> QED BY <1>0, <1>b, <2>4, <2>6, RecordKept
<1>6. CASE RailError(s)
  <2>1. Memory' BY <1>0, <1>6, <1>a, GotoKeeps DEF RailError
  <2> QED BY <1>0, <1>6, <1>b, <2>1, FilesTrue DEF RailError
<1> QED BY <1>1, <1>2, <1>3, <1>4, <1>5, <1>6

LEMMA TruthLeave ==
  ASSUME TypeInv, Truth, NEW s \in Settlers, Leave(s)
  PROVE  Truth'
<1> USE DEF Truth
<1>0. pc[s] # "idle" /\ UNCHANGED <<itemRecord, runRecord>>
  BY DEF Leave, WriteChallenge, WriteFails, Unlock, run
<1>a. Grows(itemRecord, itemRecord') BY <1>0, SameGrows
<1>1. CASE WriteChallenge(s)
  <2> DEFINE new == [fingerprint |-> Fingerprint(job[s], plan[s].stage), resp |-> draft[s],
                     request |-> job[s]]
  <2>1. Memory' BY <1>0, <1>1, GotoKeeps DEF WriteChallenge, Executing
  <2>2. job[s].id \in Ids /\ Truthful(itemRecord, job[s], draft[s])
    BY <1>0, JobTypes, MemoryOf DEF TypeInv
  <2>3. record'[job[s].id] = new /\ \A id \in Ids \ {job[s].id} : record'[id] = record[id]
    BY <1>1, <2>2 DEF WriteChallenge, TypeInv, FileTypes
  <2>4. RecordTruth'
    <3> SUFFICES ASSUME NEW id \in Ids, Readable(record'[id])
                 PROVE  Truthful(itemRecord', record'[id].request, record'[id].resp)
      BY DEF RecordTruth
    <3>1. CASE id = job[s].id BY <1>0, <2>2, <2>3, <3>1
    <3>2. CASE id # job[s].id BY <1>0, <2>3, <3>2 DEF RecordTruth
    <3> QED BY <3>1, <3>2
  <2> QED BY <1>0, <1>a, <2>1, <2>4, RunRecordKept
<1>2. CASE WriteFails(s)
  <2>1. Memory' BY <1>0, <1>2, GotoKeeps DEF WriteFails, Executing
  <2> QED BY <1>0, <1>a, <1>2, <2>1, FilesTrue DEF WriteFails, files
<1>3. CASE Unlock(s)
  <2>1. Memory' BY <1>0, <1>3, StopKeeps DEF Unlock
  <2> QED BY <1>0, <1>a, <1>3, <2>1, FilesTrue DEF Unlock
<1> QED BY <1>1, <1>2, <1>3 DEF Leave

LEMMA TruthEnvironment ==
  ASSUME TypeInv, Truth, Environment
  PROVE  Truth'
<1> USE DEF Truth
<1>0. UNCHANGED <<itemRecord, runRecord>>
  BY DEF Environment, AgeLock, ExpireRunLock, SettleTopUp, SettleItem, Crash, PowerLoss, run
<1>a. Grows(itemRecord, itemRecord') BY <1>0, SameGrows
<1>1. CASE UNCHANGED <<pc, local, record>>
  <2>1. Memory' BY <1>0, <1>1 DEF Memory, MemoryTrue, local
  <2> QED BY <1>0, <1>1, <1>a, <2>1, FilesTrue
<1>2. ASSUME NEW s \in Settlers, Crash(s) PROVE Truth'
  <2>1. Memory' BY <1>0, <1>2, StopKeeps DEF Crash
  <2> QED BY <1>0, <1>2, <1>a, <2>1, FilesTrue DEF Crash, files
<1>3. CASE PowerLoss
  <2>1. Memory' BY <1>3 DEF PowerLoss, Memory, MemoryTrue, Executing
  <2>2. \A id \in Ids : record'[id] = record[id] \/ ~Readable(record'[id])
    BY <1>3 DEF PowerLoss, Readable
  <2>3. RecordTruth' BY <1>0, <2>2 DEF RecordTruth
  <2> QED BY <1>0, <1>a, <2>1, <2>3, RunRecordKept
<1> QED BY <1>1, <1>2, <1>3 DEF Environment, AgeLock, ExpireRunLock, SettleTopUp, SettleItem, files

LEMMA TruthNext ==
  ASSUME TypeInv, Books, Truth, [Next]_vars
  PROVE  Truth'
<1>1. ASSUME NEW s \in Settlers, ExecuteRun(s) PROVE Truth'
  BY <1>1, TruthRun, TruthItem DEF ExecuteRun
<1>2. CASE UNCHANGED vars
  <2>1. Memory' BY <1>2 DEF vars, Truth, Memory, MemoryTrue
  <2> QED BY <1>2, <2>1, SameGrows, FilesTrue DEF vars
<1> QED BY <1>1, <1>2, TruthArrive, TruthEnter, TruthFund, TruthLeave, TruthEnvironment DEF Next

(* What settlers and files say of transfers is true at all times.          *)
THEOREM TruthSafety == Spec => []Truth
<1>1. Init => Truth BY TruthInit
<1>2. TypeInv /\ Books /\ Truth /\ [Next]_vars => Truth' BY TruthNext
<1> QED BY <1>1, <1>2, BooksSafety, PTL DEF Spec

(* A transfer that a stored challenge reports as executed was executed by  *)
(* the rail with this transfer's payload, over any crashes, takeovers and  *)
(* conflicting submissions (mergeChallengeRunResults).                     *)
THEOREM ReportedTransfersSafety == Spec => []ReportedTransfersAreExecuted
<1>1. Truth => ReportedTransfersAreExecuted
  BY DEF Truth, RecordTruth, Truthful, LinesTrue, PaidIn, ReportedTransfersAreExecuted, Paid, Recorded
<1> QED BY <1>1, TruthSafety, PTL

(* The transfers of a request in order are told apart by their ids, so the *)
(* sum over the lines is the sum over the transfers that were paid.        *)
LEMMA OneLineEach ==
  ASSUME NEW req \in InOrder
  PROVE  \A k, j \in Lines(req) : req.transfers[k].item = req.transfers[j].item => k = j
<1> SUFFICES ASSUME NEW k \in Lines(req), NEW j \in Lines(req),
                    req.transfers[k].item = req.transfers[j].item, k # j
             PROVE  FALSE
  OBVIOUS
<1>1. req \in Requests /\ \A l \in Lines(req) : LineValid(req, l)
  BY DEF InOrder, TransfersValid
<1>2. Lines(req) = 1..Len(req.transfers) /\ Len(req.transfers) \in Nat BY <1>1, RequestTypes
<1>3. CASE j < k
  <2>1. j \in 1..(k - 1) BY <1>2, <1>3
  <2> QED BY <1>1, <2>1 DEF LineValid
<1>4. CASE k < j
  <2>1. k \in 1..(j - 1) BY <1>2, <1>4
  <2> QED BY <1>1, <2>1 DEF LineValid
<1> QED BY <1>2, <1>3, <1>4

(* The amounts of some transfers, by line and by transfer.                 *)
LEMMA LinesAddUp ==
  ASSUME NEW req \in InOrder, NEW S \in SUBSET Lines(req)
  PROVE  SumFunctionOnSet([t \in Range(req.transfers) |-> t.amount], {req.transfers[k] : k \in S})
           = SumFunctionOnSet(Amounts(req), S)
<1> DEFINE f == Amounts(req)
           g == [t \in Range(req.transfers) |-> t.amount]
           h == req.transfers
<1>1. req \in Requests BY DEF InOrder
<1>2. IsFiniteSet(Lines(req)) /\ \A k \in Lines(req) : req.transfers[k].amount \in Nat
  BY <1>1, RequestTypes
<1>3. IsFiniteSet(S) BY <1>2, SubsetSize
<1>4. \A k \in S : f[k] \in Nat BY <1>2 DEF Amounts
<1>5. \A k \in S : g[h[k]] = f[k] BY DEF Amounts, Range, Lines
<1>6. \A k, j \in S : h[k] = h[j] => k = j BY OneLineEach
<1> HIDE DEF f, g, h
<1>7. SumFunctionOnSet(g, {h[k] : k \in S}) = SumFunctionOnSet(f, S)
  BY <1>3, <1>4, <1>5, <1>6, SumRenamed
<1> QED BY <1>7 DEF f, g, h

LEMMA PaidAddsUp ==
  ASSUME NEW req \in InOrder, NEW d \in Funded(req), NEW bucket,
         \A k \in Lines(req) : Paid(req.transfers[k])
  PROVE  SumFunctionOnSet([t \in Range(req.transfers) |-> t.amount],
                          {t \in Range(req.transfers) :
                             t.party = d.party /\ t.bucket = bucket /\ Paid(t)})
           = Allocated(req, d, bucket)
<1> DEFINE S == {k \in Lines(req) : /\ req.transfers[k].good
                                    /\ req.transfers[k].party = d.party
                                    /\ req.transfers[k].bucket = bucket}
           P == {t \in Range(req.transfers) : t.party = d.party /\ t.bucket = bucket /\ Paid(t)}
<1>1. \A k \in Lines(req) : req.transfers[k].good BY DEF InOrder, TransfersValid, LineValid
<1>2. P = {req.transfers[k] : k \in S} BY <1>1 DEF Range, Lines
<1>3. S \in SUBSET Lines(req) OBVIOUS
<1>4. Allocated(req, d, bucket) = SumFunctionOnSet(Amounts(req), S) BY DEF Allocated
<1> HIDE DEF S, P
<1>5. SumFunctionOnSet([t \in Range(req.transfers) |-> t.amount], P) = Allocated(req, d, bucket)
  BY <1>2, <1>3, <1>4, LinesAddUp
<1> QED BY <1>5 DEF P

(* A challenge stored as ok has paid out every bucket of every deposit it  *)
(* was funded with, exactly, and nothing of the deposit is left over       *)
(* ("allocates each verified bucket exactly once",                         *)
(* executeSettlementChallenge): for any number of deposits and transfers.  *)
THEOREM OkChallengeSafety == Spec => []OkChallengePaysEveryBucket
<1>1. TypeInv /\ Truth => OkChallengePaysEveryBucket
  <2> SUFFICES ASSUME TypeInv, Truth, NEW id \in Ids, Recorded(id), RunOK(record[id].resp),
                      NEW d \in Funded(record[id].request)
               PROVE  LET req == record[id].request
                          PaidOf(e, bucket) ==
                            SumFunctionOnSet([t \in Range(req.transfers) |-> t.amount],
                                             {t \in Range(req.transfers) :
                                                t.party = e.party /\ t.bucket = bucket /\ Paid(t)})
                      IN /\ PaidOf(d, "wager") = d.wager
                         /\ PaidOf(d, "guarantee") = d.guarantee
                         /\ PaidOf(d, "wager") + PaidOf(d, "guarantee") = d.total
    BY DEF OkChallengePaysEveryBucket
  <2> DEFINE req == record[id].request
             PaidOf(bucket) ==
               SumFunctionOnSet([t \in Range(req.transfers) |-> t.amount],
                                {t \in Range(req.transfers) :
                                   t.party = d.party /\ t.bucket = bucket /\ Paid(t)})
  <2>1. Truthful(itemRecord, req, record[id].resp) BY DEF Truth, RecordTruth, Recorded
  <2>2. req \in InOrder /\ \A k \in Lines(req) : Paid(req.transfers[k])
    BY <2>1 DEF Truthful, LinesTrue, OkComplete, PaidIn, Paid
  <2>3. /\ Allocated(req, d, "wager") = d.wager /\ Allocated(req, d, "guarantee") = d.guarantee
        /\ d.wager + d.guarantee = d.total
    BY <2>2 DEF InOrder, AllocatesExactly, FundingVerifies, MemoVerifies
  <2> HIDE DEF req
  <2>4. PaidOf("wager") = Allocated(req, d, "wager") /\ PaidOf("guarantee") = Allocated(req, d, "guarantee")
    BY <2>2, PaidAddsUp DEF req
  <2> HIDE DEF PaidOf
  <2>5. /\ PaidOf("wager") = d.wager /\ PaidOf("guarantee") = d.guarantee
        /\ PaidOf("wager") + PaidOf("guarantee") = d.total
    BY <2>3, <2>4
  <2> QED BY <2>5 DEF PaidOf, req
<1> QED BY <1>1, BooksSafety, TruthSafety, PTL

-----------------------------------------------------------------------------
(* The lock.  Unless it was taken from a live attempt, whoever is inside   *)
(* is the one it names; and a settler that got past the record works on a  *)
(* challenge that is not final.                                            *)

IsFinal(r) == Readable(r) /\ settlementChallengeResponseIsFinal(r.resp)

LockHeld == \A s \in Settlers :
  pc[s] \in Section /\ job[s].id \notin contested => lock[job[s].id] = s

WorksOnOpen == \A s \in Settlers :
  pc[s] \in Section \ {"read", "unlock"} /\ job[s].id \notin contested => ~IsFinal(record[job[s].id])

LockInv == LockHeld /\ WorksOnOpen

LEMMA LockInit == Init => LockInv
BY DEF Init, LockInv, LockHeld, WorksOnOpen, Section

(* A settler moves on inside the lock, or to its end.                      *)
LEMMA InsideKeeps ==
  ASSUME TypeInv, LockInv, NEW s \in Settlers, pc[s] \in Section, UNCHANGED <<job, files>>,
         \A v \in Settlers \ {s} : pc'[v] = pc[v],
         \/ pc'[s] = "unlock"
         \/ pc[s] \notin {"read", "unlock"} /\ pc'[s] \in Section
         \/ pc[s] = "read" /\ ~IsFinal(record[job[s].id]) /\ pc'[s] \in Section
  PROVE  LockInv'
BY DEF LockInv, LockHeld, WorksOnOpen, IsFinal, Readable, files

LEMMA OutsideKeeps ==
  ASSUME TypeInv, LockInv, NEW s \in Settlers, UNCHANGED files,
         pc'[s] \notin Section, \A v \in Settlers \ {s} : pc'[v] = pc[v] /\ job'[v] = job[v]
  PROVE  LockInv'
BY DEF LockInv, LockHeld, WorksOnOpen, IsFinal, Readable, files

LEMMA SameKeeps ==
  ASSUME LockInv, UNCHANGED <<pc, job, lock, record, contested>>
  PROVE  LockInv'
BY DEF LockInv, LockHeld, WorksOnOpen, IsFinal, Readable

LEMMA Moves ==
  ASSUME TypeInv, NEW s \in Settlers, NEW label, Goto(s, label)
  PROVE  pc'[s] = label /\ \A v \in Settlers \ {s} : pc'[v] = pc[v]
BY DEF TypeInv, LocalTypes, Goto

LEMMA Stops ==
  ASSUME TypeInv, NEW s \in Settlers, Stop(s)
  PROVE  pc'[s] = "idle" /\ \A v \in Settlers \ {s} : pc'[v] = pc[v] /\ job'[v] = job[v]
BY Moves DEF TypeInv, LocalTypes, Stop

LEMMA LockArrive ==
  ASSUME TypeInv, LockInv, NEW s \in Settlers, Arrive(s)
  PROVE  LockInv'
<1>0. PICK req \in Requests : \E p : Submit(s, req, p)
  BY DEF Arrive, SubmitMalformed, SubmitUnfunded, SubmitMisallocated, SubmitRefused, SubmitFunded
<1>1. PICK p : Submit(s, req, p) BY <1>0
<1>2. pc'[s] = "lock" /\ \A v \in Settlers \ {s} : pc'[v] = pc[v] BY <1>1, Moves DEF Submit
<1>3. UNCHANGED files /\ \A v \in Settlers \ {s} : job'[v] = job[v]
  BY <1>1 DEF Submit, TypeInv, LocalTypes
<1> QED BY <1>2, <1>3, OutsideKeeps DEF Section

LEMMA LockEnter ==
  ASSUME TypeInv, LockInv, NEW s \in Settlers, Enter(s)
  PROVE  LockInv'
<1> DEFINE id == job[s].id
<1>0. pc[s] # "idle" /\ id \in Ids /\ \A v \in Settlers : pc[v] # "idle" => job[v].id \in Ids
  <2>1. pc[s] # "idle"
    BY DEF Enter, CreateLock, LockFails, StatStale, RemoveStale, Conflict, ReadInvalid, Replay,
           StoreRefusal, Proceed, MayExecute
  <2> QED BY <2>1, JobTypes DEF TypeInv
<1>1. CASE CreateLock(s)
  <2>1. pc'[s] = "read" /\ \A v \in Settlers \ {s} : pc'[v] = pc[v] BY <1>1, Moves DEF CreateLock
  <2>2. lock'[id] = s /\ lock[id] = NoLock /\ UNCHANGED <<job, record, contested>>
    BY <1>0, <1>1 DEF CreateLock, TypeInv, FileTypes, local
  <2>3. \A jd \in Ids \ {id} : lock'[jd] = lock[jd] BY <1>1 DEF CreateLock, TypeInv, FileTypes
  <2>4. LockHeld'
    <3> SUFFICES ASSUME NEW v \in Settlers, pc'[v] \in Section, job[v].id \notin contested
                 PROVE  lock'[job[v].id] = v
      BY <2>2 DEF LockHeld
    <3>1. CASE v = s BY <2>2, <3>1
    <3>2. CASE v # s
      <4>1. pc[v] \in Section /\ pc[v] # "idle" BY <2>1, <3>2 DEF Section
      <4>2. lock[job[v].id] = v /\ job[v].id \in Ids BY <1>0, <4>1 DEF LockInv, LockHeld
      <4>3. job[v].id # id BY <2>2, <4>2, NilAssumption
      <4> QED BY <2>3, <4>2, <4>3
    <3> QED BY <3>1, <3>2
  <2>5. WorksOnOpen' BY <2>1, <2>2 DEF LockInv, WorksOnOpen, IsFinal, Readable
  <2> QED BY <2>4, <2>5 DEF LockInv
<1>2. CASE LockFails(s) BY <1>2, Stops, OutsideKeeps DEF LockFails, Section
<1>3. CASE StatStale(s) BY <1>3, Moves, OutsideKeeps DEF StatStale, Section, local
<1>4. CASE RemoveStale(s)
  <2>1. pc'[s] = "lock" /\ \A v \in Settlers \ {s} : pc'[v] = pc[v] BY <1>4, Moves DEF RemoveStale
  <2>2. /\ \A jd \in Ids \ {id} : lock'[jd] = lock[jd]
        /\ UNCHANGED <<job, record>> /\ contested \subseteq contested'
        /\ \A v \in Settlers : pc[v] \in Section /\ job[v].id = id => id \in contested'
    BY <1>4 DEF RemoveStale, TypeInv, FileTypes, local, InSection
  <2>3. LockHeld'
    <3> SUFFICES ASSUME NEW v \in Settlers, pc'[v] \in Section, job[v].id \notin contested'
                 PROVE  lock'[job[v].id] = v
      BY <2>2 DEF LockHeld
    <3>1. v # s /\ pc[v] \in Section BY <2>1 DEF Section
    <3>2. job[v].id # id /\ job[v].id \in Ids BY <1>0, <2>2, <3>1 DEF Section
    <3>3. lock[job[v].id] = v BY <2>2, <3>1 DEF LockInv, LockHeld
    <3> QED BY <2>2, <3>2, <3>3
  <2>4. WorksOnOpen' BY <2>1, <2>2 DEF LockInv, WorksOnOpen, IsFinal, Readable, Section
  <2> QED BY <2>3, <2>4 DEF LockInv
<1>5. CASE Conflict(s) \/ ReadInvalid(s) \/ Replay(s)
  <2>1. pc[s] = "read" /\ Goto(s, "unlock") /\ UNCHANGED <<job, files>>
    BY <1>5 DEF Conflict, ReadInvalid, Replay, local
  <2> QED BY <2>1, Moves, InsideKeeps DEF Section
<1>6. CASE StoreRefusal(s) \/ Proceed(s)
  <2>1. pc[s] = "read" /\ ~IsFinal(record[id])
    BY <1>6 DEF StoreRefusal, Proceed, MayExecute, IsFinal, Readable
  <2>2. PICK label \in Section : Goto(s, label)
    BY <1>6 DEF StoreRefusal, Proceed, Answer, Section
  <2>3. UNCHANGED <<job, files>> BY <1>6 DEF StoreRefusal, Proceed, local
  <2> QED BY <2>1, <2>2, <2>3, Moves, InsideKeeps DEF Section
<1> QED BY <1>1, <1>2, <1>3, <1>4, <1>5, <1>6 DEF Enter

LEMMA LockInside ==
  ASSUME TypeInv, LockInv, NEW s \in Settlers, FundSigner(s) \/ ExecuteRun(s)
  PROVE  LockInv'
<1>1. CASE /\ pc[s] \in Section \ {"read", "unlock"}
           /\ \E label \in Section : Goto(s, label)
           /\ UNCHANGED <<job, files>>
  BY <1>1, Moves, InsideKeeps
<1>2. CASE UNCHANGED <<pc, job, files>>
  BY <1>2, SameKeeps DEF files
<1>3. CASE FundSigner(s)
  BY <1>1, <1>3 DEF FundSigner, TopUpConflict, TopUpReplay, TopUpRefused, TopUpConfirmed, TopUpAccepted,
         TopUpRejected, TopUpMisreported, TopUpBusy, BalanceReached, BalancePending, SendsTopUp,
         Answer, Section, local
<1>4. CASE ExecuteRun(s)
  <2>1. CASE RunUnavailable(s) \/ RunReplay(s) \/ RunRefused(s) \/ RunProceeds(s) \/ RailError(s)
             \/ RunEnds(s)
    BY <1>1, <2>1 DEF RunUnavailable, RunReplay, RunRefused, RunProceeds, RunEnds, RailError, AtLine,
           Answer, Section, local
  <2>2. CASE \/ ItemConflict(s) \/ ItemReplay(s) \/ ItemRefused(s) \/ ItemConfirmed(s)
             \/ ItemAccepted(s) \/ ItemRejected(s) \/ ItemMisreported(s) \/ ItemBusy(s)
    BY <1>2, <2>2 DEF ItemConflict, ItemReplay, ItemRefused, ItemConfirmed, ItemAccepted,
           ItemRejected, ItemMisreported, ItemBusy
  <2> QED BY <1>4, <2>1, <2>2 DEF ExecuteRun
<1> QED BY <1>3, <1>4

(* The record that is written is of a challenge nobody else is inside.     *)
LEMMA LockLeave ==
  ASSUME TypeInv, LockInv, NEW s \in Settlers, Leave(s)
  PROVE  LockInv'
<1> DEFINE id == job[s].id
<1>0. pc[s] \in Section /\ pc[s] # "idle" /\ id \in Ids
  <2>1. pc[s] \in Section /\ pc[s] # "idle" BY DEF Leave, WriteChallenge, WriteFails, Unlock, Section
  <2> QED BY <2>1, JobTypes DEF TypeInv
<1>a. \A v \in Settlers \ {s} : pc[v] \in Section /\ job[v].id \notin contested => job[v].id # id
  BY <1>0 DEF LockInv, LockHeld
<1>b. \A v \in Settlers : pc[v] \in Section => job[v].id \in Ids
  <2>1. \A v \in Settlers : pc[v] \in Section => pc[v] # "idle" BY DEF Section
  <2> QED BY <2>1, JobTypes DEF TypeInv
<1>1. CASE WriteChallenge(s)
  <2>1. pc'[s] = "unlock" /\ \A v \in Settlers \ {s} : pc'[v] = pc[v] BY <1>1, Moves DEF WriteChallenge
  <2>2. UNCHANGED <<job, lock, contested>> /\ \A jd \in Ids \ {id} : record'[jd] = record[jd]
    BY <1>1 DEF WriteChallenge, TypeInv, FileTypes, local
  <2>3. LockHeld' BY <1>0, <2>1, <2>2 DEF LockInv, LockHeld
  <2>4. WorksOnOpen'
    <3> SUFFICES ASSUME NEW v \in Settlers, pc'[v] \in Section \ {"read", "unlock"},
                        job[v].id \notin contested
                 PROVE  ~IsFinal(record'[job[v].id])
      BY <2>2 DEF WorksOnOpen, IsFinal, Readable
    <3>1. v # s /\ pc[v] = pc'[v] BY <2>1
    <3>2. job[v].id # id /\ job[v].id \in Ids BY <1>a, <1>b, <3>1
    <3>3. record'[job[v].id] = record[job[v].id] BY <2>2, <3>2
    <3>4. ~IsFinal(record[job[v].id]) BY <3>1 DEF LockInv, WorksOnOpen
    <3> QED BY <3>3, <3>4
  <2> QED BY <2>3, <2>4 DEF LockInv
<1>2. CASE WriteFails(s) BY <1>0, <1>2, Moves, InsideKeeps DEF WriteFails, local
<1>3. CASE Unlock(s)
  <2>1. pc'[s] = "idle" /\ \A v \in Settlers \ {s} : pc'[v] = pc[v] /\ job'[v] = job[v]
    BY <1>3, Stops DEF Unlock
  <2>2. UNCHANGED <<record, contested>> /\ \A jd \in Ids \ {id} : lock'[jd] = lock[jd]
    BY <1>3 DEF Unlock, TypeInv, FileTypes
  <2>3. LockHeld'
    <3> SUFFICES ASSUME NEW v \in Settlers, pc'[v] \in Section, job'[v].id \notin contested
                 PROVE  lock'[job'[v].id] = v
      BY <2>2 DEF LockHeld
    <3>1. v # s BY <2>1 DEF Section
    <3>2. pc[v] \in Section /\ job'[v] = job[v] BY <2>1, <3>1
    <3>3. job[v].id # id /\ job[v].id \in Ids BY <1>a, <1>b, <3>1, <3>2
    <3> QED BY <2>2, <3>2, <3>3 DEF LockInv, LockHeld
  <2>4. WorksOnOpen' BY <2>1, <2>2 DEF LockInv, WorksOnOpen, IsFinal, Readable, Section
  <2> QED BY <2>3, <2>4 DEF LockInv
<1> QED BY <1>1, <1>2, <1>3 DEF Leave

LEMMA LockEnvironment ==
  ASSUME TypeInv, LockInv, Environment
  PROVE  LockInv'
<1>1. CASE UNCHANGED <<pc, local, lock, record, contested>> BY <1>1, SameKeeps DEF local
<1>2. ASSUME NEW s \in Settlers, Crash(s) PROVE LockInv'
  BY <1>2, Stops, OutsideKeeps DEF Crash, Section
<1>3. CASE PowerLoss BY <1>3 DEF PowerLoss, LockInv, LockHeld, WorksOnOpen, Section
<1> QED BY <1>1, <1>2, <1>3 DEF Environment, AgeLock, ExpireRunLock, SettleTopUp, SettleItem, files

LEMMA LockNext ==
  ASSUME TypeInv, LockInv, [Next]_vars
  PROVE  LockInv'
<1>1. CASE UNCHANGED vars BY <1>1, SameKeeps DEF vars
<1> QED BY <1>1, LockArrive, LockEnter, LockInside, LockLeave, LockEnvironment DEF Next

(* The challenge lock does its work outside contested ids.                 *)
THEOREM ChallengeLockSafety == Spec => []LockInv
<1>1. Init => LockInv BY LockInit
<1>2. TypeInv /\ LockInv /\ [Next]_vars => LockInv' BY LockNext
<1> QED BY <1>1, <1>2, BooksSafety, PTL DEF Spec

(* Only WriteChallenge and PowerLoss change a record.                      *)
LEMMA RecordSteps ==
  ASSUME Next
  PROVE  UNCHANGED record \/ PowerLoss \/ \E s \in Settlers : WriteChallenge(s)
<1> USE DEF files
<1>1. ASSUME NEW s \in Settlers, Arrive(s) PROVE UNCHANGED record
  BY <1>1 DEF Arrive, SubmitMalformed, SubmitUnfunded, SubmitMisallocated, SubmitRefused, SubmitFunded,
              Submit
<1>2. ASSUME NEW s \in Settlers, Enter(s) PROVE UNCHANGED record
  BY <1>2 DEF Enter, CreateLock, LockFails, StatStale, RemoveStale, Conflict, ReadInvalid, Replay,
              StoreRefusal, Proceed
<1>3. ASSUME NEW s \in Settlers, FundSigner(s) PROVE UNCHANGED record
  BY <1>3 DEF FundSigner, TopUpConflict, TopUpReplay, TopUpRefused, TopUpConfirmed, TopUpAccepted,
              TopUpRejected, TopUpMisreported, TopUpBusy, BalanceReached, BalancePending
<1>4. ASSUME NEW s \in Settlers, ExecuteRun(s) PROVE UNCHANGED record
  BY <1>4 DEF ExecuteRun, RunUnavailable, RunReplay, RunRefused, RunProceeds, RunEnds, RailError,
              ItemConflict, ItemReplay, ItemRefused, ItemConfirmed, ItemAccepted, ItemRejected,
              ItemMisreported, ItemBusy
<1>5. ASSUME NEW s \in Settlers, Leave(s) PROVE UNCHANGED record \/ WriteChallenge(s)
  BY <1>5 DEF Leave, WriteFails, Unlock
<1>6. CASE Environment
  BY <1>6 DEF Environment, AgeLock, ExpireRunLock, SettleTopUp, SettleItem, Crash
<1> QED BY <1>1, <1>2, <1>3, <1>4, <1>5, <1>6 DEF Next

(* A final challenge record is only ever replaced by a torn file, unless   *)
(* its lock was taken from a live attempt (withChallengeLock).             *)
THEOREM FinalChallengeSafety == Spec => FinalChallengeIsKept
<1> DEFINE Kept == \A id \in Ids \ contested' :
             Recorded(id) /\ settlementChallengeResponseIsFinal(record[id].resp)
               => record'[id] \in {record[id], Unreadable}
<1>1. TypeInv /\ LockInv /\ [Next]_vars => [Kept]_vars
  <2> SUFFICES ASSUME TypeInv, LockInv, Next, NEW id \in Ids \ contested', IsFinal(record[id])
               PROVE  record'[id] \in {record[id], Unreadable}
    BY DEF Recorded, IsFinal
  <2>1. CASE PowerLoss BY <2>1 DEF PowerLoss
  <2>2. ASSUME NEW s \in Settlers, WriteChallenge(s) PROVE record'[id] = record[id]
    <3>1. pc[s] = "write" /\ UNCHANGED contested BY <2>2 DEF WriteChallenge
    <3>2. id # job[s].id BY <3>1 DEF LockInv, WorksOnOpen, Section
    <3> QED BY <2>2, <3>2 DEF WriteChallenge, TypeInv, FileTypes
  <2> QED BY <2>1, <2>2, RecordSteps
<1> QED BY <1>1, BooksSafety, ChallengeLockSafety, PTL DEF Spec, FinalChallengeIsKept
=============================================================================
