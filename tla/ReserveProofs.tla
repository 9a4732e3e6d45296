---------------------------- MODULE ReserveProofs ----------------------------
(***************************************************************************)
(* Proofs about Reserve, for any number of workers, any requests, any      *)
(* thresholds and any fee: types, the bound on how far overlapping         *)
(* payments can get a signer below its reserve, and that a payment nobody  *)
(* overtook keeps it.                                                      *)
(***************************************************************************)
EXTENDS Reserve, SumProofs

LEMMA FloorType == \A r \in Roles : Floor(r) \in Nat
BY ThresholdsAssumption DEF Floor

LEMMA OverlapType == Overlap \in Nat
BY ThresholdsAssumption, AmountsAssumption DEF Overlap

(* What the capacity checks guarantee about the balance they judged.       *)
LEMMA CapacityMeans ==
  ASSUME NEW r \in Roles, NEW b \in Nat, NEW a \in Nat, checkCapacity(r, b, a)
  PROVE  b >= a + Floor(r)
BY ThresholdsAssumption DEF checkCapacity, Floor

LEMMA AmountTypes ==
  ASSUME NEW req \in Requests, NEW k \in DOMAIN req.amounts
  PROVE  /\ req.role \in Roles
         /\ req.amounts[k] \in Nat
         /\ req.amounts[k] <= Supply[req.role] => req.amounts[k] <= MaxAmount
<1>1. req.role \in Roles /\ req.amounts \in Seq(Nat) BY RequestsAssumption
<1>2. req.amounts[k] \in Nat BY <1>1
<1> QED BY <1>1, <1>2, AmountsAssumption, BalancesAssumption

LEMMA JobTypes ==
  ASSUME TypeOK, NEW w \in Workers, pc[w] # "idle"
  PROVE  /\ job[w] \in Requests
         /\ Role(w) \in Roles
         /\ Amount(w) \in Nat
         /\ Amount(w) <= Supply[Role(w)] => Amount(w) <= MaxAmount
BY AmountTypes DEF TypeOK, Role, Amount

LEMMA LinesOf ==
  ASSUME NEW req \in Requests
  PROVE  /\ Len(req.amounts) \in Nat /\ Len(req.amounts) > 0
         /\ DOMAIN req.amounts = 1..Len(req.amounts)
<1>1. req.amounts \in Seq(Nat) /\ Len(req.amounts) > 0 BY RequestsAssumption
<1> QED BY <1>1

-----------------------------------------------------------------------------
(* Types.                                                                  *)

LEMMA TypeInit == Init => TypeOK
BY BalancesAssumption, WorkersAssumption DEF Init, TypeOK, PCs, Places, Txs

LEMMA TypeAccept ==
  ASSUME TypeOK, NEW w \in Workers, NEW req \in Requests, Accept(w, req)
  PROVE  TypeOK'
<1> USE DEF TypeOK, Accept, chain
<1>1. /\ pc' \in [Workers -> PCs] /\ job' \in [Workers -> Requests \cup {NoJob}]
      /\ next' \in [Workers -> Nat] /\ quiet' \in [Workers -> BOOLEAN]
  BY DEF PCs
<1>2. funded' \in [Workers -> BOOLEAN]
  <2> DEFINE f == (Covers(balance["payout"], req) /\ pending["payout"] = NoTx
                    /\ \A v \in Workers \ {w} : pc[v] # "idle" => Role(v) # "payout")
  <2>1. f \in BOOLEAN BY DEF Covers
  <2> HIDE DEF f
  <2>2. funded' = [funded EXCEPT ![w] = f] BY DEF f
  <2> QED BY <2>1, <2>2
<1>3. \A v \in Workers : IF pc'[v] = "idle" THEN next'[v] = 1
                         ELSE job'[v] \in Requests /\ next'[v] \in DOMAIN job'[v].amounts
  <2> SUFFICES ASSUME NEW v \in Workers
               PROVE  IF pc'[v] = "idle" THEN next'[v] = 1
                      ELSE job'[v] \in Requests /\ next'[v] \in DOMAIN job'[v].amounts
    OBVIOUS
  <2>1. CASE v = w BY <2>1, LinesOf
  <2>2. CASE v # w BY <2>2
  <2> QED BY <2>1, <2>2
<1>4. \A v \in Workers : pc'[v] = "checked" => Amount(v)' <= MaxAmount
  BY DEF Amount
<1> QED BY <1>1, <1>2, <1>3, <1>4

(* Every step but the arrival of a request; NextLine is the part they      *)
(* share.                                                                  *)
LEMMA TypeNextLine ==
  ASSUME TypeOK, NEW w \in Workers, pc[w] # "idle", NextLine(w)
  PROVE  /\ pc' \in [Workers -> PCs]
         /\ job' \in [Workers -> Requests \cup {NoJob}]
         /\ next' \in [Workers -> Nat]
         /\ funded' \in [Workers -> BOOLEAN]
         /\ \A v \in Workers : IF pc'[v] = "idle" THEN next'[v] = 1
                               ELSE job'[v] \in Requests /\ next'[v] \in DOMAIN job'[v].amounts
         /\ pc'[w] \in {"line", "idle"}
         /\ \A v \in Workers \ {w} : pc'[v] = pc[v] /\ job'[v] = job[v] /\ next'[v] = next[v]
<1>1. /\ job[w] \in Requests /\ next[w] \in 1..Len(job[w].amounts)
      /\ Len(job[w].amounts) \in Nat /\ DOMAIN job[w].amounts = 1..Len(job[w].amounts)
  BY LinesOf DEF TypeOK
<1> DEFINE n == Len(job[w].amounts)
<1>2. CASE /\ next[w] < n
           /\ pc' = [pc EXCEPT ![w] = "line"]
           /\ next' = [next EXCEPT ![w] = @ + 1]
           /\ UNCHANGED <<job, funded>>
  <2>1. next[w] + 1 \in 1..n BY <1>1, <1>2
  <2>2. next'[w] \in DOMAIN job'[w].amounts /\ next' \in [Workers -> Nat]
    BY <1>1, <1>2, <2>1 DEF TypeOK
  <2>3. \A v \in Workers \ {w} : pc'[v] = pc[v] /\ job'[v] = job[v] /\ next'[v] = next[v]
    BY <1>2 DEF TypeOK
  <2> QED BY <1>1, <1>2, <2>2, <2>3 DEF TypeOK, PCs
<1>3. CASE /\ next[w] = n
           /\ pc' = [pc EXCEPT ![w] = "idle"]
           /\ next' = [next EXCEPT ![w] = 1]
           /\ job' = [job EXCEPT ![w] = NoJob]
           /\ funded' = [funded EXCEPT ![w] = FALSE]
  <2>1. \A v \in Workers \ {w} : pc'[v] = pc[v] /\ job'[v] = job[v] /\ next'[v] = next[v]
    BY <1>3 DEF TypeOK
  <2>2. pc'[w] = "idle" /\ next'[w] = 1 BY <1>3 DEF TypeOK
  <2> QED BY <1>3, <2>1, <2>2 DEF TypeOK, PCs
<1> QED BY <1>2, <1>3 DEF NextLine

LEMMA TypeStep ==
  ASSUME TypeOK, NEW w \in Workers, Step(w)
  PROVE  TypeOK'
<1>1. CASE Preflight(w)
  <2>1. Role(w) \in Roles /\ Amount(w) \in Nat /\ Amount(w) <= MaxAmount
    <3>1. balance[Role(w)] \in Nat /\ balance[Role(w)] <= Supply[Role(w)] /\ Supply[Role(w)] \in Nat
      BY <1>1, JobTypes, BalancesAssumption DEF Preflight, TypeOK
    <3>2. balance[Role(w)] >= Amount(w)
      BY <1>1 DEF Preflight, Judged, checkCapacity
    <3> QED BY <1>1, <3>1, <3>2, JobTypes DEF Preflight
  <2> QED BY <1>1, <2>1 DEF Preflight, TypeOK, PCs, local, chain, Amount
<1>2. CASE PreflightRefuses(w)
  BY <1>2, TypeNextLine DEF PreflightRefuses, TypeOK, chain, Amount
<1>3. CASE Broadcast(w)
  <2>1. Role(w) \in Roles /\ Amount(w) \in Nat /\ Amount(w) <= MaxAmount
    BY <1>3, JobTypes DEF Broadcast, TypeOK
  <2>2. pending' \in [Roles -> Txs \cup {NoTx}]
    <3>1. [amount |-> Amount(w), from |-> w, quiet |-> quiet[w]] \in Txs
      BY <2>1 DEF Txs, TypeOK
    <3> QED BY <1>3, <3>1 DEF Broadcast, TypeOK
  <2>3. fresh' \in [Roles -> Workers \cup Places]
    BY <1>3, <2>1 DEF Broadcast, TypeOK, Places
  <2>4. \A r \in Roles : pending'[r] # NoTx => pending'[r].amount <= MaxAmount /\ balance'[r] >= Fee
    <3> SUFFICES ASSUME NEW r \in Roles, pending'[r] # NoTx
                 PROVE  pending'[r].amount <= MaxAmount /\ balance'[r] >= Fee
      OBVIOUS
    <3>1. CASE r = Role(w) BY <1>3, <2>1, <3>1 DEF Broadcast, TypeOK
    <3>2. CASE r # Role(w) BY <1>3, <3>2 DEF Broadcast, TypeOK
    <3> QED BY <3>1, <3>2
  <2> QED BY <1>3, <2>1, <2>2, <2>3, <2>4 DEF Broadcast, TypeOK, PCs, local, Amount
<1>4. CASE BroadcastRefused(w)
  <2>1. fresh' \in [Roles -> Workers \cup Places]
    BY <1>4, JobTypes DEF BroadcastRefused, TypeOK, Places
  <2> QED BY <1>4, <2>1, TypeNextLine DEF BroadcastRefused, TypeOK, chain, Amount
<1>5. CASE Confirm(w)
  BY <1>5, TypeNextLine DEF Confirm, TypeOK, chain, Amount
<1> QED BY <1>1, <1>2, <1>3, <1>4, <1>5 DEF Step

LEMMA TypeChain ==
  ASSUME TypeOK, NEW r \in Roles, Commit(r) \/ Drop(r) \/ Deposit(r)
  PROVE  TypeOK'
<1>1. CASE Commit(r)
  <2>1. pending[r] \in Txs /\ pending[r].amount \in Nat /\ balance[r] >= Fee /\ balance[r] \in Nat
    BY <1>1 DEF Commit, TypeOK, Txs
  <2>2. balance' \in [Roles -> Nat] /\ \A q \in Roles : balance'[q] <= Supply[q]
    BY <1>1, <2>1, ThresholdsAssumption, BalancesAssumption DEF Commit, TypeOK
  <2>3. \A q \in Roles : pending'[q] # NoTx => pending'[q] = pending[q] /\ balance'[q] = balance[q]
    BY <1>1 DEF Commit, TypeOK
  <2>4. pending' \in [Roles -> Txs \cup {NoTx}] /\ fresh' \in [Roles -> Workers \cup Places]
    BY <1>1 DEF Commit, TypeOK, Places
  <2>5. quiet' \in [Workers -> BOOLEAN] /\ funded' \in [Workers -> BOOLEAN]
    BY <1>1 DEF Commit, TypeOK
  <2> QED BY <1>1, <2>2, <2>3, <2>4, <2>5 DEF Commit, TypeOK, Amount
<1>2. CASE Drop(r)
  BY <1>2 DEF Drop, TypeOK, local, Amount, Places
<1>3. CASE Deposit(r)
  <2>1. PICK amount \in 1..(Supply[r] - balance[r]) : balance' = [balance EXCEPT ![r] = @ + amount]
    BY <1>3 DEF Deposit
  <2>2. balance[r] \in Nat /\ Supply[r] \in Nat BY BalancesAssumption DEF TypeOK
  <2>3. balance' \in [Roles -> Nat] /\ \A q \in Roles : balance'[q] <= Supply[q] /\ balance'[q] >= balance[q]
    BY <2>1, <2>2, BalancesAssumption DEF TypeOK
  <2>4. \A q \in Roles : pending[q] # NoTx => balance'[q] >= Fee
    BY <2>3, ThresholdsAssumption DEF TypeOK
  <2> QED BY <1>3, <2>3, <2>4 DEF Deposit, TypeOK, local, Amount
<1> QED BY <1>1, <1>2, <1>3

LEMMA TypeNext == TypeOK /\ [Next]_vars => TypeOK'
<1> SUFFICES ASSUME TypeOK, [Next]_vars PROVE TypeOK'
  OBVIOUS
<1>1. ASSUME NEW w \in Workers, Arrive(w) PROVE TypeOK'
  BY <1>1, TypeAccept DEF Arrive, PlanRun, Execute
<1>2. ASSUME UNCHANGED vars PROVE TypeOK'
  BY <1>2 DEF TypeOK, vars, Amount
<1> QED BY <1>1, <1>2, TypeStep, TypeChain DEF Next

(* In every behaviour the state has its type: no signer is overdrawn, a    *)
(* transaction in the mempool can pay its fee, and an amount above the     *)
(* supply never gets past the checks.                                      *)
THEOREM TypeSafety == Spec => []TypeOK
BY TypeInit, TypeNext, PTL DEF Spec

-----------------------------------------------------------------------------
(* The dip.                                                                *)

(* Arithmetic the provers do not find inside larger goals.                 *)
LEMMA ProductType == \A m, n \in Nat : m * n \in Nat
OBVIOUS

LEMMA ProductStep == \A m \in Int, n \in Nat : (m + 1) * n = m * n + n
OBVIOUS

LEMMA InFlightFinite ==
  \A r \in Roles : /\ IsFiniteSet(InFlight(r)) /\ IsFiniteSet(Others(r))
                   /\ Cardinality(Others(r)) \in Nat
                   /\ Cardinality(Workers) \in Nat
<1> SUFFICES ASSUME NEW r \in Roles
             PROVE  /\ IsFiniteSet(InFlight(r)) /\ IsFiniteSet(Others(r))
                    /\ Cardinality(Others(r)) \in Nat
                    /\ Cardinality(Workers) \in Nat
  OBVIOUS
<1>1. IsFiniteSet(Workers \cup {"slot"}) BY WorkersAssumption, FS_AddElement
<1>2. InFlight(r) \in SUBSET (Workers \cup {"slot"}) BY DEF InFlight
<1>3. IsFiniteSet(InFlight(r)) BY <1>1, <1>2, FS_Subset
<1>4. IsFiniteSet(Others(r)) BY <1>3, FS_RemoveElement DEF Others
<1> QED BY <1>3, <1>4, WorkersAssumption, FS_CardinalityType

(* The others fit in one place per worker.                                 *)
LEMMA OthersFit ==
  ASSUME NEW r \in Roles, NEW w \in Workers
  PROVE  Cardinality(InFlight(r) \ {w}) <= Cardinality(Workers)
<1> DEFINE S == Workers \cup {"slot"}
           T == S \ {w}
<1>1. IsFiniteSet(S) /\ Cardinality(S) = Cardinality(Workers) + 1 /\ w \in S
  BY WorkersAssumption, FS_AddElement DEF Places
<1>2. IsFiniteSet(T) /\ Cardinality(T) = Cardinality(S) - 1
  <2> HIDE DEF S
  <2> QED BY <1>1, FS_RemoveElement
<1>3. Cardinality(Workers) \in Nat BY WorkersAssumption, FS_CardinalityType
<1>4. InFlight(r) \ {w} \in SUBSET T BY DEF InFlight
<1>5. Cardinality(InFlight(r) \ {w}) <= Cardinality(T) BY <1>2, <1>4, FS_Subset
<1> QED BY <1>1, <1>2, <1>3, <1>5

(* A signer whose payments in flight stay as they are and whose balance    *)
(* does not fall keeps its bound.                                          *)
LEMMA DipKept ==
  ASSUME TypeOK, NEW r \in Roles, DipAt(r),
         InFlight(r)' = InFlight(r), fresh'[r] = fresh[r], FreshPart(r)' = FreshPart(r),
         balance'[r] \in Nat, balance'[r] >= balance[r], FreshPart(r) \in Int
  PROVE  DipAt(r)'
<1>1. Others(r)' = Others(r) BY DEF Others
<1>2. Floor(r) \in Nat /\ balance[r] \in Nat BY FloorType DEF TypeOK
<1>3. (Cardinality(Workers) - Cardinality(Others(r))) * Overlap \in Int
  BY InFlightFinite, OverlapType
<1> DEFINE d == (Cardinality(Workers) - Cardinality(Others(r))) * Overlap
<1> HIDE DEF d
<1>4. d \in Int BY <1>3 DEF d
<1>5. fresh[r] # "never" => balance[r] >= Floor(r) + FreshPart(r) - d
  BY DEF DipAt, d
<1>6. fresh[r] # "never" => balance'[r] >= Floor(r) + FreshPart(r) - d
  BY <1>2, <1>4, <1>5
<1> QED BY <1>1, <1>6 DEF DipAt, Floor, d

LEMMA FreshPartType ==
  ASSUME TypeOK, NEW r \in Roles, DipAt(r)
  PROVE  FreshPart(r) \in Int /\ FreshPart(r) >= - Fee
<1>1. Fee \in Nat BY ThresholdsAssumption
<1>2. CASE fresh[r] \in Workers
  <2>1. fresh[r] \in InFlight(r) BY <1>2 DEF DipAt
  <2>2. pc[fresh[r]] = "checked" BY <1>2, <2>1, WorkersAssumption DEF InFlight, Places
  <2>3. Amount(fresh[r]) \in Nat BY <1>2, <2>2, JobTypes
  <2> QED BY <1>1, <1>2, <2>3, WorkersAssumption DEF FreshPart, Places
<1>3. CASE fresh[r] = "slot"
  <2>1. pending[r] # NoTx BY <1>3, WorkersAssumption DEF DipAt, InFlight, Places
  <2>2. pending[r].amount \in Nat BY <2>1 DEF TypeOK, Txs
  <2> QED BY <1>1, <1>3, <2>2, WorkersAssumption DEF FreshPart, Places
<1>4. CASE fresh[r] \notin Workers \cup {"slot"}
  BY <1>1, <1>4 DEF FreshPart
<1> QED BY <1>2, <1>3, <1>4

(* One payment other than the last judged leaves the set in flight, having *)
(* taken no more than Overlap.                                             *)
LEMMA DipOther ==
  ASSUME TypeOK, NEW r \in Roles, DipAt(r),
         NEW x \in Others(r), InFlight(r)' = InFlight(r) \ {x},
         fresh'[r] = fresh[r], FreshPart(r)' = FreshPart(r),
         balance'[r] \in Nat, balance'[r] >= balance[r] - Overlap
  PROVE  DipAt(r)'
<1> DEFINE c == Cardinality(Others(r))
           N == Cardinality(Workers)
<1>1. Others(r)' = Others(r) \ {x} BY DEF Others
<1>2. Cardinality(Others(r)') = c - 1 BY <1>1, InFlightFinite, FS_RemoveElement
<1>3. c \in Nat /\ N \in Nat /\ Overlap \in Nat BY InFlightFinite, OverlapType
<1>4. (N - (c - 1)) * Overlap = (N - c) * Overlap + Overlap
  <2>1. N - (c - 1) = (N - c) + 1 /\ N - c \in Int BY <1>3
  <2> HIDE DEF c, N
  <2>2. ((N - c) + 1) * Overlap = (N - c) * Overlap + Overlap BY <2>1, <1>3, ProductStep
  <2> QED BY <2>1, <2>2
<1>5. (N - c) * Overlap \in Int BY <1>3
<1>6. fresh[r] # "never" BY DEF DipAt, Others
<1>7. balance[r] >= Floor(r) + FreshPart(r) - (N - c) * Overlap BY <1>6 DEF DipAt
<1>8. balance'[r] >= Floor(r) + FreshPart(r) - (N - (c - 1)) * Overlap
  <2> HIDE DEF c, N
  <2> DEFINE d == (N - c) * Overlap
  <2>1. (N - (c - 1)) * Overlap = d + Overlap /\ d \in Int BY <1>4, <1>5
  <2>2. balance[r] >= Floor(r) + FreshPart(r) - d BY <1>7
  <2> HIDE DEF d
  <2>3. balance[r] \in Nat /\ Floor(r) \in Nat /\ FreshPart(r) \in Int
    BY FloorType, FreshPartType DEF TypeOK
  <2>4. balance'[r] >= Floor(r) + FreshPart(r) - (d + Overlap)
    BY <2>1, <2>2, <2>3, <1>3
  <2> QED BY <2>1, <2>4
<1>9. fresh[r] \in Workers \cup {"slot"} => fresh[r] \in InFlight(r)'
  BY DEF DipAt, Others
<1> QED BY <1>2, <1>6, <1>8, <1>9 DEF DipAt, Floor

(* The payment judged last is through, or gave up; it took no more than    *)
(* its amount and its fee.                                                 *)
LEMMA DipFresh ==
  ASSUME TypeOK, NEW r \in Roles, DipAt(r),
         fresh[r] \in Workers \cup {"slot"},
         InFlight(r)' = InFlight(r) \ {fresh[r]}, fresh'[r] = "gone",
         balance'[r] \in Nat, balance'[r] >= balance[r] - FreshPart(r) - Fee,
         FreshPart(r) \in Nat
  PROVE  DipAt(r)'
<1> DEFINE d == (Cardinality(Workers) - Cardinality(Others(r))) * Overlap
<1>1. Others(r)' = Others(r)
  BY WorkersAssumption DEF Others, InFlight, Places
<1>2. FreshPart(r)' = - Fee BY WorkersAssumption DEF FreshPart, Places
<1>3. d \in Int BY InFlightFinite, OverlapType
<1>4. fresh[r] # "never" BY WorkersAssumption DEF Places
<1>5. balance[r] >= Floor(r) + FreshPart(r) - d BY <1>4 DEF DipAt
<1>6. balance'[r] >= Floor(r) + (- Fee) - d
  <2> HIDE DEF d
  <2>1. balance[r] \in Nat /\ Floor(r) \in Nat /\ Fee \in Nat
    BY FloorType, ThresholdsAssumption DEF TypeOK
  <2> QED BY <1>3, <1>5, <2>1
<1>7. "gone" \notin Workers \cup {"slot"} BY WorkersAssumption DEF Places
<1> QED BY <1>1, <1>2, <1>6, <1>7 DEF DipAt, Floor

(* What a worker does outside "checked" is not in flight.                  *)
LEMMA FlightKept ==
  ASSUME NEW w \in Workers, pc[w] # "checked", pc'[w] # "checked", pending' = pending, fresh' = fresh,
         \A v \in Workers \ {w} : pc'[v] = pc[v] /\ job'[v] = job[v] /\ next'[v] = next[v],
         NEW r \in Roles, DipAt(r)
  PROVE  InFlight(r)' = InFlight(r) /\ FreshPart(r)' = FreshPart(r)
<1>1. {v \in Workers : pc'[v] = "checked" /\ job'[v].role = r}
        = {v \in Workers : pc[v] = "checked" /\ job[v].role = r}
  OBVIOUS
<1>2. InFlight(r)' = InFlight(r) BY <1>1 DEF InFlight, Role
<1>3. fresh[r] \in Workers => fresh[r] # w
  BY WorkersAssumption DEF DipAt, InFlight, Places
<1>4. FreshPart(r)' = FreshPart(r)
  BY <1>3 DEF FreshPart, Amount
<1> QED BY <1>2, <1>4

LEMMA DipQuietStep ==
  ASSUME TypeOK, TypeOK', DipBound, NEW w \in Workers, pc[w] # "checked", pc'[w] # "checked",
         \A v \in Workers \ {w} : pc'[v] = pc[v] /\ job'[v] = job[v] /\ next'[v] = next[v],
         UNCHANGED <<chain, fresh>>
  PROVE  DipBound'
<1> SUFFICES ASSUME NEW r \in Roles PROVE DipAt(r)'
  BY DEF DipBound
<1>1. DipAt(r) BY DEF DipBound
<1>2. InFlight(r)' = InFlight(r) /\ FreshPart(r)' = FreshPart(r)
  BY <1>1, FlightKept DEF chain
<1>3. balance'[r] \in Nat /\ balance'[r] >= balance[r] BY DEF TypeOK, chain
<1> QED BY <1>1, <1>2, <1>3, DipKept, FreshPartType

(* Nothing a worker does touches what the other signer has in flight.      *)
LEMMA OtherSigner ==
  ASSUME TypeOK, NEW w \in Workers, pc[w] # "idle", NEW r \in Roles, DipAt(r), Role(w) # r,
         \A v \in Workers \ {w} : pc'[v] = pc[v] /\ job'[v] = job[v] /\ next'[v] = next[v],
         pc'[w] # "idle" => job'[w] = job[w],
         pending'[r] = pending[r], fresh'[r] = fresh[r], balance'[r] = balance[r]
  PROVE  DipAt(r)'
<1>1. {v \in Workers : pc'[v] = "checked" /\ job'[v].role = r}
        = {v \in Workers : pc[v] = "checked" /\ job[v].role = r}
  BY DEF Role
<1>2. InFlight(r)' = InFlight(r) BY <1>1 DEF InFlight, Role
<1>3. fresh[r] \in Workers => fresh[r] # w
  BY WorkersAssumption DEF DipAt, InFlight, Places
<1>4. FreshPart(r)' = FreshPart(r)
  BY <1>3 DEF FreshPart, Amount
<1>5. balance'[r] \in Nat /\ balance'[r] >= balance[r] BY DEF TypeOK
<1> QED BY <1>2, <1>4, <1>5, DipKept, FreshPartType

LEMMA DipPreflight ==
  ASSUME TypeOK, DipBound, NEW w \in Workers, Preflight(w)
  PROVE  DipBound'
<1> SUFFICES ASSUME NEW r \in Roles PROVE DipAt(r)'
  BY DEF DipBound
<1> USE DEF Preflight, local, chain
<1>1. pc[w] = "line" /\ DipAt(r) /\ Role(w) \in Roles /\ Amount(w) \in Nat
  BY JobTypes DEF DipBound
<1>2. CASE Role(w) # r
  BY <1>1, <1>2, OtherSigner DEF TypeOK
<1>3. CASE Role(w) = r
  <2>1. fresh'[r] = w /\ InFlight(r)' = InFlight(r) \cup {w}
    <3>1. {v \in Workers : pc'[v] = "checked" /\ job'[v].role = r}
            = {v \in Workers : pc[v] = "checked" /\ job[v].role = r} \cup {w}
      BY <1>3 DEF TypeOK, Role
    <3> QED BY <1>3, <3>1 DEF InFlight, Role, TypeOK
  <2>2. Others(r)' = InFlight(r) \ {w} BY <2>1 DEF Others
  <2>3. FreshPart(r)' = Amount(w) BY <2>1, WorkersAssumption DEF FreshPart, Amount, Places
  <2> DEFINE N == Cardinality(Workers)
             c == Cardinality(InFlight(r) \ {w})
             d == (N - c) * Overlap
  <2>4. c <= N /\ N \in Nat /\ c \in Nat /\ Overlap \in Nat
    BY OthersFit, InFlightFinite, FS_RemoveElement, FS_CardinalityType, OverlapType
  <2>5. d \in Nat
    <3> HIDE DEF N, c
    <3>1. N - c \in Nat BY <2>4
    <3> QED BY <2>4, <3>1, ProductType
  <2>6. balance[r] >= Amount(w) + Floor(r)
    BY <1>1, <1>3, CapacityMeans DEF Judged, TypeOK
  <2>7. balance'[r] >= Floor(r) + Amount(w) - d
    <3> HIDE DEF d
    <3> QED BY <1>1, <2>5, <2>6, FloorType DEF TypeOK
  <2> QED BY <2>1, <2>2, <2>3, <2>7, WorkersAssumption DEF DipAt, Floor, Places
<1> QED BY <1>2, <1>3

LEMMA DipBroadcast ==
  ASSUME TypeOK, DipBound, NEW w \in Workers, Broadcast(w)
  PROVE  DipBound'
<1> SUFFICES ASSUME NEW r \in Roles PROVE DipAt(r)'
  BY DEF DipBound
<1> USE DEF Broadcast, local
<1>1. pc[w] = "checked" /\ DipAt(r) /\ Role(w) \in Roles /\ Amount(w) \in Nat
  BY JobTypes DEF DipBound
<1>2. CASE Role(w) # r
  BY <1>1, <1>2, OtherSigner DEF TypeOK
<1>3. CASE Role(w) = r
  <2>1. /\ w \in InFlight(r) /\ "slot" \notin InFlight(r) /\ "slot" \notin Workers
        /\ InFlight(r)' = (InFlight(r) \ {w}) \cup {"slot"}
        /\ pending'[r].amount = Amount(w)
    <3>1. {v \in Workers : pc'[v] = "checked" /\ job'[v].role = r}
            = {v \in Workers : pc[v] = "checked" /\ job[v].role = r} \ {w}
      BY <1>3 DEF TypeOK, Role
    <3>2. pending'[r] = [amount |-> Amount(w), from |-> w, quiet |-> quiet[w]] BY <1>3 DEF TypeOK
    <3>3. pending'[r] # NoTx BY <1>1, <3>2, NilAssumption DEF Txs, TypeOK
    <3> QED BY <1>1, <1>3, <3>1, <3>2, <3>3, WorkersAssumption DEF InFlight, Role, Places
  <2>2. CASE fresh[r] = w
    <3>1. fresh'[r] = "slot" BY <1>3, <2>2 DEF TypeOK
    <3>2. Others(r)' = Others(r) BY <2>1, <2>2, <3>1 DEF Others
    <3>3. FreshPart(r)' = FreshPart(r)
      BY <2>1, <2>2, <3>1 DEF FreshPart
    <3> QED BY <1>1, <2>1, <2>2, <3>1, <3>2, <3>3, WorkersAssumption DEF DipAt, Floor, Places
  <2>3. CASE fresh[r] # w
    <3>1. fresh'[r] = fresh[r] BY <1>3, <2>3 DEF TypeOK
    <3>2. fresh[r] # "slot" /\ fresh[r] # "never" BY <1>1, <2>1 DEF DipAt
    <3>3. Others(r)' = (Others(r) \ {w}) \cup {"slot"} /\ w \in Others(r) /\ "slot" \notin Others(r)
      BY <2>1, <2>3, <3>1, <3>2 DEF Others
    <3>4. Cardinality(Others(r)') = Cardinality(Others(r))
      <4>1. IsFiniteSet(Others(r)) /\ Cardinality(Others(r)) \in Nat BY InFlightFinite
      <4>2. /\ IsFiniteSet(Others(r) \ {w})
            /\ Cardinality(Others(r) \ {w}) = Cardinality(Others(r)) - 1
        BY <3>3, <4>1, FS_RemoveElement
      <4>3. Cardinality((Others(r) \ {w}) \cup {"slot"}) = Cardinality(Others(r) \ {w}) + 1
        BY <3>3, <4>2, FS_AddElement
      <4> QED BY <3>3, <4>1, <4>2, <4>3
    <3>5. FreshPart(r)' = FreshPart(r)
      BY <2>3, <3>1, <3>2 DEF FreshPart, Amount
    <3>6. fresh[r] \in Workers \cup {"slot"} => fresh[r] \in InFlight(r)'
      BY <1>1, <2>1, <2>3, <3>2 DEF DipAt
    <3> QED BY <1>1, <3>1, <3>2, <3>4, <3>5, <3>6 DEF DipAt, Floor
  <2> QED BY <2>2, <2>3
<1> QED BY <1>2, <1>3

LEMMA DipRefused ==
  ASSUME TypeOK, TypeOK', DipBound, NEW w \in Workers, BroadcastRefused(w)
  PROVE  DipBound'
<1> SUFFICES ASSUME NEW r \in Roles PROVE DipAt(r)'
  BY DEF DipBound
<1> USE DEF BroadcastRefused, chain
<1>1. pc[w] = "checked" /\ DipAt(r) /\ Role(w) \in Roles /\ Amount(w) \in Nat
  BY JobTypes DEF DipBound
<1>2. /\ pc'[w] \in {"line", "idle"} /\ (pc'[w] # "idle" => job'[w] = job[w])
      /\ \A v \in Workers \ {w} : pc'[v] = pc[v] /\ job'[v] = job[v] /\ next'[v] = next[v]
  <2>1. pc'[w] # "idle" => job'[w] = job[w] BY DEF NextLine, TypeOK
  <2> QED BY <1>1, <2>1, TypeNextLine
<1>3. balance'[r] = balance[r] /\ balance[r] \in Nat /\ pending'[r] = pending[r] BY DEF TypeOK
<1>4. CASE Role(w) # r
  <2>1. fresh'[r] = fresh[r] BY <1>1, <1>4 DEF TypeOK
  <2> QED BY <1>1, <1>2, <1>3, <1>4, <2>1, OtherSigner
<1>5. CASE Role(w) = r
  <2>1. w \in InFlight(r) /\ InFlight(r)' = InFlight(r) \ {w}
    <3>1. {v \in Workers : pc'[v] = "checked" /\ job'[v].role = r}
            = {v \in Workers : pc[v] = "checked" /\ job[v].role = r} \ {w}
      BY <1>2
    <3> QED BY <1>1, <1>3, <1>5, <3>1, WorkersAssumption DEF InFlight, Role, Places
  <2>2. CASE fresh[r] = w
    <3>1. fresh'[r] = "gone" BY <1>1, <1>5, <2>2 DEF TypeOK
    <3>2. FreshPart(r) = Amount(w)
      BY <2>2, WorkersAssumption DEF FreshPart, Places
    <3>3. balance'[r] >= balance[r] - FreshPart(r) - Fee
      BY <1>1, <1>3, <3>2, ThresholdsAssumption
    <3> QED BY <1>1, <1>3, <2>1, <2>2, <3>1, <3>2, <3>3, DipFresh
  <2>3. CASE fresh[r] # w
    <3>1. fresh'[r] = fresh[r] BY <1>1, <1>5, <2>3 DEF TypeOK
    <3>2. w \in Others(r) BY <2>1, <2>3 DEF Others
    <3>3. FreshPart(r)' = FreshPart(r)
      BY <1>2, <1>3, <2>3, <3>1 DEF FreshPart, Amount
    <3>4. balance'[r] >= balance[r] - Overlap BY <1>3, OverlapType
    <3> QED BY <1>1, <1>3, <2>1, <3>1, <3>2, <3>3, <3>4, DipOther
  <2> QED BY <2>2, <2>3
<1> QED BY <1>4, <1>5

(* The transaction of signer r leaves the mempool, having taken at most    *)
(* its amount and its fee.                                                 *)
LEMMA DipLeaves ==
  ASSUME TypeOK, TypeOK', DipBound, NEW r \in Roles, pending[r] # NoTx,
         pending' = [pending EXCEPT ![r] = NoTx],
         fresh' = [fresh EXCEPT ![r] = IF @ = "slot" THEN "gone" ELSE @],
         balance'[r] >= balance[r] - pending[r].amount - Fee,
         \A q \in Roles \ {r} : balance'[q] = balance[q],
         UNCHANGED <<pc, job, next>>
  PROVE  DipBound'
<1> SUFFICES ASSUME NEW q \in Roles PROVE DipAt(q)'
  BY DEF DipBound
<1>1. DipAt(q) /\ balance'[q] \in Nat /\ balance[q] \in Nat BY DEF DipBound, TypeOK
<1>2. pending[r].amount \in Nat /\ pending[r].amount <= MaxAmount BY DEF TypeOK, Txs
<1>3. {v \in Workers : pc'[v] = "checked" /\ job'[v].role = q}
        = {v \in Workers : pc[v] = "checked" /\ job[v].role = q}
  OBVIOUS
<1>4. CASE q # r
  <2>1. pending'[q] = pending[q] /\ fresh'[q] = fresh[q] /\ balance'[q] = balance[q]
    BY <1>4 DEF TypeOK
  <2>2. InFlight(q)' = InFlight(q) BY <1>3, <2>1 DEF InFlight, Role
  <2>3. FreshPart(q)' = FreshPart(q) BY <2>1 DEF FreshPart, Amount
  <2> QED BY <1>1, <2>1, <2>2, <2>3, DipKept, FreshPartType
<1>5. CASE q = r
  <2>1. "slot" \in InFlight(r) /\ InFlight(r)' = InFlight(r) \ {"slot"}
    BY <1>3, <1>5, WorkersAssumption DEF InFlight, Role, Places, TypeOK
  <2>2. CASE fresh[r] = "slot"
    <3>1. fresh'[r] = "gone" BY <2>2 DEF TypeOK
    <3>2. FreshPart(r) = pending[r].amount
      BY <2>2, WorkersAssumption DEF FreshPart, Places
    <3> QED BY <1>1, <1>2, <1>5, <2>1, <2>2, <3>1, <3>2, DipFresh
  <2>3. CASE fresh[r] # "slot"
    <3>1. fresh'[r] = fresh[r] BY <2>3 DEF TypeOK
    <3>2. "slot" \in Others(r) BY <2>1, <2>3 DEF Others
    <3>3. FreshPart(r)' = FreshPart(r)
      BY <2>3, <3>1 DEF FreshPart, Amount
    <3>4. balance'[r] >= balance[r] - Overlap
      BY <1>1, <1>2, <1>5, ThresholdsAssumption, AmountsAssumption DEF Overlap
    <3> QED BY <1>1, <1>5, <2>1, <3>1, <3>2, <3>3, <3>4, DipOther
  <2> QED BY <2>2, <2>3
<1> QED BY <1>4, <1>5

LEMMA DipChain ==
  ASSUME TypeOK, TypeOK', DipBound, NEW r \in Roles, Commit(r) \/ Drop(r) \/ Deposit(r)
  PROVE  DipBound'
<1>1. CASE Commit(r)
  <2>1. pending[r].amount \in Nat /\ balance[r] \in Nat /\ Fee \in Nat
    BY <1>1, ThresholdsAssumption DEF Commit, TypeOK, Txs
  <2>2. balance'[r] >= balance[r] - pending[r].amount - Fee
    BY <1>1, <2>1 DEF Commit, TypeOK
  <2>3. \A q \in Roles \ {r} : balance'[q] = balance[q] BY <1>1 DEF Commit, TypeOK
  <2> QED BY <1>1, <2>2, <2>3, DipLeaves DEF Commit
<1>2. CASE Drop(r)
  <2>1. pending[r].amount \in Nat /\ balance[r] \in Nat /\ Fee \in Nat
    BY <1>2, ThresholdsAssumption DEF Drop, TypeOK, Txs
  <2>2. balance'[r] >= balance[r] - pending[r].amount - Fee
    BY <1>2, <2>1 DEF Drop, local
  <2> QED BY <1>2, <2>2, DipLeaves DEF Drop, local
<1>3. CASE Deposit(r)
  <2> SUFFICES ASSUME NEW q \in Roles PROVE DipAt(q)'
    BY DEF DipBound
  <2>1. InFlight(q)' = InFlight(q) /\ FreshPart(q)' = FreshPart(q) /\ fresh'[q] = fresh[q]
    BY <1>3 DEF Deposit, local, InFlight, FreshPart, Role, Amount
  <2>2. balance'[q] \in Nat /\ balance'[q] >= balance[q]
    <3>1. PICK amount \in 1..(Supply[r] - balance[r]) : balance' = [balance EXCEPT ![r] = @ + amount]
      BY <1>3 DEF Deposit
    <3>2. amount \in Nat BY BalancesAssumption DEF TypeOK
    <3> QED BY <3>1, <3>2 DEF TypeOK
  <2>3. DipAt(q) BY DEF DipBound
  <2> QED BY <2>1, <2>2, <2>3, DipKept, FreshPartType
<1> QED BY <1>1, <1>2, <1>3

LEMMA DipStep ==
  ASSUME TypeOK, TypeOK', DipBound, NEW w \in Workers, Arrive(w) \/ Step(w)
  PROVE  DipBound'
<1>1. CASE Arrive(w)
  BY <1>1, DipQuietStep DEF Arrive, PlanRun, Execute, Accept, TypeOK
<1>2. CASE PreflightRefuses(w)
  BY <1>2, DipQuietStep, TypeNextLine DEF PreflightRefuses
<1>3. CASE Confirm(w)
  BY <1>3, DipQuietStep, TypeNextLine DEF Confirm
<1> QED BY <1>1, <1>2, <1>3, DipPreflight, DipBroadcast, DipRefused DEF Step

LEMMA DipInit == Init => DipBound
<1> SUFFICES ASSUME Init, NEW r \in Roles PROVE DipAt(r)
  BY DEF DipBound
<1>1. fresh[r] = "never" /\ InFlight(r) = {} BY DEF Init, InFlight
<1> QED BY <1>1, WorkersAssumption DEF DipAt, Places

LEMMA DipNext == TypeOK /\ TypeOK' /\ DipBound /\ [Next]_vars => DipBound'
<1> SUFFICES ASSUME TypeOK, TypeOK', DipBound, [Next]_vars PROVE DipBound'
  OBVIOUS
<1>1. ASSUME UNCHANGED vars PROVE DipBound'
  BY <1>1 DEF DipBound, DipAt, vars, InFlight, Others, FreshPart, Role, Amount, Floor
<1> QED BY <1>1, DipStep, DipChain DEF Next

(* The bound on the dip holds in every behaviour, payment by payment.      *)
THEOREM DipSafety == Spec => []DipBound
BY TypeSafety, DipInit, DipNext, PTL DEF Spec

LEMMA DipImplies == TypeOK /\ DipBound => ReserveDip
<1> SUFFICES ASSUME TypeOK, DipBound, NEW r \in Roles, fresh[r] # "never"
             PROVE  balance[r] >= Floor(r) - Fee - Cardinality(Workers) * Overlap
  BY DEF ReserveDip
<1> DEFINE N == Cardinality(Workers)
           c == Cardinality(Others(r))
<1>1. N \in Nat /\ c \in Nat /\ Overlap \in Nat BY InFlightFinite, OverlapType
<1>2. (N - c) * Overlap <= N * Overlap /\ (N - c) * Overlap \in Int /\ N * Overlap \in Int
  <2> HIDE DEF N, c
  <2>1. c * Overlap \in Nat BY <1>1, ProductType
  <2>2. (N - c) * Overlap = N * Overlap - c * Overlap BY <1>1
  <2> QED BY <1>1, <2>1, <2>2
<1>3. balance[r] >= Floor(r) + FreshPart(r) - (N - c) * Overlap /\ DipAt(r)
  BY DEF DipBound, DipAt
<1>4. balance[r] \in Nat /\ Floor(r) \in Nat /\ Fee \in Nat
  BY FloorType, ThresholdsAssumption DEF TypeOK
<1>5. FreshPart(r) \in Int /\ FreshPart(r) >= - Fee BY <1>3, FreshPartType
<1> DEFINE d == (N - c) * Overlap
           e == N * Overlap
<1>6. d <= e /\ d \in Int /\ e \in Int /\ balance[r] >= Floor(r) + FreshPart(r) - d BY <1>2, <1>3
<1> HIDE DEF d, e
<1>7. balance[r] >= Floor(r) - Fee - e BY <1>4, <1>5, <1>6
<1> QED BY <1>7 DEF e

(* However many workers overlap, whatever they pay and also when a run's   *)
(* total wraps, a signer keeps its reserve up to one fee and one largest   *)
(* payment per worker.                                                     *)
THEOREM ReserveDipSafety == Spec => []ReserveDip
BY TypeSafety, DipSafety, DipImplies, PTL

-----------------------------------------------------------------------------
(* Payments nobody overtook.                                               *)

(* A payment that was judged and not overtaken is still covered with the   *)
(* whole reserve, before and after it was sent.                            *)
QuietCovered ==
  /\ \A w \in Workers : pc[w] = "checked" /\ quiet[w] => balance[Role(w)] >= Amount(w) + Floor(Role(w))
  /\ \A r \in Roles : pending[r] # NoTx /\ pending[r].quiet => balance[r] >= pending[r].amount + Floor(r)

LEMMA QuietStep ==
  ASSUME TypeOK, QuietCovered, NEW w \in Workers, Arrive(w) \/ Step(w)
  PROVE  QuietCovered'
<1>1. CASE Arrive(w)
  <2>1. /\ pc'[w] = "line" /\ UNCHANGED <<balance, pending, quiet, next>>
        /\ \A v \in Workers \ {w} : pc'[v] = pc[v] /\ job'[v] = job[v]
    BY <1>1 DEF Arrive, PlanRun, Execute, Accept, chain, TypeOK
  <2> QED BY <2>1 DEF QuietCovered, Role, Amount, Floor
<1>2. CASE Preflight(w)
  <2>1. Role(w) \in Roles /\ Amount(w) \in Nat /\ balance[Role(w)] \in Nat
    BY <1>2, JobTypes DEF Preflight, TypeOK
  <2>2. balance[Role(w)] >= Amount(w) + Floor(Role(w))
    BY <1>2, <2>1, CapacityMeans DEF Preflight, Judged
  <2> QED BY <1>2, <2>2 DEF Preflight, QuietCovered, Role, Amount, Floor, local, chain, TypeOK
<1>3. ASSUME pc[w] # "idle", NextLine(w), UNCHANGED chain,
             \A v \in Workers \ {w} : quiet'[v] = quiet[v]
      PROVE  QuietCovered'
  <2>1. /\ pc'[w] # "checked"
        /\ \A v \in Workers \ {w} : pc'[v] = pc[v] /\ job'[v] = job[v] /\ next'[v] = next[v]
    BY <1>3, TypeNextLine
  <2> QED BY <1>3, <2>1 DEF QuietCovered, Role, Amount, Floor, chain
<1>4. CASE PreflightRefuses(w) BY <1>3, <1>4 DEF PreflightRefuses
<1>5. CASE BroadcastRefused(w) BY <1>3, <1>5 DEF BroadcastRefused, TypeOK
<1>6. CASE Confirm(w) BY <1>3, <1>6 DEF Confirm
<1>7. CASE Broadcast(w)
  <2>1. Role(w) \in Roles BY <1>7, JobTypes DEF Broadcast
  <2>2. pending'[Role(w)] = [amount |-> Amount(w), from |-> w, quiet |-> quiet[w]]
    BY <1>7, <2>1 DEF Broadcast, TypeOK
  <2>3. \A r \in Roles \ {Role(w)} : pending'[r] = pending[r]
    BY <1>7 DEF Broadcast, TypeOK
  <2>4. \A r \in Roles : pending'[r] # NoTx /\ pending'[r].quiet
                           => balance[r] >= pending'[r].amount + Floor(r)
    BY <1>7, <2>2, <2>3 DEF Broadcast, QuietCovered
  <2>5. pc'[w] = "sent" /\ \A v \in Workers \ {w} : pc'[v] = pc[v] /\ quiet'[v] = quiet[v]
    BY <1>7 DEF Broadcast, TypeOK
  <2> QED BY <1>7, <2>4, <2>5 DEF Broadcast, QuietCovered, Role, Amount, Floor, local
<1> QED BY <1>1, <1>2, <1>4, <1>5, <1>6, <1>7 DEF Step

LEMMA QuietChain ==
  ASSUME TypeOK, QuietCovered, NEW r \in Roles, Commit(r) \/ Drop(r) \/ Deposit(r)
  PROVE  QuietCovered'
<1>1. CASE Commit(r)
  <2>1. \A q \in Roles \ {r} : balance'[q] = balance[q] /\ pending'[q] = pending[q]
    BY <1>1 DEF Commit, TypeOK
  <2>2. pending'[r] = NoTx BY <1>1 DEF Commit, TypeOK
  <2>3. ASSUME NEW w \in Workers, pc'[w] = "checked", quiet'[w]
        PROVE  balance'[Role(w)] >= Amount(w) + Floor(Role(w))
    <3>1. pc[w] = "checked" /\ quiet[w] /\ Role(w) # r BY <1>1, <2>3 DEF Commit
    <3>2. Role(w) \in Roles BY <3>1, JobTypes
    <3> QED BY <2>1, <3>1, <3>2 DEF QuietCovered
  <2> QED BY <1>1, <2>1, <2>2, <2>3 DEF Commit, QuietCovered, Role, Amount, Floor
<1>2. CASE Drop(r)
  <2>1. \A q \in Roles : pending'[q] # NoTx => pending'[q] = pending[q]
    BY <1>2 DEF Drop, TypeOK
  <2> QED BY <1>2, <2>1 DEF Drop, QuietCovered, Role, Amount, Floor, local
<1>3. CASE Deposit(r)
  <2>1. \A q \in Roles : balance[q] \in Nat /\ balance'[q] \in Nat /\ balance'[q] >= balance[q]
    <3>1. PICK amount \in 1..(Supply[r] - balance[r]) : balance' = [balance EXCEPT ![r] = @ + amount]
      BY <1>3 DEF Deposit
    <3>2. amount \in Nat BY BalancesAssumption DEF TypeOK
    <3> QED BY <3>1, <3>2 DEF TypeOK
  <2>2. ASSUME NEW w \in Workers, pc[w] = "checked", quiet[w]
        PROVE  balance'[Role(w)] >= Amount(w) + Floor(Role(w))
    <3>1. Role(w) \in Roles /\ Amount(w) \in Nat BY <2>2, JobTypes
    <3>2. balance[Role(w)] >= Amount(w) + Floor(Role(w)) BY <2>2 DEF QuietCovered
    <3> QED BY <2>1, <3>1, <3>2, FloorType
  <2>3. ASSUME NEW q \in Roles, pending[q] # NoTx, pending[q].quiet
        PROVE  balance'[q] >= pending[q].amount + Floor(q)
    <3>1. pending[q].amount \in Nat BY <2>3 DEF TypeOK, Txs
    <3>2. balance[q] >= pending[q].amount + Floor(q) BY <2>3 DEF QuietCovered
    <3> QED BY <2>1, <3>1, <3>2, FloorType
  <2> QED BY <1>3, <2>2, <2>3 DEF Deposit, QuietCovered, Role, Amount, Floor, local
<1> QED BY <1>1, <1>2, <1>3

LEMMA QuietInit == Init => QuietCovered
BY DEF Init, QuietCovered

LEMMA QuietNext == TypeOK /\ QuietCovered /\ [Next]_vars => QuietCovered'
<1> SUFFICES ASSUME TypeOK, QuietCovered, [Next]_vars PROVE QuietCovered'
  OBVIOUS
<1>1. ASSUME UNCHANGED vars PROVE QuietCovered'
  BY <1>1 DEF QuietCovered, vars, Role, Amount, Floor
<1> QED BY <1>1, QuietStep, QuietChain DEF Next

(* Only a block takes from a balance.                                      *)
LEMMA OnlyBlocksTake ==
  ASSUME TypeOK, [Next]_vars, NEW r \in Roles, balance'[r] < balance[r]
  PROVE  Commit(r)
<1>1. balance[r] \in Nat BY DEF TypeOK
<1>2. balance' # balance BY <1>1
<1>3. ~UNCHANGED vars BY <1>2 DEF vars
<1>4. ASSUME NEW w \in Workers, Arrive(w) \/ Step(w) PROVE FALSE
  BY <1>2, <1>4 DEF Arrive, PlanRun, Execute, Accept, Step, Preflight, PreflightRefuses,
                    Broadcast, BroadcastRefused, Confirm, chain
<1>5. PICK q \in Roles : Commit(q) \/ Drop(q) \/ Deposit(q) BY <1>3, <1>4 DEF Next
<1>6. ~Drop(q) BY <1>2 DEF Drop
<1>7. ~Deposit(q)
  <2> SUFFICES ASSUME Deposit(q) PROVE FALSE
    OBVIOUS
  <2>1. PICK amount \in 1..(Supply[q] - balance[q]) : balance' = [balance EXCEPT ![q] = @ + amount]
    BY DEF Deposit
  <2>2. amount \in Nat BY BalancesAssumption DEF TypeOK
  <2> QED BY <1>1, <2>1, <2>2 DEF TypeOK
<1>8. q = r
  <2> SUFFICES ASSUME q # r PROVE FALSE
    OBVIOUS
  <2>1. balance'[r] = balance[r] BY <1>5, <1>6, <1>7 DEF Commit, TypeOK
  <2> QED BY <1>1, <2>1
<1> QED BY <1>5, <1>6, <1>7, <1>8

LEMMA QuietPaymentStep ==
  TypeOK /\ QuietCovered /\ [Next]_vars =>
    \A r \in Roles :
       balance'[r] < balance[r] /\ pending[r].quiet => balance'[r] >= Floor(r) - Fee
<1> SUFFICES ASSUME TypeOK, QuietCovered, [Next]_vars,
                    NEW r \in Roles, balance'[r] < balance[r], pending[r].quiet
             PROVE  balance'[r] >= Floor(r) - Fee
  OBVIOUS
<1>1. Commit(r) BY OnlyBlocksTake
<1>2. /\ pending[r].amount \in Nat /\ balance[r] \in Nat /\ balance[r] >= Fee /\ Fee \in Nat
      /\ Floor(r) \in Nat
  BY <1>1, ThresholdsAssumption, FloorType DEF Commit, TypeOK, Txs
<1>3. balance[r] >= pending[r].amount + Floor(r) BY <1>1 DEF Commit, QuietCovered
<1>4. balance'[r] = IF balance[r] >= pending[r].amount + Fee
                    THEN balance[r] - pending[r].amount - Fee ELSE balance[r] - Fee
  BY <1>1 DEF Commit, TypeOK
<1> QED BY <1>2, <1>3, <1>4

(* In every behaviour a payment that no other payment of its signer        *)
(* overtook between its judgement and its block leaves the reserve but for *)
(* its own fee.                                                            *)
THEOREM QuietPaymentSafety == Spec => QuietPaymentKeepsReserve
<1>1. Spec => []QuietCovered BY TypeSafety, QuietInit, QuietNext, PTL DEF Spec
<1> QED BY <1>1, TypeSafety, QuietPaymentStep, PTL DEF Spec, QuietPaymentKeepsReserve

-----------------------------------------------------------------------------
(* Funded runs.                                                            *)

(* The amounts of the lines from k on, and what they take with their fees. *)
Rest(req, k) == SumFunctionOnSet(req.amounts, {j \in DOMAIN req.amounts : j >= k})
Need(req, k) == Rest(req, k) + Fee * (Len(req.amounts) + 1 - k)

(* The first line that is not broadcast, and what the worker's own         *)
(* transaction in the mempool still takes.                                 *)
FirstOpen(label, k) == IF label = "sent" THEN k + 1 ELSE k
Own(tx, w) == IF tx # NoTx /\ tx.from = w THEN tx.amount + Fee ELSE 0

(* The balance of a funded run covers, above the reserve, every line that  *)
(* is still to be paid and the one that is in the mempool, with the fees,  *)
(* but for the fees the estimate of the whole run left out:                *)
(* FundedRunIsCovered alone says nothing of the lines after the next.      *)
Unforeseen(req) == LeftOut(Len(req.amounts))
FundedAt(w) ==
  /\ pc[w] # "idle" /\ job[w].role = "payout"
  /\ balance["payout"] + Unforeseen(job[w]) >= Floor("payout") + Need(job[w], FirstOpen(pc[w], next[w]))
                            + Own(pending["payout"], w)
FundedCovered == \A w \in Workers : funded[w] => FundedAt(w)

LEMMA LinesSum ==
  ASSUME NEW req \in Requests, NEW S \in SUBSET DOMAIN req.amounts
  PROVE  /\ IsFiniteSet(S) /\ \A k \in S : req.amounts[k] \in Nat
         /\ SumFunctionOnSet(req.amounts, S) \in Nat
<1>1. DOMAIN req.amounts = 1..Len(req.amounts) /\ Len(req.amounts) \in Nat BY LinesOf
<1>2. IsFiniteSet(DOMAIN req.amounts) BY <1>1, FS_Interval
<1>3. IsFiniteSet(S) BY <1>2, FS_Subset
<1>4. \A k \in S : req.amounts[k] \in Nat BY AmountTypes
<1> QED BY <1>3, <1>4, SumType

LEMMA RestType ==
  ASSUME NEW req \in Requests, NEW k \in Nat
  PROVE  Rest(req, k) \in Nat
BY LinesSum DEF Rest

LEMMA RestOfAll ==
  ASSUME NEW req \in Requests
  PROVE  Rest(req, 1) = TrueTotal(req) /\ TrueTotal(req) \in Nat
<1>1. {j \in DOMAIN req.amounts : j >= 1} = DOMAIN req.amounts BY LinesOf
<1> QED BY <1>1, LinesSum DEF Rest, TrueTotal

LEMMA RestStep ==
  ASSUME NEW req \in Requests, NEW k \in DOMAIN req.amounts
  PROVE  Rest(req, k) = req.amounts[k] + Rest(req, k + 1)
<1> DEFINE S == {j \in DOMAIN req.amounts : j >= k}
           T == {j \in DOMAIN req.amounts : j >= k + 1}
<1>1. DOMAIN req.amounts \subseteq Nat /\ k \in Nat BY LinesOf
<1>2. k \in S /\ T = S \ {k} BY <1>1
<1>3. IsFiniteSet(S) /\ \A j \in S : req.amounts[j] \in Nat BY LinesSum
<1>4. Rest(req, k) = SumFunctionOnSet(req.amounts, S) /\ Rest(req, k + 1) = SumFunctionOnSet(req.amounts, T)
  BY DEF Rest
<1> HIDE DEF S, T
<1> QED BY <1>2, <1>3, <1>4, SumTakesOut

(* One line less is its amount and one fee less.                           *)
LEMMA NeedStep ==
  ASSUME NEW req \in Requests, NEW k \in DOMAIN req.amounts
  PROVE  /\ k \in Nat /\ req.amounts[k] \in Nat /\ Need(req, k) \in Nat /\ Need(req, k + 1) \in Nat
         /\ Need(req, k) = Need(req, k + 1) + req.amounts[k] + Fee
<1> DEFINE n == Len(req.amounts) - k
<1>1. k \in 1..Len(req.amounts) /\ Len(req.amounts) \in Nat BY LinesOf
<1>2. n \in Nat /\ k \in Nat /\ k + 1 \in Nat BY <1>1
<1>3. Len(req.amounts) + 1 - k = n + 1 /\ Len(req.amounts) + 1 - (k + 1) = n BY <1>1
<1>4. Fee \in Nat BY ThresholdsAssumption
<1> HIDE DEF n
<1>5. (n + 1) * Fee = n * Fee + Fee /\ n * Fee \in Nat BY <1>2, <1>4, ProductStep, ProductType
<1>6. Fee * (n + 1) = Fee * n + Fee /\ Fee * n \in Nat BY <1>2, <1>4, <1>5
<1>7. Rest(req, k) = req.amounts[k] + Rest(req, k + 1) BY RestStep
<1>8. Rest(req, k) \in Nat /\ Rest(req, k + 1) \in Nat /\ req.amounts[k] \in Nat
  BY <1>2, RestType, AmountTypes
<1>9. Need(req, k) = Rest(req, k) + Fee * (n + 1) /\ Need(req, k + 1) = Rest(req, k + 1) + Fee * n
  BY <1>3 DEF Need
<1> QED BY <1>2, <1>4, <1>6, <1>7, <1>8, <1>9

LEMMA NeedOfAll ==
  ASSUME NEW req \in Requests
  PROVE  Need(req, 1) = TrueTotal(req) + Fee * Len(req.amounts) /\ Fee * Len(req.amounts) \in Nat
<1>1. Len(req.amounts) \in Nat /\ Len(req.amounts) + 1 - 1 = Len(req.amounts) BY LinesOf
<1>2. Fee * Len(req.amounts) \in Nat BY <1>1, ThresholdsAssumption, ProductType
<1> QED BY <1>1, <1>2, RestOfAll DEF Need

(* What is estimated and what is left out are the fees of the run.         *)
LEMMA LeftOutType ==
  ASSUME NEW n \in Nat
  PROVE  /\ LeftOut(n) \in Nat /\ FixedFee * n \in Nat /\ Fee * n \in Nat
         /\ LeftOut(n) + FixedFee * n = Fee * n
<1>1. Fee \in Nat BY ThresholdsAssumption
<1>2. Fee * n \in Nat BY <1>1, ProductType
<1>3. Fee - Fee = 0 /\ Fee - 0 = Fee /\ 0 * n = 0 BY <1>1
<1>4. CASE FixedFee = 0
  <2>1. LeftOut(n) = Fee * n /\ FixedFee * n = 0 BY <1>3, <1>4 DEF LeftOut
  <2> QED BY <1>2, <2>1
<1>5. CASE FixedFee = Fee
  <2>1. LeftOut(n) = 0 /\ FixedFee * n = Fee * n BY <1>3, <1>5 DEF LeftOut
  <2> QED BY <1>2, <2>1
<1> QED BY <1>4, <1>5, FeesAssumption

LEMMA UnforeseenType ==
  ASSUME NEW req \in Requests
  PROVE  Unforeseen(req) \in Nat
BY LinesOf, LeftOutType DEF Unforeseen

(* When nothing wraps, the required balance is the reserve and what the    *)
(* run takes, but for the fees that were left out.                         *)
LEMMA CoversMeans ==
  ASSUME NEW req \in Requests, NEW b \in Nat, Covers(b, req)
  PROVE  /\ req.role = "payout" /\ RequestedTotal(req) = TrueTotal(req)
         /\ b + Unforeseen(req) >= Floor("payout") + Need(req, 1)
         /\ b >= TrueTotal(req) + Floor("payout")
<1> DEFINE t == TrueTotal(req)
           n == Len(req.amounts)
           f == FixedFee * n
           e == Fee * n
           u == Unforeseen(req)
           g == Floor("payout")
<1>1. t \in Nat /\ g \in Nat /\ Modulus \in Nat
  BY RestOfAll, FloorType, BalancesAssumption DEF Roles
<1>2. n \in Nat BY LinesOf
<1>3. f \in Nat /\ e \in Nat /\ u \in Nat /\ u + f = e BY <1>2, LeftOutType DEF Unforeseen
<1>4. t + g + f < Modulus BY DEF Covers
<1> HIDE DEF t, n, f, e, u, g
<1>5. t < Modulus /\ t % Modulus = t BY <1>1, <1>3, <1>4
<1>6. (t + g + f) % Modulus = t + g + f BY <1>1, <1>3, <1>4
<1>7. RequestedTotal(req) = t BY <1>5 DEF RequestedTotal, t
<1>8. RequiredBalance(req) = t + g + f
  BY <1>6, <1>7 DEF RequiredBalance, estimateSettlementRunFee, f, g, n
<1>9. b >= t + g + f BY <1>8 DEF Covers
<1>10. Need(req, 1) = t + e BY NeedOfAll DEF t, e, n
<1>11. b + u >= g + (t + e) /\ b >= t + g BY <1>1, <1>3, <1>9
<1> QED BY <1>7, <1>10, <1>11 DEF Covers, g, t, u

(* A balance that covers an amount and the reserve passes the checks.      *)
LEMMA CoveredIsJudged ==
  ASSUME NEW r \in Roles, NEW b \in Nat, NEW a \in Nat, b >= a + Floor(r)
  PROVE  Judged(r, b, a)
BY ThresholdsAssumption DEF Judged, checkReserveHealth, checkCapacity, Floor

LEMMA OwnType ==
  ASSUME TypeOK, NEW w
  PROVE  Own(pending["payout"], w) \in Nat
<1>1. pending["payout"] # NoTx => pending["payout"].amount \in Nat BY DEF TypeOK, Txs, Roles
<1> QED BY <1>1, ThresholdsAssumption DEF Own

(* Steps that leave a worker alone, or a line behind, keep it covered.     *)
LEMMA FundedKept ==
  ASSUME TypeOK, TypeOK', NEW w \in Workers, FundedAt(w), pc'[w] = pc[w], job'[w] = job[w], next'[w] = next[w],
         balance'["payout"] >= balance["payout"],
         Own(pending'["payout"], w) <= Own(pending["payout"], w)
  PROVE  FundedAt(w)'
<1> DEFINE x == Floor("payout") + Need(job[w], FirstOpen(pc[w], next[w]))
           o == Own(pending["payout"], w)
           p == Own(pending'["payout"], w)
           u == Unforeseen(job[w])
<1>1. balance["payout"] \in Nat /\ balance'["payout"] \in Nat BY DEF TypeOK, Roles
<1>2. x \in Nat
  <2>1. job[w] \in Requests /\ next[w] \in DOMAIN job[w].amounts BY DEF FundedAt, TypeOK
  <2>2. Need(job[w], next[w]) \in Nat /\ Need(job[w], next[w] + 1) \in Nat BY <2>1, NeedStep
  <2>3. Floor("payout") \in Nat BY FloorType DEF Roles
  <2> QED BY <2>2, <2>3 DEF FirstOpen
<1>3. o \in Nat BY OwnType
<1>4. p \in Nat
  <2>1. pending'["payout"] # NoTx => pending'["payout"].amount \in Nat BY DEF TypeOK, Txs, Roles
  <2> QED BY <2>1, ThresholdsAssumption DEF Own
<1>5. balance["payout"] + u >= x + o BY DEF FundedAt
<1>6. u \in Nat BY UnforeseenType DEF FundedAt, TypeOK
<1>7. Unforeseen(job'[w]) = u OBVIOUS
<1> HIDE DEF x, o, p, u
<1>8. balance'["payout"] + u >= x + p BY <1>1, <1>2, <1>3, <1>4, <1>5, <1>6 DEF o, p
<1> QED BY <1>7, <1>8 DEF FundedAt, Unforeseen, LeftOut, x, p, Floor

LEMMA FundedArrive ==
  ASSUME TypeOK, TypeOK', FundedCovered, NEW w \in Workers, NEW req \in Requests, Accept(w, req)
  PROVE  FundedCovered'
<1> SUFFICES ASSUME NEW v \in Workers, funded'[v] PROVE FundedAt(v)'
  BY DEF FundedCovered
<1>1. CASE v # w
  <2>1. pc'[v] = pc[v] /\ job'[v] = job[v] /\ next'[v] = next[v] /\ funded[v]
    BY <1>1 DEF Accept, TypeOK
  <2>2. balance' = balance /\ pending' = pending BY DEF Accept, chain
  <2>3. balance'["payout"] >= balance["payout"] BY <2>2 DEF TypeOK, Roles
  <2>4. Own(pending'["payout"], v) <= Own(pending["payout"], v) BY <2>2, OwnType
  <2> QED BY <2>1, <2>3, <2>4, FundedKept DEF FundedCovered
<1>2. CASE v = w
  <2>1. Covers(balance["payout"], req) /\ pending["payout"] = NoTx
    <3> DEFINE f == (Covers(balance["payout"], req) /\ pending["payout"] = NoTx
                      /\ \A u \in Workers \ {w} : pc[u] # "idle" => Role(u) # "payout")
    <3>1. funded' = [funded EXCEPT ![w] = f] BY DEF Accept
    <3> HIDE DEF f
    <3>2. funded'[w] = f BY <3>1 DEF TypeOK
    <3> QED BY <1>2, <3>2 DEF f
  <2>2. pc'[w] = "line" /\ job'[w] = req /\ next'[w] = 1 /\ balance' = balance /\ pending' = pending
    BY DEF Accept, TypeOK, chain
  <2>3. balance["payout"] \in Nat BY DEF TypeOK, Roles
  <2>4. req.role = "payout" /\ balance["payout"] + Unforeseen(req) >= Floor("payout") + Need(req, 1)
    BY <2>1, <2>3, CoversMeans
  <2>5. Floor("payout") + Need(req, 1) \in Nat
    <3>1. 1 \in DOMAIN req.amounts BY LinesOf
    <3>2. Need(req, 1) \in Nat BY <3>1, NeedStep
    <3> QED BY <3>2, FloorType DEF Roles
  <2>6. Own(pending'["payout"], w) = 0 /\ FirstOpen(pc'[w], next'[w]) = 1 BY <2>1, <2>2 DEF Own, FirstOpen
  <2>7. balance'["payout"] + Unforeseen(job'[w]) >=
          Floor("payout") + Need(job'[w], FirstOpen(pc'[w], next'[w])) + Own(pending'["payout"], w)
    BY <2>2, <2>3, <2>4, <2>5, <2>6
  <2> QED BY <1>2, <2>2, <2>4, <2>7 DEF FundedAt, Unforeseen, LeftOut, Floor
<1> QED BY <1>1, <1>2

(* A run that goes on has less to pay, or as much as after the broadcast   *)
(* of the line it leaves.                                                  *)
LEMMA FundedNextLine ==
  ASSUME TypeOK, TypeOK', FundedCovered, NEW w \in Workers, pc[w] # "idle", NextLine(w), UNCHANGED chain
  PROVE  FundedCovered'
<1> SUFFICES ASSUME NEW v \in Workers, funded'[v] PROVE FundedAt(v)'
  BY DEF FundedCovered
<1>1. balance' = balance /\ pending' = pending BY DEF chain
<1>2. CASE v # w
  <2>1. pc'[v] = pc[v] /\ job'[v] = job[v] /\ next'[v] = next[v] /\ funded[v]
    BY <1>2 DEF NextLine, TypeOK
  <2>2. balance'["payout"] >= balance["payout"] BY <1>1 DEF TypeOK, Roles
  <2>3. Own(pending'["payout"], v) <= Own(pending["payout"], v) BY <1>1, OwnType
  <2> QED BY <2>1, <2>2, <2>3, FundedKept DEF FundedCovered
<1>3. CASE v = w
  <2>1. /\ pc'[w] = "line" /\ next'[w] = next[w] + 1 /\ job'[w] = job[w] /\ funded[w]
    BY <1>3 DEF NextLine, TypeOK
  <2>2. FundedAt(w) BY <2>1 DEF FundedCovered
  <2>3. job[w] \in Requests /\ next[w] \in DOMAIN job[w].amounts BY DEF TypeOK
  <2> DEFINE k == next[w]
             g == Floor("payout")
             o == Own(pending["payout"], w)
             b == balance["payout"] + Unforeseen(job[w])
  <2>4. /\ k \in Nat /\ Need(job[w], k) \in Nat /\ Need(job[w], k + 1) \in Nat
        /\ Need(job[w], k) >= Need(job[w], k + 1)
    BY <2>3, NeedStep, ThresholdsAssumption
  <2>5. g \in Nat /\ o \in Nat /\ b \in Nat BY <2>3, FloorType, OwnType, UnforeseenType DEF TypeOK, Roles
  <2>6. b >= g + Need(job[w], k) + o \/ b >= g + Need(job[w], k + 1) + o
    BY <2>2 DEF FundedAt, FirstOpen
  <2> HIDE DEF k, g, o, b
  <2>7. b >= g + Need(job[w], k + 1) + o BY <2>4, <2>5, <2>6
  <2>8. FirstOpen(pc'[w], next'[w]) = k + 1 BY <2>1 DEF FirstOpen, k
  <2>9. balance'["payout"] + Unforeseen(job'[w]) >=
          Floor("payout") + Need(job'[w], FirstOpen(pc'[w], next'[w])) + Own(pending'["payout"], w)
    BY <1>1, <2>1, <2>7, <2>8 DEF b, g, o
  <2> QED BY <1>3, <2>1, <2>2, <2>9 DEF FundedAt, Unforeseen, LeftOut, Floor
<1> QED BY <1>2, <1>3

(* A broadcast moves a line from what is to be paid to the mempool.        *)
LEMMA FundedBroadcast ==
  ASSUME TypeOK, TypeOK', FundedCovered, NEW w \in Workers, Broadcast(w)
  PROVE  FundedCovered'
<1> SUFFICES ASSUME NEW v \in Workers, funded'[v] PROVE FundedAt(v)'
  BY DEF FundedCovered
<1>1. /\ pc[w] = "checked" /\ pc' = [pc EXCEPT ![w] = "sent"] /\ UNCHANGED <<job, next, funded, balance>>
      /\ pending[Role(w)] = NoTx
      /\ pending' = [pending EXCEPT ![Role(w)] = [amount |-> Amount(w), from |-> w, quiet |-> quiet[w]]]
  BY DEF Broadcast, local
<1>2. FundedAt(v) BY <1>1 DEF FundedCovered
<1>3. Role(w) \in Roles /\ Amount(w) \in Nat BY <1>1, JobTypes
<1>4. balance'["payout"] >= balance["payout"] BY <1>1 DEF TypeOK, Roles
<1>5. CASE v # w
  <2>1. pc'[v] = pc[v] BY <1>1, <1>5 DEF TypeOK
  <2>2. Own(pending'["payout"], v) <= Own(pending["payout"], v)
    <3>1. CASE Role(w) = "payout"
      <4>1. pending'["payout"].from = w BY <1>1, <1>3, <3>1 DEF TypeOK
      <4>2. Own(pending'["payout"], v) = 0 BY <1>5, <4>1 DEF Own
      <4> QED BY <4>2, OwnType
    <3>2. CASE Role(w) # "payout"
      <4>1. pending'["payout"] = pending["payout"] BY <1>1, <3>2 DEF TypeOK, Roles
      <4> QED BY <4>1, OwnType
    <3> QED BY <3>1, <3>2
  <2> QED BY <1>1, <1>2, <1>4, <2>1, <2>2, FundedKept
<1>6. CASE v = w
  <2> DEFINE k == next[w]
             g == Floor("payout")
             b == balance["payout"] + Unforeseen(job[w])
             a == job[w].amounts[k]
  <2>1. Role(w) = "payout" /\ job[w] \in Requests /\ k \in DOMAIN job[w].amounts
    BY <1>1, <1>2, <1>6 DEF FundedAt, Role, TypeOK
  <2>2. Own(pending["payout"], w) = 0 BY <1>1, <2>1 DEF Own
  <2>3. Own(pending'["payout"], w) = a + Fee
    <3>1. pending'["payout"] = [amount |-> a, from |-> w, quiet |-> quiet[w]]
      BY <1>1, <1>3, <2>1 DEF TypeOK, Amount
    <3>2. pending'["payout"] # NoTx
      BY <1>3, <3>1, NilAssumption DEF Txs, TypeOK, Amount
    <3> QED BY <3>1, <3>2 DEF Own
  <2>4. /\ k \in Nat /\ a \in Nat /\ Need(job[w], k) \in Nat /\ Need(job[w], k + 1) \in Nat
        /\ Need(job[w], k) = Need(job[w], k + 1) + a + Fee
    BY <2>1, NeedStep
  <2>5. g \in Nat /\ b \in Nat /\ Fee \in Nat
    BY <2>1, FloorType, UnforeseenType, ThresholdsAssumption DEF TypeOK, Roles
  <2>6. b >= g + Need(job[w], k) + 0 BY <1>1, <1>2, <1>6, <2>2 DEF FundedAt, FirstOpen
  <2>7. pc'[w] = "sent" /\ FirstOpen(pc'[w], next'[w]) = k + 1 BY <1>1 DEF FirstOpen, TypeOK
  <2> HIDE DEF k, g, b, a
  <2>8. b >= g + Need(job[w], k + 1) + (a + Fee) BY <2>4, <2>5, <2>6
  <2>9. balance'["payout"] + Unforeseen(job'[w]) >=
          Floor("payout") + Need(job'[w], FirstOpen(pc'[w], next'[w])) + Own(pending'["payout"], w)
    BY <1>1, <2>3, <2>7, <2>8 DEF b, g
  <2> QED BY <1>1, <1>2, <1>6, <2>7, <2>9 DEF FundedAt, Unforeseen, LeftOut, Floor
<1> QED BY <1>5, <1>6

(* A block takes what the mempool had of the run; a payment of another     *)
(* worker ends the promise.                                                *)
LEMMA FundedChain ==
  ASSUME TypeOK, TypeOK', FundedCovered, NEW r \in Roles, Commit(r) \/ Drop(r) \/ Deposit(r)
  PROVE  FundedCovered'
<1> SUFFICES ASSUME NEW v \in Workers, funded'[v] PROVE FundedAt(v)'
  BY DEF FundedCovered
<1>1. /\ UNCHANGED <<pc, job, next>> /\ funded[v]
  BY DEF Commit, Drop, Deposit, local
<1>2. FundedAt(v) BY <1>1 DEF FundedCovered
<1>3. CASE Deposit(r)
  <2>1. PICK amount \in 1..(Supply[r] - balance[r]) : balance' = [balance EXCEPT ![r] = @ + amount]
    BY <1>3 DEF Deposit
  <2>2. amount \in Nat BY BalancesAssumption DEF TypeOK
  <2>3. balance'["payout"] >= balance["payout"] BY <2>1, <2>2 DEF TypeOK, Roles
  <2>4. Own(pending'["payout"], v) <= Own(pending["payout"], v) BY <1>3, OwnType DEF Deposit
  <2> QED BY <1>1, <1>2, <2>3, <2>4, FundedKept
<1>4. CASE Drop(r)
  <2>1. balance'["payout"] >= balance["payout"] BY <1>4 DEF Drop, TypeOK, Roles
  <2>2. pending'["payout"] = NoTx \/ pending'["payout"] = pending["payout"]
    BY <1>4 DEF Drop, TypeOK, Roles
  <2>3. Own(NoTx, v) = 0 BY DEF Own
  <2>4. Own(pending'["payout"], v) <= Own(pending["payout"], v) BY <2>2, <2>3, OwnType
  <2> QED BY <1>1, <1>2, <2>1, <2>4, FundedKept
<1>5. CASE Commit(r) /\ r # "payout"
  <2>1. balance'["payout"] = balance["payout"] /\ pending'["payout"] = pending["payout"]
    BY <1>5 DEF Commit, TypeOK, Roles
  <2>2. balance'["payout"] >= balance["payout"] BY <2>1 DEF TypeOK, Roles
  <2>3. Own(pending'["payout"], v) <= Own(pending["payout"], v) BY <2>1, OwnType
  <2> QED BY <1>1, <1>2, <2>2, <2>3, FundedKept
<1>6. CASE Commit(r) /\ r = "payout"
  <2> DEFINE x == Floor("payout") + Need(job[v], FirstOpen(pc[v], next[v]))
             b == balance["payout"]
             c == pending["payout"].amount + Fee
             u == Unforeseen(job[v])
  <2>1. pending["payout"] # NoTx /\ pending["payout"].amount \in Nat /\ b \in Nat /\ c \in Nat /\ Fee \in Nat
    BY <1>6, ThresholdsAssumption DEF Commit, TypeOK, Txs, Roles
  <2>2. pending["payout"].from = v
    BY <1>1, <1>2, <1>6 DEF Commit, FundedAt, Role
  <2>3. Own(pending["payout"], v) = c BY <2>1, <2>2 DEF Own
  <2>4. x \in Nat
    <3>1. job[v] \in Requests /\ next[v] \in DOMAIN job[v].amounts BY <1>2 DEF FundedAt, TypeOK
    <3>2. Need(job[v], next[v]) \in Nat /\ Need(job[v], next[v] + 1) \in Nat BY <3>1, NeedStep
    <3>3. Floor("payout") \in Nat BY FloorType DEF Roles
    <3> QED BY <3>2, <3>3 DEF FirstOpen
  <2>5. b + u >= x + c /\ u \in Nat
    <3>1. b + u >= x + c BY <1>2, <2>3 DEF FundedAt
    <3>2. u \in Nat BY <1>2, UnforeseenType DEF FundedAt, TypeOK
    <3> QED BY <3>1, <3>2
  <2>6. balance'["payout"] = IF b >= pending["payout"].amount + Fee
                             THEN b - pending["payout"].amount - Fee ELSE b - Fee
    BY <1>6 DEF Commit, TypeOK, Roles
  <2>7. pending'["payout"] = NoTx BY <1>6 DEF Commit, TypeOK, Roles
  <2>8. Own(pending'["payout"], v) = 0 BY <2>7 DEF Own
  <2> HIDE DEF x, b, u
  <2>9. balance'["payout"] \in Nat /\ balance'["payout"] + u >= x
    <3>1. balance'["payout"] \in Nat BY DEF TypeOK, Roles
    <3> QED BY <2>1, <2>4, <2>5, <2>6, <3>1
  <2>10. balance'["payout"] + u >= x + 0 BY <2>4, <2>5, <2>9
  <2>11. balance'["payout"] + Unforeseen(job'[v]) >=
           Floor("payout") + Need(job'[v], FirstOpen(pc'[v], next'[v])) + Own(pending'["payout"], v)
    BY <1>1, <2>8, <2>10 DEF x, u
  <2> QED BY <1>1, <1>2, <2>11 DEF FundedAt, Unforeseen, LeftOut, Floor
<1> QED BY <1>3, <1>4, <1>5, <1>6

LEMMA FundedNext == TypeOK /\ TypeOK' /\ FundedCovered /\ [Next]_vars => FundedCovered'
<1> SUFFICES ASSUME TypeOK, TypeOK', FundedCovered, [Next]_vars PROVE FundedCovered'
  OBVIOUS
<1>1. ASSUME UNCHANGED vars PROVE FundedCovered'
  BY <1>1 DEF FundedCovered, FundedAt, vars, Unforeseen, LeftOut, Need, Rest, FirstOpen, Own, Floor
<1>2. ASSUME NEW w \in Workers, Arrive(w) PROVE FundedCovered'
  BY <1>2, FundedArrive DEF Arrive, PlanRun, Execute
<1>3. ASSUME NEW w \in Workers, Step(w) PROVE FundedCovered'
  <2>1. CASE Preflight(w)
    <3> SUFFICES ASSUME NEW v \in Workers, funded'[v] PROVE FundedAt(v)'
      BY DEF FundedCovered
    <3>1. /\ UNCHANGED <<job, next, funded, balance, pending>> /\ pc[w] = "line"
          /\ pc' = [pc EXCEPT ![w] = "checked"]
      BY <2>1 DEF Preflight, local, chain
    <3>2. FundedAt(v) BY <3>1 DEF FundedCovered
    <3>3. pc'[v] # "idle" /\ FirstOpen(pc'[v], next'[v]) = FirstOpen(pc[v], next[v])
      BY <3>1, <3>2 DEF FirstOpen, FundedAt, TypeOK
    <3> QED BY <3>1, <3>2, <3>3 DEF FundedAt, Unforeseen, LeftOut, Floor
  <2>2. CASE PreflightRefuses(w) BY <2>2, FundedNextLine DEF PreflightRefuses
  <2>3. CASE Broadcast(w) BY <2>3, FundedBroadcast
  <2>4. CASE BroadcastRefused(w) BY <2>4, FundedNextLine DEF BroadcastRefused
  <2>5. CASE Confirm(w) BY <2>5, FundedNextLine DEF Confirm
  <2> QED BY <1>3, <2>1, <2>2, <2>3, <2>4, <2>5 DEF Step
<1> QED BY <1>1, <1>2, <1>3, FundedChain DEF Next

(* The fees of the lines from k on are in what the run needs, so that only *)
(* those of the lines before can be missing.                               *)
LEMMA LeftOutSplits ==
  ASSUME NEW n \in Nat, NEW k \in 1..n
  PROVE  LeftOut(k - 1) \in Nat /\ LeftOut(n) <= LeftOut(k - 1) + Fee * (n + 1 - k)
<1> DEFINE i == k - 1
           j == n + 1 - k
<1>1. i \in Nat /\ j \in Nat /\ i + j = n /\ Fee \in Nat BY ThresholdsAssumption
<1> HIDE DEF i, j
<1>2. Fee * i \in Nat /\ Fee * j \in Nat /\ Fee * n = Fee * i + Fee * j
  <2>1. Fee * i \in Nat /\ Fee * j \in Nat BY <1>1, ProductType
  <2>2. Fee * (i + j) = Fee * i + Fee * j BY <1>1
  <2> QED BY <1>1, <2>1, <2>2
<1>3. Fee - Fee = 0 /\ Fee - 0 = Fee /\ 0 * n = 0 /\ 0 * i = 0 BY <1>1
<1>4. LeftOut(n) <= LeftOut(i) + Fee * j
  <2>1. CASE FixedFee = 0
    <3>1. LeftOut(n) = Fee * n /\ LeftOut(i) = Fee * i BY <1>3, <2>1 DEF LeftOut
    <3> QED BY <1>2, <3>1
  <2>2. CASE FixedFee = Fee
    <3>1. LeftOut(n) = 0 /\ LeftOut(i) = 0 BY <1>3, <2>2 DEF LeftOut
    <3> QED BY <1>2, <3>1
  <2> QED BY <2>1, <2>2, FeesAssumption
<1>5. LeftOut(i) \in Nat BY <1>1, LeftOutType
<1> QED BY <1>4, <1>5 DEF i, j

LEMMA FundedImplies == TypeOK /\ FundedCovered => FundedRunIsCovered
<1> SUFFICES ASSUME TypeOK, FundedCovered PROVE FundedRunIsCovered
  OBVIOUS
<1>0. "payout" \in Roles /\ balance["payout"] \in Nat /\ Floor("payout") \in Nat
  BY FloorType DEF TypeOK, Roles
<1>1. ASSUME NEW w \in Workers, pc[w] = "line", funded[w]
      PROVE  Judged(Role(w), balance[Role(w)] + LeftOut(next[w] - 1), Amount(w))
  <2> DEFINE k == next[w]
             n == Len(job[w].amounts)
             o == Own(pending["payout"], w)
             rest == Rest(job[w], k)
             fees == Fee * (n + 1 - k)
             b == balance["payout"]
             g == Floor("payout")
             l == LeftOut(k - 1)
  <2>1. FundedAt(w) BY <1>1 DEF FundedCovered
  <2>2. job[w] \in Requests /\ k \in DOMAIN job[w].amounts BY <1>1 DEF TypeOK
  <2>3. n \in Nat /\ k \in 1..n /\ k \in Nat /\ k + 1 \in Nat BY <2>2, LinesOf
  <2>4. rest \in Nat /\ Amount(w) \in Nat /\ rest >= Amount(w)
    <3>1. rest = Amount(w) + Rest(job[w], k + 1) BY <2>2, RestStep DEF Amount
    <3>2. Amount(w) \in Nat /\ Rest(job[w], k + 1) \in Nat BY <2>2, <2>3, RestType, AmountTypes DEF Amount
    <3> QED BY <3>1, <3>2
  <2>5. o \in Nat BY OwnType
  <2>6. l \in Nat /\ LeftOut(n) \in Nat /\ LeftOut(n) <= l + fees
    BY <2>3, LeftOutSplits, LeftOutType
  <2>7. fees \in Nat
    <3>1. n + 1 - k \in Nat BY <2>3
    <3> QED BY <3>1, LeftOutType
  <2>8. Role(w) = "payout" /\ b + LeftOut(n) >= g + (rest + fees) + o
    BY <1>1, <2>1 DEF FundedAt, Role, FirstOpen, Unforeseen, Need
  <2> HIDE DEF k, n, o, rest, fees, b, g, l
  <2>9. b + l \in Nat /\ b + l >= Amount(w) + g
    BY <1>0, <2>4, <2>5, <2>6, <2>7, <2>8 DEF b, g
  <2> QED BY <1>0, <2>4, <2>8, <2>9, CoveredIsJudged DEF b, g, k, l
<1>2. ASSUME NEW req \in Requests, Covers(balance["payout"], req)
      PROVE  PlanPasses(req) \/ requiresEscrowSigner(req)
  <2>1. /\ req.role = "payout" /\ RequestedTotal(req) = TrueTotal(req)
        /\ balance["payout"] >= TrueTotal(req) + Floor("payout")
    BY <1>0, <1>2, CoversMeans
  <2>2. TrueTotal(req) \in Nat BY RestOfAll
  <2> QED BY <1>0, <2>1, <2>2, CoveredIsJudged DEF PlanPasses
<1> QED BY <1>1, <1>2 DEF FundedRunIsCovered

(* In every behaviour a run that starts with the balance                   *)
(* buildChallengeTopUpPlan asks for passes its plan, and the preflight of  *)
(* a line of it (preflightExecution) finds the balance short of at most    *)
(* the fees of earlier lines that estimateSettlementRunFee left out, until *)
(* a payment of another worker is committed: of nothing when               *)
(* WOLO_SETTLEMENT_FEES is in uwolo, of every fee paid when it is unset.   *)
THEOREM FundedRunSafety == Spec => []FundedRunIsCovered
<1>1. Init => FundedCovered BY DEF Init, FundedCovered
<1> QED BY <1>1, TypeSafety, FundedNext, FundedImplies, PTL DEF Spec

(* With WOLO_SETTLEMENT_FEES in uwolo (--fees, broadcastPayout) such a run *)
(* is not cut short: each of its lines passes its preflight on the balance *)
(* as it is.                                                               *)
THEOREM FundedRunCompletes ==
  ASSUME FixedFee = Fee
  PROVE  Spec => [](\A w \in Workers : pc[w] = "line" /\ funded[w] =>
                       Judged(Role(w), balance[Role(w)], Amount(w)))
<1>1. TypeOK /\ FundedRunIsCovered =>
        \A w \in Workers : pc[w] = "line" /\ funded[w] => Judged(Role(w), balance[Role(w)], Amount(w))
  <2> SUFFICES ASSUME TypeOK, FundedRunIsCovered, NEW w \in Workers, pc[w] = "line", funded[w]
               PROVE  Judged(Role(w), balance[Role(w)], Amount(w))
    OBVIOUS
  <2>1. job[w] \in Requests /\ next[w] \in Nat /\ Role(w) \in Roles
    BY RequestsAssumption DEF TypeOK, Role
  <2>2. balance[Role(w)] \in Nat BY <2>1 DEF TypeOK
  <2>3. LeftOut(next[w] - 1) = 0
    <3>1. Fee - FixedFee = 0 BY ThresholdsAssumption
    <3>2. next[w] - 1 \in Int /\ 0 * (next[w] - 1) = 0 BY <2>1
    <3> QED BY <3>1, <3>2 DEF LeftOut
  <2>4. balance[Role(w)] + LeftOut(next[w] - 1) = balance[Role(w)] BY <2>2, <2>3
  <2> QED BY <2>4 DEF FundedRunIsCovered
<1> QED BY <1>1, TypeSafety, FundedRunSafety, PTL
=============================================================================
