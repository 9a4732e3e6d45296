---------------------------- MODULE FundingProofs ----------------------------
(***************************************************************************)
(* Proofs about Funding, for any transactions, filters, limits and         *)
(* modulus: types, that every listed funding verifies, that a poller that  *)
(* keeps up misses nothing, and that what verifies is backed.              *)
(***************************************************************************)
EXTENDS Funding, SumProofs

-----------------------------------------------------------------------------
(* Transactions and the first of some places.                              *)

LEMMA TransfersType ==
  ASSUME NEW t \in Txs
  PROVE  /\ Len(Transfers(t)) \in Nat /\ DOMAIN Transfers(t) = 1..Len(Transfers(t))
         /\ \A k \in DOMAIN Transfers(t) :
               /\ Transfers(t)[k].amount \in 0..(Modulus - 1)
               /\ Transfers(t)[k].from # Empty
BY TxsAssumption DEF Transfers, TransferList

(* Only a transaction that succeeded names a transfer to escrow.           *)
LEMMA ReachedEscrow ==
  ASSUME NEW t \in Txs, NEW k \in DOMAIN Transfers(t), Transfers(t)[k].to = Escrow
  PROVE  t.code = 0
<1> SUFFICES ASSUME t.code # 0 PROVE FALSE
  OBVIOUS
<1>1. t.logs = << >> /\ \A j \in DOMAIN t.events : t.events[j].to # Escrow
  BY TxsAssumption
<1>2. Transfers(t) = t.events BY <1>1 DEF Transfers
<1> QED BY <1>1, <1>2

LEMMA FirstIsIn ==
  ASSUME NEW S, NEW k \in First(S)
  PROVE  k \in S
BY DEF First

LEMMA FirstExists ==
  ASSUME NEW S \in SUBSET Nat, S # {}
  PROVE  First(S) # {}
<1>1. Min(S) \in S /\ \A j \in S : Min(S) <= j BY LeastNumber
<1> QED BY <1>1 DEF First

LEMMA MatchMeans ==
  ASSUME NEW t, NEW sender, NEW recipient, NEW amount, NEW k \in Match(t, sender, recipient, amount)
  PROVE  /\ k \in DOMAIN Transfers(t)
         /\ Meets(sender, Transfers(t)[k].from)
         /\ Meets(recipient, Transfers(t)[k].to)
         /\ Meets(amount, Transfers(t)[k].amount)
BY FirstIsIn DEF Match

-----------------------------------------------------------------------------
(* Verified funding is backed.                                             *)

LEMMA VerifiedMeans ==
  ASSUME NEW h, NEW t, NEW expected, NEW f \in verifyChallengeFundingDeposit(h, t, expected)
  PROVE  \E k \in Match(t, expected.sender, Escrow, expected.total) :
            Parses(Transfers(t)[k], t.memo) /\ f = FundingResult(h, Transfers(t)[k], t.memo)
BY DEF verifyChallengeFundingDeposit

(* A matching transfer of a plain transaction came to escrow.              *)
LEMMA MatchCame ==
  ASSUME NEW h, chain[h] \in Txs, Plain(chain[h]), NEW sender, NEW amount,
         NEW k \in Match(chain[h], sender, Escrow, amount)
  PROVE  /\ k \in DOMAIN Transfers(chain[h]) /\ chain[h].code = 0
         /\ IntoEscrow(Transfers(chain[h])[k])
         /\ Meets(sender, Transfers(chain[h])[k].from)
         /\ Meets(amount, Transfers(chain[h])[k].amount)
<1> DEFINE x == Transfers(chain[h])[k]
<1>1. k \in DOMAIN Transfers(chain[h]) /\ Meets(sender, x.from) /\ Meets(Escrow, x.to) /\ Meets(amount, x.amount)
  BY MatchMeans
<1>2. x.to = Escrow BY <1>1, EmptyAssumption DEF Meets
<1>3. chain[h].code = 0 BY <1>1, <1>2, ReachedEscrow
<1>4. x.denom = BaseDenom BY <1>1, <1>2 DEF Plain, Range
<1> QED BY <1>1, <1>2, <1>3, <1>4 DEF IntoEscrow

LEMMA BackedHolds == TypeOK => VerifiedFundingIsBacked
<1> SUFFICES ASSUME TypeOK, NEW h \in DOMAIN chain, NEW n \in Amounts \cup {Empty}, Plain(chain[h])
             PROVE  /\ \A f \in verifyChallengeFundingDeposit(h, chain[h], [filter EXCEPT !.total = n]) :
                          Came(h, f.sender, f.wager + f.guarantee)
                    /\ n # Empty /\ verifyEscrowDeposit(chain[h], filter.sender, n)
                         => Came(h, filter.sender, n)
  BY DEF VerifiedFundingIsBacked
<1>1. chain[h] \in Txs BY DEF TypeOK
<1>2. ASSUME NEW f \in verifyChallengeFundingDeposit(h, chain[h], [filter EXCEPT !.total = n])
      PROVE  Came(h, f.sender, f.wager + f.guarantee)
  <2> DEFINE expected == [filter EXCEPT !.total = n]
             t == chain[h]
  <2>1. PICK k \in Match(t, expected.sender, Escrow, expected.total) :
           Parses(Transfers(t)[k], t.memo) /\ f = FundingResult(h, Transfers(t)[k], t.memo)
    <3>1. f \in verifyChallengeFundingDeposit(h, t, expected) BY <1>2
    <3> HIDE DEF expected, t
    <3> QED BY <3>1, VerifiedMeans
  <2> DEFINE x == Transfers(t)[k]
  <2>2. k \in DOMAIN Transfers(t) /\ t.code = 0 /\ IntoEscrow(x) BY <1>1, <2>1, MatchCame
  <2>3. f.sender = x.from /\ f.wager = t.memo.wager /\ f.guarantee = t.memo.guarantee
    BY <2>1 DEF FundingResult
  <2>4. x.amount = t.memo.wager + t.memo.guarantee
    <3>1. t.memo # NoMemo /\ (t.memo.wager + t.memo.guarantee) % Modulus = x.amount
      BY <2>1 DEF Parses, MemoComplete
    <3>2. t.memo.wager \in Nat /\ t.memo.guarantee \in Nat /\ Modulus \in Nat
      BY <1>1, <3>1, TxsAssumption, BoundsAssumption
    <3>3. t.memo.wager + t.memo.guarantee < Modulus BY <3>1 DEF Plain
    <3> DEFINE sum == t.memo.wager + t.memo.guarantee
    <3>4. sum \in Nat BY <3>2
    <3> HIDE DEF sum
    <3>5. sum % Modulus = sum BY <3>2, <3>3, <3>4 DEF sum
    <3> QED BY <3>1, <3>5 DEF sum
  <2>5. Meets(f.sender, x.from) BY <2>3 DEF Meets
  <2>6. x \in Range(Transfers(t)) BY <2>2 DEF Range
  <2>7. f.wager + f.guarantee = x.amount BY <2>3, <2>4
  <2> HIDE DEF x
  <2> QED BY <2>2, <2>5, <2>6, <2>7 DEF Came
<1>3. ASSUME n # Empty, verifyEscrowDeposit(chain[h], filter.sender, n)
      PROVE  Came(h, filter.sender, n)
  <2>1. PICK k : k \in Match(chain[h], filter.sender, Escrow, n) BY <1>3 DEF verifyEscrowDeposit
  <2> DEFINE x == Transfers(chain[h])[k]
  <2>2. /\ k \in DOMAIN Transfers(chain[h]) /\ chain[h].code = 0 /\ IntoEscrow(x)
        /\ Meets(filter.sender, x.from) /\ Meets(n, x.amount)
    BY <1>1, <2>1, MatchCame
  <2>3. x \in Range(Transfers(chain[h])) /\ x.amount = n BY <1>3, <2>2 DEF Range, Meets
  <2> QED BY <2>2, <2>3 DEF Came
<1> QED BY <1>2, <1>3

-----------------------------------------------------------------------------
(* Finite sets of places, and what is cut off.                             *)

LEMMA ImageSize ==
  ASSUME NEW A, IsFiniteSet(A), NEW f
  PROVE  IsFiniteSet({f[x] : x \in A}) /\ Cardinality({f[x] : x \in A}) <= Cardinality(A)
<1> DEFINE g == [x \in A |-> f[x]]
           T == {f[x] : x \in A}
<1>1. g \in Surjection(A, T) BY DEF Surjection
<1> HIDE DEF g, T
<1>2. IsFiniteSet(T) /\ Cardinality(T) <= Cardinality(A) BY <1>1, FS_Surjection
<1> QED BY <1>2 DEF T

(* Every transfer on chain.                                                *)
Places == UNION {{<<h, k>> : k \in DOMAIN Transfers(chain[h])} : h \in DOMAIN chain}

LEMMA ChainType ==
  ASSUME TypeOK
  PROVE  /\ Len(chain) \in Nat /\ DOMAIN chain = 1..Len(chain)
         /\ \A h \in DOMAIN chain : chain[h] \in Txs
         /\ IsFiniteSet(DOMAIN chain)
<1>1. chain \in Seq(Txs) BY DEF TypeOK
<1>2. Len(chain) \in Nat /\ DOMAIN chain = 1..Len(chain) /\ \A h \in DOMAIN chain : chain[h] \in Txs BY <1>1
<1>3. IsFiniteSet(1..Len(chain)) BY <1>2, FS_Interval
<1> QED BY <1>2, <1>3

LEMMA PlacesFinite ==
  ASSUME TypeOK
  PROVE  IsFiniteSet(Places) /\ Places \subseteq Nat \X Nat
<1> DEFINE Of == [h \in DOMAIN chain |-> {<<h, k>> : k \in DOMAIN Transfers(chain[h])}]
           S == {Of[h] : h \in DOMAIN chain}
<1>1. Places = UNION S BY DEF Places
<1>2. \A h \in DOMAIN chain : Of[h] \subseteq Nat \X Nat
  BY ChainType, TransfersType
<1>3. \A h \in DOMAIN chain : IsFiniteSet(Of[h])
  <2> SUFFICES ASSUME NEW h \in DOMAIN chain PROVE IsFiniteSet(Of[h])
    OBVIOUS
  <2> DEFINE D == DOMAIN Transfers(chain[h])
             f == [k \in D |-> <<h, k>>]
  <2>1. D = 1..Len(Transfers(chain[h])) /\ Len(Transfers(chain[h])) \in Nat
    BY ChainType, TransfersType
  <2>2. IsFiniteSet(D) BY <2>1, FS_Interval
  <2>3. Of[h] = {f[k] : k \in D} OBVIOUS
  <2> HIDE DEF D, f, Of
  <2> QED BY <2>2, <2>3, ImageSize
<1> HIDE DEF Of
<1>4. IsFiniteSet(S) BY ChainType, ImageSize
<1>5. IsFiniteSet(UNION S) BY <1>3, <1>4, FS_UNION
<1> QED BY <1>1, <1>2, <1>5

(* Some places have a last one in the order of the listings.               *)
LEMMA LastPlace ==
  ASSUME NEW S \in SUBSET (Nat \X Nat), IsFiniteSet(S), S # {}
  PROVE  \E m \in S : \A q \in S \ {m} : Before(q, m)
<1> DEFINE P == {T \in SUBSET S : T # {} => \E m \in T : \A q \in T \ {m} : Before(q, m)}
<1>1. {} \in P OBVIOUS
<1>2. ASSUME NEW T \in SUBSET S, NEW x \in S \ T, T \in P PROVE T \cup {x} \in P
  <2>1. CASE T = {}
    <3>1. x \in T \cup {x} /\ \A q \in (T \cup {x}) \ {x} : Before(q, x) BY <2>1
    <3> QED BY <3>1
  <2>2. CASE T # {}
    <3>1. PICK m \in T : \A q \in T \ {m} : Before(q, m) BY <1>2, <2>2
    <3>2. \A p \in S : p[1] \in Nat /\ p[2] \in Nat /\ p = <<p[1], p[2]>> OBVIOUS
    <3>3. Before(x, m) \/ Before(m, x)
      BY <1>2, <3>1, <3>2 DEF Before
    <3>4. CASE Before(x, m)
      <4>1. \A q \in (T \cup {x}) \ {m} : Before(q, m) BY <3>1, <3>4
      <4> QED BY <3>1, <4>1
    <3>5. CASE Before(m, x)
      <4>1. \A q \in T : Before(q, x)
        BY <3>1, <3>2, <3>5 DEF Before
      <4>2. \A q \in (T \cup {x}) \ {x} : Before(q, x) BY <4>1
      <4> QED BY <4>2
    <3> QED BY <3>3, <3>4, <3>5
  <2> QED BY <2>1, <2>2
<1> HIDE DEF P
<1>3. SUBSET S \subseteq P BY ONLY <1>1, <1>2, IsFiniteSet(S), SetInduction
<1>4. S \in P BY <1>3
<1> QED BY <1>4 DEF P

(* At most n are at most n.                                                *)
LEMMA AtMostSize ==
  ASSUME NEW S \in SUBSET (Nat \X Nat), IsFiniteSet(S), NEW n \in Nat
  PROVE  /\ AtMost(n, S) \subseteq S /\ IsFiniteSet(AtMost(n, S))
         /\ Cardinality(AtMost(n, S)) \in Nat /\ Cardinality(AtMost(n, S)) <= n
<1> DEFINE A == AtMost(n, S)
<1>1. A \subseteq S BY DEF AtMost
<1>2. IsFiniteSet(A) BY <1>1, FS_Subset
<1>3. Cardinality(A) \in Nat BY <1>2, FS_CardinalityType
<1>4. CASE A = {}
  <2>1. Cardinality(A) = 0 BY <1>4, FS_EmptySet
  <2> QED BY <1>1, <1>2, <2>1
<1>5. CASE A # {}
  <2>1. A \in SUBSET (Nat \X Nat) BY <1>1
  <2> HIDE DEF A
  <2>2. PICK m \in A : \A q \in A \ {m} : Before(q, m) BY <1>2, <1>5, <2>1, LastPlace
  <2> DEFINE B == {q \in S : Before(q, m)}
  <2>3. Cardinality(B) < n BY <2>2 DEF A, AtMost
  <2>4. A \ {m} \subseteq B BY <1>1, <2>2
  <2>5. IsFiniteSet(B) BY FS_Subset
  <2> HIDE DEF B
  <2>6. Cardinality(A \ {m}) <= Cardinality(B) BY <2>4, <2>5, FS_Subset
  <2>7. Cardinality(A \ {m}) = Cardinality(A) - 1 BY <1>2, <2>2, FS_RemoveElement
  <2>8. Cardinality(B) \in Nat BY <2>5, FS_CardinalityType
  <2>9. Cardinality(A) <= n BY <1>3, <2>3, <2>6, <2>7, <2>8
  <2> QED BY <1>1, <1>2, <1>3, <2>9 DEF A
<1> QED BY <1>4, <1>5

-----------------------------------------------------------------------------
(* What is listed.                                                         *)

LEMMA SearchLimitType ==
  /\ SearchLimit \in Nat /\ SearchLimit \in {Limit * SearchFactor, SearchCap} /\ Limit \in Nat
<1>1. Limit \in Nat /\ SearchFactor \in Nat /\ SearchCap \in Nat BY LimitsAssumption
<1>2. Limit * SearchFactor \in Nat BY <1>1
<1> DEFINE S == {Limit * SearchFactor, SearchCap}
<1>3. S \in SUBSET Nat /\ S # {} BY <1>1, <1>2
<1>4. SearchLimit = Min(S) BY DEF SearchLimit
<1> HIDE DEF S
<1>5. Min(S) \in S BY <1>3, LeastNumber
<1> QED BY <1>1, <1>3, <1>4, <1>5 DEF S

(* The deposits a search brings, and those of them a poll is for.          *)
Searched(expected) == UNION {DepositsOf(h, expected.sender) : h \in Found(expected.sender)}
Candidates(expected) ==
  {q \in listRecentEscrowDeposits(expected.sender) : Wanted(q[1], TransferAt(q), expected)}

LEMMA SearchedArePlaces ==
  ASSUME TypeOK, NEW expected
  PROVE  Searched(expected) \subseteq Places /\ IsFiniteSet(Searched(expected))
<1>1. Found(expected.sender) \subseteq DOMAIN chain BY DEF Found, Newest
<1>2. \A h \in DOMAIN chain : DepositsOf(h, expected.sender) \subseteq Places BY DEF DepositsOf, Places
<1>3. Searched(expected) \subseteq Places BY <1>1, <1>2 DEF Searched
<1> QED BY <1>3, PlacesFinite, FS_Subset

LEMMA CandidatesArePlaces ==
  ASSUME TypeOK, NEW expected
  PROVE  /\ Candidates(expected) \in SUBSET (Nat \X Nat) /\ IsFiniteSet(Candidates(expected))
         /\ Candidates(expected) \subseteq Places
         /\ listRecentChallengeFundingDeposits(expected)
              = {FundingAt(p) : p \in AtMost(Limit, Candidates(expected))}
<1>1. listRecentEscrowDeposits(expected.sender) \subseteq Searched(expected)
  BY DEF listRecentEscrowDeposits, AtMost, Searched
<1>2. Candidates(expected) \subseteq Searched(expected) BY <1>1 DEF Candidates
<1>3. Candidates(expected) \subseteq Places BY <1>2, SearchedArePlaces
<1>4. IsFiniteSet(Candidates(expected)) BY <1>3, PlacesFinite, FS_Subset
<1>5. listRecentChallengeFundingDeposits(expected)
        = {FundingAt(p) : p \in AtMost(Limit, Candidates(expected))}
  BY DEF listRecentChallengeFundingDeposits, Candidates
<1> QED BY <1>3, <1>4, <1>5, PlacesFinite

(* A funding is a wanted transfer on chain.                                *)
Stands(f) ==
  \E h \in DOMAIN chain : \E k \in DOMAIN Transfers(chain[h]) :
     /\ f = FundingResult(h, Transfers(chain[h])[k], chain[h].memo)
     /\ Wanted(h, Transfers(chain[h])[k], filter)

LEMMA ListedStands ==
  ASSUME TypeOK, NEW f \in listRecentChallengeFundingDeposits(filter)
  PROVE  Stands(f)
<1>1. PICK p \in AtMost(Limit, Candidates(filter)) : f = FundingAt(p) BY CandidatesArePlaces
<1>2. p \in Candidates(filter) BY <1>1 DEF AtMost
<1>3. p \in Places /\ Wanted(p[1], TransferAt(p), filter) BY <1>2, CandidatesArePlaces DEF Candidates
<1>4. PICK h \in DOMAIN chain : \E k \in DOMAIN Transfers(chain[h]) : p = <<h, k>> BY <1>3 DEF Places
<1>5. PICK k \in DOMAIN Transfers(chain[h]) : p = <<h, k>> BY <1>4
<1>6. p[1] = h /\ p[2] = k BY <1>5
<1>7. /\ f = FundingResult(h, Transfers(chain[h])[k], chain[h].memo)
      /\ Wanted(h, Transfers(chain[h])[k], filter)
  BY <1>1, <1>3, <1>6 DEF FundingAt, TransferAt
<1> QED BY <1>7 DEF Stands

(* What stands has the type of a funding.                                  *)
LEMMA StandsType ==
  ASSUME TypeOK, NEW f, Stands(f)
  PROVE  f \in Fundings
<1>1. PICK h \in DOMAIN chain : \E k \in DOMAIN Transfers(chain[h]) :
         /\ f = FundingResult(h, Transfers(chain[h])[k], chain[h].memo)
         /\ Wanted(h, Transfers(chain[h])[k], filter)
  BY DEF Stands
<1>1a. PICK k \in DOMAIN Transfers(chain[h]) :
         /\ f = FundingResult(h, Transfers(chain[h])[k], chain[h].memo)
         /\ Wanted(h, Transfers(chain[h])[k], filter)
  BY <1>1
<1> DEFINE t == chain[h]
           x == Transfers(t)[k]
<1>2. t \in Txs /\ h \in 1..MaxTxs
  BY ChainType, BoundsAssumption DEF TypeOK
<1>3. x.amount \in 0..(Modulus - 1) BY <1>2, TransfersType
<1>4. MemoComplete(t.memo) /\ x.amount > 0 BY <1>1a DEF Wanted, Parses
<1>5. t.memo # NoMemo /\ t.memo.wager > 0 /\ t.memo.guarantee > 0 BY <1>4 DEF MemoComplete
<1>6. t.memo.wager \in 0..(Modulus - 1) /\ t.memo.guarantee \in 0..(Modulus - 1)
  BY <1>2, <1>5, TxsAssumption
<1>7. x \in Range(Transfers(t)) BY DEF Range
<1>8. x.from \in UNION {{y.from : y \in Range(Transfers(u))} : u \in Txs} BY <1>2, <1>7
<1>9. t.memo.fields \in {v.memo.fields : v \in {u \in Txs : u.memo # NoMemo}} BY <1>2, <1>5
<1>10. x.amount \in 1..(Modulus - 1) /\ t.memo.wager \in 1..(Modulus - 1)
       /\ t.memo.guarantee \in 1..(Modulus - 1)
  BY <1>3, <1>4, <1>5, <1>6, BoundsAssumption
<1> HIDE DEF x, t
<1> QED BY <1>1a, <1>2, <1>8, <1>9, <1>10 DEF FundingResult, Fundings, t, x

(* The chain only grows: what is at a height stays.                        *)
LEMMA ChainGrows ==
  ASSUME TypeOK, NEW t \in Txs, Commit(t)
  PROVE  /\ Len(chain') = Len(chain) + 1 /\ DOMAIN chain \subseteq DOMAIN chain'
         /\ \A h \in DOMAIN chain : chain'[h] = chain[h]
         /\ chain' \in Seq(Txs)
<1>1. chain \in Seq(Txs) /\ chain' = Append(chain, t) BY DEF TypeOK, Commit
<1> QED BY <1>1

LEMMA StandsStays ==
  ASSUME TypeOK, NEW t \in Txs, Commit(t), NEW f, Stands(f)
  PROVE  Stands(f)'
<1>1. filter' = filter BY DEF Commit
<1>2. PICK h \in DOMAIN chain : \E k \in DOMAIN Transfers(chain[h]) :
         /\ f = FundingResult(h, Transfers(chain[h])[k], chain[h].memo)
         /\ Wanted(h, Transfers(chain[h])[k], filter)
  BY DEF Stands
<1>2a. PICK k \in DOMAIN Transfers(chain[h]) :
         /\ f = FundingResult(h, Transfers(chain[h])[k], chain[h].memo)
         /\ Wanted(h, Transfers(chain[h])[k], filter)
  BY <1>2
<1>3. h \in DOMAIN chain' /\ chain'[h] = chain[h] BY ChainGrows
<1> QED BY <1>1, <1>2a, <1>3 DEF Stands, Wanted

AllStand == \A f \in known : Stands(f)

LEMMA StandInit == Init => TypeOK /\ AllStand
<1> SUFFICES ASSUME Init PROVE TypeOK /\ AllStand
  OBVIOUS
<1>1. chain \in Seq(Txs) /\ Len(chain) = 0 BY DEF Init
<1>2. IsFiniteSet(listing) /\ Cardinality(listing) = 0 BY FS_EmptySet DEF Init
<1>3. Len(chain) <= MaxTxs /\ Cardinality(listing) <= Limit
  BY <1>1, <1>2, BoundsAssumption, LimitsAssumption
<1>4. known = {} /\ listing = {} /\ seen = 0 /\ calm = TRUE /\ filter \in Filters BY DEF Init
<1> QED BY <1>1, <1>2, <1>3, <1>4 DEF TypeOK, AllStand

LEMMA StandNext == TypeOK /\ AllStand /\ [Next]_vars => TypeOK' /\ AllStand'
<1> SUFFICES ASSUME TypeOK, AllStand, [Next]_vars PROVE TypeOK' /\ AllStand'
  OBVIOUS
<1>1. CASE UNCHANGED vars
  <2>1. /\ chain' = chain /\ filter' = filter /\ listing' = listing /\ seen' = seen
        /\ known' = known /\ calm' = calm
    BY <1>1 DEF vars
  <2> QED BY <2>1 DEF TypeOK, AllStand, Stands, Wanted
<1>2. ASSUME NEW t \in Txs, Commit(t) PROVE TypeOK' /\ AllStand'
  <2>1. /\ filter' = filter /\ listing' = listing /\ seen' = seen /\ known' = known /\ calm' = calm
        /\ Len(chain) < MaxTxs
    BY <1>2 DEF Commit
  <2>2. /\ Len(chain') = Len(chain) + 1 /\ chain' \in Seq(Txs) /\ Len(chain) \in Nat
    BY <1>2, ChainGrows, ChainType
  <2>3. Len(chain') <= MaxTxs /\ seen' \in 0..Len(chain')
    BY <2>1, <2>2, BoundsAssumption DEF TypeOK
  <2>4. TypeOK' BY <2>1, <2>2, <2>3 DEF TypeOK
  <2>5. AllStand' BY <1>2, <2>1, StandsStays DEF AllStand
  <2> QED BY <2>4, <2>5
<1>3. CASE Poll
  <2>1. /\ listing' = listRecentChallengeFundingDeposits(filter) /\ known' = known \cup listing'
        /\ seen' = Len(chain) /\ chain' = chain /\ filter' = filter
    BY <1>3 DEF Poll
  <2>2. calm' \in BOOLEAN BY <1>3 DEF Poll
  <2>3. \A f \in listing' : Stands(f) BY <2>1, ListedStands
  <2>4. \A f \in known' : Stands(f) BY <2>1, <2>3 DEF AllStand
  <2>5. AllStand' BY <2>1, <2>4 DEF AllStand, Stands, Wanted
  <2>6. IsFiniteSet(listing') /\ Cardinality(listing') <= Limit
    <3> DEFINE A == AtMost(Limit, Candidates(filter))
               f == [p \in A |-> FundingAt(p)]
    <3>1. IsFiniteSet(A) /\ Cardinality(A) \in Nat /\ Cardinality(A) <= Limit /\ Limit \in Nat
      BY CandidatesArePlaces, AtMostSize, SearchLimitType
    <3>2. listing' = {FundingAt(p) : p \in A} BY <2>1, CandidatesArePlaces
    <3>3. listing' = {f[p] : p \in A} BY <3>2
    <3> HIDE DEF A, f
    <3>4. IsFiniteSet({f[p] : p \in A}) /\ Cardinality({f[p] : p \in A}) <= Cardinality(A)
      BY <3>1, ImageSize
    <3>5. Cardinality({f[p] : p \in A}) \in Nat BY <3>4, FS_CardinalityType
    <3> QED BY <3>1, <3>3, <3>4, <3>5
  <2>7. known' \subseteq Fundings BY <2>4, StandsType
  <2>8. seen' \in 0..Len(chain') BY <2>1, ChainType
  <2>9. TypeOK' BY <2>1, <2>2, <2>6, <2>7, <2>8 DEF TypeOK
  <2> QED BY <2>5, <2>9
<1> QED BY <1>1, <1>2, <1>3 DEF Next

(* In every behaviour every variable has its type, a listed funding has    *)
(* positive amounts, and a listing is as long as was asked at the most.    *)
THEOREM FundingTypeSafety == Spec => []TypeOK
<1>1. Spec => [](TypeOK /\ AllStand) BY StandInit, StandNext, PTL DEF Spec
<1> QED BY <1>1, PTL

(* In every behaviour a verified deposit of a plain transaction is backed  *)
(* by WOLO that a successful transaction brought to escrow.                *)
THEOREM BackedSafety == Spec => []VerifiedFundingIsBacked
BY FundingTypeSafety, BackedHolds, PTL

-----------------------------------------------------------------------------
(* What is listed verifies.                                                *)

LEMMA OwnFunding ==
  ASSUME TypeOK, NEW f, Stands(f), OfOthers(chain[f.hash])
  PROVE  f \in verifyChallengeFundingDeposit(f.hash, chain[f.hash], AsExpected(f))
<1>1. PICK h \in DOMAIN chain : \E k \in DOMAIN Transfers(chain[h]) :
         /\ f = FundingResult(h, Transfers(chain[h])[k], chain[h].memo)
         /\ Wanted(h, Transfers(chain[h])[k], filter)
  BY DEF Stands
<1>1a. PICK k \in DOMAIN Transfers(chain[h]) :
         /\ f = FundingResult(h, Transfers(chain[h])[k], chain[h].memo)
         /\ Wanted(h, Transfers(chain[h])[k], filter)
  BY <1>1
<1> DEFINE t == chain[h]
           list == Transfers(t)
           x == list[k]
           e == AsExpected(f)
           S == {j \in DOMAIN list : /\ Meets(e.sender, list[j].from)
                                    /\ Meets(Escrow, list[j].to)
                                    /\ Meets(e.total, list[j].amount)}
           D == {j \in DOMAIN list : IntoEscrow(list[j]) \/ OutOfPayout(list[j])}
<1>2. /\ f.hash = h /\ f.sender = x.from /\ f.total = x.amount /\ f.fields = t.memo.fields
      /\ f.wager = t.memo.wager /\ f.guarantee = t.memo.guarantee
  BY <1>1a DEF FundingResult
<1>3. t \in Txs /\ x.from # Empty /\ x.amount \in Nat /\ DOMAIN list \subseteq Nat
  BY ChainType, TransfersType, BoundsAssumption
<1>4. /\ e.sender = x.from /\ e.total = x.amount /\ e.fields = f.fields
      /\ e.wager = f.wager /\ e.guarantee = f.guarantee
  BY <1>2 DEF AsExpected
<1>5. IntoEscrow(x) /\ Parses(x, t.memo) BY <1>1a DEF Wanted
<1>6. \A j \in DOMAIN list : ~OutOfPayout(list[j]) BY <1>2 DEF OfOthers, Range
<1>7. k \in S BY <1>4, <1>5 DEF Meets, IntoEscrow
<1>8. PICK m : m \in First(S) BY <1>3, <1>7, FirstExists
<1>9. m \in S BY <1>8, FirstIsIn
<1>10. list[m].from = x.from /\ list[m].amount = x.amount
  BY <1>3, <1>4, <1>9, EmptyAssumption DEF Meets
<1>11. Parses(list[m], t.memo) BY <1>5, <1>10 DEF Parses
<1>12. f = FundingResult(h, list[m], t.memo) BY <1>1a, <1>10 DEF FundingResult
<1>13. Kind(t) = "escrow_deposit"
  <2>1. k \in D BY <1>5
  <2>2. PICK d : d \in First(D) BY <1>3, <2>1, FirstExists
  <2>3. IntoEscrow(list[d]) BY <1>6, <2>2, FirstIsIn
  <2> QED BY <2>2, <2>3 DEF Kind
<1>14. MeetsExpectation(f, e)
  BY <1>2, <1>4 DEF MeetsExpectation, Meets
<1>15. m \in Match(t, e.sender, Escrow, e.total) BY <1>8 DEF Match
<1> HIDE DEF e, list, t
<1>16. f \in verifyChallengeFundingDeposit(h, t, e)
  BY <1>11, <1>12, <1>13, <1>14, <1>15 DEF verifyChallengeFundingDeposit, list
<1> QED BY <1>2, <1>16 DEF e, t

LEMMA StandVerifies == TypeOK /\ AllStand => ListedFundingVerifies
BY OwnFunding DEF AllStand, ListedFundingVerifies

(* In every behaviour every funding a poll ever listed verifies by its tx  *)
(* hash as itself, unless the payout signer has a part in its transaction. *)
THEOREM ListedSafety == Spec => []ListedFundingVerifies
<1>1. Spec => [](TypeOK /\ AllStand) BY StandInit, StandNext, PTL DEF Spec
<1> QED BY <1>1, StandVerifies, PTL

-----------------------------------------------------------------------------
(* A poller that keeps up misses nothing.                                  *)

(* What came to escrow since the last poll is finite, and a poll that is   *)
(* still calm has room for all of it.                                      *)
LEMMA NewFinite ==
  ASSUME TypeOK
  PROVE  NewTransfers \subseteq Places /\ IsFiniteSet(NewTransfers) /\ IsFiniteSet(NewWanted)
<1>1. (seen + 1)..Len(chain) \subseteq DOMAIN chain BY ChainType DEF TypeOK
<1>2. NewTransfers \subseteq Places BY <1>1 DEF NewTransfers, Places
<1>3. IsFiniteSet(NewTransfers) BY <1>2, PlacesFinite, FS_Subset
<1>4. NewWanted \subseteq NewTransfers BY DEF NewWanted
<1> QED BY <1>2, <1>3, <1>4, FS_Subset

(* Fewer than n of n others.                                               *)
LEMMA OneOfMany ==
  ASSUME NEW S, IsFiniteSet(S), NEW p \in S, NEW n \in Nat, Cardinality(S) <= n,
         NEW T, T \subseteq S \ {p}
  PROVE  IsFiniteSet(T) /\ Cardinality(T) < n
<1>1. IsFiniteSet(S \ {p}) /\ Cardinality(S \ {p}) = Cardinality(S) - 1 BY FS_RemoveElement
<1>2. IsFiniteSet(T) /\ Cardinality(T) <= Cardinality(S \ {p}) BY <1>1, FS_Subset
<1>3. Cardinality(T) \in Nat /\ Cardinality(S) \in Nat BY <1>2, FS_CardinalityType
<1> QED BY <1>1, <1>2, <1>3

(* A new deposit that is wanted, and the poll that should list it.         *)
NewDeposit(h, k) ==
  /\ h \in (seen + 1)..Len(chain) /\ k \in DOMAIN Transfers(chain[h])
  /\ chain[h].code = 0 /\ Wanted(h, Transfers(chain[h])[k], filter)

RoomForAll ==
  Cardinality(NewTransfers) <= SearchLimit /\ Cardinality(NewWanted) <= Limit

LEMMA NewDepositIsNew ==
  ASSUME TypeOK, NEW h, NEW k, NewDeposit(h, k)
  PROVE  /\ h \in DOMAIN chain /\ <<h, k>> \in NewTransfers /\ <<h, k>> \in NewWanted
         /\ Transfers(chain[h])[k].to = Escrow /\ Meets(filter.sender, Transfers(chain[h])[k].from)
<1> DEFINE x == Transfers(chain[h])[k]
           p == <<h, k>>
<1>1. h \in DOMAIN chain BY ChainType DEF NewDeposit, TypeOK
<1>2. x.to = Escrow BY DEF NewDeposit, Wanted, IntoEscrow
<1>3. p \in NewTransfers BY <1>2 DEF NewDeposit, NewTransfers
<1>4. p[1] = h /\ p[2] = k OBVIOUS
<1>5. Wanted(p[1], TransferAt(p), filter) BY <1>4 DEF NewDeposit, TransferAt
<1>6. p \in NewWanted BY <1>3, <1>5 DEF NewWanted
<1>7. Meets(filter.sender, x.from)
  BY DEF NewDeposit, Wanted, MeetsExpectation, FundingResult
<1> QED BY <1>1, <1>2, <1>3, <1>6, <1>7

(* The search finds its transaction: each newer one it finds has brought   *)
(* another new transfer to escrow.                                         *)
LEMMA NewDepositFound ==
  ASSUME TypeOK, RoomForAll, NEW h, NEW k, NewDeposit(h, k)
  PROVE  h \in Found(filter.sender)
<1> DEFINE Q == {g \in DOMAIN chain : /\ \E x \in Range(Transfers(chain[g])) : x.to = Escrow
                                      /\ \E x \in Range(Transfers(chain[g])) : Meets(filter.sender, x.from)}
           G == {g \in Q : g > h}
           p == <<h, k>>
           index(g) == CHOOSE j \in DOMAIN Transfers(chain[g]) : Transfers(chain[g])[j].to = Escrow
           c == [g \in G |-> <<g, index(g)>>]
           T == {c[g] : g \in G}
<1>1. h \in Q BY NewDepositIsNew DEF NewDeposit, Range
<1>2. \A g \in G : /\ g \in (seen + 1)..Len(chain)
                   /\ index(g) \in DOMAIN Transfers(chain[g]) /\ Transfers(chain[g])[index(g)].to = Escrow
  <2> SUFFICES ASSUME NEW g \in G
               PROVE  /\ g \in (seen + 1)..Len(chain)
                      /\ index(g) \in DOMAIN Transfers(chain[g])
                      /\ Transfers(chain[g])[index(g)].to = Escrow
    OBVIOUS
  <2>1. g \in (seen + 1)..Len(chain) BY ChainType DEF NewDeposit, TypeOK
  <2>2. \E j \in DOMAIN Transfers(chain[g]) : Transfers(chain[g])[j].to = Escrow BY DEF Range
  <2> QED BY <2>1, <2>2
<1>3. ASSUME NEW g \in G PROVE c[g] \in NewTransfers /\ g # h
  <2>1. g > h /\ h \in Nat /\ g \in Nat BY ChainType DEF NewDeposit, TypeOK
  <2>2. c[g] = <<g, index(g)>> OBVIOUS
  <2> HIDE DEF c, index, G
  <2>3. <<g, index(g)>> \in NewTransfers BY <1>2 DEF NewTransfers
  <2> QED BY <2>1, <2>2, <2>3
<1>4. \A g \in G : c[g][1] = g /\ p[1] = h OBVIOUS
<1>5. T \subseteq NewTransfers \ {p}
  <2>1. ASSUME NEW g \in G PROVE c[g] \in NewTransfers \ {p}
    <3>1. c[g] # p BY <1>3, <1>4
    <3> QED BY <1>3, <3>1
  <2> HIDE DEF c, p, G
  <2> QED BY <2>1
<1>6. c \in Injection(G, T) BY <1>4 DEF Injection, IsInjective
<1>7. p \in NewTransfers /\ IsFiniteSet(NewTransfers) BY NewDepositIsNew, NewFinite
<1> HIDE DEF c, T, G, Q, p
<1>8. IsFiniteSet(T) /\ Cardinality(T) < SearchLimit
  BY <1>5, <1>7, OneOfMany, SearchLimitType DEF RoomForAll
<1>9. IsFiniteSet(G) /\ Cardinality(G) <= Cardinality(T) BY <1>6, <1>8, FS_Injection
<1>10. Cardinality(G) \in Nat /\ Cardinality(T) \in Nat BY <1>8, <1>9, FS_CardinalityType
<1>11. Cardinality(G) < SearchLimit BY <1>8, <1>9, <1>10, SearchLimitType
<1> QED BY <1>1, <1>11 DEF Found, Newest, G, Q

(* It is among the deposits that are searched, and among those listed: what *)
(* comes before it in either list is new, too.                             *)
LEMMA NewDepositListed ==
  ASSUME TypeOK, RoomForAll, NEW h, NEW k, NewDeposit(h, k)
  PROVE  FundingResult(h, Transfers(chain[h])[k], chain[h].memo)
           \in listRecentChallengeFundingDeposits(filter)
<1> DEFINE p == <<h, k>>
           B == {q \in Searched(filter) : Before(q, p)}
           W == {q \in Candidates(filter) : Before(q, p)}
<1>0. p[1] = h /\ p[2] = k OBVIOUS
<1>1. /\ p \in NewTransfers /\ p \in NewWanted /\ IsFiniteSet(NewTransfers) /\ IsFiniteSet(NewWanted)
      /\ h \in DOMAIN chain
  BY NewDepositIsNew, NewFinite
<1>2. \A q \in Searched(filter) : Before(q, p) => q \in NewTransfers /\ q # p
  <2> SUFFICES ASSUME NEW q \in Searched(filter), Before(q, p) PROVE q \in NewTransfers /\ q # p
    OBVIOUS
  <2>1. PICK g \in Found(filter.sender) : q \in DepositsOf(g, filter.sender) BY DEF Searched
  <2>2. PICK j \in DOMAIN Transfers(chain[g]) : /\ q = <<g, j>>
                                                /\ IntoEscrow(Transfers(chain[g])[j])
    BY <2>1 DEF DepositsOf
  <2>3. g \in DOMAIN chain BY DEF Found, Newest
  <2>4. q[1] = g /\ q[2] = j BY <2>2
  <2>5. g > h \/ (g = h /\ j < k) BY <1>0, <2>4 DEF Before
  <2>6. j \in Nat /\ k \in Nat
    BY <1>1, <2>3, ChainType, TransfersType DEF NewDeposit
  <2>7. g \in (seen + 1)..Len(chain) BY <2>3, <2>5, ChainType DEF NewDeposit, TypeOK
  <2>8. q \in NewTransfers BY <2>2, <2>7 DEF NewTransfers, IntoEscrow
  <2>9. q # p BY <1>0, <1>1, <2>3, <2>4, <2>5, <2>6, ChainType
  <2> QED BY <2>8, <2>9
<1>3. p \in Searched(filter)
  <2>1. p \in DepositsOf(h, filter.sender)
    BY NewDepositIsNew DEF NewDeposit, DepositsOf, Wanted
  <2> QED BY <2>1, NewDepositFound DEF Searched
<1>4. p \in listRecentEscrowDeposits(filter.sender)
  <2>1. B \subseteq NewTransfers \ {p} BY <1>2
  <2>2. listRecentEscrowDeposits(filter.sender) = AtMost(SearchLimit, Searched(filter))
    BY DEF listRecentEscrowDeposits, Searched
  <2> HIDE DEF p
  <2>3. B = {q \in Searched(filter) : Before(q, p)} OBVIOUS
  <2> HIDE DEF B
  <2>4. Cardinality(B) < SearchLimit BY <1>1, <2>1, OneOfMany, SearchLimitType DEF RoomForAll
  <2> QED BY <1>3, <2>2, <2>3, <2>4 DEF AtMost
<1>5. Wanted(p[1], TransferAt(p), filter) BY <1>0 DEF NewDeposit, TransferAt
<1>6. p \in Candidates(filter) BY <1>4, <1>5 DEF Candidates
<1>7. p \in AtMost(Limit, Candidates(filter))
  <2>1. \A q \in Candidates(filter) : q \in Searched(filter) /\ Wanted(q[1], TransferAt(q), filter)
    BY DEF Candidates, listRecentEscrowDeposits, AtMost, Searched
  <2>2. W \subseteq NewWanted \ {p} BY <1>2, <2>1 DEF NewWanted
  <2> HIDE DEF p
  <2>3. W = {q \in Candidates(filter) : Before(q, p)} OBVIOUS
  <2> HIDE DEF W
  <2>4. Cardinality(W) < Limit BY <1>1, <2>2, OneOfMany, SearchLimitType DEF RoomForAll
  <2> QED BY <1>6, <2>3, <2>4 DEF AtMost
<1>8. FundingAt(p) = FundingResult(h, Transfers(chain[h])[k], chain[h].memo)
  BY <1>0 DEF FundingAt, TransferAt
<1> HIDE DEF p
<1> QED BY <1>7, <1>8, CandidatesArePlaces

LEMMA PollFinds ==
  ASSUME TypeOK, PollingFindsEveryDeposit, Poll, calm'
  PROVE  PollingFindsEveryDeposit'
<1>1. /\ calm /\ known' = known \cup listRecentChallengeFundingDeposits(filter)
      /\ seen' = Len(chain) /\ chain' = chain /\ filter' = filter
      /\ Cardinality(NewTransfers) <= Limit * SearchFactor
      /\ Cardinality(NewTransfers) <= SearchCap
      /\ Cardinality(NewWanted) <= Limit
  BY DEF Poll
<1>2. RoomForAll BY <1>1, SearchLimitType DEF RoomForAll
<1>3. ASSUME NEW h \in 1..Len(chain), NEW x \in Range(Transfers(chain[h])),
             chain[h].code = 0, Wanted(h, x, filter)
      PROVE  FundingResult(h, x, chain[h].memo) \in known'
  <2>1. CASE h \in 1..seen
    BY <1>1, <1>3, <2>1 DEF PollingFindsEveryDeposit
  <2>2. CASE h \notin 1..seen
    <3>1. h \in (seen + 1)..Len(chain) BY <2>2, ChainType DEF TypeOK
    <3>2. PICK k \in DOMAIN Transfers(chain[h]) : x = Transfers(chain[h])[k] BY DEF Range
    <3>3. NewDeposit(h, k) BY <1>3, <3>1, <3>2 DEF NewDeposit
    <3> QED BY <1>1, <1>2, <3>2, <3>3, NewDepositListed
  <2> QED BY <2>1, <2>2
<1> QED BY <1>1, <1>3 DEF PollingFindsEveryDeposit, Wanted

LEMMA PollingNext == TypeOK /\ PollingFindsEveryDeposit /\ [Next]_vars => PollingFindsEveryDeposit'
<1> SUFFICES ASSUME TypeOK, PollingFindsEveryDeposit, [Next]_vars PROVE PollingFindsEveryDeposit'
  OBVIOUS
<1>1. CASE UNCHANGED vars
  BY <1>1 DEF vars, PollingFindsEveryDeposit, Wanted
<1>2. ASSUME NEW t \in Txs, Commit(t) PROVE PollingFindsEveryDeposit'
  <2>1. filter' = filter /\ seen' = seen /\ known' = known /\ calm' = calm BY <1>2 DEF Commit
  <2>2. \A h \in 1..seen : chain'[h] = chain[h]
    <3>1. 1..seen \subseteq DOMAIN chain BY ChainType DEF TypeOK
    <3> QED BY <1>2, <3>1, ChainGrows
  <2> QED BY <2>1, <2>2 DEF PollingFindsEveryDeposit, Wanted
<1>3. CASE Poll /\ calm' BY <1>3, PollFinds
<1>4. CASE Poll /\ ~calm' BY <1>4 DEF PollingFindsEveryDeposit
<1> QED BY <1>1, <1>2, <1>3, <1>4 DEF Next

(* In every behaviour an app whose polls are close enough together to list *)
(* what came in between knows every deposit meant for it up to its last    *)
(* poll.                                                                   *)
THEOREM PollingSafety == Spec => []PollingFindsEveryDeposit
<1>1. Init => PollingFindsEveryDeposit BY DEF Init, PollingFindsEveryDeposit
<1> QED BY <1>1, FundingTypeSafety, PollingNext, PTL DEF Spec
=============================================================================
