------------------------------- MODULE Funding -------------------------------
(***************************************************************************)
(* Finding and verifying escrow deposits: lookupSettlementTx and what is   *)
(* built on it, listRecentEscrowDeposits and                               *)
(* listRecentChallengeFundingDeposits.  The app polls the listing and      *)
(* verifies what it finds by tx hash; both read the same chain along       *)
(* different paths, and transactions arrive in between.                    *)
(*                                                                         *)
(* A transaction is known by its height.  Addresses and memo fields are    *)
(* model values, an absent field or expectation is Empty.                  *)
(***************************************************************************)
EXTENDS Naturals, Sequences, FiniteSetsExt

CONSTANTS
  Txs,          \* the transactions that may be committed
  Escrow,       \* WOLO_SETTLEMENT_ESCROW_ADDRESS
  Payout,       \* WOLO_SETTLEMENT_PAYOUT_ADDRESS
  BaseDenom,
  Empty, NoMemo,
  Filters,      \* the expectations the app polls with
  Limit,        \* the limit of a poll
  SearchFactor, \* transfers searched for each one asked for (5 in the code)
  SearchCap,    \* the most transfers a search returns (100 in the code)
  Modulus,      \* amounts are uint64: 2^64 in the code
  MaxTxs        \* bound: transactions over the whole behaviour

Fields == {"source_app", "settlement_run_id", "challenge_id", "source_event_id",
           "participant_side", "participant_id"}

(* The events of a transaction name transfers; logs is what older nodes    *)
(* report, events what newer ones do.  A transaction that failed has the   *)
(* event of its fee, which goes to the fee collector.  A transfer without  *)
(* a sender is passed over when the events are read.  A memo that is not   *)
(* of the form wolo.challenge.funding.v1 is NoMemo.                        *)
TransferList(list) ==
  /\ Len(list) \in Nat /\ DOMAIN list = 1..Len(list)
  /\ \A k \in DOMAIN list : list[k].amount \in 0..(Modulus - 1) /\ list[k].from # Empty

ASSUME TxsAssumption ==
  \A t \in Txs :
     /\ t.code \in Nat
     /\ t.code # 0 => \A k \in DOMAIN t.events : t.events[k].to # Escrow
     /\ t.code # 0 => t.logs = << >>
     /\ TransferList(t.logs) /\ TransferList(t.events)
     /\ t.memo # NoMemo => /\ DOMAIN t.memo.fields = Fields
                           /\ {t.memo.wager, t.memo.guarantee} \subseteq 0..(Modulus - 1)
ASSUME FiltersAssumption ==
  \A f \in Filters :
     /\ DOMAIN f.fields = Fields
     /\ f = [fields |-> f.fields, sender |-> f.sender,
            total |-> Empty, wager |-> Empty, guarantee |-> Empty]
ASSUME LimitsAssumption == {Limit, SearchFactor, SearchCap} \subseteq Nat \ {0}
ASSUME BoundsAssumption == Modulus \in Nat \ {0} /\ MaxTxs \in Nat
(* Without an escrow address every call is answered ESCROW_UNCONFIGURED.    *)
ASSUME EmptyAssumption == Empty \notin Nat /\ Escrow # Empty

-----------------------------------------------------------------------------
(* lookupSettlementTx.                                                     *)

(* extractSettlementTransfersFromLogsAndEvents.                            *)
Transfers(t) == IF t.logs # << >> THEN t.logs ELSE t.events

Meets(expected, actual) == expected = Empty \/ expected = actual

(* The first of some places in a list; none when there are none.           *)
First(places) == {k \in places : \A j \in places : k <= j}

(* matchSettlementTransfer: the first transfer of t that meets the         *)
(* expectations.  The denomination is not compared.                        *)
Match(t, sender, recipient, amount) ==
  LET list == Transfers(t) IN
  First({k \in DOMAIN list : /\ Meets(sender, list[k].from)
                             /\ Meets(recipient, list[k].to)
                             /\ Meets(amount, list[k].amount)})

IntoEscrow(x) == x.to = Escrow /\ x.denom = BaseDenom
OutOfPayout(x) == x.from = Payout /\ x.denom = BaseDenom

(* classifyTransferKind: the first transfer into escrow or out of payout   *)
(* decides.                                                                *)
Kind(t) ==
  LET list     == Transfers(t)
      decisive == First({k \in DOMAIN list : IntoEscrow(list[k]) \/ OutOfPayout(list[k])})
  IN IF decisive # {}
     THEN IF \E k \in decisive : IntoEscrow(list[k]) THEN "escrow_deposit" ELSE "payout"
     ELSE IF list # << >> THEN "transfer" ELSE "unknown"

(* verifyEscrowDeposit.                                                    *)
verifyEscrowDeposit(t, sender, amount) ==
  Kind(t) = "escrow_deposit" /\ Match(t, sender, Escrow, amount) # {}

-----------------------------------------------------------------------------
(* Challenge funding.                                                      *)

(* parseChallengeFundingResult, the memo alone: it names an app, a         *)
(* challenge or event, a participant, and two buckets.                     *)
MemoComplete(memo) ==
  /\ memo # NoMemo
  /\ memo.fields["source_app"] # Empty
  /\ memo.fields["challenge_id"] # Empty \/ memo.fields["source_event_id"] # Empty
  /\ memo.fields["participant_side"] # Empty \/ memo.fields["participant_id"] # Empty
  /\ memo.wager > 0 /\ memo.guarantee > 0

(* Variant: the buckets may be less than what was deposited.               *)
ParsesUpTo(transfer, memo) ==
  /\ MemoComplete(memo)
  /\ transfer.amount > 0
  /\ memo.wager + memo.guarantee <= transfer.amount

(* parseChallengeFundingResult: a complete memo splits the transfer, in    *)
(* uint64 arithmetic.                                                      *)
Parses(transfer, memo) ==
  /\ MemoComplete(memo)
  /\ transfer.amount > 0
  /\ memo.declared \in {Empty, transfer.amount}
  /\ (memo.wager + memo.guarantee) % Modulus = transfer.amount

FundingResult(hash, transfer, memo) ==
  [hash |-> hash, fields |-> memo.fields, sender |-> transfer.from,
   total |-> transfer.amount, wager |-> memo.wager, guarantee |-> memo.guarantee]

(* compareChallengeFundingExpectation.                                     *)
MeetsExpectation(funding, expected) ==
  /\ \A name \in Fields : Meets(expected.fields[name], funding.fields[name])
  /\ Meets(expected.sender, funding.sender)
  /\ Meets(expected.total, funding.total)
  /\ Meets(expected.wager, funding.wager)
  /\ Meets(expected.guarantee, funding.guarantee)

(* Variant: the lookup does not ask for the expected amount.               *)
verifyFirstTransfer(hash, t, expected) ==
  LET parsed == {k \in Match(t, expected.sender, Escrow, Empty) :
                    Parses(Transfers(t)[k], t.memo)}
  IN {f \in {FundingResult(hash, Transfers(t)[k], t.memo) : k \in parsed} :
        Kind(t) = "escrow_deposit" /\ MeetsExpectation(f, expected)}

(* verifyChallengeFundingDeposit: the verified funding, or none.  It does  *)
(* not ask whether the transaction succeeded.                              *)
verifyChallengeFundingDeposit(hash, t, expected) ==
  LET parsed == {k \in Match(t, expected.sender, Escrow, expected.total) :
                    Parses(Transfers(t)[k], t.memo)}
  IN {f \in {FundingResult(hash, Transfers(t)[k], t.memo) : k \in parsed} :
        Kind(t) = "escrow_deposit" /\ MeetsExpectation(f, expected)}

-----------------------------------------------------------------------------
VARIABLES
  chain,    \* committed transactions, oldest first
  filter,   \* what the app polls for
  listing,  \* what its last poll listed, a set: the order decides what is
            \*   cut off and is of no other use
  seen,     \* the height of its last poll
  known,    \* the fundings its polls have listed so far
  calm      \* history: no more came between two polls than a poll can list

vars == <<chain, filter, listing, seen, known, calm>>

(* A place is a height and the index of a transfer in its transaction.     *)
(* Lists of transactions and of deposits are newest first.                 *)
Before(p, q) == p[1] > q[1] \/ (p[1] = q[1] /\ p[2] < q[2])

(* The first n of a list: what fewer than n others come before.            *)
Newest(n, heights) == {h \in heights : Cardinality({g \in heights : g > h}) < n}
AtMost(n, places)  == {p \in places : Cardinality({q \in places : Before(q, p)}) < n}

(* Variant: as many deposits are searched as are asked for.                *)
SearchAsked == Limit

(* listRecentChallengeFundingDeposits searches more deposits than it was   *)
(* asked for, as it filters them afterwards.                               *)
SearchLimit == Min({Limit * SearchFactor, SearchCap})

TransferAt(p) == Transfers(chain[p[1]])[p[2]]

(* The transactions that escrowSearchURL's query finds.                    *)
Found(sender) ==
  Newest(SearchLimit,
         {h \in DOMAIN chain : /\ \E x \in Range(Transfers(chain[h])) : x.to = Escrow
                               /\ \E x \in Range(Transfers(chain[h])) : Meets(sender, x.from)})

(* listRecentEscrowDeposits: the WOLO transfers into escrow of the         *)
(* transactions that succeeded.                                            *)
DepositsOf(h, sender) ==
  {<<h, k>> : k \in {j \in DOMAIN Transfers(chain[h]) :
                       /\ chain[h].code = 0
                       /\ IntoEscrow(Transfers(chain[h])[j])
                       /\ Meets(sender, Transfers(chain[h])[j].from)}}

listRecentEscrowDeposits(sender) ==
  AtMost(SearchLimit, UNION {DepositsOf(h, sender) : h \in Found(sender)})

(* Is this transfer of the transaction at a height one the poll is for?    *)
Wanted(hash, x, expected) ==
  /\ IntoEscrow(x)
  /\ Parses(x, chain[hash].memo)
  /\ MeetsExpectation(FundingResult(hash, x, chain[hash].memo), expected)

FundingAt(p) == FundingResult(p[1], TransferAt(p), chain[p[1]].memo)

(* Variant: all that was searched is listed.                               *)
listAllFound(expected) ==
  {FundingAt(p) : p \in {q \in listRecentEscrowDeposits(expected.sender) :
                           Wanted(q[1], TransferAt(q), expected)}}

(* The deposits found that parse and meet the filters, up to the limit.    *)
listRecentChallengeFundingDeposits(expected) ==
  {FundingAt(p) : p \in AtMost(Limit, {q \in listRecentEscrowDeposits(expected.sender) :
                                         Wanted(q[1], TransferAt(q), expected)})}

Init ==
  /\ chain = << >>
  /\ filter \in Filters
  /\ listing = {}
  /\ seen = 0
  /\ known = {}
  /\ calm = TRUE

Commit(t) ==
  /\ Len(chain) < MaxTxs
  /\ chain' = Append(chain, t)
  /\ UNCHANGED <<filter, listing, seen, known, calm>>

(* Transfers since the last poll that reach escrow, and the wanted ones.   *)
NewTransfers == UNION {{<<h, k>> : k \in {j \in DOMAIN Transfers(chain[h]) :
                                            Transfers(chain[h])[j].to = Escrow}}
                       : h \in (seen + 1)..Len(chain)}
NewWanted == {p \in NewTransfers : Wanted(p[1], TransferAt(p), filter)}

Poll ==
  /\ listing' = listRecentChallengeFundingDeposits(filter)
  /\ known' = known \cup listing'
  /\ seen' = Len(chain)
  /\ calm' = /\ calm
             /\ Cardinality(NewTransfers) <= Limit * SearchFactor
             /\ Cardinality(NewTransfers) <= SearchCap
             /\ Cardinality(NewWanted) <= Limit
  /\ UNCHANGED <<chain, filter>>

Next == Poll \/ \E t \in Txs : Commit(t)

Spec == Init /\ [][Next]_vars

-----------------------------------------------------------------------------
Fundings == [hash : 1..MaxTxs, fields : {t.memo.fields : t \in {u \in Txs : u.memo # NoMemo}},
             sender : UNION {{x.from : x \in Range(Transfers(t))} : t \in Txs},
             total : 1..(Modulus - 1), wager : 1..(Modulus - 1), guarantee : 1..(Modulus - 1)]

(* Every variable has its type; a listed funding has a positive total and  *)
(* positive buckets (parseChallengeFundingResult), and there are at most   *)
(* as many as were asked for.                                              *)
TypeOK ==
  /\ chain \in Seq(Txs) /\ Len(chain) <= MaxTxs
  /\ filter \in Filters
  /\ IsFiniteSet(listing) /\ Cardinality(listing) <= Limit
  /\ seen \in 0..Len(chain)
  /\ known \subseteq Fundings /\ listing \subseteq known
  /\ calm \in BOOLEAN

(* What the app asks when it verifies a funding it was listed.             *)
AsExpected(f) == [fields |-> f.fields, sender |-> f.sender, total |-> f.total,
                  wager |-> f.wager, guarantee |-> f.guarantee]

(* The payout signer has no part in the transaction, not even its fee.     *)
OfOthers(t) == \A x \in Range(Transfers(t)) : ~OutOfPayout(x)

(* Every funding a poll ever listed verifies by its tx hash, as itself,    *)
(* also when its transaction has more transfers or was listed long ago     *)
(* (listRecentChallengeFundingDeposits, which finds transfers, and         *)
(* verifyChallengeFundingDeposit, which picks one by the expectations).    *)
(* Deposits of the payout signer are the exception: classifyTransferKind   *)
(* calls them payouts, and they are listed and never verified.             *)
ListedFundingVerifies ==
  \A f \in known : OfOthers(chain[f.hash]) =>
     f \in verifyChallengeFundingDeposit(f.hash, chain[f.hash], AsExpected(f))

(* An app that polls often enough finds every deposit meant for it,        *)
(* whatever else reaches escrow: as long as between two polls no more      *)
(* transfers came than are searched, and no more wanted ones than are      *)
(* listed, each wanted one up to the last poll is known                    *)
(* (listRecentChallengeFundingDeposits).                                   *)
PollingFindsEveryDeposit ==
  calm => \A h \in 1..seen : \A x \in Range(Transfers(chain[h])) :
             chain[h].code = 0 /\ Wanted(h, x, filter)
               => FundingResult(h, x, chain[h].memo) \in known

(* What came to escrow in WOLO with the transaction at this height.        *)
Came(h, sender, amount) ==
  /\ chain[h].code = 0
  /\ \E x \in Range(Transfers(chain[h])) :
        IntoEscrow(x) /\ Meets(sender, x.from) /\ x.amount = amount

(* Every coin sent to escrow is WOLO, and the buckets do not wrap.         *)
Plain(t) ==
  /\ \A x \in Range(Transfers(t)) : x.to = Escrow => x.denom = BaseDenom
  /\ t.memo # NoMemo => t.memo.wager + t.memo.guarantee < Modulus

Amounts == UNION {{x.amount : x \in Range(Transfers(t))} : t \in Range(chain)}

(* A verified deposit is backed: its transaction succeeded, which neither  *)
(* verifyEscrowDeposit nor verifyChallengeFundingDeposit asks, and brought *)
(* the expected amount, or the sum of the two buckets, to escrow in WOLO.  *)
(* (For transactions whose transfers to escrow are all of the base         *)
(* denomination, which neither compares, and buckets that do not wrap.)    *)
VerifiedFundingIsBacked ==
  \A h \in DOMAIN chain, n \in Amounts \cup {Empty} : Plain(chain[h]) =>
     /\ \A f \in verifyChallengeFundingDeposit(h, chain[h], [filter EXCEPT !.total = n]) :
           Came(h, f.sender, f.wager + f.guarantee)
     /\ n # Empty /\ verifyEscrowDeposit(chain[h], filter.sender, n) => Came(h, filter.sender, n)
=============================================================================
