------------------------------ MODULE MCFunding ------------------------------
(* Small instances of Funding for TLC.                                     *)
EXTENDS Funding

CONSTANTS ann, bob, app, ch, east, west, escrow, payout, collector, uwolo, other

Move(from, to, amount, denom) == [from |-> from, to |-> to, amount |-> amount, denom |-> denom]

Names(side) == [n \in Fields |-> CASE n = "source_app" -> app
                                   [] n = "challenge_id" -> ch
                                   [] n = "participant_side" -> side
                                   [] OTHER -> Empty]
Memo(side, wager, guarantee) ==
  [fields |-> Names(side), wager |-> wager, guarantee |-> guarantee, declared |-> Empty]

Tx(moves, memo) == [code |-> 0, logs |-> << >>, events |-> moves, memo |-> memo]

(* A deposit; one whose buckets leave a part of it out; a deposit in two   *)
(* transfers of which one is what its memo splits; a transfer of another   *)
(* app; one whose fee alone was taken; a payment by the payout signer; and *)
(* a deposit beside a coin of another denomination.                        *)
Deposit == Tx(<<Move(ann, collector, 1, uwolo), Move(ann, escrow, 3, uwolo)>>, Memo(east, 2, 1))
Partial == Tx(<<Move(bob, escrow, 4, uwolo)>>, Memo(west, 2, 1))
Double  == Tx(<<Move(bob, escrow, 1, uwolo), Move(bob, escrow, 3, uwolo)>>, Memo(west, 1, 2))
Noise   == Tx(<<Move(bob, escrow, 5, uwolo)>>, NoMemo)
Failed  == [Tx(<<Move(ann, collector, 3, uwolo)>>, Memo(east, 2, 1)) EXCEPT !.code = 1]
Paid    == Tx(<<Move(payout, bob, 3, uwolo), Move(bob, escrow, 3, uwolo)>>, Memo(west, 2, 1))

Mixed   == Tx(<<Move(ann, escrow, 3, other), Move(ann, escrow, 3, uwolo)>>, Memo(east, 1, 2))

MCTxs == {Deposit, Partial, Double, Noise, Failed, Paid, Mixed,
          [Deposit EXCEPT !.logs = Deposit.events, !.events = << >>]}

Filter(fields, sender) ==
  [fields |-> fields, sender |-> sender, total |-> Empty, wager |-> Empty, guarantee |-> Empty]

(* All of the app's deposits, those of one side, and those of one sender.  *)
AllFilters ==
  {Filter([n \in Fields |-> IF n = "source_app" THEN app ELSE Empty], Empty),
   Filter(Names(east), Empty),
   Filter([n \in Fields |-> Empty], bob)}
=============================================================================
