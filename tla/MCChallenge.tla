----------------------------- MODULE MCChallenge -----------------------------
(* Small instances of Challenge for TLC.                                   *)
EXTENDS Challenge, TLC

CONSTANTS c1, i1, i2, i3, ann

(* A deposit, and one whose memo leaves a part of it out.                  *)
D1 == [party |-> ann, total |-> 3, wager |-> 2, guarantee |-> 1]
D2 == [party |-> ann, total |-> 4, wager |-> 2, guarantee |-> 1]
AllDeposits == {D1, D2}

T(i, p, bucket, amount) ==
  [item |-> i, party |-> p, bucket |-> bucket, amount |-> amount, good |-> TRUE]
Request(id, funding, transfers) ==
  [id |-> id, valid |-> TRUE, funding |-> funding, transfers |-> transfers]

Settled == Request(c1, <<D1>>, <<T(i1, ann, "wager", 2), T(i2, ann, "guarantee", 1)>>)

(* The same challenge with the request ids of its transfers swapped.       *)
Swapped == [Settled EXCEPT !.transfers = <<T(i2, ann, "wager", 2), T(i1, ann, "guarantee", 1)>>]

TwoPayloads == {Settled, Swapped}

(* Requests for the same id that must be refused: a bucket left out, a     *)
(* deposit that does not verify, one deposit twice, a repeated request id, *)
(* a bad line, and a header that does not validate.                        *)
BadRequests ==
  {[Settled EXCEPT !.transfers = <<T(i1, ann, "wager", 2)>>],
   [Settled EXCEPT !.funding = <<D2>>],
   [Settled EXCEPT !.funding = <<D1, D1>>],
   [Settled EXCEPT !.transfers = <<T(i1, ann, "wager", 2), T(i1, ann, "guarantee", 1)>>],
   [Settled EXCEPT !.transfers[2].good = FALSE],
   [Settled EXCEPT !.valid = FALSE]}

MixedRequests == TwoPayloads \cup BadRequests

(* The two payloads and, under the same id, a header that does not         *)
(* validate, deposits that do not verify, and a bucket left out.           *)
FaultRequests ==
  TwoPayloads \cup
  {[Settled EXCEPT !.valid = FALSE, !.transfers = << >>],
   [Settled EXCEPT !.funding = <<D2>>, !.transfers = <<T(i3, ann, "wager", 2)>>],
   [Settled EXCEPT !.transfers = <<T(i3, ann, "wager", 2)>>]}

OneRequest == {Settled}

(* Settlers are only compared for equality, and so are i1 and i2: the      *)
(* requests of TwoPayloads and of FaultRequests are the same set when i1   *)
(* and i2 are swapped.                                                     *)
FullSymmetry == Permutations(Settlers) \cup Permutations({i1, i2})
=============================================================================
