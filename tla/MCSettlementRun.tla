--------------------------- MODULE MCSettlementRun ---------------------------
(* Small instances of SettlementRun for TLC.                               *)
EXTENDS SettlementRun, TLC

CONSTANTS r1, i1, i2, b1, b2

Request(run, lines, valid) == [run |-> run, lines |-> lines, valid |-> valid]
L(i, b)                    == [item |-> i, body |-> b]

(* Requests for one run: one that pays an item id under two payloads, one  *)
(* that does not validate, and one with a bad line and the other payload.  *)
MixedRequests ==
  {Request(r1, <<L(i1, b1), L(i2, b1), L(i1, b2)>>, TRUE),
   Request(r1, <<L(i1, b1)>>, FALSE),
   Request(r1, <<BadLine, L(i2, b2)>>, TRUE)}

(* Runners are only compared for equality.                                 *)
RunnerSymmetry == Permutations(Runners)

OneRun == {Request(r1, <<L(i1, b1), L(i2, b1)>>, TRUE)}
=============================================================================
