------------------------------ MODULE MCReserve ------------------------------
(***************************************************************************)
(* Small instances of Reserve: two workers, payouts with a reserve deep    *)
(* enough for every overlap, an escrow reserve whose fee headroom is the   *)
(* larger threshold, and a run whose total wraps.                          *)
(***************************************************************************)
EXTENDS Reserve, TLC

Run(role, amounts) == [role |-> role, market |-> FALSE, amounts |-> amounts]

MCRequests ==
  {[Run("payout", <<2>>) EXCEPT !.market = TRUE], Run("payout", <<1, 2>>),
   Run("payout", <<17, 2>>), Run("escrow", <<1>>)}

MCFeeHeadroom == [r \in Roles |-> IF r = "payout" THEN 0 ELSE 2]
MCMinBalance  == [r \in Roles |-> IF r = "payout" THEN 8 ELSE 1]
MCSupply      == [r \in Roles |-> IF r = "payout" THEN 13 ELSE 3]
MCStart       == MCSupply

FullSymmetry == Permutations(Workers)
=============================================================================
