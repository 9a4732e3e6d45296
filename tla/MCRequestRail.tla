--------------------------- MODULE MCRequestRail ---------------------------
(* Small instances of RequestRail for TLC.                                 *)
EXTENDS RequestRail, TLC

(* Hashes are only compared for equality and handed out in any order.      *)
HashSymmetry == Permutations(Hashes)

(* So are workers; for the runs that check no liveness.                    *)
FullSymmetry == Permutations(Hashes) \cup Permutations(Workers)
=============================================================================
