--------------------------- MODULE MCChallengeAudit ---------------------------
(* Small instances of ChallengeAudit for TLC: the requests are those of    *)
(* MCChallenge.                                                            *)
EXTENDS MCChallenge, ChallengeAudit
=============================================================================
