-------------------------------- MODULE MCTokens -------------------------------
(* PageTokens with one user beside demo-user, for whom callers without a   *)
(* session act.                                                            *)
EXTENDS PageTokens, TLC

Workers == Permutations(Worker)
===============================================================================
