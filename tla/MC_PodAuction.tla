----------------------------- MODULE MC_PodAuction -----------------------------
(* Model-checking instance of PodAuction: the token deployer d, who also  *)
(* deploys the auction contract and holds the bid tokens, a user b, the   *)
(* auction contract pc and the zero account.                               *)
EXTENDS PodAuction

CONSTANTS d, b, pc, zero

MCAccounts == {d, b, pc, zero}
==============================================================================
