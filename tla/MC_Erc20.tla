------------------------------- MODULE MC_Erc20 -------------------------------
(* Model-checking instance of Erc20: the deployer, one other account and  *)
(* the zero account; Balance is 2 bits wide, so a mint can overflow.      *)
EXTENDS Erc20

CONSTANTS d, a1, zero

MCAccounts == {d, a1, zero}
==============================================================================
