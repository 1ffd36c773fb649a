---------------------------- MODULE MC_Stablecoin ----------------------------
(* Model-checking instance of Stablecoin: d deploys both erc20 contracts   *)
(* and the stable-coin contract sc and owns it; o is a user and, with d,  *)
(* a possible oracle.  pUSD has 0 decimals and Privi 1, so a price of 3   *)
(* makes a Privi worth 0.3; two oracles at volume 1 make get_price the    *)
(* mean of their prices (16 from 3 and 30).  A 9-bit mantissa with 2      *)
(* digits stands for 96 bits with 28: 16 / 0.3 keeps one digit (5.3), and *)
(* 1.88 * 3 drops one (5.64 to 5.6).                                      *)
EXTENDS Stablecoin

CONSTANTS d, o, sc, zero

MCAccounts == {d, o, sc, zero}
==============================================================================
