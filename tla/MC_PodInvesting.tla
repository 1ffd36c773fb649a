--------------------------- MODULE MC_PodInvesting ---------------------------
(* Model-checking instance of PodInvesting: cr creates the pod, u holds   *)
(* the funding token and invests, buys and sells, pod is the pod's        *)
(* account.  Amm precision is 10^2 (a whole pod token is 100) with one     *)
(* truncated digit; a funding target of 5 at price 2 makes invest_pod     *)
(* round, and max_price 102 over max_supply 100 gives the Quadratic      *)
(* curve a scale of 100, so buying 10 costs more than the shift.          *)
(* MaxReleased bounds supply_released, which buy-then-sell-in-pieces      *)
(* cycles would otherwise grow without end.                                *)
EXTENDS PodInvesting

CONSTANTS cr, u, pod, zero

MCAccounts == {cr, u, pod, zero}
==============================================================================
