----------------------------- MODULE TokenLedger -----------------------------
(***************************************************************************)
(* What a fungible token promises its holders, whatever its messages,     *)
(* roles or pause switch: a supply and the amounts each holder has, where *)
(* the supply is the sum of the holdings, and every step either moves an  *)
(* amount between two holders (the supply unchanged), issues an amount to *)
(* a holder, or retires an amount a holder has.  Module Erc20 implements  *)
(* this specification under the mapping supply <- total_supply,           *)
(* holdings <- balances.                                                  *)
(***************************************************************************)
EXTENDS Naturals, Functions

CONSTANTS
  Holders,   \* accounts that can hold the token
  Values     \* amounts a step may carry

VARIABLES
  supply,    \* tokens in existence
  holdings   \* tokens each holder has

ledgerVars == <<supply, holdings>>

Move(from, to, v) ==
  /\ holdings[from] >= v
  /\ holdings' = [holdings EXCEPT ![from] = @ - v, ![to] = @ + v]
  /\ UNCHANGED supply

Issue(to, v) ==
  /\ supply' = supply + v
  /\ holdings' = [holdings EXCEPT ![to] = @ + v]

Retire(from, v) ==
  /\ holdings[from] >= v
  /\ supply' = supply - v
  /\ holdings' = [holdings EXCEPT ![from] = @ - v]

LedgerInit ==
  /\ holdings \in [Holders -> Values]
  /\ supply = SumFunction(holdings)

LedgerNext ==
  \E a, b \in Holders, v \in Values : Move(a, b, v) \/ Issue(a, v) \/ Retire(a, v)

LedgerSpec == LedgerInit /\ [][LedgerNext]_ledgerVars
==============================================================================
