------------------------------ MODULE MC_Erc1155 ------------------------------
(* Model-checking instance of Erc1155 on its own: two users a and b and   *)
(* the zero account, every message with amounts 1 and 2.                 *)
EXTENDS Erc1155

CONSTANTS a, b, zero

MCAccounts == {a, b, zero}

MCNext == Erc1155Messages(Signers, Accounts, {1, 2})

\* The model mints at most MaxIds ids; the contract would go on.
BoundReached == nextTokenId = MaxIds /\ UNCHANGED erc1155Vars

MCSpec == Erc1155Init /\ [][MCNext \/ BoundReached]_erc1155Vars
==============================================================================
