----------------------------- MODULE MC_Exchange -----------------------------
(* Model-checking instance of Exchange: two users a and b, the exchange   *)
(* contract x and the zero account.  Up to two erc1155 ids exist; the     *)
(* contract can move a user's id once its minter makes x an operator.     *)
EXTENDS Exchange

CONSTANTS a, b, x, zero

MCAccounts == {a, b, x, zero}

\* Once MaxIds ids are minted the model mints no more; the contract would
\* go on (next_token_id is a u64), so the bound is a stuttering end state
\* rather than a deadlock.
BoundReached ==
  /\ nextTokenId = MaxIds
  /\ UNCHANGED vars

MCSpec == ExchangeInit /\ [][ExchangeNext \/ BoundReached]_vars

\* a and b play the same part.
MCSymmetry == Permutations({a, b})
==============================================================================
