------------------------------ MODULE MC_Escrows ------------------------------
(* Model-checking instance of TokenEscrows: s deploys the token and the   *)
(* HTLC contract (so it is the first HTLC owner, whose locks mint), r     *)
(* receives streams and locks, sc and hc are the two escrow contracts.    *)
(* One secret x1 hashes to h1; h2 is a hash nobody knows a preimage of.   *)
EXTENDS TokenEscrows

CONSTANTS s, r, sc, hc, zero, x1, h1, h2

MCAccounts == {s, r, sc, hc, zero}
MCSecretHash == x1 :> h1
==============================================================================
