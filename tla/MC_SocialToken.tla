---------------------------- MODULE MC_SocialToken ----------------------------
(* Model-checking instance of SocialToken: d deployed the funding token   *)
(* and created the social token sc; u can be paid by transfer and airdrop. *)
EXTENDS SocialToken, TLC

CONSTANTS d, u, sc, zero

MCAccounts == {d, u, sc, zero}

\* Only the owner d trades; u receives airdrops and transfers.
MCTraders == {d}
==============================================================================
