----------------------------- MODULE MC_Erc1620 -----------------------------
(* Model-checking instance of Erc1620: the deployer s holds the tokens    *)
(* and opens streams, r receives them, sc is the erc1620 contract.        *)
(* A second is two milliseconds, so the conversion to whole seconds       *)
(* truncates odd differences.                                             *)
EXTENDS Erc1620

CONSTANTS s, r, sc, zero

MCAccounts == {s, r, sc, zero}
==============================================================================
