------------------------------ MODULE MC_Erc721 ------------------------------
(* Model-checking instance of Erc721: two signers a and b and the zero    *)
(* account; two token ids; counts are 2 bits wide.                        *)
EXTENDS Erc721

CONSTANTS a, b, zero

MCAccounts == {a, b, zero}

\* Once MaxTokens ids are minted the model stops minting; the contract's
\* u64 counter would go on, so this is not a deadlock of the program.
BoundReached == nextTokenId = MaxTokens /\ UNCHANGED nftVars

MCSpec == NftInit /\ [][NftNext \/ BoundReached]_nftVars
==============================================================================
