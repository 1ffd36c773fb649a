----------------------------- MODULE TokenEscrows -----------------------------
(***************************************************************************)
(* The two escrow contracts of the repository side by side over one erc20 *)
(* token and one block clock: erc1620 payment streams and hash            *)
(* time-locked contracts.  Both hold their users' tokens in the token's   *)
(* balances map under their own AccountId, take deposits with             *)
(* transfer_from against an allowance their users granted, and pay out    *)
(* with transfer; the HTLC contract also mints and burns, with the Minter *)
(* and Burner roles the token's admin grants to it (and may revoke).      *)
(* The users interleave messages to the token, to both escrows and        *)
(* between them: a stream may pay the HTLC contract, a claimed HTLC may   *)
(* fund a stream.                                                          *)
(***************************************************************************)
EXTENDS Erc1620, Htlc

\* Accounts that sign messages: the two contracts only call the token from
\* inside their own messages.
People == Callers \ {StreamContract, HtlcContract}

escrowVars == <<erc20Vars, streamVars, htlcVars>>

EscrowInit == Init /\ HtlcInit

EscrowNext ==
  \/ StreamNext(People) /\ UNCHANGED htlcVars
  \/ HtlcNext(People, Amounts) /\ UNCHANGED <<streams, idsByAccount, nextStreamId>>
  \/ \E c \in People, v \in Amounts :
       Approve(c, HtlcContract, v) /\ UNCHANGED <<streamVars, htlcVars>>
  \/ \E role \in {"Minter", "Burner"}, grant \in BOOLEAN :
       /\ SetRole(Deployer, HtlcContract, role, grant)
       /\ UNCHANGED <<streamVars, htlcVars>>

EscrowSpec == EscrowInit /\ [][EscrowNext]_escrowVars
==============================================================================
