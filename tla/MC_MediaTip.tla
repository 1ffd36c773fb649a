------------------------------ MODULE MC_MediaTip ------------------------------
(* Model-checking instance of MediaTip: the deployer d and a1 hold and    *)
(* tip tokens, mc is the media contract; Balance is 3 bits wide and a    *)
(* full collaborator share (COLLAB_SHARE_COUNT) is 2.                     *)
EXTENDS MediaTip, TLC

CONSTANTS d, a1, mc, zero

MCAccounts == {d, a1, mc, zero}
MCKeyOrder == <<a1, d, mc, zero>>

\* Collaborator maps whose shares add up to at most one full unit: all to
\* a1, all to the tipper d, and half each.
MCPartitionCollabs == {a1 :> 2, d :> 2, (d :> 1) @@ (a1 :> 1)}

\* Maps create_media also accepts: a full unit each, and two units to a1.
MCInflatedCollabs == {(d :> 2) @@ (a1 :> 2), a1 :> 4}
==============================================================================
