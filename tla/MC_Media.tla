------------------------------- MODULE MC_Media -------------------------------
(* Model-checking instance of Media: three accounts, one media, one       *)
(* sharing id, a week of one tick, two ticks of block time and u128       *)
(* shrunk to values below 4, so that a fractionalisation can overflow.    *)
EXTENDS Media

CONSTANTS a1, a2, a3, i1, i2

MCAccounts == {a1, a2, a3}
MCInfos == {i1, i2}

\* Maps a create / update_collabs / proposal request may carry: two equal
\* collaborators, and a single collaborator holding two units.
MCCollabInputs == {(a1 :> 1) @@ (a2 :> 1), a1 :> 2}

\* Fractionalisation requests: hand everything to a2, keep one share and
\* set a2 to the same, and zero out a2.
MCSharingInputs == {a2 :> 1, (a1 :> 1) @@ (a2 :> 1), a2 :> 0}

\* Media records: two creators, both with the outsider a3 as pod address.
MCMediaInputs == {[creator |-> a1, pod |-> a3, info |-> i1],
                  [creator |-> a2, pod |-> a3, info |-> i2]}
==============================================================================
