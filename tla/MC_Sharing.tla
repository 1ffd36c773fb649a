------------------------------ MODULE MC_Sharing ------------------------------
(* Model-checking instance of MediaSharing: three accounts, two media and *)
(* five sharing ids, so chains longer than the walk depth (3) arise.      *)
EXTENDS MediaSharing

CONSTANTS a1, a2, a3

MCAccounts == {a1, a2, a3}

\* Once all MaxSharings ids are allocated the model stops allocating; the
\* contract would go on (next_sharing_id is a u64), so the bound is a
\* stuttering end state rather than a deadlock.
BoundReached ==
  /\ nextSharingId = MaxSharings
  /\ UNCHANGED sharingVars

MCSpec == SharingInit /\ [][SharingNext \/ BoundReached]_sharingVars

MCSymmetry == Permutations(MCAccounts)
==============================================================================
