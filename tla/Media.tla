-------------------------------- MODULE Media --------------------------------
(***************************************************************************)
(* The storage and messages of the `media` ink! contract                  *)
(* (src/contracts/media/src/lib.rs): the content registry, the            *)
(* collaborator ledger, the update-proposal governance and the sharing    *)
(* chain index, together with the ERC-721 token ids minted for media.     *)
(*                                                                         *)
(* Every message runs to completion as one step.  A message that returns  *)
(* Err or panics is reverted by the contracts pallet, so its error paths  *)
(* are the states in which the action is not enabled.                     *)
(*                                                                         *)
(* The fields of a media that a proposal replaces (name, type, view and   *)
(* NFT conditions, royalty) are abstracted to one value of Infos; the     *)
(* creator and the pod address are kept because messages test them.      *)
(***************************************************************************)
EXTENDS MediaSharing, FiniteSets

CONSTANTS
  Infos,             \* abstract values of the proposal-updatable fields
  MediaInputs,       \* media records (creator, pod, info) a request may carry
  CollabInputs,      \* collaborator maps a request may carry
  SharingInputs,     \* FractionaliseCollabRequest.sharings maps
  ShareLimit,        \* 2^128: CollabShare is u128, checked_mul fails at it
  ProposalDuration,  \* UPDATE_MEDIA_PROPOSAL_DURATION (one WEEK)
  MaxTime            \* bound: block timestamp

ASSUME ShareLimit \in Nat \ {0}
ASSUME ProposalDuration \in Nat \ {0}
ASSUME MaxTime \in Nat

VARIABLES
  now,            \* env().block_timestamp()
  nextTokenId,    \* Erc721.next_token_id
  nftOwner,       \* Erc721.owners_by_token_id
  medias,         \* medias_by_id
  collabs,        \* collaborators_by_media_id
  proposals,      \* proposals_by_key
  communities     \* communities_by_proposal_key

mediaVars == <<now, nextTokenId, nftOwner, medias, collabs, proposals,
               communities>>

vars == <<mediaVars, sharingVars>>

ShareValues == 0..(ShareLimit - 1)

-----------------------------------------------------------------------------
(* Erc721::mint: the next id is next_token_id + 1; ids start at 1.         *)
\* Mutant: the new id is not saved back into next_token_id.
Erc721MintUnsaved(recipient) ==
  LET id == nextTokenId + 1 IN
  /\ nextTokenId' = nextTokenId
  /\ nftOwner' = Put(nftOwner, id, recipient)

Erc721Mint(recipient) ==
  LET id == nextTokenId + 1 IN
  /\ nextTokenId' = id
  /\ nftOwner' = Put(nftOwner, id, recipient)

(* create_media: mint the NFT to the caller, store the media and its      *)
(* collaborators (an empty map when none are given).                      *)
CreateMedia(caller, rec, cs) ==
  LET id == nextTokenId + 1 IN
  /\ nextTokenId < MaxMedia
  /\ Erc721Mint(caller)
  /\ medias' = Put(medias, id, rec)
  /\ collabs' = Put(collabs, id, cs)
  /\ UNCHANGED <<now, proposals, communities>>
  /\ UNCHANGED sharingVars

(* update_media: only the stored pod address may replace the record.       *)
UpdateMedia(caller, m, rec) ==
  /\ m \in DOMAIN medias
  /\ medias[m].pod = caller
  /\ medias' = [medias EXCEPT ![m] = rec]
  /\ UNCHANGED <<now, nextTokenId, nftOwner, collabs, proposals, communities>>
  /\ UNCHANGED sharingVars

(* update_collabs: only the pod address may replace the collaborators.     *)
UpdateCollabs(caller, m, cs) ==
  /\ m \in DOMAIN medias
  /\ medias[m].pod = caller
  /\ collabs' = Put(collabs, m, cs)
  /\ UNCHANGED <<now, nextTokenId, nftOwner, medias, proposals, communities>>
  /\ UNCHANGED sharingVars

(* fractionalise_media_collab: the caller's share is removed and every    *)
(* address of the request is set (insert, not merged) to share * ratio;   *)
(* an overflowing checked_mul fails the whole call.                       *)
Fractionalised(cs, caller, req) ==
  LET cur == cs[caller] IN
  [a \in DOMAIN req |-> cur * req[a]] @@ Without(cs, caller)

FractionaliseMediaCollab(caller, m, req) ==
  /\ m \in DOMAIN collabs
  /\ caller \in DOMAIN collabs[m]
  /\ \A a \in DOMAIN req : collabs[m][caller] * req[a] < ShareLimit
  /\ collabs' = [collabs EXCEPT ![m] = Fractionalised(@, caller, req)]
  /\ UNCHANGED <<now, nextTokenId, nftOwner, medias, proposals, communities>>
  /\ UNCHANGED sharingVars

-----------------------------------------------------------------------------
(* Governance.  A proposal is keyed by <<media id, requester>>.            *)

(* create_update_media_proposal: the caller must be a collaborator; the   *)
(* proposal (re)placed at its key starts with no votes, min_approvals =   *)
(* number of collaborators, max_denials = 1, and the community is the     *)
(* collaborator set at this moment.                                       *)
IsCollaborator(caller, m) ==
  /\ m \in DOMAIN collabs
  /\ caller \in DOMAIN collabs[m]

CreateUpdateMediaProposal(caller, m, rec, cs) ==
  LET key == <<m, caller>> IN
  /\ IsCollaborator(caller, m)
  /\ m \in DOMAIN medias
  /\ proposals' = Put(proposals, key,
        [update       |-> [creator |-> rec.creator, info |-> rec.info, collabs |-> cs],
         votes        |-> <<>>,
         minApprovals |-> Cardinality(DOMAIN collabs[m]),
         maxDenials   |-> 1,
         duration     |-> ProposalDuration,
         date         |-> now])
  /\ communities' = Put(communities, key, DOMAIN collabs[m])
  /\ UNCHANGED <<now, nextTokenId, nftOwner, medias, collabs>>
  /\ UNCHANGED sharingVars

\* UpdateMediaProposal::count_votes
YesCount(votes) == Cardinality({a \in DOMAIN votes : votes[a]})
NoCount(votes) == Cardinality({a \in DOMAIN votes : ~votes[a]})

\* UpdateMediaProposal::is_expired
\* Mutant: a proposal is still live at exactly date + duration.
IsExpiredLate(p, t) == p.date + p.duration < t

IsExpired(p, t) == p.date + p.duration <= t

(* vote_media_update_proposal: record the vote, then delete the proposal  *)
(* if it expired or got max_denials no votes; else apply it and delete it *)
(* once yes votes reach min_approvals; else keep it pending.              *)
VoteMediaUpdateProposal(caller, m, requester, vote) ==
  LET key == <<m, requester>> IN
  /\ key \in DOMAIN proposals
  /\ key \in DOMAIN communities
  /\ caller \in communities[key]
  /\ LET p == [proposals[key] EXCEPT !.votes = Put(@, caller, vote)] IN
     IF IsExpired(p, now) \/ NoCount(p.votes) >= p.maxDenials
     THEN /\ proposals' = Without(proposals, key)
          /\ communities' = Without(communities, key)
          /\ UNCHANGED <<medias, collabs>>
     ELSE IF YesCount(p.votes) >= p.minApprovals
     THEN /\ proposals' = Without(proposals, key)
          /\ communities' = Without(communities, key)
          /\ collabs' = Put(collabs, m, p.update.collabs)
          /\ medias' = [medias EXCEPT ![m].creator = p.update.creator,
                                      ![m].info = p.update.info]
     ELSE /\ proposals' = [proposals EXCEPT ![key] = p]
          /\ UNCHANGED <<communities, medias, collabs>>
  /\ UNCHANGED <<now, nextTokenId, nftOwner>>
  /\ UNCHANGED sharingVars

-----------------------------------------------------------------------------
(* Block time advances; proposals expire only relative to it.              *)
Tick ==
  /\ now < MaxTime
  /\ now' = now + 1
  /\ UNCHANGED <<nextTokenId, nftOwner, medias, collabs, proposals,
                 communities>>
  /\ UNCHANGED sharingVars

MediaRecords == [creator : Accounts, pod : Accounts, info : Infos]

Init ==
  /\ now = 0
  /\ nextTokenId = 0
  /\ nftOwner = <<>>
  /\ medias = <<>>
  /\ collabs = <<>>
  /\ proposals = <<>>
  /\ communities = <<>>
  /\ SharingInit

Next ==
  \/ \E c \in Accounts, r \in MediaInputs, cs \in CollabInputs : CreateMedia(c, r, cs)
  \/ \E c \in Accounts, m \in MediaIds, r \in MediaInputs : UpdateMedia(c, m, r)
  \/ \E c \in Accounts, m \in MediaIds, cs \in CollabInputs : UpdateCollabs(c, m, cs)
  \/ \E c \in Accounts, m \in MediaIds, s \in SharingInputs :
       FractionaliseMediaCollab(c, m, s)
  \/ \E c \in Accounts, m \in MediaIds, r \in MediaInputs, cs \in CollabInputs :
       CreateUpdateMediaProposal(c, m, r, cs)
  \/ \E c, r \in Accounts, m \in MediaIds, v \in BOOLEAN :
       VoteMediaUpdateProposal(c, m, r, v)
  \/ SharingNext /\ UNCHANGED mediaVars
  \/ Tick

Spec == Init /\ [][Next]_vars

-----------------------------------------------------------------------------
(* Properties                                                              *)

TypeOK ==
  /\ now \in 0..MaxTime
  /\ nextTokenId \in 0..MaxMedia
  /\ nftOwner \in [1..nextTokenId -> Accounts]
  /\ medias \in [1..nextTokenId -> MediaRecords]
  /\ collabs \in [1..nextTokenId -> Maps(Accounts, ShareValues)]
  /\ DOMAIN proposals \subseteq MediaIds \X Accounts
  /\ DOMAIN communities = DOMAIN proposals
  /\ \A k \in DOMAIN proposals :
       /\ proposals[k].votes \in Maps(communities[k], BOOLEAN)
       /\ proposals[k].date \in 0..MaxTime
       /\ communities[k] \subseteq Accounts
  /\ SharingTypeOK

(* vote_media_update_proposal applies a proposal only when every member   *)
(* of the community frozen at its creation has voted yes on it, the last  *)
(* of them in the applying call, and only before it expired (block time   *)
(* < date + one week).  A step applies the proposal at k when it deletes  *)
(* k and changes the media's record or collaborators.                     *)
AppliesProposal(k) ==
  /\ k \notin DOMAIN proposals'
  /\ \/ collabs'[k[1]] # collabs[k[1]]
     \/ medias'[k[1]] # medias[k[1]]

UnanimousBeforeExpiry ==
  [][\A k \in DOMAIN proposals :
       AppliesProposal(k) =>
         /\ now < proposals[k].date + proposals[k].duration
         /\ \E last \in communities[k] :
              \A a \in communities[k] \ {last} :
                a \in DOMAIN proposals[k].votes /\ proposals[k].votes[a]]_vars

(* Spec 4.1: fractionalise_media_collab removes the caller's share and    *)
(* merges original_share * ratio additively into the entry of every       *)
(* address of the request, so a collaborator other than the caller keeps  *)
(* what it held and gains the split-off part.                             *)
FractionaliseMergesAdditively ==
  [][\A c \in Accounts, m \in MediaIds, req \in SharingInputs :
       FractionaliseMediaCollab(c, m, req) =>
         \A a \in (DOMAIN req \cap DOMAIN collabs[m]) \ {c} :
           collabs'[m][a] = collabs[m][a] + collabs[m][c] * req[a]]_vars
=============================================================================
