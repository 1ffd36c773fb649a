----------------------------- MODULE MediaSharing -----------------------------
(***************************************************************************)
(* The sharing chain index of the media contract                          *)
(* (src/contracts/media/src/lib.rs): share_media allocates sharing ids    *)
(* that point at a parent sharing, and get_sharing_chain walks the        *)
(* parents from a leaf to collect the addresses that open_media rewards.  *)
(* share_media reads and writes only media_sharings_by_id and             *)
(* next_sharing_id, so the index is a component of its own; Media         *)
(* composes it with the rest of the contract's storage.                   *)
(***************************************************************************)
EXTENDS Integers, Sequences, StorageMaps

CONSTANTS
  Accounts,          \* AccountId values that call the contract
  MaxMedia,          \* bound: media ids 1..MaxMedia
  MaxSharings,       \* bound: number of sharing ids allocated
  SharingDepth,      \* GET_SHARING_PROPORTIONS_DEPTH (3)
  NoParent,          \* model value for parent_id = None
  Diverges           \* model value: get_sharing_chain never returns

ASSUME SharingDepth \in Nat \ {0}
ASSUME {MaxMedia, MaxSharings} \subseteq Nat

VARIABLES
  sharings,       \* media_sharings_by_id
  nextSharingId   \* next_sharing_id

sharingVars == <<sharings, nextSharingId>>

MediaIds == 1..MaxMedia
SharingIds == 0..(MaxSharings - 1)

SharingRecords == [media : MediaIds, parent : SharingIds \cup {NoParent},
                   address : Accounts]

(* share_media: a given parent must exist, belong to the same media and   *)
(* have been created by the caller; a fresh id is then allocated.  The    *)
(* media id itself is not checked.                                         *)
ParentValid(caller, m, parent) ==
  parent # NoParent =>
    /\ parent \in DOMAIN sharings
    /\ sharings[parent].media = m
    /\ sharings[parent].address = caller

\* Mutant: increment_next_sharing_id does not advance the counter.
ShareMediaKeepId(caller, m, parent) ==
  /\ nextSharingId < MaxSharings
  /\ ParentValid(caller, m, parent)
  /\ sharings' = Put(sharings, nextSharingId,
                     [media |-> m, parent |-> parent, address |-> caller])
  /\ nextSharingId' = nextSharingId

ShareMedia(caller, m, parent) ==
  /\ nextSharingId < MaxSharings
  /\ ParentValid(caller, m, parent)
  /\ sharings' = Put(sharings, nextSharingId,
                     [media |-> m, parent |-> parent, address |-> caller])
  /\ nextSharingId' = nextSharingId + 1

(* get_sharing_chain, one loop iteration per call.  When the id is not    *)
(* stored, the loop body changes nothing and `while depth > 0` spins      *)
(* forever: the result is Diverges.                                       *)
\* Mutant: the loop forgets `depth -= 1` and walks to the root.
RECURSIVE SharingChainLoopNoDepth(_, _, _)
SharingChainLoopNoDepth(sid, depth, accounts) ==
  IF depth = 0 THEN accounts
  ELSE IF sid \notin DOMAIN sharings THEN Diverges
  ELSE LET data == sharings[sid] IN
       IF data.parent # NoParent
       THEN SharingChainLoopNoDepth(data.parent, depth, Append(accounts, data.address))
       ELSE Append(accounts, data.address)

RECURSIVE SharingChainLoop(_, _, _)
SharingChainLoop(sid, depth, accounts) ==
  IF depth = 0 THEN accounts
  ELSE IF sid \notin DOMAIN sharings THEN Diverges
  ELSE LET data == sharings[sid] IN
       IF data.parent # NoParent
       THEN SharingChainLoop(data.parent, depth - 1, Append(accounts, data.address))
       ELSE Append(accounts, data.address)

GetSharingChain(sid, depth) == SharingChainLoop(sid, depth, <<>>)

SharingInit ==
  /\ sharings = <<>>
  /\ nextSharingId = 0

SharingNext ==
  \E c \in Accounts, m \in MediaIds, p \in SharingIds \cup {NoParent} :
    ShareMedia(c, m, p)

SharingSpec == SharingInit /\ [][SharingNext]_sharingVars

-----------------------------------------------------------------------------
(* Properties                                                              *)

SharingTypeOK ==
  /\ nextSharingId \in 0..MaxSharings
  /\ sharings \in [0..(nextSharingId - 1) -> SharingRecords]

(* Reference for the ancestor walk (spec 4.3): the addresses of the node  *)
(* and its ancestors, leaf first, at most depth of them.                  *)
RECURSIVE AncestorAddresses(_, _)
AncestorAddresses(sid, depth) ==
  IF depth = 0 \/ sid \notin DOMAIN sharings THEN <<>>
  ELSE <<sharings[sid].address>> \o
       (IF sharings[sid].parent = NoParent THEN <<>>
        ELSE AncestorAddresses(sharings[sid].parent, depth - 1))

(* get_sharing_chain returns, for every stored sharing id, exactly the    *)
(* ancestor addresses, leaf first, never more than the depth.             *)
ChainMatchesReference ==
  \A sid \in DOMAIN sharings :
    GetSharingChain(sid, SharingDepth) = AncestorAddresses(sid, SharingDepth)

(* The sharing ids reached from sid by following parents, at most depth.  *)
RECURSIVE AncestorIds(_, _)
AncestorIds(sid, depth) ==
  IF depth = 0 \/ sid \notin DOMAIN sharings THEN {}
  ELSE {sid} \cup (IF sharings[sid].parent = NoParent THEN {}
                   ELSE AncestorIds(sharings[sid].parent, depth - 1))

(* open_media passes request.sharing_id, any u64 the caller chooses, to   *)
(* get_sharing_chain; the walk must return for every such id.             *)
ChainTerminates ==
  \A sid \in SharingIds : GetSharingChain(sid, SharingDepth) # Diverges
==============================================================================
