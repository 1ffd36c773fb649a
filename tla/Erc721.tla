-------------------------------- MODULE Erc721 --------------------------------
(***************************************************************************)
(* The erc721 ink! contract (src/contracts/erc721/lib.rs): token owners,  *)
(* per-account token counts, single-token approvals and operator          *)
(* approvals.  Each message is one action whose first parameter is        *)
(* env().caller(); an Err or a panic reverts the message, so error paths  *)
(* are states where the action is disabled.  Token metadata               *)
(* (token_infos_by_id) is never read by a message and is left out.        *)
(*                                                                         *)
(* Token counts are u64: decrease_counter_of uses `-=`, which panics or   *)
(* wraps at 0 depending on the build (OverflowChecks).                    *)
(***************************************************************************)
EXTENDS Integers, FiniteSets, StorageMaps

CONSTANTS
  Accounts,        \* AccountId values, ZeroAccount among them
  ZeroAccount,     \* AccountId::from([0x0; 32])
  MaxTokens,       \* bound: ids minted (next_token_id stays below u64::MAX)
  CountLimit,      \* 2^64: token counts are u64
  OverflowChecks   \* TRUE: `-=` on a zero count panics; FALSE: it wraps

ASSUME ZeroAccount \in Accounts /\ MaxTokens \in Nat
ASSUME CountLimit \in Nat \ {0} /\ OverflowChecks \in BOOLEAN

VARIABLES
  nextTokenId,   \* next_token_id
  owners,        \* owners_by_token_id
  counts,        \* token_counts_by_account_id
  approvals,     \* approvals_by_token_id
  operators      \* operator_approvals, keyed by <<owner, operator>>

nftVars == <<nextTokenId, owners, counts, approvals, operators>>

TokenIds == 1..MaxTokens

-----------------------------------------------------------------------------
\* approved_for_all: a missing entry reads as false.
ApprovedForAll(owner, operator) ==
  <<owner, operator>> \in DOMAIN operators /\ operators[<<owner, operator>>]

\* approved_or_owner(Some(caller), id), for a stored id.
ApprovedOrOwner(caller, id) ==
  /\ caller # ZeroAccount
  /\ \/ caller = owners[id]
     \/ id \in DOMAIN approvals /\ caller = approvals[id]
     \/ ApprovedForAll(owners[id], caller)

\* decrease_counter_of: the account must have an entry; `*count -= 1`.
CanDecrease(cnt, of) ==
  /\ of \in DOMAIN cnt
  /\ OverflowChecks => cnt[of] > 0

Decreased(cnt, of) == [cnt EXCEPT ![of] = (@ - 1) % CountLimit]

\* increase_counter_of: and_modify(+= 1).or_insert(1).
Increased(cnt, of) ==
  Put(cnt, of, IF of \in DOMAIN cnt THEN (cnt[of] + 1) % CountLimit ELSE 1)

(* transfer_token_from: the token must exist and the caller be its owner, *)
(* its approved account or an operator of its owner; the approval is      *)
(* cleared, `from`'s count is decreased (whoever owns the token), and the *)
(* token is given to `to`, which must not be the zero account.            *)
TransferTokenFrom(caller, from, to, id) ==
  /\ id \in DOMAIN owners
  /\ ApprovedOrOwner(caller, id)
  /\ CanDecrease(counts, from)
  /\ to # ZeroAccount
  /\ approvals' = Without(approvals, id)
  /\ counts' = Increased(Decreased(counts, from), to)
  /\ owners' = [owners EXCEPT ![id] = to]
  /\ UNCHANGED <<nextTokenId, operators>>

(* transfer: transfer_token_from with from = caller *)
NftTransfer(caller, destination, id) ==
  TransferTokenFrom(caller, caller, destination, id)

(* transfer_from *)
NftTransferFrom(caller, from, to, id) == TransferTokenFrom(caller, from, to, id)

(* mint / mint_with_metadata: anyone may mint, to any recipient; the id   *)
(* is next_token_id + 1 (checked_add).                                    *)
NftMint(caller, recipient) ==
  LET id == nextTokenId + 1 IN
  /\ nextTokenId < MaxTokens
  /\ nextTokenId' = id
  /\ counts' = Increased(counts, recipient)
  /\ owners' = Put(owners, id, recipient)
  /\ UNCHANGED <<approvals, operators>>

(* burn / burn_from through _burn_from: a caller other than the account   *)
(* must be approved or owner; the account must own the token.  The        *)
(* single-token approval is not cleared.                                  *)
NftBurnFrom(caller, account, id) ==
  /\ id \in DOMAIN owners
  /\ caller # account => ApprovedOrOwner(caller, id)
  /\ owners[id] = account
  /\ CanDecrease(counts, account)
  /\ counts' = Decreased(counts, account)
  /\ owners' = Without(owners, id)
  /\ UNCHANGED <<nextTokenId, approvals, operators>>

(* approve through approve_for: the caller must own the token or be an    *)
(* operator of its owner; inserting over an existing approval returns     *)
(* CannotInsert, which reverts the insert.                                *)
\* Mutant: the zero account may be approved.
NftApproveToZero(caller, to, id) ==
  /\ id \in DOMAIN owners
  /\ owners[id] = caller \/ ApprovedForAll(owners[id], caller)
  /\ id \notin DOMAIN approvals
  /\ approvals' = Put(approvals, id, to)
  /\ UNCHANGED <<nextTokenId, owners, counts, operators>>

NftApprove(caller, to, id) ==
  /\ id \in DOMAIN owners
  /\ owners[id] = caller \/ ApprovedForAll(owners[id], caller)
  /\ to # ZeroAccount
  /\ id \notin DOMAIN approvals
  /\ approvals' = Put(approvals, id, to)
  /\ UNCHANGED <<nextTokenId, owners, counts, operators>>

(* set_approval_for_all through approve_for_all: an entry that is true is *)
(* overwritten; otherwise the pair is inserted, and inserting over an     *)
(* existing false entry returns CannotInsert.                             *)
CanSetApprovalForAll(caller, to) ==
  /\ to # caller
  /\ ApprovedForAll(caller, to) \/ <<caller, to>> \notin DOMAIN operators

SetApprovalForAll(caller, to, approved) ==
  /\ CanSetApprovalForAll(caller, to)
  /\ operators' = Put(operators, <<caller, to>>, approved)
  /\ UNCHANGED <<nextTokenId, owners, counts, approvals>>

-----------------------------------------------------------------------------
(* new() *)
NftInit ==
  /\ nextTokenId = 0
  /\ owners = <<>>
  /\ counts = <<>>
  /\ approvals = <<>>
  /\ operators = <<>>

\* Accounts that sign messages: nobody holds the key of the zero account.
Signers == Accounts \ {ZeroAccount}

(* The erc721 messages of the accounts in `users` *)
NftMessages(users) ==
  \/ \E c \in users, d \in Accounts, id \in TokenIds : NftTransfer(c, d, id)
  \/ \E c \in users, f, t \in Accounts, id \in TokenIds :
       NftTransferFrom(c, f, t, id)
  \/ \E c \in users, r \in Accounts : NftMint(c, r)
  \/ \E c \in users, a \in Accounts, id \in TokenIds : NftBurnFrom(c, a, id)
  \/ \E c \in users, t \in Accounts, id \in TokenIds : NftApprove(c, t, id)
  \/ \E c \in users, t \in Accounts, v \in BOOLEAN : SetApprovalForAll(c, t, v)

NftNext == NftMessages(Signers)

NftSpec == NftInit /\ [][NftNext]_nftVars

-----------------------------------------------------------------------------
(* Properties                                                              *)

NftTypeOK ==
  /\ nextTokenId \in 0..MaxTokens
  /\ IsMap(owners, 1..nextTokenId, Accounts)
  /\ IsMap(counts, Accounts, 0..(CountLimit - 1))
  /\ IsMap(approvals, 1..nextTokenId, Accounts \ {ZeroAccount})
  /\ IsMap(operators, Accounts \X Accounts, BOOLEAN)

(* balance_of(a) is the number of tokens a owns: every path that moves,   *)
(* mints or burns a token adjusts the counts of its old and new owner.    *)
CountsMatchOwners ==
  \A a \in Accounts :
    (IF a \in DOMAIN counts THEN counts[a] ELSE 0) =
      Cardinality({id \in DOMAIN owners : owners[id] = a})

(* set_approval_for_all(operator, true) succeeds for every operator other *)
(* than the caller: an owner can always (re)authorise an operator.        *)
SetApprovalForAllSucceeds ==
  \A c \in Signers, t \in Accounts : t # c => CanSetApprovalForAll(c, t)
==============================================================================
