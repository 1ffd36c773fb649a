------------------------------- MODULE Erc1155 -------------------------------
(***************************************************************************)
(* The erc1155 ink! contract (src/contracts/erc1155/lib.rs): every mint   *)
(* creates a new token id owned by its recipient, with the minted amount  *)
(* as the recipient's balance; balances are kept per (account, id).       *)
(* Approvals and operators are those of the id's owner (its minter), and  *)
(* transfer_token_from_to checks them, never the account the balance is   *)
(* taken from.  An Err or a panic reverts the message.  Token metadata is *)
(* never read by a message and is left out.                               *)
(***************************************************************************)
EXTENDS Integers, Sequences, Balance, StorageMaps

CONSTANTS
  Accounts,        \* AccountId values, ZeroAccount among them
  ZeroAccount,     \* AccountId::from([0x0; 32])
  MaxIds           \* bound: ids minted (next_token_id stays below u64::MAX)

ASSUME ZeroAccount \in Accounts /\ MaxIds \in Nat

VARIABLES
  nextTokenId,           \* next_token_id
  ownersByTokenId,       \* owners_by_token_id
  balancesByAccountId,   \* balances_by_account_id, keyed by <<account, id>>
  approvalsByTokenId,    \* approvals_by_token_id
  operatorApprovals      \* operator_approvals, keyed by <<owner, operator>>

erc1155Vars == <<nextTokenId, ownersByTokenId, balancesByAccountId,
                 approvalsByTokenId, operatorApprovals>>

TokenIds == 1..MaxIds

\* Accounts that sign messages: nobody holds the key of the zero account.
Signers == Accounts \ {ZeroAccount}

-----------------------------------------------------------------------------
\* approved_for_all: a missing entry reads as false.
ApprovedForAll(owner, operator) ==
  <<owner, operator>> \in DOMAIN operatorApprovals
  /\ operatorApprovals[<<owner, operator>>]

\* approved_or_owner(Some(caller), id) for a stored id: the caller is the
\* id's owner, its approved account, or an operator of its owner.
ApprovedOrOwner(caller, id) ==
  /\ caller # ZeroAccount
  /\ \/ caller = ownersByTokenId[id]
     \/ id \in DOMAIN approvalsByTokenId /\ caller = approvalsByTokenId[id]
     \/ ApprovedForAll(ownersByTokenId[id], caller)

\* reduce_balance_of: the entry must exist and hold at least amount.
CanReduceBalanceOf(bal, of, id, amount) ==
  <<of, id>> \in DOMAIN bal /\ bal[<<of, id>>] >= amount

ReduceBalanceOf(bal, of, id, amount) ==
  [bal EXCEPT ![<<of, id>>] = @ - amount]

\* increase_balance_of: insert amount, or `+=` on an existing entry.
CanIncreaseBalanceOf(bal, of, id, amount) ==
  <<of, id>> \in DOMAIN bal => NoOverflow(bal[<<of, id>>] + amount)

IncreaseBalanceOf(bal, of, id, amount) ==
  IF <<of, id>> \in DOMAIN bal
  THEN [bal EXCEPT ![<<of, id>>] = AddU(@, amount)]
  ELSE Put(bal, <<of, id>>, amount)

(* transfer_token_from_to, on the balances bal: the id must exist and the *)
(* caller be approved or the owner of the id; then amount leaves `from`   *)
(* and reaches `to`, the second read after the first write.               *)
CanTransferTokenFromTo(bal, caller, from, to, id, amount) ==
  /\ id \in DOMAIN ownersByTokenId
  /\ ApprovedOrOwner(caller, id)
  /\ CanReduceBalanceOf(bal, from, id, amount)
  /\ CanIncreaseBalanceOf(ReduceBalanceOf(bal, from, id, amount), to, id, amount)

TransferredTokenFromTo(bal, from, to, id, amount) ==
  IncreaseBalanceOf(ReduceBalanceOf(bal, from, id, amount), to, id, amount)

\* The message transfer_token_from_to makes on its own.
TransferTokenFromTo(caller, from, to, id, amount) ==
  /\ CanTransferTokenFromTo(balancesByAccountId, caller, from, to, id, amount)
  /\ balancesByAccountId' =
       TransferredTokenFromTo(balancesByAccountId, from, to, id, amount)
  /\ UNCHANGED <<nextTokenId, ownersByTokenId, approvalsByTokenId,
                 operatorApprovals>>

(* transfer: from the caller *)
Transfer1155(caller, destination, id, amount) ==
  TransferTokenFromTo(caller, caller, destination, id, amount)

(* transfer_from: from any account; only the caller's standing on the id  *)
(* is checked.                                                             *)
TransferFrom1155(caller, from, to, id, amount) ==
  TransferTokenFromTo(caller, from, to, id, amount)

(* batch_transfer: transfer_token_from_to for each (id, amount) pair in   *)
(* order; the first Err reverts the transfers made before it.  The ids    *)
(* and amounts vectors are the pairs of `items`, so their lengths agree.  *)
RECURSIVE BatchMoved(_, _, _, _)
BatchMoved(res, caller, destination, items) ==
  IF items = <<>> \/ ~res.ok THEN res
  ELSE LET id == Head(items)[1]
           amount == Head(items)[2]
       IN BatchMoved(
            IF CanTransferTokenFromTo(res.bal, caller, caller, destination, id, amount)
            THEN [ok |-> TRUE,
                  bal |-> TransferredTokenFromTo(res.bal, caller, destination,
                                                 id, amount)]
            ELSE [ok |-> FALSE, bal |-> res.bal],
            caller, destination, Tail(items))

BatchTransfer(caller, destination, items) ==
  LET res == BatchMoved([ok |-> TRUE, bal |-> balancesByAccountId],
                        caller, destination, items)
  IN /\ res.ok
     /\ balancesByAccountId' = res.bal
     /\ UNCHANGED <<nextTokenId, ownersByTokenId, approvalsByTokenId,
                    operatorApprovals>>

(* mint: a new id (checked_add on next_token_id), owned by the recipient, *)
(* whose balance of it is inserted as amount.                             *)
\* Mutant: next_token_id is not advanced, so the next mint reuses the id.
Mint1155SameId(caller, recipient, amount) ==
  LET id == nextTokenId + 1 IN
  /\ caller # ZeroAccount
  /\ nextTokenId < MaxIds
  /\ ownersByTokenId' = Put(ownersByTokenId, id, recipient)
  /\ balancesByAccountId' = Put(balancesByAccountId, <<recipient, id>>, amount)
  /\ UNCHANGED <<nextTokenId, approvalsByTokenId, operatorApprovals>>

Mint1155(caller, recipient, amount) ==
  LET id == nextTokenId + 1 IN
  /\ caller # ZeroAccount
  /\ nextTokenId < MaxIds
  /\ nextTokenId' = id
  /\ ownersByTokenId' = Put(ownersByTokenId, id, recipient)
  /\ balancesByAccountId' = Put(balancesByAccountId, <<recipient, id>>, amount)
  /\ UNCHANGED <<approvalsByTokenId, operatorApprovals>>

(* burn / burn_from through _burn_from: a caller other than the account   *)
(* must be approved or owner of the id, and the account must own the id;  *)
(* its balance is reduced.                                                 *)
BurnFrom1155(caller, account, id, amount) ==
  /\ id \in DOMAIN ownersByTokenId
  /\ caller # account => ApprovedOrOwner(caller, id)
  /\ ownersByTokenId[id] = account
  /\ CanReduceBalanceOf(balancesByAccountId, account, id, amount)
  /\ balancesByAccountId' = ReduceBalanceOf(balancesByAccountId, account, id, amount)
  /\ UNCHANGED <<nextTokenId, ownersByTokenId, approvalsByTokenId,
                 operatorApprovals>>

(* approve through approve_for: the id must exist (owner.expect panics    *)
(* otherwise), the caller own it or operate for its owner, `to` not be    *)
(* the zero account, and the id have no approval yet (CannotInsert).      *)
Approve1155(caller, to, id) ==
  /\ id \in DOMAIN ownersByTokenId
  /\ caller = ownersByTokenId[id] \/ ApprovedForAll(ownersByTokenId[id], caller)
  /\ to # ZeroAccount
  /\ id \notin DOMAIN approvalsByTokenId
  /\ approvalsByTokenId' = Put(approvalsByTokenId, id, to)
  /\ UNCHANGED <<nextTokenId, ownersByTokenId, balancesByAccountId,
                 operatorApprovals>>

(* set_approval_for_all through approve_for_all: a true entry is          *)
(* overwritten; otherwise the pair is inserted, and inserting over a      *)
(* false entry returns CannotInsert.                                       *)
SetApprovalForAll1155(caller, to, approved) ==
  /\ to # caller
  /\ ApprovedForAll(caller, to) \/ <<caller, to>> \notin DOMAIN operatorApprovals
  /\ operatorApprovals' = Put(operatorApprovals, <<caller, to>>, approved)
  /\ UNCHANGED <<nextTokenId, ownersByTokenId, balancesByAccountId,
                 approvalsByTokenId>>

(* new() *)
Erc1155Init ==
  /\ nextTokenId = 0
  /\ ownersByTokenId = <<>>
  /\ balancesByAccountId = <<>>
  /\ approvalsByTokenId = <<>>
  /\ operatorApprovals = <<>>

(* The erc1155 messages of the accounts in `users`, naming accounts of    *)
(* `targets`: amounts from `amounts`, batches of two (id, amount) pairs.  *)
Erc1155Messages(users, targets, amounts) ==
  \/ \E c \in users, d \in targets, id \in TokenIds, v \in amounts :
       Transfer1155(c, d, id, v)
  \/ \E c \in users, f, t \in targets, id \in TokenIds, v \in amounts :
       TransferFrom1155(c, f, t, id, v)
  \/ \E c \in users, d \in targets, p, q \in TokenIds \X amounts :
       BatchTransfer(c, d, <<p, q>>)
  \/ \E c \in users, r \in targets, v \in amounts : Mint1155(c, r, v)
  \/ \E c \in users, a \in targets, id \in TokenIds, v \in amounts :
       BurnFrom1155(c, a, id, v)
  \/ \E c \in users, t \in targets, id \in TokenIds : Approve1155(c, t, id)
  \/ \E c \in users, t \in targets, v \in BOOLEAN : SetApprovalForAll1155(c, t, v)

-----------------------------------------------------------------------------
(* Properties                                                              *)

Erc1155TypeOK ==
  /\ nextTokenId \in 0..MaxIds
  /\ IsMap(ownersByTokenId, 1..nextTokenId, Accounts)
  /\ IsMap(balancesByAccountId, Accounts \X (1..nextTokenId), Balances)
  /\ IsMap(approvalsByTokenId, 1..nextTokenId, Signers)
  /\ IsMap(operatorApprovals, Accounts \X Accounts, BOOLEAN)

\* a has authorised someone to move its balance of id: it is the id's
\* owner, its approved account or an owner with an operator.
Consented(a, id) ==
  \/ ApprovedOrOwner(a, id)
  \/ \E op \in Accounts : ApprovedForAll(a, op)

(* An account's balance of an id only falls by its own consent: by a     *)
(* message of its own, or of an account it approved or made an operator. *)
(* transfer_from checks the caller's standing with the id's owner        *)
(* (approved_or_owner), never with `from`, whose balance it reduces.     *)
ConsentToDebit ==
  [][\A k \in DOMAIN balancesByAccountId :
       ~Consented(k[1], k[2]) =>
         k \in DOMAIN balancesByAccountId' /\
         balancesByAccountId'[k] >= balancesByAccountId[k]]_erc1155Vars
==============================================================================
