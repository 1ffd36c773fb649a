--------------------------------- MODULE Htlc ---------------------------------
(***************************************************************************)
(* The hash time-locked contracts of src/contracts/htlc-atomic-swap: a     *)
(* sender locks tokens for a receiver under the hash of a secret and a    *)
(* time lock; the receiver claims them with the secret before the time    *)
(* lock, and the sender takes them back with refund_funds.  The contract's *)
(* owner is the bridge of the swap: a lock it opens mints the tokens      *)
(* (swap-in), and a claim or refund it makes burns them (swap-out).       *)
(*                                                                         *)
(* The token calls go to the erc20 contract of module Erc20 with the HTLC *)
(* contract as their caller; an Err of the token (paused, missing role,   *)
(* short balance or allowance) reverts the whole HTLC message.  Every     *)
(* lock uses the one modelled erc20 token.  The contract hash is          *)
(* env().random over the caller and the nonce: distinct nonces give       *)
(* distinct hashes, so the nonce stands for the hash.  Keccak256 of a     *)
(* secret is the injective function SecretHash.                           *)
(***************************************************************************)
EXTENDS Erc20, Clock, StorageMaps

CONSTANTS
  HtlcContract,    \* AccountId of the HTLC contract (env().account_id())
  HtlcDeployer,    \* caller of new(): the first owner
  Secrets,         \* secrets a claim may carry
  Hashes,          \* secret hashes a proposal may carry
  SecretHash,      \* hash_secret: Secrets -> Hashes, injective
  TimeLocks,       \* time_lock values a proposal may carry
  MaxContracts     \* bound: HTLCs initialised (the u128 nonce)

ASSUME HtlcContract \in Accounts /\ HtlcDeployer \in Accounts
ASSUME SecretHash \in [Secrets -> Hashes] /\ MaxContracts \in Nat

VARIABLES
  contracts,   \* contracts_by_hash, keyed by the nonce that made the hash
  owner,       \* owner
  nonce        \* nonce

htlcVars == <<contracts, owner, nonce>>

ContractRecords ==
  [secretHash : Hashes, from : Accounts, to : Accounts, amount : Balances,
   timeLock : TimeLocks, locked : BOOLEAN]

-----------------------------------------------------------------------------
(* The token moves of a lock, a claim and a refund, as the erc20 messages *)
(* the HTLC contract sends: mint and burn when the party is the owner,    *)
(* transfer_from and transfer otherwise.                                  *)
LockFunds(caller, amount) ==
  IF caller = owner
  THEN Mint(HtlcContract, HtlcContract, amount)
  ELSE TransferFrom(HtlcContract, caller, HtlcContract, amount)

ReleaseFunds(caller, payee, amount) ==
  IF caller = owner
  THEN BurnFrom(HtlcContract, HtlcContract, amount)
  ELSE Transfer(HtlcContract, payee, amount)

(* initialise_htlc: the time lock must lie in the future; the funds are    *)
(* locked (minted for the owner, pulled with transfer_from otherwise) and *)
(* the contract is stored under the hash of the caller and the nonce.     *)
\* Mutant: increment_nonce does not advance the nonce, so the next lock of
\* the same caller gets the same hash and overwrites this one.
InitialiseHtlcStaleNonce(caller, to, amount, timeLock, secretHash) ==
  /\ nonce < MaxContracts
  /\ timeLock > now
  /\ LockFunds(caller, amount)
  /\ contracts' = Put(contracts, nonce,
                      [secretHash |-> secretHash, from |-> caller, to |-> to,
                       amount |-> amount, timeLock |-> timeLock,
                       locked |-> TRUE])
  /\ UNCHANGED <<owner, now, nonce>>

InitialiseHtlc(caller, to, amount, timeLock, secretHash) ==
  /\ nonce < MaxContracts
  /\ timeLock > now
  /\ LockFunds(caller, amount)
  /\ contracts' = Put(contracts, nonce,
                      [secretHash |-> secretHash, from |-> caller, to |-> to,
                       amount |-> amount, timeLock |-> timeLock,
                       locked |-> TRUE])
  /\ nonce' = nonce + 1
  /\ UNCHANGED <<owner, now>>

(* claim_funds: a stored, locked, unexpired contract, claimed by its       *)
(* receiver with the secret whose hash it holds; the funds go to the      *)
(* receiver (are burned when the receiver is the owner) and the contract  *)
(* is deleted.                                                             *)
ClaimFunds(caller, key, secret) ==
  LET c == contracts[key] IN
  /\ key \in DOMAIN contracts
  /\ c.locked
  /\ c.timeLock > now
  /\ c.to = caller
  /\ SecretHash[secret] = c.secretHash
  /\ ReleaseFunds(caller, c.to, c.amount)
  /\ contracts' = Without(contracts, key)
  /\ UNCHANGED <<owner, nonce, now>>

(* refund_funds: a stored, locked contract, refunded by its sender with   *)
(* its (public) secret hash; the funds go back to the sender (are burned  *)
(* when the sender is the owner) and the contract is deleted.  The time   *)
(* lock is never compared with the block time.                            *)
\* Mutant: the contract is not deleted after the refund.
RefundFundsKeep(caller, key, secretHash) ==
  LET c == contracts[key] IN
  /\ key \in DOMAIN contracts
  /\ c.locked
  /\ c.from = caller
  /\ secretHash = c.secretHash
  /\ ReleaseFunds(caller, caller, c.amount)
  /\ UNCHANGED <<contracts, owner, nonce, now>>

RefundFunds(caller, key, secretHash) ==
  LET c == contracts[key] IN
  /\ key \in DOMAIN contracts
  /\ c.locked
  /\ c.from = caller
  /\ secretHash = c.secretHash
  /\ ReleaseFunds(caller, caller, c.amount)
  /\ contracts' = Without(contracts, key)
  /\ UNCHANGED <<owner, nonce, now>>

(* set_owner: only the owner *)
SetOwner(caller, newOwner) ==
  /\ caller = owner
  /\ owner' = newOwner
  /\ UNCHANGED <<contracts, nonce, now, erc20Vars>>

(* new() *)
HtlcInit ==
  /\ contracts = <<>>
  /\ owner = HtlcDeployer
  /\ nonce = 0

(* The HTLC messages of the accounts in `users` *)
HtlcNext(users, amounts) ==
  \/ \E c, t \in users, v \in amounts, tl \in TimeLocks,
        h \in Hashes : InitialiseHtlc(c, t, v, tl, h)
  \/ \E c \in users, k \in DOMAIN contracts, x \in Secrets : ClaimFunds(c, k, x)
  \/ \E c \in users, k \in DOMAIN contracts, h \in Hashes : RefundFunds(c, k, h)
  \/ \E c, o \in users : SetOwner(c, o)

-----------------------------------------------------------------------------
(* Properties                                                              *)

HtlcTypeOK ==
  /\ nonce \in 0..MaxContracts
  /\ owner \in Accounts
  /\ IsMap(contracts, 0..(nonce - 1), ContractRecords)

(* The HTLC contract's token balance covers what its stored contracts     *)
(* lock: a lock mints or pulls the amount in, and a claim or a refund     *)
(* burns or pays out the amount of the contract it deletes, whoever the   *)
(* owner is at each of these steps.  (Tokens anyone else sends to the     *)
(* contract only add to its balance.)                                     *)
HtlcEscrow ==
  balances[HtlcContract] >=
    FoldFunction(LAMBDA c, acc : c.amount + acc, 0, contracts)

(* refund_funds "returns the funds to the sender if the time lock has     *)
(* expired": until its time lock, a stored contract is only ever removed  *)
(* with its amount going to its receiver (or burned by the receiver when  *)
(* it is the owner), so a receiver holding the secret can rely on it.     *)
ReceiverPaidBeforeExpiry ==
  [][\A k \in DOMAIN contracts :
       LET c == contracts[k] IN
       (k \notin DOMAIN contracts' /\ now < c.timeLock) =>
         \/ balances'[c.to] = balances[c.to] + c.amount
         \/ c.to = owner /\ totalSupply' = totalSupply - c.amount]_<<erc20Vars, htlcVars, now>>
==============================================================================
