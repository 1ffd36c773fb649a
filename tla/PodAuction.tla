------------------------------ MODULE PodAuction ------------------------------
(***************************************************************************)
(* The pod-auction ink! contract (src/contracts/pod-auction/src/lib.rs)   *)
(* composed with the erc721 contract of its media tokens (this module     *)
(* extends Erc721) and the erc20 contract its bids are paid in (the       *)
(* instance Token of Erc20).  An allowed user puts a media token up for   *)
(* auction; bids are pulled in with transfer_from and the previous bidder *)
(* is paid back; the auction owner withdraws (token to the bidder, bid to *)
(* the owner), cancels (bid back, token back) or resets it.  Every token  *)
(* call has the auction contract as its caller, and an Err of it reverts  *)
(* the whole message.                                                      *)
(*                                                                         *)
(* Auctions are keyed by (token_address, owner); with the one modelled    *)
(* erc20 token the key is the owner.  ipfs_hash is never read and is left *)
(* out.                                                                    *)
(***************************************************************************)
EXTENDS Erc721, Clock

CONSTANTS
  PodContract,     \* AccountId of the auction contract (env().account_id())
  PodOwner,        \* caller of new(): the contract owner
  OneDay,          \* ONE_DAY
  Prices,          \* bid_increment and reserve_price values a request may carry
  Times,           \* start_time / end_time values a request may carry
  MaxTime,         \* bound: block timestamp
  Deployer, InitialSupplies, Amounts, Width   \* of the bid token (Erc20)

VARIABLES
  totalSupply, balances, allowances, roles, isPaused,   \* the bid token
  auctions,    \* auctions, keyed by owner
  allowed      \* allowed_accounts

Token == INSTANCE Erc20

bidVars == <<totalSupply, balances, allowances, roles, isPaused>>
auctionVars == <<auctions, allowed>>
vars == <<nftVars, bidVars, auctionVars, now>>

-----------------------------------------------------------------------------
(* approve_user / remove_user: the contract owner edits allowed_accounts *)
ApproveUser(caller, user) ==
  /\ caller = PodOwner
  /\ user \notin allowed
  /\ allowed' = allowed \cup {user}
  /\ UNCHANGED <<nftVars, bidVars, auctions, now>>

RemoveUser(caller, user) ==
  /\ caller = PodOwner
  /\ user \in allowed
  /\ allowed' = allowed \ {user}
  /\ UNCHANGED <<nftVars, bidVars, auctions, now>>

(* create_auction: an allowed caller without an auction for the token,    *)
(* start_time not past and before end_time; the media token is pulled in  *)
(* with erc721 transfer_from(caller, contract, id).                        *)
CreateAuction(caller, id, start, end, increment, reserve) ==
  /\ caller \in allowed
  /\ caller \notin DOMAIN auctions
  /\ now <= start
  /\ start < end
  /\ NftTransferFrom(PodContract, caller, PodContract, id)
  /\ auctions' = Put(auctions, caller,
                     [owner |-> caller, start |-> start, end |-> end,
                      increment |-> increment, reserve |-> reserve,
                      gathered |-> 0, bidder |-> ZeroAccount, media |-> id,
                      withdrawn |-> FALSE])
  /\ UNCHANGED <<bidVars, allowed, now>>

\* Mutant: the previous bidder is not paid back.
PlaceBidNoRefund(caller, key, amount) ==
  LET a == auctions[key]
      pulled == Token!Moved(balances, caller, PodContract, amount)
  IN /\ caller \in allowed
     /\ key \in DOMAIN auctions
     /\ a.start <= now /\ now <= a.end
     /\ ~a.withdrawn
     /\ Token!NoOverflow(a.gathered + a.increment)
     /\ amount > Token!AddU(a.gathered, a.increment)
     /\ amount > a.reserve
     /\ allowances[<<caller, PodContract>>] >= amount
     /\ Token!CanMove(balances, caller, PodContract, amount)
     /\ balances' = pulled
     /\ allowances' = [allowances EXCEPT ![<<caller, PodContract>>] = @ - amount]
     /\ auctions' = [auctions EXCEPT ![key].gathered = amount,
                                     ![key].bidder = caller]
     /\ UNCHANGED <<totalSupply, roles, isPaused, nftVars, allowed, now>>

(* place_bid: an allowed caller, the auction open at now and not          *)
(* withdrawn, amount above gathered + bid_increment and reserve_price;    *)
(* the bid is pulled in with transfer_from, then the previous bid (if     *)
(* any) is transferred back to its bidder.                                 *)
PlaceBid(caller, key, amount) ==
  LET a == auctions[key]
      pulled == Token!Moved(balances, caller, PodContract, amount)
  IN /\ caller \in allowed
     /\ key \in DOMAIN auctions
     /\ a.start <= now /\ now <= a.end
     /\ ~a.withdrawn
     /\ Token!NoOverflow(a.gathered + a.increment)
     /\ amount > Token!AddU(a.gathered, a.increment)
     /\ amount > a.reserve
     /\ allowances[<<caller, PodContract>>] >= amount
     /\ Token!CanMove(balances, caller, PodContract, amount)
     /\ a.bidder # ZeroAccount =>
          Token!CanMove(pulled, PodContract, a.bidder, a.gathered)
     /\ balances' = IF a.bidder = ZeroAccount THEN pulled
                    ELSE Token!Moved(pulled, PodContract, a.bidder, a.gathered)
     /\ allowances' = [allowances EXCEPT ![<<caller, PodContract>>] = @ - amount]
     /\ auctions' = [auctions EXCEPT ![key].gathered = amount,
                                     ![key].bidder = caller]
     /\ UNCHANGED <<totalSupply, roles, isPaused, nftVars, allowed, now>>

(* withdraw_auction: the auction owner, not withdrawn, with a bid; the    *)
(* media token goes to the bidder and the bid to the owner, and the       *)
(* auction stays stored as withdrawn.  No time is checked.                *)
WithdrawAuction(caller, key) ==
  LET a == auctions[key] IN
  /\ key \in DOMAIN auctions
  /\ caller = a.owner
  /\ ~a.withdrawn
  /\ a.bidder # ZeroAccount
  /\ NftTransfer(PodContract, a.bidder, a.media)
  /\ Token!Transfer(PodContract, a.owner, a.gathered)
  /\ auctions' = [auctions EXCEPT ![key].withdrawn = TRUE,
                                  ![key].gathered = 0]
  /\ UNCHANGED <<allowed, now>>

\* The bid of auction a goes back to its bidder, if it has one.
RefundBid(a) ==
  IF a.bidder = ZeroAccount THEN UNCHANGED bidVars
  ELSE Token!Transfer(PodContract, a.bidder, a.gathered)

(* cancel_auction: the auction owner, up to ONE_DAY after end_time, not   *)
(* withdrawn; the bid goes back, the media token goes back to the owner   *)
(* and the auction is deleted.                                             *)
CancelAuction(caller, key) ==
  LET a == auctions[key] IN
  /\ key \in DOMAIN auctions
  /\ caller = a.owner
  /\ now <= a.end + OneDay
  /\ ~a.withdrawn
  /\ RefundBid(a)
  /\ NftTransfer(PodContract, a.owner, a.media)
  /\ auctions' = Without(auctions, key)
  /\ UNCHANGED <<allowed, now>>

(* reset_auction: the auction owner, up to ONE_DAY after end_time, not    *)
(* withdrawn, the new end_time not past; the bid goes back and the        *)
(* auction restarts at now with the request's media token, prices and     *)
(* end time.  No media token is transferred in or out.                    *)
ResetAuction(caller, key, id, end, increment, reserve) ==
  LET a == auctions[key] IN
  /\ key \in DOMAIN auctions
  /\ caller = a.owner
  /\ now <= a.end + OneDay
  /\ ~a.withdrawn
  /\ now <= end
  /\ RefundBid(a)
  /\ auctions' = [auctions EXCEPT ![key] =
                    [@ EXCEPT !.media = id, !.increment = increment,
                              !.reserve = reserve, !.end = end, !.start = now,
                              !.gathered = 0, !.bidder = ZeroAccount]]
  /\ UNCHANGED <<nftVars, allowed, now>>

PodTick ==
  /\ now < MaxTime
  /\ now' = now + 1
  /\ UNCHANGED <<nftVars, bidVars, auctionVars>>

-----------------------------------------------------------------------------
(* new() *)
PodInit ==
  /\ NftInit
  /\ Token!Erc20Init
  /\ auctions = <<>>
  /\ allowed = {}
  /\ now = 0

\* Accounts that sign messages: the auction contract only calls the tokens
\* from inside its own messages.
Users == Signers \ {PodContract}

\* The erc721 messages the users send beside the auctions: minting to
\* themselves, transfers among themselves and to the auction contract
\* and approvals of the auction contract.
PodNftMessages ==
  \/ \E c \in Users : NftMint(c, c)
  \/ \E c \in Users, t \in Users \cup {PodContract}, id \in TokenIds :
       NftTransfer(c, t, id)
  \/ \E c \in Users, id \in TokenIds :
       NftApprove(c, PodContract, id)

PodNext ==
  \/ \E c, u \in Users : ApproveUser(c, u) \/ RemoveUser(c, u)
  \/ \E c \in Users, id \in TokenIds, st, en \in Times, i, r \in Prices :
       CreateAuction(c, id, st, en, i, r)
  \/ \E c \in Users, k \in DOMAIN auctions, v \in Amounts : PlaceBid(c, k, v)
  \/ \E c \in Users, k \in DOMAIN auctions :
       WithdrawAuction(c, k) \/ CancelAuction(c, k)
  \/ \E c \in Users, k \in DOMAIN auctions, id \in TokenIds, en \in Times,
        i, r \in Prices : ResetAuction(c, k, id, en, i, r)
  \/ PodNftMessages /\ UNCHANGED <<bidVars, auctionVars, now>>
  \/ \E c, t \in Users, v \in Amounts :
       /\ Token!Transfer(c, t, v) \/ Token!Approve(c, PodContract, v)
       /\ UNCHANGED <<nftVars, auctionVars, now>>
  \/ PodTick

PodSpec == PodInit /\ [][PodNext]_vars

-----------------------------------------------------------------------------
(* Properties                                                              *)

(* The auction contract's bid-token balance is exactly the sum of the     *)
(* gathered bids of its auctions: place_bid pulls the new bid in and pays *)
(* the previous one back in the same message, and withdraw, cancel and    *)
(* reset pay out gathered and clear it (cancel by deleting the auction).  *)
BidEscrow ==
  balances[PodContract] =
    FoldFunction(LAMBDA a, acc : a.gathered + acc, 0, auctions)

(* The media token of every auction that is not withdrawn is held by the  *)
(* auction contract, and by no other auction: withdraw_auction and        *)
(* cancel_auction transfer it out of the contract, which fails unless the *)
(* contract holds it.                                                      *)
NftEscrowHeld ==
  \A k \in DOMAIN auctions :
    ~auctions[k].withdrawn =>
      /\ auctions[k].media \in DOMAIN owners
      /\ owners[auctions[k].media] = PodContract
      /\ \A j \in DOMAIN auctions \ {k} :
           ~auctions[j].withdrawn => auctions[j].media # auctions[k].media
==============================================================================
