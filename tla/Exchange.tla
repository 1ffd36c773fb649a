------------------------------- MODULE Exchange -------------------------------
(***************************************************************************)
(* The exchange ink! contract (src/contracts/exchange/src/contract.rs)    *)
(* trading erc1155 tokens.  An exchange sells its exchange token for an   *)
(* offer token; create_exchange escrows the initial amount as a Sell      *)
(* offer, place_offer escrows a Buy offer's price * amount of its offer   *)
(* token or a Sell offer's amount of the exchange token, cancel_offer     *)
(* pays the escrow back, and buy_from_offer / sell_from_offer fill part   *)
(* of an offer.  Every token is a UniqueMultiToken of the erc1155         *)
(* contract (standard Erc1155, a fixed token id), so a token is an id of  *)
(* module Erc1155 and every token call has the exchange contract as its   *)
(* caller.  An Err of a token call reverts the whole message.             *)
(*                                                                         *)
(* Exchange and offer ids are env().random over the caller, a salt and    *)
(* the nonce, which increment_nonce advances on every call; distinct      *)
(* nonces give distinct ids, so the nonce stands for the id.              *)
(***************************************************************************)
EXTENDS Erc1155
LOCAL INSTANCE SequencesExt

CONSTANTS
  ExchangeContract,   \* AccountId of the exchange contract
  Prices,             \* price values a request may carry
  Amounts,            \* amount values a request may carry
  MaxNonce            \* bound: ids drawn (the u128 nonce)

VARIABLES
  exchanges,   \* exchanges_by_id
  offers,      \* offers_by_id
  offerIds,    \* offer_ids_by_exchange_id: exchange id -> Seq(offer id)
  nonce        \* nonce

exchangeVars == <<exchanges, offers, offerIds, nonce>>
vars == <<erc1155Vars, exchangeVars>>

OfferTypes == {"Buy", "Sell"}

-----------------------------------------------------------------------------
\* The token calls of the exchange contract, on the balances bal.
CanPull(bal, from, to, id, amount) ==
  CanTransferTokenFromTo(bal, ExchangeContract, from, to, id, amount)
Pulled(bal, from, to, id, amount) == TransferredTokenFromTo(bal, from, to, id, amount)
CanPay(bal, to, id, amount) == CanPull(bal, ExchangeContract, to, id, amount)
Paid(bal, to, id, amount) == Pulled(bal, ExchangeContract, to, id, amount)

\* offer.price * amount (unchecked u128 multiplication)
Cost(price, amount) == MulU(price, amount)

\* and_modify(push).or_insert(vec![id])
Listed(lists, exId, id) ==
  Put(lists, exId, IF exId \in DOMAIN lists THEN Append(lists[exId], id) ELSE <<id>>)

(* create_exchange: two ids (exchange, then offer), the initial amount of *)
(* the exchange token pulled from the caller with transfer_from, and the  *)
(* exchange and its Sell offer stored.                                     *)
CreateExchange(caller, xt, amount, ot, price) ==
  LET exId == nonce
      offId == nonce + 1
  IN /\ nonce + 2 <= MaxNonce
     /\ CanPull(balancesByAccountId, caller, ExchangeContract, xt, amount)
     /\ balancesByAccountId' = Pulled(balancesByAccountId, caller, ExchangeContract, xt, amount)
     /\ exchanges' = Put(exchanges, exId, [creator |-> caller, token |-> xt,
                                           initialAmount |-> amount, price |-> price])
     /\ offers' = Put(offers, offId, [exchange |-> exId, type |-> "Sell",
                                      creator |-> caller, price |-> price,
                                      amount |-> amount, token |-> ot])
     /\ offerIds' = Listed(offerIds, exId, offId)
     /\ nonce' = nonce + 2
     /\ UNCHANGED <<nextTokenId, ownersByTokenId, approvalsByTokenId, operatorApprovals>>

(* place_buying_offer / place_selling_offer through place_offer: the      *)
(* exchange must exist; a Buy offer pulls price * amount of its offer     *)
(* token, a Sell offer amount of the exchange token; the offer is stored  *)
(* and listed under the exchange.                                          *)
\* Mutant: the offer is stored but not listed under its exchange.
PlaceOfferUnlisted(caller, exId, ot, amount, price, type) ==
  LET offId == nonce
      t == IF type = "Buy" THEN ot ELSE exchanges[exId].token
      v == IF type = "Buy" THEN Cost(price, amount) ELSE amount
  IN /\ nonce + 1 <= MaxNonce
     /\ exId \in DOMAIN exchanges
     /\ type = "Buy" => NoOverflow(price * amount)
     /\ CanPull(balancesByAccountId, caller, ExchangeContract, t, v)
     /\ balancesByAccountId' = Pulled(balancesByAccountId, caller, ExchangeContract, t, v)
     /\ offers' = Put(offers, offId, [exchange |-> exId, type |-> type,
                                      creator |-> caller, price |-> price,
                                      amount |-> amount, token |-> ot])
     /\ nonce' = nonce + 1
     /\ UNCHANGED <<exchanges, offerIds, nextTokenId, ownersByTokenId,
                    approvalsByTokenId, operatorApprovals>>

PlaceOffer(caller, exId, ot, amount, price, type) ==
  LET offId == nonce
      t == IF type = "Buy" THEN ot ELSE exchanges[exId].token
      v == IF type = "Buy" THEN Cost(price, amount) ELSE amount
  IN /\ nonce + 1 <= MaxNonce
     /\ exId \in DOMAIN exchanges
     /\ type = "Buy" => NoOverflow(price * amount)
     /\ CanPull(balancesByAccountId, caller, ExchangeContract, t, v)
     /\ balancesByAccountId' = Pulled(balancesByAccountId, caller, ExchangeContract, t, v)
     /\ offers' = Put(offers, offId, [exchange |-> exId, type |-> type,
                                      creator |-> caller, price |-> price,
                                      amount |-> amount, token |-> ot])
     /\ offerIds' = Listed(offerIds, exId, offId)
     /\ nonce' = nonce + 1
     /\ UNCHANGED <<exchanges, nextTokenId, ownersByTokenId, approvalsByTokenId,
                    operatorApprovals>>

(* cancel_buying_offer / cancel_selling_offer through cancel_offer: the   *)
(* exchange and the offer must exist and the type match; the escrow goes  *)
(* back to the offer's creator (a Sell offer's in the exchange token of   *)
(* the exchange named by the request); the offer is taken and its id      *)
(* removed from that exchange's list, the list dropped when empty.  The   *)
(* caller is never checked, nor that the offer belongs to the exchange.   *)
CancelOffer(caller, exId, offId, type) ==
  LET o == offers[offId]
      t == IF type = "Buy" THEN o.token ELSE exchanges[exId].token
      v == IF type = "Buy" THEN Cost(o.amount, o.price) ELSE o.amount
      rest == RemoveFirst(offerIds[exId], offId)
  IN /\ exId \in DOMAIN exchanges
     /\ offId \in DOMAIN offers
     /\ o.type = type
     /\ type = "Buy" => NoOverflow(o.amount * o.price)
     /\ CanPay(balancesByAccountId, o.creator, t, v)
     /\ balancesByAccountId' = Paid(balancesByAccountId, o.creator, t, v)
     /\ offers' = Without(offers, offId)
     /\ offerIds' = IF exId \notin DOMAIN offerIds THEN offerIds
                    ELSE IF rest = <<>> THEN Without(offerIds, exId)
                    ELSE [offerIds EXCEPT ![exId] = rest]
     /\ UNCHANGED <<exchanges, nonce, nextTokenId, ownersByTokenId,
                    approvalsByTokenId, operatorApprovals>>

(* buy_from_offer: a Sell offer with at least amount left; price * amount *)
(* of the offer token goes from `address` to the offer's creator          *)
(* (transfer_from), then amount of the exchange token from the contract   *)
(* to `address`, and the offer's amount drops.  `address` is an input:   *)
(* the caller is not involved.                                             *)
BuyFromOffer(caller, exId, offId, address, amount) ==
  LET o == offers[offId]
      xt == exchanges[exId].token
      bal1 == Pulled(balancesByAccountId, address, o.creator, o.token, Cost(o.price, amount))
  IN /\ exId \in DOMAIN exchanges
     /\ offId \in DOMAIN offers
     /\ o.type = "Sell"
     /\ amount <= o.amount
     /\ NoOverflow(o.price * amount)
     /\ CanPull(balancesByAccountId, address, o.creator, o.token, Cost(o.price, amount))
     /\ CanPay(bal1, address, xt, amount)
     /\ balancesByAccountId' = Paid(bal1, address, xt, amount)
     /\ offers' = [offers EXCEPT ![offId].amount = @ - amount]
     /\ UNCHANGED <<exchanges, offerIds, nonce, nextTokenId, ownersByTokenId,
                    approvalsByTokenId, operatorApprovals>>

(* sell_from_offer: a Buy offer with at least amount left; amount of the  *)
(* exchange token goes from the contract to the offer's creator, then     *)
(* price * amount of the offer token from the contract to `address`, and  *)
(* the offer's amount drops.  Nothing is taken from the seller.           *)
SellFromOffer(caller, exId, offId, address, amount) ==
  LET o == offers[offId]
      xt == exchanges[exId].token
      bal1 == Paid(balancesByAccountId, o.creator, xt, amount)
  IN /\ exId \in DOMAIN exchanges
     /\ offId \in DOMAIN offers
     /\ o.type = "Buy"
     /\ amount <= o.amount
     /\ CanPay(balancesByAccountId, o.creator, xt, amount)
     /\ NoOverflow(o.price * amount)
     /\ CanPay(bal1, address, o.token, Cost(o.price, amount))
     /\ balancesByAccountId' = Paid(bal1, address, o.token, Cost(o.price, amount))
     /\ offers' = [offers EXCEPT ![offId].amount = @ - amount]
     /\ UNCHANGED <<exchanges, offerIds, nonce, nextTokenId, ownersByTokenId,
                    approvalsByTokenId, operatorApprovals>>

(* new() *)
ExchangeInit ==
  /\ Erc1155Init
  /\ exchanges = <<>>
  /\ offers = <<>>
  /\ offerIds = <<>>
  /\ nonce = 0

\* Accounts other than the contract, which signs no message of its own.
Users == Signers \ {ExchangeContract}

(* The erc1155 messages an exchange user makes: mint to itself, let the   *)
(* contract move an id (as operator or as its approved account), and move *)
(* a balance between users.                                               *)
ExchangeTokenMessages ==
  \/ \E c \in Users, v \in Amounts : Mint1155(c, c, v)
  \/ \E c \in Users : SetApprovalForAll1155(c, ExchangeContract, TRUE)
  \/ \E c \in Users, id \in TokenIds : Approve1155(c, ExchangeContract, id)
  \/ \E c, d \in Users, id \in TokenIds, v \in Amounts : Transfer1155(c, d, id, v)
  \/ \E c, f, t \in Users, id \in TokenIds, v \in Amounts :
       TransferFrom1155(c, f, t, id, v)

ExchangeNext ==
  \/ ExchangeTokenMessages /\ UNCHANGED exchangeVars
  \/ \E c \in Users, xt, ot \in TokenIds, v \in Amounts, p \in Prices :
       CreateExchange(c, xt, v, ot, p)
  \/ \E c \in Users, x \in DOMAIN exchanges, ot \in TokenIds, v \in Amounts,
        p \in Prices, ty \in OfferTypes :
       PlaceOffer(c, x, ot, v, p, ty)
  \/ \E c \in Users, x \in DOMAIN exchanges, o \in DOMAIN offers, ty \in OfferTypes :
       CancelOffer(c, x, o, ty)
  \/ \E c \in Users, x \in DOMAIN exchanges, o \in DOMAIN offers, a \in Users,
        v \in Amounts :
       BuyFromOffer(c, x, o, a, v)
  \/ \E c \in Users, x \in DOMAIN exchanges, o \in DOMAIN offers, a \in Users,
        v \in Amounts :
       SellFromOffer(c, x, o, a, v)

ExchangeSpec == ExchangeInit /\ [][ExchangeNext]_vars

-----------------------------------------------------------------------------
(* Properties                                                              *)

\* What the contract owes back of id t: the price * amount of every Buy
\* offer in t and the amount of every Sell offer of an exchange of t.
Escrowed(t) ==
  LET owed(o) == IF offers[o].type = "Buy"
                 THEN IF offers[o].token = t THEN Cost(offers[o].price, offers[o].amount) ELSE 0
                 ELSE IF exchanges[offers[o].exchange].token = t THEN offers[o].amount ELSE 0
  IN FoldFunction(LAMBDA x, y : x + y, 0, [o \in DOMAIN offers |-> owed(o)])

HeldBy(a, t) ==
  IF <<a, t>> \in DOMAIN balancesByAccountId THEN balancesByAccountId[<<a, t>>] ELSE 0

(* The contract holds what it owes: every offer's escrow, taken by        *)
(* create_exchange and place_offer, stays in the contract until           *)
(* cancel_offer pays it back or a fill hands it on.  sell_from_offer pays *)
(* the exchange token to a Buy offer's creator out of the contract, and   *)
(* takes nothing from the seller.                                         *)
ExchangeSolvent ==
  \A t \in DOMAIN ownersByTokenId : HeldBy(ExchangeContract, t) >= Escrowed(t)

(* Every stored offer is listed under its own exchange, so                *)
(* get_exchange_offers shows it: create_exchange and place_offer append   *)
(* the new id, and cancel_offer removes an id only from the list of the   *)
(* exchange the request names.                                             *)
OffersIndexed ==
  \A o \in DOMAIN offers :
    /\ offers[o].exchange \in DOMAIN offerIds
    /\ \E i \in DOMAIN offerIds[offers[o].exchange] : offerIds[offers[o].exchange][i] = o
==============================================================================
