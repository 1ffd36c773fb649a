------------------------------- MODULE MediaTip -------------------------------
(***************************************************************************)
(* tip_media of the media contract (src/contracts/media/src/lib.rs)       *)
(* composed with the erc20 token it pays in.  The tipper's payment is     *)
(* split by the revenue helpers of `mod utils` (get_royalties,            *)
(* get_owners_profit, distribute_amount) and then sent with one           *)
(* transfer_from per receiver, the media contract being the spender.      *)
(*                                                                         *)
(* One media is tipped.  Its royalty and collaborator map are whatever    *)
(* create_media, update_media or update_collabs stored (none of them      *)
(* validates them), so Init takes them from input sets; tip_media only    *)
(* reads them.                                                            *)
(***************************************************************************)
EXTENDS Erc20, Sequences

CONSTANTS
  MediaContract,   \* AccountId of the media contract (transfer_from spender)
  ShareUnit,       \* COLLAB_SHARE_COUNT (10^9)
  RoyaltyInputs,   \* Media.royalty values
  CollabInputs,    \* collaborator maps (AccountId -> CollabShare)
  KeyOrder         \* the accounts in AccountId order (BTreeMap key order)

ASSUME MediaContract \in Accounts /\ ShareUnit \in Nat \ {0}
ASSUME KeyOrder \in Seq(Accounts)

VARIABLES
  royalty,   \* medias_by_id[media].royalty
  collabs    \* collaborators_by_media_id[media]

tipVars == <<royalty, collabs>>
vars == <<erc20Vars, tipVars>>

\* Accounts that sign messages: the media contract only calls erc20 from
\* inside tip_media.
Users == Callers \ {MediaContract}

-----------------------------------------------------------------------------
\* Mutant: the share is used as a plain multiplier, not scaled by the unit.
ShareUnscaled(amount, share) == amount * share

(* utils::distribute_amount: every receiver gets amount * (share /        *)
(* COLLAB_SHARE_COUNT), added to its entry of `into`.                     *)
Share(amount, share) == amount * (share \div ShareUnit)

Old(into, a) == IF a \in DOMAIN into THEN into[a] ELSE 0

DistributeAmount(amount, receivers, into) ==
  [a \in DOMAIN into \cup DOMAIN receivers |->
     IF a \in DOMAIN receivers
     THEN AddU(Old(into, a), Wrap(Share(amount, receivers[a])))
     ELSE into[a]]

DistributeOK(amount, receivers, into) ==
  \A a \in DOMAIN receivers :
    /\ NoOverflow(Share(amount, receivers[a]))
    /\ NoOverflow(Old(into, a) + Wrap(Share(amount, receivers[a])))

(* utils::get_royalties then utils::get_owners_profit on what is left:    *)
(* fee = amount * royalty, profit = amount - fee.                         *)
Fee(amount) == MulU(amount, royalty)
Royalties(amount) == DistributeAmount(Fee(amount), collabs, <<>>)
Payments(amount) ==
  DistributeAmount(SubU(amount, Fee(amount)), collabs, Royalties(amount))

PaymentsOK(amount) ==
  /\ NoOverflow(amount * royalty)
  /\ DistributeOK(Fee(amount), collabs, <<>>)
  /\ NoOverflow(amount - Fee(amount))
  /\ DistributeOK(SubU(amount, Fee(amount)), collabs, Royalties(amount))

(* payments is an ink_storage HashMap, which iterates in insertion order; *)
(* its keys were inserted while iterating the collaborators' BTreeMap,    *)
(* i.e. in AccountId order.                                               *)
PaymentOrder(payments) == SelectSeq(KeyOrder, LAMBDA a : a \in DOMAIN payments)

\* Mutant: the allowance is spent without being checked.
RECURSIVE PayAllUnchecked(_, _, _, _)
PayAllUnchecked(st, from, payments, order) ==
  IF order = <<>> THEN st
  ELSE LET to == Head(order)
           v == payments[to]
           allowance == st.alw[<<from, MediaContract>>]
       IN IF st.ok /\ CanMove(st.bals, from, to, v)
          THEN PayAllUnchecked([ok   |-> TRUE,
                                bals |-> Moved(st.bals, from, to, v),
                                alw  |-> [st.alw EXCEPT ![<<from, MediaContract>>] =
                                            allowance - v]],
                               from, payments, Tail(order))
          ELSE [st EXCEPT !.ok = FALSE]

(* The loop `token.transfer_from(caller, receiver, balance)?` one call at *)
(* a time: each call checks the media contract's allowance and the        *)
(* tipper's current balance; the first failure fails the whole message.   *)
RECURSIVE PayAll(_, _, _, _)
PayAll(st, from, payments, order) ==
  IF order = <<>> THEN st
  ELSE LET to == Head(order)
           v == payments[to]
           allowance == st.alw[<<from, MediaContract>>]
       IN IF st.ok /\ allowance >= v /\ CanMove(st.bals, from, to, v)
          THEN PayAll([ok   |-> TRUE,
                       bals |-> Moved(st.bals, from, to, v),
                       alw  |-> [st.alw EXCEPT ![<<from, MediaContract>>] =
                                   allowance - v]],
                      from, payments, Tail(order))
          ELSE [st EXCEPT !.ok = FALSE]

(* tip_media: the tipper's balance must cover request.amount, the split   *)
(* must not panic, and every transfer_from must succeed.                  *)
TipMedia(caller, amount) ==
  LET payments == Payments(amount)
      result == PayAll([ok |-> TRUE, bals |-> balances, alw |-> allowances],
                       caller, payments, PaymentOrder(payments))
  IN /\ balances[caller] >= amount
     /\ PaymentsOK(amount)
     /\ result.ok
     /\ balances' = result.bals
     /\ allowances' = result.alw
     /\ UNCHANGED <<totalSupply, roles, isPaused, tipVars>>

-----------------------------------------------------------------------------
Init ==
  /\ Erc20Init
  /\ royalty \in RoyaltyInputs
  /\ collabs \in CollabInputs

(* The users' own token messages and tips interleave.                     *)
Next ==
  \/ \E c \in Users, t \in Accounts, v \in Amounts :
       Transfer(c, t, v) /\ UNCHANGED tipVars
  \/ \E c \in Users, v \in Amounts :
       Approve(c, MediaContract, v) /\ UNCHANGED tipVars
  \/ \E c \in Users, v \in Amounts : TipMedia(c, v)

Spec == Init /\ [][Next]_vars

-----------------------------------------------------------------------------
(* Properties                                                              *)

TipTypeOK ==
  /\ Erc20TypeOK
  /\ royalty \in RoyaltyInputs
  /\ collabs \in CollabInputs

(* A tip of request.amount never takes more than request.amount from the  *)
(* tipper: tip_media checks the balance against request.amount, and the   *)
(* royalty and owner-profit parts are two shares of that amount.          *)
TipPaysAtMostAmount ==
  [][\A c \in Users, v \in Amounts :
       TipMedia(c, v) => balances[c] - balances'[c] <= v]_vars
==============================================================================
