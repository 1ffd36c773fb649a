----------------------------- MODULE PodInvesting -----------------------------
(***************************************************************************)
(* The pod-media-investing ink! contract (src/contracts/pod-media-investing *)
(* /src) with the two erc20 contracts it calls: the funding token (this   *)
(* module extends Erc20) and the pod token it deploys (the instance       *)
(* PodToken of Erc20, whose deployer -- holding every role -- is the pod). *)
(* A pod goes Formation -> Investing when its media are registered, then  *)
(* Investing -> Trading when the funding target is raised; pod tokens are *)
(* bought and sold through the amm library (module Amm) at any time.      *)
(* Every token call has the pod as its caller; an Err of one, or an        *)
(* unwrap of a None, reverts the whole message.                            *)
(*                                                                         *)
(* Of the media contract the model keeps the media whose pod_address is   *)
(* the pod: their creator and is_registered / is_uploaded.  The pod's     *)
(* own are created by the constructor with the pod creator as creator;    *)
(* media::create_media takes pod_address from its request, so any account *)
(* can add one (CreateMedia).  update_collabs and update_media succeed    *)
(* for these media (the pod is their pod_address); names, prices, view    *)
(* conditions and collaborator maps are written but never read here.      *)
(***************************************************************************)
EXTENDS Erc20, Amm, Clock, Sequences

CONSTANTS
  PodContract,       \* env().account_id() of the pod
  Creator,           \* caller of new()
  FundingTokenPrice, FundingTarget, MaxPrice, MaxSupply, FundingDate,
  AmmCurves,         \* request.amm values the constructor may get
  TotalMedia,        \* request.medias.len()
  MaxMedia,          \* bound: media with the pod as pod_address
  Allowances,        \* values users approve the pod for
  Times,             \* release_date values a request may carry
  MaxTime,           \* bound: block timestamp
  MaxReleased        \* bound: supply_released a buy may reach

(* CreateInvestingPodRequest::validate, which new() expects to pass at   *)
(* creation (time 0): a funding date not in the past, at least one media, *)
(* a non-zero price.  spread is never read by the pod's messages and is   *)
(* left out.                                                               *)
ValidRequest(createdAt) ==
  /\ FundingDate >= createdAt
  /\ TotalMedia >= 1
  /\ FundingTokenPrice # 0

ASSUME ValidRequest(0)
ASSUME AmmCurves \subseteq Curves /\ TotalMedia <= MaxMedia

VARIABLES
  podSupply, podBalances, podAllowances, podRoles, podPaused,  \* pod token
  ammCurve,          \* amm_curve, set by new
  status,            \* state.status
  registeredMedia,   \* state.registered_media
  supplyReleased,    \* state.supply_released
  raisedFunds,       \* state.raised_funds
  medias             \* the pod's media: [creator, registered, uploaded]

\* new(): supply = funding_target / funding_token_price, all to the pod.
InitialPodSupply == FundingTarget \div FundingTokenPrice

PodToken == INSTANCE Erc20
              WITH totalSupply <- podSupply, balances <- podBalances,
                   allowances <- podAllowances, roles <- podRoles,
                   isPaused <- podPaused, Deployer <- PodContract,
                   InitialSupplies <- {InitialPodSupply}

podTokenVars == <<podSupply, podBalances, podAllowances, podRoles, podPaused>>
podVars == <<ammCurve, status, registeredMedia, supplyReleased, raisedFunds, medias>>
vars == <<erc20Vars, podTokenVars, podVars, now>>

Users == Callers \ {PodContract}
Statuses == <<"Formation", "Investing", "Trading">>

-----------------------------------------------------------------------------
(* amm(): Amm::new on the pod's parameters, unwrapped. *)
PodAmm == AmmNew(ammCurve, FundingTokenPrice, MaxPrice, MaxSupply)

\* Mutant: the status is set whenever the count reaches or passes the total.
IncrementRegisteredMediaAtLeast ==
  /\ registeredMedia' = registeredMedia + 1
  /\ status' = IF registeredMedia + 1 >= TotalMedia THEN "Investing" ELSE status

(* InvestingPodState::increment_registered_media *)
IncrementRegisteredMedia ==
  /\ registeredMedia' = registeredMedia + 1
  /\ status' = IF registeredMedia + 1 = TotalMedia THEN "Investing" ELSE status

(* media::create_media with this pod as pod_address, by any account. *)
CreateMedia(caller) ==
  /\ Len(medias) < MaxMedia
  /\ medias' = Append(medias, [creator |-> caller, registered |-> FALSE,
                               uploaded |-> FALSE])
  /\ UNCHANGED <<erc20Vars, podTokenVars, ammCurve, status, registeredMedia,
                 supplyReleased, raisedFunds, now>>

(* register_media: the media's creator, once, with a release date not in  *)
(* the past; any media whose pod_address is the pod is counted.           *)
RegisterMedia(caller, m, releaseDate) ==
  /\ releaseDate >= now
  /\ m \in DOMAIN medias
  /\ medias[m].creator = caller
  /\ ~medias[m].registered
  /\ medias' = [medias EXCEPT ![m].registered = TRUE]
  /\ IncrementRegisteredMedia
  /\ UNCHANGED <<erc20Vars, podTokenVars, ammCurve, supplyReleased,
                 raisedFunds, now>>

(* upload_media: a registered media, by its creator. *)
UploadMedia(caller, m) ==
  /\ m \in DOMAIN medias
  /\ medias[m].registered
  /\ medias[m].creator = caller
  /\ medias' = [medias EXCEPT ![m].uploaded = TRUE]
  /\ UNCHANGED <<erc20Vars, podTokenVars, ammCurve, status, registeredMedia,
                 supplyReleased, raisedFunds, now>>

\* Mutant: the pod tokens are amount / price rounded up.
InvestPodRoundsUp(caller, amount) ==
  LET a == IF FundingTarget - raisedFunds < amount
           THEN FundingTarget - raisedFunds ELSE amount
      raised == raisedFunds + a
  IN /\ FundingDate >= now
     /\ status = "Investing"
     /\ TransferFrom(PodContract, caller, PodContract, a)
     /\ PodToken!Transfer(PodContract, caller,
                          (a + FundingTokenPrice - 1) \div FundingTokenPrice)
     /\ raisedFunds' = raised
     /\ status' = IF raised >= FundingTarget THEN "Trading" ELSE status
     /\ UNCHANGED <<ammCurve, registeredMedia, supplyReleased, medias, now>>

(* invest_pod: while Investing and before funding_date, at most the       *)
(* remaining target is pulled in; amount / funding_token_price pod tokens *)
(* go out; Trading once the target is raised.                              *)
InvestPod(caller, amount) ==
  LET a == IF FundingTarget - raisedFunds < amount
           THEN FundingTarget - raisedFunds ELSE amount
      raised == raisedFunds + a
  IN /\ FundingDate >= now
     /\ status = "Investing"
     /\ TransferFrom(PodContract, caller, PodContract, a)
     /\ PodToken!Transfer(PodContract, caller, a \div FundingTokenPrice)
     /\ raisedFunds' = raised
     /\ status' = IF raised >= FundingTarget THEN "Trading" ELSE status
     /\ UNCHANGED <<ammCurve, registeredMedia, supplyReleased, medias, now>>

(* buy_pod_tokens: the AMM's price for amount more tokens is pulled in,   *)
(* then amount is minted to the caller.  No status is checked.            *)
BuyPodTokens(caller, amount) ==
  LET charged == AmmBuy(PodAmm.val, supplyReleased, amount)
  IN /\ supplyReleased + amount <= MaxReleased
     /\ PodAmm.ok
     /\ charged.ok
     /\ TransferFrom(PodContract, caller, PodContract, charged.val)
     /\ PodToken!Mint(PodContract, caller, amount)
     /\ supplyReleased' = supplyReleased + amount
     /\ UNCHANGED <<ammCurve, status, registeredMedia, raisedFunds, medias, now>>

\* Mutant: supply_released is not reduced by a sale.
SellPodTokensKeepsReleased(caller, amount) ==
  LET reward == AmmSell(PodAmm.val, supplyReleased, amount)
  IN /\ PodAmm.ok
     /\ reward.ok
     /\ PodToken!BurnFrom(PodContract, caller, amount)
     /\ Transfer(PodContract, caller, reward.val)
     /\ UNCHANGED <<ammCurve, status, registeredMedia, raisedFunds, medias, now,
                    supplyReleased>>

\* Mutant: the Option of Amm::sell is used without its None case.
SellPodTokensUnchecked(caller, amount) ==
  LET reward == AmmSell(PodAmm.val, supplyReleased, amount)
  IN /\ PodAmm.ok
     /\ PodToken!BurnFrom(PodContract, caller, amount)
     /\ Transfer(PodContract, caller, reward.val)
     /\ supplyReleased' = supplyReleased - amount
     /\ UNCHANGED <<ammCurve, status, registeredMedia, raisedFunds, medias, now>>

(* sell_pod_tokens: amount is burnt from the caller (burn_from by the pod *)
(* spends the caller's allowance to it) and the AMM's reward is paid.     *)
SellPodTokens(caller, amount) ==
  LET reward == AmmSell(PodAmm.val, supplyReleased, amount)
  IN /\ PodAmm.ok
     /\ reward.ok
     /\ PodToken!BurnFrom(PodContract, caller, amount)
     /\ Transfer(PodContract, caller, reward.val)
     /\ supplyReleased' = supplyReleased - amount
     /\ UNCHANGED <<ammCurve, status, registeredMedia, raisedFunds, medias, now>>

Tick ==
  /\ now < MaxTime
  /\ now' = now + 1
  /\ UNCHANGED <<erc20Vars, podTokenVars, podVars>>

(* new(): the pod token is deployed, the request's media are created with *)
(* the caller as creator; the pod starts in Formation.                    *)
PodInit ==
  /\ now = 0
  /\ Erc20Init
  /\ PodToken!Erc20Init
  /\ ammCurve \in AmmCurves
  /\ status = "Formation"
  /\ registeredMedia = 0
  /\ supplyReleased = 0
  /\ raisedFunds = 0
  /\ medias = [i \in 1..TotalMedia |->
                 [creator |-> Creator, registered |-> FALSE, uploaded |-> FALSE]]

(* The users' approvals to the pod on both tokens, and the pod's messages. *)
PodNext ==
  \/ \E c \in Users, v \in Allowances :
       Approve(c, PodContract, v) /\ UNCHANGED <<podTokenVars, podVars, now>>
  \/ \E c \in Users, v \in Allowances :
       PodToken!Approve(c, PodContract, v) /\ UNCHANGED <<erc20Vars, podVars, now>>
  \/ \E c \in Users : CreateMedia(c)
  \/ \E c \in Users, m \in 1..MaxMedia, d \in Times : RegisterMedia(c, m, d)
  \/ \E c \in Users, m \in 1..MaxMedia : UploadMedia(c, m)
  \/ \E c \in Users, v \in Amounts : InvestPod(c, v)
  \/ \E c \in Users, v \in Amounts : BuyPodTokens(c, v)
  \/ \E c \in Users, v \in Amounts : SellPodTokens(c, v)
  \/ Tick

PodSpec == PodInit /\ [][PodNext]_vars

-----------------------------------------------------------------------------
(* Properties                                                              *)

PodTypeOK ==
  /\ Erc20TypeOK
  /\ PodToken!Erc20TypeOK
  /\ status \in {Statuses[i] : i \in 1..3}
  /\ registeredMedia \in 0..MaxMedia
  /\ supplyReleased \in Balances
  /\ raisedFunds \in 0..FundingTarget
  /\ medias \in Seq([creator : Accounts, registered : BOOLEAN, uploaded : BOOLEAN])

(* The pod token's total_supply is the constructor's funding_target /     *)
(* funding_token_price plus state.supply_released: buy_pod_tokens mints   *)
(* exactly what it adds to supply_released and sell_pod_tokens burns      *)
(* exactly what it takes off, whoever holds the tokens sold.              *)
PodSupplyTracksReleased == podSupply = InitialPodSupply + supplyReleased

(* The pod still holds the pod tokens invest_pod owes for the rest of the *)
(* target: each investment's amount / funding_token_price rounds down, so *)
(* however the target is split among investments the stock never runs    *)
(* short and a later investor's transfer cannot fail.                     *)
StockCoversRemaining ==
  podBalances[PodContract] >= (FundingTarget - raisedFunds) \div FundingTokenPrice

StatusRank(s) == CHOOSE i \in 1..3 : Statuses[i] = s

(* A pod's status only moves forward, Formation -> Investing -> Trading:  *)
(* registrations after Investing, including of media any account created *)
(* for the pod, never send a Trading pod back to Investing.               *)
StatusForward == [][StatusRank(status') >= StatusRank(status)]_vars

(* The funds investors paid in stay with the pod: its funding-token       *)
(* balance covers state.raised_funds, the AMM paying sellers only out of  *)
(* what buyers paid it.                                                    *)
InvestedFundsKept == balances[PodContract] >= raisedFunds
==============================================================================
