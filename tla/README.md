# TLA+ models of the NFT yield-farming ink! contracts

This directory holds TLA+ models of the contracts under `src/` and the
TLC configurations that check them. `PROJECT.json` lists the components,
the runs, the mutants and the map from each definition to the source lines
it translates. It also lists the findings and the hazards.

## The system

The repository is a set of ink! 3 smart contracts for the Substrate
contracts pallet. Each contract keeps its own storage. Contracts call each
other synchronously through `FromAccountId` handles.

| Part | Source | State | Operations |
|---|---|---|---|
| media: registry and collaborators | `contracts/media/src/lib.rs` | `medias_by_id`, `collaborators_by_media_id` | `create_media`, `update_media`, `update_collabs`, `fractionalise_media_collab` |
| media: governance | same | `proposals_by_key`, `communities_by_proposal_key` | `create_update_media_proposal`, `vote_media_update_proposal` |
| media: sharing chain | same | `media_sharings_by_id`, `next_sharing_id` | `share_media`, `get_sharing_chain` |
| media: revenue and payment | same | none of its own (it reads the media, the collaborators and the chain) | `open_media`, `tip_media`, `get_sharing_proportions`, `distribute_amount`, `get_royalties`, `get_owners_profit` |
| media: streams | same | `streams_by_media_id` | `close_media` |
| erc721 | `contracts/erc721/lib.rs` | `next_token_id`, owners, counts, approvals | `mint`, `transfer`, `approve`, `burn` |
| erc20 | `contracts/erc20/lib.rs` | balances, allowances, roles, pause flag | `transfer`, `transfer_from`, `approve`, `mint`, `burn` |
| erc1620 | `contracts/erc1620/lib.rs` | `streams_by_id`, `stream_ids_by_account`, `next_stream_id` | `create_stream`, `withdraw_from_stream`, `cancel_stream`, `withdraw_from_all_streams` |
| erc1155, multi-token, token-accounts | `contracts/erc1155`, `libs/multi-token`, `contracts/token-accounts` | multi-token balances and operators | transfers, approvals |
| claimable-media | `contracts/claimable-media` | distributions, their state, their shares | propose, validate, distribute |
| pod-auction | `contracts/pod-auction` | auctions with the top bid | create, `place_bid`, withdraw, cancel, reset |
| htlc-atomic-swap | `contracts/htlc-atomic-swap` | swaps keyed by hash lock | initialise, claim, refund |
| exchange | `contracts/exchange` | offers | create an offer, buy or sell from it |
| pod-media-regular and pod-media-investing | `contracts/pod-media-*` | pods | call media `update_collabs` and `update_media` as the pod address |
| social-token | `contracts/social-token` | a bonding-curve token and its fees | buy, sell, airdrop, withdraw |
| amm library | `libs/amm` | none (a curve with a scale and a shift) | `new`, `integral`, `market_price`, `buy`, `sell` |
| stable-coin | `contracts/stable-coin` | oracles, price buckets | `submit_price`, `register_oracle`, `update_oracle_state`, `convert_to_privi`, `convert_to_pusd` |

How the parts interact:

- `create_media` mints an erc721 token to the caller. The token id is the media id.
- `tip_media` and `open_media` move erc20 tokens from the payer to the collaborators and the sharers.
- `open_media` in streamed mode would open erc1620 streams.
- The pod contracts become a media's pod address. They then replace its record and its collaborators.
- pod-media-investing creates its own erc20 pod token, sells it for a funding erc20 token during investment, and then prices it with the amm library.
- stable-coin burns one erc20 token and mints the other, through the two tokens' `burn_from` and `mint`, at a ratio of oracle-submitted prices.

### Hard behaviours of the media contract

- **Proposals against a changing ledger.** A proposal freezes the collaborators at creation. That snapshot becomes its community and its quorum, `min_approvals`. Meanwhile `update_collabs` and `fractionalise_media_collab` keep changing the live ledger. Acceptance then overwrites the ledger with the proposal's map.
- **Lazy expiry.** A proposal expires only when someone votes after `date + duration`. The comparison is `<=` (`models.rs:144`).
- **Re-proposal.** Proposing again at the same `(media, requester)` key replaces the pending proposal and drops its votes.
- **Sharing chain.** Sharing ids are allocated one after another. The walk up the parents stops at the depth (3) or at the root. It has no branch for an id that is not stored.
- **Arithmetic.**
  - Shares are u128, and fractionalising uses `checked_mul`.
  - The revenue helpers divide before they multiply.
  - `tip_media` subtracts the fee from the amount, and the fee can exceed the amount.
- **Atomicity.** A message that returns `Err` or panics is reverted, nested calls included (spec §5 and §7). The models therefore treat every error path as a state in which the action is not enabled.

## Modules

- `StorageMaps.tla` models the ink_storage `HashMap` and `BTreeMap` as TLA+ functions: `Put` inserts, `Without` takes, and `Maps` is the set of maps.
- `MediaSharing.tla` models the sharing chain index on its own.
  - Variables: `sharings` (`media_sharings_by_id`) and `nextSharingId`.
  - Action: `ShareMedia` is `share_media`. It covers the parent validation and the id allocation.
  - `SharingChainLoop` and `GetSharingChain` are `get_sharing_chain`, one loop iteration per recursive call. An id that is not stored yields the model value `Diverges`, because the loop never ends there.
  - `AncestorAddresses` is the reference walk of spec §4.3. It is a separate recursive definition.
- `Media.tla` extends `MediaSharing` and adds the rest of the contract's storage:
  - `now` (block time);
  - the erc721 `nextTokenId` and `nftOwner`;
  - `medias`, `collabs`, `proposals` and `communities`.

  Each message is one action: `CreateMedia` (with `Erc721Mint`), `UpdateMedia`, `UpdateCollabs`, `FractionaliseMediaCollab`, `CreateUpdateMediaProposal` and `VoteMediaUpdateProposal`. The share-media step is the `MediaSharing` action with the media variables unchanged. `Tick` advances block time.

  A media record keeps `creator` and `pod_address`, because messages test them. All the other fields a proposal replaces are one value of `Infos`. A proposal keeps:
  - the update (creator, info, collaborators);
  - the votes;
  - `min_approvals` and `max_denials`;
  - the duration and the date.
- `Balance.tla` models `Balance` (u128) arithmetic at `Width` bits. The repository has no `Cargo.toml`, so whether an overflow panics or wraps is a build choice: with `OverflowChecks = TRUE` an action is enabled only where `NoOverflow` holds, and with `FALSE` the result wraps (`AddU`, `SubU`, `MulU`).
- `Erc20.tla` models the erc20 contract.
  - Variables: `totalSupply`, `balances`, `allowances` keyed by `<<owner, spender>>`, `roles` (the bit flags as a set) and `isPaused`.
  - Actions: `Transfer`, `Approve`, `TransferFrom`, `Mint`, `BurnFrom` (`burn` is the case account = caller), `SetRole` (the six add/remove role messages) and `SetPaused` (pause, unpause).
  - `CanMove` and `Moved` are `_transfer_from_to`. The receiver's balance is read after the sender's was written, so a self-transfer changes nothing.
- `MediaTip.tla` extends `Erc20` with `tip_media` of the media contract.
  - The media's royalty and collaborator map are chosen in `Init`. `tip_media` only reads them.
  - `Share`, `DistributeAmount`, `Royalties` and `Payments` are the revenue helpers of `mod utils`.
  - `PayAll` is the loop of `transfer_from` calls, in the order in which the `payments` HashMap iterates. That order is insertion order, i.e. `KeyOrder`, the AccountId order of the collaborators' BTreeMap.
- `Erc1620.tla` extends `Erc20` and `Clock` with the payment-stream contract.
  - Variables: `streams` (`streams_by_id`), `idsByAccount` (`stream_ids_by_account`) and `nextStreamId`.
  - Actions: `CreateStream`, `WithdrawFromStream`, `CancelStream`, `WithdrawFromAllStreams`, `Tick`, and the users' `Approve` of the stream contract. `StreamNext(users)` is the next-state relation for a given set of signers, so a composition can exclude other contracts' accounts.
  - `DeltaSeconds`, `RecipientBalance` and `GetBalance` are the `Stream` methods. `Secs` is the millisecond-to-second truncation. With `MsPerSecond = 2` in the run, odd differences truncate.
  - `WithdrawAll` is the loop of `withdraw_from_all_streams`. It is one recursive operator over a `[streams, bals, ok]` record, so a failure anywhere fails the whole message.
  - Every stream uses the one modelled token.
- `Clock.tla` declares only `now`, the block timestamp. Every contract that reads the time extends it, so a composition of two such contracts has one clock.
- `TokenLedger.tla` is the abstract specification of a fungible-token ledger. Its state is `supply` and `holdings`, and its actions are `Move` (an amount from one holder to another), `Issue` and `Retire`; the supply is always the sum of holdings. `Erc20` instantiates it with `supply <- totalSupply, holdings <- balances, Holders <- Accounts, Values <- Balances`, and `LedgerRefinement` (`Ledger!LedgerSpec`) is checked as a property. So every erc20 step is a move, an issue, a retire or a stutter of the ledger.
- `Erc721.tla` models the erc721 contract.
  - Variables: `nextTokenId`, `owners`, `counts` (`token_counts_by_account_id`), `approvals` and `operators`.
  - Actions: `TransferTokenFrom` (with `NftTransfer` and `NftTransferFrom`), `NftMint`, `NftBurnFrom`, `NftApprove` and `SetApprovalForAll`. `NftMessages(users)` is the set of messages of the given signers.
  - The counts are u64 (`CountLimit`); `decrease_counter_of` panics or wraps at 0, by `OverflowChecks`.
- `Htlc.tla` extends `Erc20` and `Clock` with the hash time-locked contract.
  - Variables: `contracts` (`contracts_by_hash`, keyed by the nonce that made the hash), `owner` and `nonce`.
  - Actions: `InitialiseHtlc`, `ClaimFunds`, `RefundFunds` and `SetOwner`. `LockFunds` and `ReleaseFunds` are the token calls: mint and burn when the party is the owner, `transfer_from` and `transfer` otherwise. An Err of the token reverts the message.
- `TokenEscrows.tla` extends `Erc1620` and `Htlc`. The stream contract and the HTLC contract share one erc20 token and one clock. Its next-state relation is the signers' stream messages, their HTLC messages, their approvals of the HTLC contract, and the token admin granting or revoking the HTLC's Minter and Burner roles.
- `PodAuction.tla` extends `Erc721` and `Clock`, and instantiates `Erc20` as `Token` for the bid token. (The two token modules declare the same constants, so only one of them can be extended.)
  - Variables: `auctions`, keyed by the owner (one bid token is modelled, so the key `(token_address, owner)` is the owner), and `allowed` (`allowed_accounts`).
  - Actions: `ApproveUser`, `RemoveUser`, `CreateAuction`, `PlaceBid`, `WithdrawAuction`, `CancelAuction`, `ResetAuction` and `PodTick`. Each calls the token actions with the auction contract as caller.
  - Beside the auctions, users mint erc721 tokens, transfer them among themselves and to the contract, approve the contract for a token (`PodNftMessages`), transfer bid tokens and approve the contract for them.
- `Erc1155.tla` models the erc1155 contract.
  - Variables: `nextTokenId`, `ownersByTokenId` (the minter of each id), `balancesByAccountId` keyed by `<<account, id>>`, `approvalsByTokenId` and `operatorApprovals`.
  - Actions: `TransferTokenFromTo` (with `Transfer1155` and `TransferFrom1155`), `BatchTransfer`, `Mint1155`, `BurnFrom1155`, `Approve1155` and `SetApprovalForAll1155`. `Erc1155Messages(users, targets, amounts)` is their disjunction.
  - `CanTransferTokenFromTo` and `TransferredTokenFromTo` take the balances as an argument. A batch folds them over its pairs (`BatchMoved`, recursive), and the exchange chains them for its two-call messages.
  - `transfer_token_from_to` checks the caller against the id's owner, its approved account and the owner's operators. It never checks `from`, and the model keeps that.
- `Exchange.tla` extends `Erc1155` with the exchange contract.
  - Variables: `exchanges`, `offers`, `offerIds` (`offer_ids_by_exchange_id`, a sequence per exchange) and `nonce`. Ids are nonce values: `random_hash` hashes the caller, a salt and the incremented nonce, so distinct nonces give distinct ids.
  - Actions: `CreateExchange`, `PlaceOffer` (Buy or Sell), `CancelOffer`, `BuyFromOffer` and `SellFromOffer`. Each is one message with its token calls. `CanPull`/`Pulled` are `MultiToken::transfer_from` and `CanPay`/`Paid` are `MultiToken::transfer`, both on the erc1155 contract with the exchange contract as caller.
  - `ExchangeTokenMessages` are the erc1155 messages users make beside the exchange: mint to themselves, make the contract an operator or the approved account of an id, `transfer` and `transfer_from` among users.
- `SocialToken.tla` extends `Erc20` (the funding token) with the social-token contract.
  - Variables: the constructor's `ammType`, `tradingSpread`, `targetSupply` and `targetPrice` (never written again), `initialSupply`, `socialBalances`, `supplyReleased` and `accumulatedTradingFee`.
  - Actions: `Buy`, `Sell`, `Airdrop`, `Withdraw` (an airdrop to the owner) and `WithdrawFundingToken`. `Buy` and `Sell` include their erc20 `transfer_from` and `transfer` with the contract as caller, so an Err of the funding token reverts the whole message.
  - `Integral`, `PriceForMint` and `RewardForBurn` are the curve functions of `amm.rs`, for the Linear and Quadratic curves. Exponential and Sigmoid need `exp` and `ln`, which have no exact value to check against, so they are not enumerated.
  - `rust_decimal` values are exact rationals (`Q`, `QAdd`, ...). `PriviDecimal` is `into_privi_decimal`: the `u128 as i128` cast, then a scale of `DecimalUnit` (10^12 in the code). `IntoPriviBalance` is `into_privi_balance`: rounding half to even, as `Decimal::round` does.
  - The model's quotients by `target_supply` and by the selling amount are finite decimals, and a midpoint result of the Quadratic curve's division by 3 is an exact quotient. So the 28-digit `Decimal` rounds to the same balance as the exact value.
- `Amm.tla` is the amm library as operators; it has no state. An `Option` is a record `[ok, val]`. `Checked(steps, divisors, result)` is a chain of `checked_*` calls: `None` when a step leaves `Balance` or a divisor is 0. `AmmNew`, `Integral`, `MarketPrice`, `AmmBuy` and `AmmSell` are `Amm::new`, `integral`, `market_price`, `buy` and `sell`. `MAX_PRECISION` and `TRUNCATE_POSITION` (12 and 6) are constants, 2 and 1 in the run. These smaller values keep the branch each curve takes in `integral`: for Linear the remaining precision equals `MAX_PRECISION`, and for Quadratic it exceeds it.
- `PodInvesting.tla` extends `Erc20` (the funding token), `Amm` and `Clock` with pod-media-investing. The pod token is a second instance of `Erc20`, `PodToken`, with its own variables (`podSupply`, `podBalances`, ...).
  - Variables: the pod token's state, `ammCurve`, `status`, `registeredMedia`, `supplyReleased`, `raisedFunds`, and `medias`, the media contract's records (creator, registered, uploaded) of the pod's media.
  - Actions: `CreateMedia` (media `create_media`, by anyone), `RegisterMedia` (with `IncrementRegisteredMedia`, which moves the pod to Investing once `total_media` are registered), `UploadMedia`, `InvestPod`, `BuyPodTokens` and `SellPodTokens`, and `Tick`. Each one includes the token calls it makes with the pod as caller: `transfer_from` of the funding token, and `transfer`, `mint` and `burn_from` of the pod token.
  - `ValidRequest` is `CreateInvestingPodRequest::validate`, assumed of the constants.
- `Stablecoin.tla` extends `Erc20` (pUSD) and instantiates it again as `Collateral` (Privi).
  - Variables: `oracles` (address to state, "None" when not registered) and `prices` and `volumes` (ticker to oracle to value, the `PriceBucket`s).
  - Actions: `SubmitPrice`, `RegisterOracle`, `UpdateOracleState`, `ConvertToPrivi` and `ConvertToPusd`. A conversion is `burn_from` on one token and `mint` on the other, with the contract as caller.
  - `GetPrice` is the weighted average with the u64 `SaturatingMulU64`. The i128 saturating sums cannot saturate (at most one u64 product per oracle) and are exact sums. A `Decimal` is a mantissa and a scale. `CheckedDiv` is `Decimal::checked_div`: the quotient at the largest scale, up to `RatioDigits`, whose mantissa rounded half to even fits in `MantissaBits` bits (28 digits and 96 bits in the code, 2 and 9 in the run, in about the same proportion). `MulAmount` is `ratio * Decimal::from(amount)`: when the product's mantissa does not fit, it drops the fewest digits that make it fit and rounds on the last digit dropped; at scale 0 it overflows, a panic. `ComputeConversion` chains the two and truncates, as `to_u128` does.
- `MC_Media`, `MC_Sharing`, `MC_Erc20`, `MC_MediaTip`, `MC_Erc1620`, `MC_Erc721`, `MC_Escrows`, `MC_PodAuction`, `MC_Erc1155`, `MC_Exchange`, `MC_SocialToken`, `MC_PodInvesting` and `MC_Stablecoin` give the model values and the input sets.

## Runs

| Run | Config | Expect | What it shows |
|---|---|---|---|
| `media_governance` | `MC_Media.cfg` | pass | Every interleaving of all media messages by three accounts on one media. It allows one sharing id and two ticks of block time, with a proposal lasting one tick, so expiry is reached. A proposal is applied only when every member of its frozen community voted yes, the last one in the applying call, and only before it expired (`UnanimousBeforeExpiry`). |
| `sharing_chain` | `MC_Sharing.cfg` | pass | Three accounts, two media and five sharing ids, so chains longer than the depth of 3 exist. `get_sharing_chain` equals the reference walk for every stored id (`ChainMatchesReference`). |
| `erc20_ledger` | `MC_Erc20.cfg` | pass | Every erc20 message by the deployer and one other signer, with overflow checks on. `total_supply` equals the sum of balances (`SupplyEqualsBalances`). No balance or supply changes while paused (`PausedFreezesBalances`). Erc20 implements `TokenLedger` (`LedgerRefinement`). |
| `media_tip` | `MC_MediaTip.cfg` | pass | With collaborator shares adding up to at most one unit, `tip_media` interleaved with transfers and approvals never takes more than the tip (`TipPaysAtMostAmount`). |
| `token_escrows` | `MC_Escrows.cfg` | pass | The stream and HTLC contracts side by side over one token and one clock. The owner changes, and the HTLC's roles are granted and revoked. The stream contract's balance equals the streams' `remaining_balance` (`EscrowMatchesStreams`). `get_balance` never underflows (`AccrualWithinRemaining`). One stream is allowed, so the id lists hold at most one id; `MC_Erc1620.cfg` checks that they stay sorted, as `binary_search` needs (`IdListsSorted`), with two streams and the stream contract alone. The HTLC contract's balance covers its stored locks (`HtlcEscrow`). |
| `social_fees_unbacked` | `MC_SocialToken_FeesCovered.cfg` | violation | Six buys of one token, then the owner airdrops the initial supply away. A sale of 3 then books a fee of 8 that the contract never received, so `accumulated_trading_fee` (14) exceeds the funding tokens the contract holds (12) (`FeesCovered`). |
| `nft_auction` | `MC_PodAuction.cfg` | pass | The auction, its media token and its bid token, with two signers and block time 0 to 2. The contract's bid-token balance always equals the sum of the standing bids (`BidEscrow`), through bids that refund the previous bidder, withdrawals, cancellations and resets. |
| `exchange_offers` | `MC_Exchange.cfg` | pass | The exchange and its erc1155 contract, with two users and up to two ids. Users mint, approve the contract, move balances, and create, place, cancel, buy from and sell to offers; two exchanges can exist. The erc1155 state keeps its types (`Erc1155TypeOK`). Every stored offer stays listed under its own exchange, also when `cancel_offer` names another exchange (`OffersIndexed`). |
| `exchange_insolvent` | `MC_Exchange_ExchangeSolvent.cfg` | violation | A user places a Buy offer and sells into it. `sell_from_offer` pays both legs out of the contract and takes nothing from the seller, so the contract holds less than its offers are owed (`ExchangeSolvent`). |
| `pod_reset_strands_media` | `MC_PodAuction_NftEscrowHeld.cfg` | violation | After `reset_auction` to another token id, the auction names a token the contract does not hold (`NftEscrowHeld`). |
| `pod_investing` | `MC_PodInvesting.cfg` | pass | An investing pod with one media on the Quadratic curve: its creator and an outsider create, register and upload media, an investor invests, and anyone buys and sells pod tokens. The pod token's supply is always the initial supply plus `supply_released` (`PodSupplyTracksReleased`). The pod always holds enough pod tokens for the part of the funding target not yet raised (`StockCoversRemaining`). The status only moves forward, Formation, Investing, Trading (`StatusForward`). |
| `stable_coin_conversion` | `MC_Stablecoin.cfg` | pass | Two possible oracles are registered, submit prices for both tickers, and are disallowed and allowed again. The token admins grant the contract its roles, and the holder approves it and converts either way. Every conversion mints less than one unit above and less than two units below the burnt amount's worth at `get_price` and the tokens' decimal counts (`ConversionWithinRounding`). The run reaches a conversion one whole unit short: 3 pUSD at 16 against Privi at 0.3 is worth 16 Privi, the ratio keeps one digit (5.3), and 15 are minted. It also reaches a product that drops a digit: 1.88 * 3 = 5.64 becomes 5.6. So "within one unit" would be false. |

Violations found with configurations that are not in the run list (at most twelve runs are kept; each is a hazard in `PROJECT.json` with a note naming its configuration):

- `MC_Fractionalise.cfg`: fractionalising into an existing collaborator overwrites its share (`FractionaliseMergesAdditively`, spec §4.1).
- `MC_Erc20Wrap.cfg`: without overflow checks, `_mint` wraps `total_supply` (`SupplyEqualsBalances`).
- `MC_MediaTipInflated.cfg`: shares adding up to more than one unit make a tip of 1 cost 2 (`TipPaysAtMostAmount`).
- `MC_Erc1620_WithdrawAllSucceeds.cfg`: `withdraw_from_all_streams` fails when one listed stream has nothing accrued (`WithdrawAllSucceeds`).
- `MC_Erc721_SetApprovalForAllSucceeds.cfg`: an operator once set to false can never be approved again.
- `MC_SharingLoop.cfg`: `get_sharing_chain` on an id that is not stored never returns (`ChainTerminates`).
- `MC_Erc721_CountsMatchOwners.cfg`: erc721 `transfer_from` with a `from` that does not own the token decrements the wrong count (`CountsMatchOwners`).
- `MC_Erc1155_ConsentToDebit.cfg`: every erc1155 message of two users. A minter transfers to b, then takes the balance back with `transfer_from`, without b's consent (`ConsentToDebit`).
- `MC_Escrows_ReceiverPaid.cfg`: the sender refunds before the time lock, so a receiver holding the secret is not paid (`ReceiverPaidBeforeExpiry`).
- `MC_Erc1620_IndexMatchesStreams.cfg`: a stream emptied by `withdraw_from_stream` keeps its id in the recipient's list (`IndexMatchesStreams`).
- `MC_PodInvesting_InvestedFundsKept.cfg`: after two investments of 1 (each gets 0 pod tokens), a `sell_pod_tokens(0)` pays the curve's shift out of the invested funds, so the pod holds less funding token than it raised (`InvestedFundsKept`).
- `MC_Stablecoin_PriceWithinSubmitted.cfg`: with u64 shrunk to 4 bits, one oracle's price 8 at volume 2 saturates the product at 15, and `get_price` is 7, below every submitted price (`PriceWithinSubmitted`).

`MC_Erc1620.cfg` checks the stream contract alone; `token_escrows` checks the same invariants in the composition.

Bounds, and why they are enough:

- Three accounts give a pod address that is not a collaborator, plus two collaborators. That is the smallest community in which one vote is not a quorum.
- One media suffices because proposals, votes and collaborators never cross media ids.
- `ShareLimit = 4` stands in for 2^128. Split ratios of 1 on a share of 2, and a share of 2 in a request, reach the `checked_mul` overflow path.
- `ProposalDuration = 1` with `MaxTime = 1` makes "vote after expiry" reachable in two steps.
- For the sharing chain, five ids exceed the walk depth of 3. They allow chains of every length up to five, on two media.
- Erc20: the deployer, one other signer and the zero account; one amount value; a 2-bit balance, so a mint of 1 on a supply of 2 or 3 reaches the overflow boundary.
- MediaTip: a 3-bit balance, a share unit of 2 (so half shares exist and division truncates), royalty 0 or 1, and the tipper among the collaborators, which makes one transfer a self-transfer.
- Escrows: a sender holding 2 tokens, a receiver, deposits 1 and 2, stream times 0, 2 and 4 ms at 2 ms per second, one stream, two HTLCs with a time lock of 3, and block time up to 4, past both. A stream of duration 0 is rejected, a deposit can be smaller than the duration, and the time lock is passed while a lock is stored.
- Erc721: two signers and two token ids, with overflow checks on and `CountLimit = 4` standing in for 2^64, so a wrong `from` reaches the 0 boundary of a count (where `-=` panics) and a second token.
- Exchange: users a and b (symmetric), the contract and the zero account; two ids; amount 1 and price 1; a 2-bit balance; `MaxNonce = 4`, enough for two exchanges with their initial offers (or one exchange and two more offers), so `cancel_offer` can name an exchange the offer does not belong to. With amounts 1 and 2 (partial fills) and two exchanges the run does not finish in five minutes; `exchange_insolvent` keeps amounts 1 and 2 with `MaxNonce = 3`. The erc1155 messages are restricted to what an exchange user does: with all of them the run does not finish in five minutes. `MC_Erc1155` runs all of them.
- SocialToken: the owner d is the only trader. It holds 15 funding tokens at 4 bits, and u receives transfers and airdrops. The curve is Linear with multiplier 2 (target price 2, target supply 1), the spread is 1, the initial supply is 6, and amounts are 1 and 3. `DecimalUnit = 1`: the prices on the violating trace are whole numbers, and the linear curve is homogeneous, so the same trace scaled by 10^12 is one of the real contract. A buy of one token costs exactly 1, six of them use the initial supply, and a sale of 3 reaches a lower bound `effective / amount` of 1.
- PodInvesting: the creator, one investor, the pod and the zero account. The investor holds 8 funding tokens and approves the pod for 8. The price is 2 and the funding target 5, so an investment of 10 is clamped and the last pod token is rounded away. Amounts are 1 and 10. One media of at most two, so an outsider's media can complete the count. Max price 102 and max supply 100 give the Quadratic curve a scale of 100. `Balance` is 16 bits wide, enough for `max_supply^2`. `MaxReleased = 10` bounds `supply_released`; without it, buying 10 and selling in pieces grows it without end. Block time runs 0 to 1 with the funding date 0, so investing is open at time 0 and closed after it.
- Stablecoin: the deployer d holds 3 of each token and is the owner and both admins. d and o may be oracles. The prices are 3 and 30, so `get_price` is 3, 16 or 30, at volume 1. pUSD has 0 decimals and Privi 1, so the ratios (1, 1.875, 10, 5.33, ...) are rounded and truncated in both directions. The amount is 3, which makes a truncated ratio cost a whole unit. Balances are 4 bits wide, enough for the 15 Privi minted for 3 pUSD; a larger result is stopped by the balance bound. A 9-bit mantissa with 2 digits makes 5.33 keep one digit and 5.64 drop one. With amounts 1 and 3 the run does not finish in five minutes. Approvals and conversions are d's, the only holder; with transfers and every erc20 message the run does not finish in five minutes (`erc20_ledger` checks them).
- PodAuction: the deployer (also the contract owner) and one user, one media token, an initial bid-token supply of 3 and bids of 1 and 2, so a bid of 2 over a bid of 1 refunds the first bidder, prices 0, start and end times 1 and 2, `OneDay = 1`, and block time up to 2, so bidding windows open, close, and pass the cancel limit. With two tokens the passing run does not finish in five minutes; the violation run uses two tokens, because a reset needs a second id.

Each passing run has one mutant per property in `PROJECT.json`. The mutant changes one mapped definition the way a plausible bug would, and TLC finds that property violated under the run's configuration. The mutants are:

- a mint that does not save the new id;
- an expiry that is off by one;
- an id counter that never advances;
- a loop that forgets `depth -= 1`;
- an unchecked allowance, a stale receiver read, a burn that ignores the pause, and a mint that credits without counting (erc20; the last one breaks the refinement);
- a share that is not scaled by the unit (tip);
- an emptied stream kept, a withdrawal that does not reduce `remaining_balance`, and elapsed time not capped at `stop_time` (erc1620);
- a nonce that does not advance, and a refund that keeps the contract (htlc);
- a mint that does not advance `next_token_id` (erc1155), and an offer stored but not listed under its exchange (exchange);
- a higher bid that does not pay the previous bidder back (pod auction);
- a sell without the checked subtraction, a sell that leaves `supply_released` unchanged, an investment whose token count rounds up, and a status change on `>=` instead of `=` (pod investing);
- a price submitted without its volume, and an inverted conversion ratio (stable-coin).

No liveness property is checked. The contracts have no background work: nothing in the code makes any message happen, so no fairness is justified. Even the block time only advances when a block is produced, which no contract controls. The one termination question, whether `get_sharing_chain` returns, is checked as an invariant on the value of the walk.

The `sharing_chain` run's MC module adds `BoundReached`, a stutter once all `MaxSharings` ids are allocated; `MC_Exchange` and `MC_Erc1155` do the same once `MaxIds` ids are minted. The contract's u64 counter would go on, so reaching the bound is not a deadlock of the program.

## Findings

- **`get_sharing_chain` loops forever on an unknown sharing id** (`lib.rs:477`, code bug). `open_media` passes the caller's `sharing_id` to it unchecked. Shown by `MC_SharingLoop.cfg`.
- **`fractionalise_media_collab` overwrites an existing collaborator's share** (`lib.rs:258`, divergence from spec §4.1).
- **A chain never spans two sharers** (`lib.rs:415`, spec gap, no run). `share_media` requires the parent's address to be the caller, so the weighted payout over several referrers is unreachable. This follows from the guard alone (`MediaSharing.ParentValid`).
- **The zero-collaborator auto-apply case of spec §9 cannot arise** (`lib.rs:174`, spec gap, no run). Only a collaborator can create a proposal, so `min_approvals`, the collaborator count, is at least 1.
- **`open_media` ends in `todo!()`** (`lib.rs:381`). It can never commit a payment.
- **A tip can cost more than the tip** (`lib.rs:554`, code bug). No message bounds the collaborator shares, and `tip_media` checks the balance against `request.amount` only.
- **`_mint` wraps without overflow checks** (`erc20/lib.rs:363`, code bug). Whether it does depends on the build profile, which the repository does not fix.
- **Emptied streams stay indexed** (`erc1620/lib.rs:299`, code bug). The comments at `:326` and `:354` say every listed id is stored. After one full withdrawal, `withdraw_from_all_streams` panics at the unwrap at `:356` for that recipient on every call.
- **`withdraw_from_all_streams` fails on a stream with nothing accrued** (`erc1620/lib.rs:359`, code bug). It passes 0 to `withdraw_from_stream`, which returns `AmountCannotBeZero`, so a not-yet-started stream blocks withdrawal from all the others.
- **`refund_funds` has no time-lock check** (`htlc-atomic-swap/src/lib.rs:234`, code bug). Its doc comment says it refunds only after the time lock; the sender can take the funds back while the receiver's claim is still valid.
- **erc721 `transfer_from` never checks `from`** (`erc721/lib.rs:254`, code bug). The wrong account's count is decremented, so `balance_of` is wrong for two accounts. Shown by `MC_Erc721_CountsMatchOwners.cfg`.
- **`reset_auction` changes the media token without moving it** (`pod-auction/src/lib.rs:441`, code bug). The token taken by `create_auction` is stranded in the contract unless the owner resets the auction back to that id before it is withdrawn or cancelled, and `withdraw_auction` later sends the new id, which the contract may not hold or which belongs to another auction.
- **`sell_from_offer` pays out of the escrow** (`exchange/src/contract.rs:308`, code bug). It sends the exchange token to the offer's creator and the offer token to the seller, both from the contract, and takes nothing from the seller.
- **erc1155 `transfer_from` never checks `from`** (`erc1155/lib.rs:276`, code bug). The minter of an id, or its operators, can move any holder's balance. Through `buy_from_offer`, anyone can make the exchange debit any `address`. Shown by `MC_Erc1155_ConsentToDebit.cfg`.
- **Social-token trading fees are not backed** (`social-token/src/contract.rs:190`, code bug). `sell` adds `reward * trading_spread` to `accumulated_trading_fee` and pays `reward - fee` from a reserve that holds only the prices paid minus the rewards paid. `airdrop` and `withdraw` lower `initial_supply`, which raises the effective supply the curve prices at, and nobody pays for that. After them, a sale's reward can exceed what the buyers paid, and the fees booked from it are not held: `withdraw_funding_token` fails.
- **`buy` prices the wrong segment of the curve** (`contract.rs:139`, model behaviour, no run). It adds `amount` to `supply_released` before calling `price_for_mint`, which adds `amount` again. So it charges the integral from the new supply to the new supply plus `amount`, not the segment the tokens fill.
- **`reward_for_burn` divides where it should subtract** (`amm.rs:105`, model behaviour, no run). The lower bound is `effective_supply / selling_amount`, not `effective_supply - selling_amount`. Selling exactly one token pays nothing, and selling less than one token is an Err once the effective supply is positive.
- **`sell_pod_tokens(0)` pays out the curve's shift** (`libs/amm/src/lib.rs:124`, code bug). `Amm::integral` adds `shift`, the initial price, once per call whatever the interval, so a sale of 0 tokens burns nothing and pays `shift` from the pod's funding-token balance, which holds the investors' funds. Repeated, it drains them. Shown by `MC_PodInvesting_InvestedFundsKept.cfg`.
- **An investment below the price buys nothing** (`pod-media-investing/src/lib.rs:183`, model behaviour). `invest_pod` takes the whole amount and hands out `amount / funding_token_price` pod tokens rounded down, so an investment of 1 at price 2 pays 1 for 0 tokens. The stock still covers the rest of the target (`StockCoversRemaining` holds).
- **Pod trading has no status check** (`pod-media-investing/src/lib.rs:196`, model behaviour). `buy_pod_tokens` and `sell_pod_tokens` run in every status, Formation and Investing included, although the pod's AMM is described as the Trading phase's market. Its price reads `funding_token_price` as a 12-decimal value, while `invest_pod` reads the same value as a plain token count.
- **Anyone can complete a pod's media count** (`pod-media-investing/src/models.rs:84`, model behaviour). `increment_registered_media` counts every registered media whose pod address is the pod, and media `create_media` lets any account create one for any pod. An outsider's media can therefore move the pod to Investing before the creator's own media are registered. The status still only moves forward (`StatusForward` holds).
- **A saturated price product skews `get_price`** (`stable-coin/src/lib.rs:214`, code bug). `price.saturating_mul(volume)` is a u64 product, so the sum saturates once a price with 12 decimals meets a volume above about 1.8*10^7. The average then lies below every submitted price. Shown by `MC_Stablecoin_PriceWithinSubmitted.cfg`.
- A disallowed oracle's price stays in its buckets: `update_oracle_state` changes only the state, so `get_price` and every conversion still weigh the last price the oracle submitted (`stable-coin/src/lib.rs:266`, model behaviour, no run).
- `cancel_stream` has no caller check: anyone may cancel any stream. No document of the repository says who may, so this is listed as a hazard, not a finding.

## Not modelled yet, and the plan

This is the order for the next modules, most important first:

1. **`get_sharing_proportions`** as a recursive operator checked against the spec's weighted walk, and **`close_media`** over `Erc1620` (`streams_by_media_id` is never written, so it has nothing to cancel today).
2. **`ClaimableMedia`** over an erc20 ledger.
3. **pod-media-regular**, composed with `Media`: the pod address calling `update_collabs` while a proposal is pending.
4. A passing social-token run (token conservation between `supply_released` and the balances).

These are left out:

- the record fields a property never tells apart (name, type, view and NFT conditions, royalty outside revenue, `ipfs_hash`, token metadata);
- events;
- read-only messages (`get_media`, `stream_ids`, `get_stream`, `balance_of`, `get_auction_by_pair`, `get_price_bucket`, `get_oracle`, ...);
- `get_reward_account_id` (a hash derivation);
- `open_media`, which ends in `todo!()` and never commits;
- the token-accounts lookups of stable-coin's `new` (the decimal counts are constants), and pod-media-investing's `spread`, which no message reads;
- more tokens than a contract uses together: streams, HTLC locks and auctions use one erc20 token, while the pod and stable-coin models use two;
- `Decimal`'s 96-bit mantissa, which the stable-coin model's values do not reach;
- in the pod-auction run, erc721 burns and operator approvals (checked in `MC_Erc721_CountsMatchOwners.cfg`), which make the composed state space too large.
