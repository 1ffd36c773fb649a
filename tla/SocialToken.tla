----------------------------- MODULE SocialToken -----------------------------
(***************************************************************************)
(* The social-token ink! contract (src/contracts/social-token/src): a      *)
(* bonding-curve token bought and sold for an erc20 funding token (module *)
(* Erc20, whose state this module shares).  buy pulls price + fee from    *)
(* the caller with transfer_from, sell pays reward - fee with transfer;   *)
(* an Err from either call, from the curve, or a panic reverts the whole  *)
(* message.  Names and symbols are never read and are left out.           *)
(*                                                                         *)
(* rust_decimal values are exact rationals [num, den] here.  The curve     *)
(* divides by target_supply, by the selling amount and by 3; with the      *)
(* model's constants the first two quotients are finite decimals, and a    *)
(* result that lies halfway between two balances has an exact quotient by *)
(* 3, so rounding the exact value gives what the 28-digit Decimal gives.   *)
(* Exponential and Sigmoid curves need exp and ln and are left out.       *)
(***************************************************************************)
EXTENDS Erc20

CONSTANTS
  SocialContract,   \* env().account_id(): holds both tokens of the contract
  Owner,            \* env().caller() of the constructor
  DecimalUnit,      \* 10^DECIMAL_COUNT: a Balance of DecimalUnit is 1.0
  AmmTypes,         \* amm_type values the constructor may get
  Spreads,          \* trading_spread values the constructor may get
  InitialSupplyInputs, TargetSupplies, TargetPrices

ASSUME SocialContract \in Accounts /\ Owner \in Callers
ASSUME DecimalUnit \in Nat \ {0}
ASSUME AmmTypes \subseteq {"Linear", "Quadratic"}

VARIABLES
  ammType, tradingSpread, targetSupply, targetPrice,  \* set by new, never written
  initialSupply,          \* initial_supply
  socialBalances,         \* balances (a missing entry reads as 0)
  supplyReleased,         \* supply_released
  accumulatedTradingFee   \* accumulated_trading_fee

socialVars == <<ammType, tradingSpread, targetSupply, targetPrice, initialSupply,
                socialBalances, supplyReleased, accumulatedTradingFee>>

vars == <<erc20Vars, socialVars>>

-----------------------------------------------------------------------------
(* Decimal arithmetic on exact rationals, kept reduced.                    *)
RECURSIVE Gcd(_, _)
Gcd(m, n) == IF n = 0 THEN m ELSE Gcd(n, m % n)

Abs(x) == IF x < 0 THEN -x ELSE x

Q(n, d) ==
  LET g == Gcd(Abs(n), Abs(d))
      s == IF d < 0 THEN -1 ELSE 1
  IN [num |-> s * (n \div g), den |-> s * (d \div g)]

QAdd(p, q) == Q(p.num * q.den + q.num * p.den, p.den * q.den)
QSub(p, q) == Q(p.num * q.den - q.num * p.den, p.den * q.den)
QMul(p, q) == Q(p.num * q.num, p.den * q.den)
QDiv(p, q) == Q(p.num * q.den, p.den * q.num)      \* q.num # 0
QPow(p, k) == Q(p.num ^ k, p.den ^ k)
QMax0(p) == IF p.num < 0 THEN Q(0, 1) ELSE p       \* dec!(0).max(p)

\* into_privi_decimal: Decimal::from_i128_with_scale(self as i128, 12);
\* `as i128` reads a u128 of Width bits as a signed value.
PriviDecimal(b) ==
  Q(IF b >= BalanceLimit \div 2 THEN b - BalanceLimit ELSE b, DecimalUnit)

\* into_privi_balance: (self * 10^12).round() -- to nearest, ties to even --
\* then to_u128().expect("overflow").
IntoPriviBalance(p) ==
  LET x == QMul(p, Q(DecimalUnit, 1))
      n == x.num \div x.den
      r == x.num % x.den
  IN IF 2 * r < x.den \/ (2 * r = x.den /\ n % 2 = 0) THEN n ELSE n + 1

-----------------------------------------------------------------------------
(* amm.rs: the curve's integral between two supplies, Err when it would   *)
(* be negative; a Decimal division by zero panics.                         *)
Integral(amm, upper, lower, tp, ts) ==
  LET mult == QDiv(tp, ts)
  IN IF amm = "Linear"
     THEN LET i == QSub(QPow(upper, 2), QPow(lower, 2))
          IN [ok |-> i.num >= 0, val |-> QMul(QMul(mult, i), Q(1, 2))]
     ELSE LET i == QSub(QPow(upper, 3), QPow(lower, 3))
          IN [ok |-> i.num >= 0, val |-> QDiv(QMul(QPow(mult, 2), i), Q(3, 1))]

PriceForMint(amm, sr, is, amount, tp, ts) ==
  LET effective == QMax0(QSub(sr, is))
  IN Integral(amm, QAdd(effective, amount), effective, tp, ts)

RewardForBurn(amm, sr, is, selling, tp, ts) ==
  LET effective == QMax0(QSub(sr, is))
  IN Integral(amm, effective, QMax0(QDiv(effective, selling)), tp, ts)

\* The curves buy and sell evaluate, on the contract's parameters.
MintCurve(sr, amount) ==
  PriceForMint(ammType, PriviDecimal(sr), PriviDecimal(initialSupply),
               PriviDecimal(amount), PriviDecimal(targetPrice),
               PriviDecimal(targetSupply))

BurnCurve(sr, amount) ==
  RewardForBurn(ammType, PriviDecimal(sr), PriviDecimal(initialSupply),
                PriviDecimal(amount), PriviDecimal(targetPrice),
                PriviDecimal(targetSupply))
-----------------------------------------------------------------------------
(* add_balance: insert balance_of(account) + amount *)
Added(bals, account, amount) == [bals EXCEPT ![account] = AddU(@, amount)]
CanAdd(bals, account, amount) == NoOverflow(bals[account] + amount)

(* buy: supply_released + amount is computed first and the curve is       *)
(* evaluated at it; price and trading_fee = price * trading_spread are    *)
(* pulled from the caller, then the tokens are minted.                     *)
Buy(caller, amount) ==
  LET supply == supplyReleased + amount
      curve == MintCurve(Wrap(supply), amount)
      price == IntoPriviBalance(curve.val)
      fee == price * tradingSpread
  IN /\ NoOverflow(supply)
     /\ targetSupply # 0
     /\ curve.ok
     /\ price \in Balances
     /\ NoOverflow(fee)
     /\ NoOverflow(price + Wrap(fee))
     /\ TransferFrom(SocialContract, caller, SocialContract, AddU(price, Wrap(fee)))
     /\ CanAdd(socialBalances, caller, amount)
     /\ NoOverflow(accumulatedTradingFee + Wrap(fee))
     /\ socialBalances' = Added(socialBalances, caller, amount)
     /\ accumulatedTradingFee' = AddU(accumulatedTradingFee, Wrap(fee))
     /\ supplyReleased' = Wrap(supply)
     /\ UNCHANGED <<ammType, tradingSpread, targetSupply, targetPrice,
                    initialSupply>>

(* sell: the curve is evaluated at supply_released - amount; reward -     *)
(* fee is paid to the caller before the caller's balance is reduced.      *)
Sell(caller, amount) ==
  LET supply == supplyReleased - amount
      curve == BurnCurve(Wrap(supply), amount)
      reward == IntoPriviBalance(curve.val)
      fee == reward * tradingSpread
  IN /\ NoOverflow(supply)
     /\ targetSupply # 0 /\ amount # 0
     /\ curve.ok
     /\ reward \in Balances
     /\ NoOverflow(fee)
     /\ NoOverflow(reward - Wrap(fee))
     /\ Transfer(SocialContract, caller, SubU(reward, Wrap(fee)))
     /\ NoOverflow(socialBalances[caller] - amount)
     /\ NoOverflow(accumulatedTradingFee + Wrap(fee))
     /\ socialBalances' = [socialBalances EXCEPT ![caller] = SubU(@, amount)]
     /\ accumulatedTradingFee' = AddU(accumulatedTradingFee, Wrap(fee))
     /\ supplyReleased' = Wrap(supply)
     /\ UNCHANGED <<ammType, tradingSpread, targetSupply, targetPrice,
                    initialSupply>>

(* airdrop: the owner moves amount of the initial supply from the         *)
(* contract's balance to `to`; withdraw is airdrop to the owner.          *)
Airdrop(caller, amount, to) ==
  LET taken == [socialBalances EXCEPT ![SocialContract] = SubU(@, amount)]
  IN /\ initialSupply >= amount
     /\ caller = Owner
     /\ initialSupply' = initialSupply - amount
     /\ NoOverflow(socialBalances[SocialContract] - amount)
     /\ CanAdd(taken, to, amount)
     /\ socialBalances' = Added(taken, to, amount)
     /\ UNCHANGED <<ammType, tradingSpread, targetSupply, targetPrice,
                    supplyReleased, accumulatedTradingFee, erc20Vars>>

Withdraw(caller, amount) == Airdrop(caller, amount, Owner)

(* withdraw_funding_token: anyone may call it; the fees go to the owner.  *)
WithdrawFundingToken(caller, amount) ==
  /\ accumulatedTradingFee >= amount
  /\ accumulatedTradingFee' = accumulatedTradingFee - amount
  /\ Transfer(SocialContract, Owner, amount)
  /\ UNCHANGED <<ammType, tradingSpread, targetSupply, targetPrice,
                 initialSupply, socialBalances, supplyReleased>>

(* new: initial_supply is stored as the contract's own balance.           *)
SocialInit ==
  /\ ammType \in AmmTypes
  /\ tradingSpread \in Spreads
  /\ targetSupply \in TargetSupplies
  /\ targetPrice \in TargetPrices
  /\ initialSupply \in InitialSupplyInputs
  /\ socialBalances = [a \in Accounts |-> IF a = SocialContract
                                          THEN initialSupply ELSE 0]
  /\ supplyReleased = 0
  /\ accumulatedTradingFee = 0
\* Accounts that trade: every signer but the contract itself.
Traders == Callers \ {SocialContract}

(* The traders' own funding-token messages and the social-token messages. *)
SocialNext ==
  \/ \E c, t \in Traders, v \in Amounts :
       Transfer(c, t, v) /\ UNCHANGED socialVars
  \/ \E c \in Traders, v \in Amounts :
       Approve(c, SocialContract, v) /\ UNCHANGED socialVars
  \/ \E c \in Traders, v \in Amounts : Buy(c, v)
  \/ \E c \in Traders, v \in Amounts : Sell(c, v)
  \/ \E c \in Traders, v \in Amounts, t \in Accounts : Airdrop(c, v, t)
  \/ \E c \in Traders, v \in Amounts : Withdraw(c, v)
  \/ \E c \in Traders, v \in Amounts : WithdrawFundingToken(c, v)

SocialSpec == Erc20Init /\ SocialInit /\ [][SocialNext]_vars

-----------------------------------------------------------------------------
(* Properties                                                              *)

SocialTypeOK ==
  /\ Erc20TypeOK
  /\ initialSupply \in Balances
  /\ socialBalances \in [Accounts -> Balances]
  /\ supplyReleased \in Balances
  /\ accumulatedTradingFee \in Balances

(* The fees withdraw_funding_token may pay the owner are held: the        *)
(* contract's funding-token balance covers accumulated_trading_fee.       *)
FeesCovered == balances[SocialContract] >= accumulatedTradingFee
==============================================================================
