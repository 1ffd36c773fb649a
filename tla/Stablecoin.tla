------------------------------ MODULE Stablecoin ------------------------------
(***************************************************************************)
(* The stable-coin ink! contract (src/contracts/stable-coin/src) with the  *)
(* two erc20 contracts it converts between: the stable coin pUSD (this    *)
(* module extends Erc20) and the collateral Privi (the instance           *)
(* Collateral of Erc20).  Registered oracles submit a price and a volume  *)
(* per ticker; get_price is the volume-weighted average; a conversion     *)
(* burns the amount of one token from request.address with burn_from and *)
(* mints the converted amount of the other, the contract being the caller *)
(* of both.  Its token admins grant and revoke the contract's Minter and  *)
(* Burner roles.  An Err or a panic reverts the whole message.            *)
(*                                                                         *)
(* A rust_decimal value is a mantissa m and a scale s (m * 10^-s), the   *)
(* mantissa below 2^MantissaBits (96 in the code).  checked_div keeps the *)
(* most fractional digits, up to RatioDigits (28), whose rounded mantissa *)
(* fits; a product whose mantissa does not fit drops digits, rounding on  *)
(* the last digit dropped, and overflows (a panic) at scale 0.  The run   *)
(* shrinks both widths in the code's proportion.  The                     *)
(* i128 saturating additions of get_price cannot saturate (a bucket holds *)
(* one u64 product per oracle) and are exact sums; the u64                *)
(* saturating_mul of price and volume is kept.  Oracle names, tickers'    *)
(* strings and the events are left out.                                   *)
(***************************************************************************)
EXTENDS Erc20, FiniteSetsExt, TLC

CONSTANTS
  StableContract,      \* env().account_id() of the stable-coin contract
  Owner,               \* caller of new()
  CollateralDeployer,  \* deployer of the Privi erc20 contract
  CollateralSupplies,  \* its initial_supply values
  OracleCandidates,    \* addresses the owner may register
  Holders,             \* accounts that hold the tokens and convert them
  Prices, Volumes,     \* SubmitPriceRequest.price / .volume values
  U64Width,            \* bits of u64
  RatioDigits,         \* Decimal's largest scale (28)
  MantissaBits,        \* bits of Decimal's mantissa (96)
  StableDecimals, CollateralDecimals   \* TokenSpec.decimal_count

ASSUME StableContract \in Accounts /\ Owner \in Callers
ASSUME OracleCandidates \subseteq Callers /\ Holders \subseteq Callers

VARIABLES
  colSupply, colBalances, colAllowances, colRoles, colPaused,  \* Privi
  oracles,    \* oracles: address -> state ("None" when not registered)
  prices,     \* prices: ticker -> (oracle -> price) of its PriceBucket
  volumes     \* the bucket's volumes, inserted with the prices

Collateral == INSTANCE Erc20
                WITH totalSupply <- colSupply, balances <- colBalances,
                     allowances <- colAllowances, roles <- colRoles,
                     isPaused <- colPaused, Deployer <- CollateralDeployer,
                     InitialSupplies <- CollateralSupplies

colVars == <<colSupply, colBalances, colAllowances, colRoles, colPaused>>
stableVars == <<oracles, prices, volumes>>
vars == <<erc20Vars, colVars, stableVars>>

\* The two tickers the contract converts between.
Tickers == {"pUSD", "Privi"}
Decimals == [t \in Tickers |-> IF t = "pUSD" THEN StableDecimals
                                             ELSE CollateralDecimals]

\* OracleState, and the absence of an entry in oracles
OracleStates == {"Allowed", "Disallowed"}

U64Max == 2^U64Width - 1
SaturatingMulU64(x, y) == IF x * y > U64Max THEN U64Max ELSE x * y

\* ensure_is_owner / ensure_is_oracle (a registered oracle, in any state)
EnsureIsOwner(caller) == caller = Owner
EnsureIsOracle(caller) == oracles[caller] # "None"

-----------------------------------------------------------------------------
(* get_price: sum of saturating price * volume over the bucket, divided   *)
(* by the sum of volumes; Err when there is no bucket or the volumes are  *)
(* all zero.                                                               *)
GetPrice(t) ==
  LET bucket == DOMAIN prices[t]
      total == MapThenSumSet(LAMBDA o : volumes[t][o], bucket)
      sum == MapThenSumSet(LAMBDA o : SaturatingMulU64(prices[t][o],
                                                        volumes[t][o]), bucket)
  IN [ok |-> bucket # {} /\ total # 0,
      val |-> IF total = 0 THEN 0 ELSE sum \div total]

\* from_i128_with_scale(get_price, decimal_count)
DecimalPrice(t) == [m |-> GetPrice(t).val, s |-> Decimals[t]]

MantissaLimit == 2^MantissaBits

RoundHalfEven(num, den) ==
  LET n == num \div den
      r == num % den
  IN IF 2 * r > den \/ (2 * r = den /\ n % 2 = 1) THEN n + 1 ELSE n

(* Decimal::checked_div: the quotient at the largest scale up to          *)
(* RatioDigits whose mantissa, rounded half to even, fits; None when not  *)
(* even the integer part fits.                                            *)
CheckedDiv(from, to) ==
  LET Mantissa(k) == RoundHalfEven(from.m * 10^(to.s + k), to.m * 10^from.s)
      fits == {k \in 0..RatioDigits : Mantissa(k) < MantissaLimit}
  IN IF fits = {} THEN [ok |-> FALSE, m |-> 0, s |-> 0]
     ELSE [ok |-> TRUE, m |-> Mantissa(Max(fits)), s |-> Max(fits)]

(* Decimal * Decimal::from(amount): the product of the mantissas at the   *)
(* ratio's scale; when it does not fit, the fewest digits are dropped     *)
(* (down to scale 0) and the result rounded up when the last digit        *)
(* dropped is 5 or more.  ok is FALSE on overflow, where `*` panics.      *)
MulAmount(d, amount) ==
  LET p == d.m * amount
      k == Min({j \in 0..d.s : p \div 10^j < MantissaLimit} \cup {d.s})
      lastDigit == IF k = 0 THEN 0 ELSE (p \div 10^(k - 1)) % 10
      m == p \div 10^k + (IF lastDigit >= 5 THEN 1 ELSE 0)
  IN [ok |-> m < MantissaLimit, m |-> m, s |-> d.s - k]

\* Mutant: the ratio is computed as to / from.
ComputeConversionInverted(from, to, amount) ==
  LET ratio == CheckedDiv(to, from)
      product == MulAmount(ratio, amount)
  IN [ok |-> ratio.ok /\ product.ok, val |-> product.m \div 10^product.s]

(* compute_conversion: ratio = from.checked_div(to) (Err on None), times  *)
(* the amount, then to_u128().unwrap(), which truncates the fraction.     *)
ComputeConversion(from, to, amount) ==
  LET ratio == CheckedDiv(from, to)
      product == MulAmount(ratio, amount)
  IN [ok |-> ratio.ok /\ product.ok, val |-> product.m \div 10^product.s]

\* Mutant: the volume is not inserted with the price.
SubmitPriceNoVolume(caller, t, p, v) ==
  /\ EnsureIsOracle(caller)
  /\ oracles[caller] # "Disallowed"
  /\ prices' = [prices EXCEPT ![t] = (caller :> p) @@ @]
  /\ UNCHANGED <<erc20Vars, colVars, oracles, volumes>>

(* submit_price: a registered oracle whose state is not Disallowed        *)
(* inserts its price and volume into the ticker's bucket (created empty  *)
(* on the first submission), over any earlier one of its own.             *)
SubmitPrice(caller, t, p, v) ==
  /\ EnsureIsOracle(caller)
  /\ oracles[caller] # "Disallowed"
  /\ prices' = [prices EXCEPT ![t] = (caller :> p) @@ @]
  /\ volumes' = [volumes EXCEPT ![t] = (caller :> v) @@ @]
  /\ UNCHANGED <<erc20Vars, colVars, oracles>>

(* register_oracle: the owner adds an unknown address as Allowed. *)
RegisterOracle(caller, address) ==
  /\ EnsureIsOwner(caller)
  /\ oracles[address] = "None"
  /\ oracles' = [oracles EXCEPT ![address] = "Allowed"]
  /\ UNCHANGED <<erc20Vars, colVars, prices, volumes>>

(* update_oracle_state: the owner sets a registered oracle's state; its  *)
(* submitted prices stay in the buckets.                                 *)
UpdateOracleState(caller, address, state) ==
  /\ EnsureIsOwner(caller)
  /\ oracles[address] # "None"
  /\ oracles' = [oracles EXCEPT ![address] = state]
  /\ UNCHANGED <<erc20Vars, colVars, prices, volumes>>

(* convert: both prices must exist and be non-zero, compute_conversion   *)
(* must succeed, and the converted amount must fit a Balance.             *)
Conversion(fromT, toT, amount) ==
  ComputeConversion(DecimalPrice(fromT), DecimalPrice(toT), amount)

Converted(fromT, toT, amount) == Conversion(fromT, toT, amount).val

CanConvert(fromT, toT, amount) ==
  /\ GetPrice(fromT).ok /\ GetPrice(toT).ok
  /\ GetPrice(fromT).val # 0 /\ GetPrice(toT).val # 0
  /\ Conversion(fromT, toT, amount).ok
  /\ Converted(fromT, toT, amount) \in Balances

(* convert_to_privi: pUSD is burnt from request.address, Privi minted to *)
(* it.  Any account may send the request for any address.                 *)
ConvertToPrivi(address, amount) ==
  /\ CanConvert("pUSD", "Privi", amount)
  /\ BurnFrom(StableContract, address, amount)
  /\ Collateral!Mint(StableContract, address, Converted("pUSD", "Privi", amount))
  /\ UNCHANGED stableVars

(* convert_to_pusd: Privi is burnt, pUSD minted. *)
ConvertToPusd(address, amount) ==
  /\ CanConvert("Privi", "pUSD", amount)
  /\ Collateral!BurnFrom(StableContract, address, amount)
  /\ Mint(StableContract, address, Converted("Privi", "pUSD", amount))
  /\ UNCHANGED stableVars

(* new / new_raw: no oracle, no bucket. *)
StableInit ==
  /\ Erc20Init
  /\ Collateral!Erc20Init
  /\ oracles = [a \in Accounts |-> "None"]
  /\ prices = [t \in Tickers |-> <<>>]
  /\ volumes = [t \in Tickers |-> <<>>]

\* Signers: every account but the zero account and the contract itself.
Users == Callers \ {StableContract}

(* The holders' approvals of the contract on either token, the token     *)
(* admins' grants of Minter and Burner to it (what the restriction on new *)
(* asks of the deployer), and the stable-coin messages.                   *)
StableNext ==
  \/ /\ \/ \E c \in Holders, v \in Amounts : Approve(c, StableContract, v)
        \/ \E c \in Users, r \in {"Minter", "Burner"} :
             SetRole(c, StableContract, r, TRUE)
     /\ UNCHANGED <<colVars, stableVars>>
  \/ /\ \/ \E c \in Holders, v \in Amounts :
             Collateral!Approve(c, StableContract, v)
        \/ \E c \in Users, r \in {"Minter", "Burner"} :
             Collateral!SetRole(c, StableContract, r, TRUE)
     /\ UNCHANGED <<erc20Vars, stableVars>>
  \/ \E c \in Users, t \in Tickers, p \in Prices, v \in Volumes :
       SubmitPrice(c, t, p, v)
  \/ \E c \in Users, a \in OracleCandidates : RegisterOracle(c, a)
  \/ \E c \in Users, a \in OracleCandidates, st \in OracleStates :
       UpdateOracleState(c, a, st)
  \/ \E a \in Holders, v \in Amounts : ConvertToPrivi(a, v)
  \/ \E a \in Holders, v \in Amounts : ConvertToPusd(a, v)

StableSpec == StableInit /\ [][StableNext]_vars

-----------------------------------------------------------------------------
(* Properties                                                              *)

StableTypeOK ==
  /\ Erc20TypeOK
  /\ Collateral!Erc20TypeOK
  /\ oracles \in [Accounts -> OracleStates \cup {"None"}]
  /\ \A t \in Tickers : /\ DOMAIN prices[t] = DOMAIN volumes[t]
                        /\ DOMAIN prices[t] \subseteq OracleCandidates

\* minted of toT lies within (worth - 2, worth + 1), worth being burnt of
\* fromT at the exact rate from / to: num / den.
WithinRounding(fromT, toT, burnt, minted) ==
  LET num == GetPrice(fromT).val * 10^Decimals[toT]
      den == GetPrice(toT).val * 10^Decimals[fromT]
  IN /\ minted * den - burnt * num < den
     /\ burnt * num - minted * den < 2 * den

(* A conversion is priced by the oracles: every convert_to_privi and      *)
(* convert_to_pusd mints, of the other token, the burnt amount's worth at *)
(* the current get_price of both tickers and their decimal counts, less   *)
(* than one unit above it (to_u128 truncates) and less than two below it  *)
(* (Decimal's rounding of the ratio and of the product costs less than    *)
(* one unit while amount * 10^-scale of the ratio stays below one).  In   *)
(* StableNext only the conversions change either token's supply.          *)
ConversionWithinRounding ==
  [][/\ totalSupply' < totalSupply =>
         WithinRounding("pUSD", "Privi", totalSupply - totalSupply',
                        colSupply' - colSupply)
     /\ colSupply' < colSupply =>
         WithinRounding("Privi", "pUSD", colSupply - colSupply',
                        totalSupply' - totalSupply)]_vars

(* get_price is a volume-weighted average, so it lies between the least  *)
(* and the greatest price its bucket holds; the u64 saturating_mul of     *)
(* price and volume in the fold can break this.                           *)
PriceWithinSubmitted ==
  \A t \in Tickers :
    GetPrice(t).ok =>
      \E o1, o2 \in DOMAIN prices[t] :
        prices[t][o1] <= GetPrice(t).val /\ GetPrice(t).val <= prices[t][o2]
==============================================================================
