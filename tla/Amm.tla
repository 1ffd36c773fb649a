--------------------------------- MODULE Amm ---------------------------------
(***************************************************************************)
(* The amm library (src/libs/amm/src/lib.rs): the pricing of a pod         *)
(* token's automated market maker.  It stores no pool, only a curve with  *)
(* a scale and a shift.  Every operation is a chain of checked_* calls    *)
(* on Balance (u128); a None anywhere yields None, which the callers      *)
(* unwrap -- a panic that reverts their message.  An Option is a record   *)
(* [ok, val] here.                                                         *)
(*                                                                         *)
(* MAX_PRECISION (12) and TRUNCATE_POSITION (6) are constants: the model  *)
(* uses 2 and 1, which keep the branch the integral takes for each curve  *)
(* (Linear: rem_pos = MAX_PRECISION, multiply by 10^0; Quadratic:         *)
(* rem_pos > MAX_PRECISION, divide) and keep values within TLC's range.   *)
(***************************************************************************)
EXTENDS Balance

CONSTANTS
  MaxPrecision,      \* MAX_PRECISION
  TruncatePosition   \* TRUNCATE_POSITION

ASSUME TruncatePosition \in Nat /\ MaxPrecision \in Nat
ASSUME TruncatePosition <= MaxPrecision

\* enum Curve
Curves == {"Quadratic", "Linear"}

None == [ok |-> FALSE, val |-> 0]

\* The Option a chain of checked operations yields: Some(result) when no
\* step left Balance and no divisor was zero, None otherwise.
Checked(steps, divisors, result) ==
  IF /\ \A x \in steps : x \in Balances
     /\ \A y \in divisors : y # 0
  THEN [ok |-> TRUE, val |-> result]
  ELSE None

Precision == 10^MaxPrecision   \* BASE.checked_pow(MAX_PRECISION)

(* Amm::new: shift is the initial price; scale spreads max_price -        *)
(* initial_price over max_supply (its square for Quadratic) in units of   *)
(* 10^-MAX_PRECISION, the remainder divided by max_supply / 10^12 (its    *)
(* square).  An Option of [curve, scale, shift].                           *)
AmmNew(curve, initialPrice, maxPrice, maxSupply) ==
  LET diff == maxPrice - initialPrice
      sq == IF curve = "Linear" THEN maxSupply ELSE maxSupply^2
      unit == IF curve = "Linear" THEN maxSupply \div Precision
              ELSE (maxSupply \div Precision)^2
      quot == (IF sq = 0 THEN 0 ELSE diff \div sq) * Precision
      rem == IF sq = 0 \/ unit = 0 THEN 0 ELSE (diff % sq) \div unit
      made == Checked({Precision, diff, sq, unit, quot, quot + rem},
                      {sq, maxSupply \div Precision, unit}, quot + rem)
  IN [ok |-> made.ok,
      val |-> [curve |-> curve, scale |-> made.val, shift |-> initialPrice]]

\* Amm::exponent
Exponent(amm) == IF amm.curve = "Quadratic" THEN 3 ELSE 2

(* Amm::integral: both bounds are truncated by 10^TRUNCATE_POSITION, the  *)
(* difference of their powers rescaled to 10^-MAX_PRECISION; the result   *)
(* is scale * ((term1 / e + upper - lower) / e) / 10^12 + shift.  shift   *)
(* is added once, whatever the width of the interval.                      *)
Integral(amm, lower, upper) ==
  LET e == Exponent(amm)
      u == upper \div 10^TruncatePosition
      l == lower \div 10^TruncatePosition
      pos == (MaxPrecision - TruncatePosition) * e
      diff == u^e - l^e
      term1 == IF pos > MaxPrecision THEN diff \div 10^(pos - MaxPrecision)
               ELSE diff * 10^(MaxPrecision - pos)
      integral == term1 \div e + (upper - lower)
      product == amm.scale * (integral \div e)
  IN Checked({10^TruncatePosition, u^e, l^e, diff, term1, upper - lower,
              integral, product, product \div Precision + amm.shift},
             {}, product \div Precision + amm.shift)

(* Amm::market_price: scale * s / 10^12 + shift (Linear), scale * s^2 /   *)
(* 10^24 + shift (Quadratic).                                              *)
MarketPrice(amm, supplyReleased) ==
  IF amm.curve = "Linear"
  THEN LET p == amm.scale * supplyReleased
       IN Checked({p, p \div Precision + amm.shift}, {},
                  p \div Precision + amm.shift)
  ELSE LET p == amm.scale * supplyReleased^2
       IN Checked({supplyReleased^2, p, Precision^2,
                   p \div Precision^2 + amm.shift}, {},
                  p \div Precision^2 + amm.shift)

\* Amm::buy: the integral from supply_released to supply_released + amount.
AmmBuy(amm, supplyReleased, amount) ==
  IF supplyReleased + amount \in Balances
  THEN Integral(amm, supplyReleased, supplyReleased + amount)
  ELSE None

\* Amm::sell: the integral from supply_released - amount to supply_released.
AmmSell(amm, supplyReleased, amount) ==
  IF supplyReleased >= amount
  THEN Integral(amm, supplyReleased - amount, supplyReleased)
  ELSE None
==============================================================================
