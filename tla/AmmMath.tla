------------------------------- MODULE AmmMath -------------------------------
(***************************************************************************)
(* The integer arithmetic of the pool: src/program/src/math.rs and the     *)
(* quote formulas that processor.rs builds from it.  Every operator is a   *)
(* function of its arguments, so that it can be checked over bounded       *)
(* inputs (MCAmmMath) and used unchanged by the state machines.            *)
(*                                                                         *)
(* The two tokens of a pool are the members of Side; an amount of each is  *)
(* a function on Side.  In the code's short names x is the pc side and y   *)
(* the coin side.                                                          *)
(*                                                                         *)
(* A checked operation of the code whose failure panics makes the          *)
(* instruction abort; the operators below are used only under the guards   *)
(* that exclude those failures (divisors positive, differences natural).   *)
(***************************************************************************)
EXTENDS Integers, Functions

Side == {"coin", "pc"}

Other(s) == IF s = "coin" THEN "pc" ELSE "coin"

(* An amount of each token. *)
Amount == [Side -> Nat]

Zero == [s \in Side |-> 0]

(* Plausible mistakes in the operators below, each of which breaks one of  *)
(* the properties.                                                         *)
SwapOutRoundedUp(amountIn, total, src) ==
  (total[Other(src)] * amountIn + total[src] + amountIn - 1) \div (total[src] + amountIn)
SwapInRoundedDown(amountOut, total, src) ==
  (total[src] * amountOut) \div (total[Other(src)] - amountOut)
SwapInPlusOne(amountOut, total, src) ==
  (total[src] * amountOut) \div (total[Other(src)] - amountOut) + 1
FeeAddedToInput(amountOut, total, src, fee) ==
  LET in == SwapInPlusOne(amountOut, total, src) IN in + (in * fee.num) \div fee.den
LpWorthRoundedUp(lp, lpTotal, tokenTotal) == (tokenTotal * lp + lpTotal - 1) \div lpTotal
MintRoundedUp(amount, tokenTotal, lpTotal) == (lpTotal * amount + tokenTotal - 1) \div tokenTotal
ShareWithoutFraction(d, fraction) == d
DeltaForgotten(n, x2, fraction, unit, sys) == Zero
RestoreInverted(v, unit, sys) == (v * sys) \div unit

Plus(t, u) == [s \in Side |-> t[s] + u[s]]

Minus(t, u) == [s \in Side |-> t[s] - u[s]]

AtMost(t, u) == \A s \in Side : t[s] <= u[s]

(* What the members of a sequence come to. *)
SumBy(F(_), seq) == SumFunction([i \in DOMAIN seq |-> F(seq[i])])

(* CheckedCeilDiv::checked_ceil_div, first component.  A quotient of zero  *)
(* is rounded to the nearer of 0 and 1 and not upwards.                    *)
CeilDiv(a, b) ==
  LET quotient == a \div b IN
    IF quotient = 0 THEN (IF 2 * a >= b THEN 1 ELSE 0)
    ELSE IF a % b > 0 THEN quotient + 1
    ELSE quotient

(* r is what integer_sqrt returns for n. *)
IsIntegerSqrt(r, n) == r * r <= n /\ n < (r + 1) * (r + 1)

(* Fees::validate accepts a fraction only when it is below one. *)
ValidFraction(f) == f.den # 0 /\ f.num < f.den

Fraction == {f \in [num : Nat, den : Nat] : ValidFraction(f)}

-----------------------------------------------------------------------------
(* Native amounts (in units of 10^-decimals) and normalized ones (in units *)
(* of 1/sys).  unit is 10^decimals of the token.                           *)

NormalizeDecimal(v, unit, sys) == (v * sys) \div unit

RestoreDecimal(v, unit, sys) == (v * unit) \div sys

Normalize(t, unit, sys) == [s \in Side |-> NormalizeDecimal(t[s], unit[s], sys)]

Restore(n, unit, sys) == [s \in Side |-> RestoreDecimal(n[s], unit[s], sys)]

Product(t) == t["pc"] * t["coin"]

(* AmmInfo::initialize: sys_decimal_value is the finer of the two tokens'  *)
(* units, or the market's price tick expressed in coin when that is finer. *)
SysDecimalValue(unit, coinLot, pcLot) ==
  LET finer == IF unit["pc"] > unit["coin"] THEN unit["pc"] ELSE unit["coin"]
      tick == (coinLot * unit["pc"]) \div (pcLot * unit["coin"])
  IN IF finer <= tick THEN tick ELSE finer

-----------------------------------------------------------------------------
(* Swaps.  total holds the reserves without the pnl owed to the protocol;  *)
(* src is the side the user pays in (Coin2PC is "coin").                   *)

SwapTokenAmountBaseIn(amountIn, total, src) ==
  (total[Other(src)] * amountIn) \div (total[src] + amountIn)

SwapTokenAmountBaseOut(amountOut, total, src) ==
  CeilDiv(total[src] * amountOut, total[Other(src)] - amountOut)

(* process_swap_base_in: the fee comes off the amount paid in. *)
SwapFeeIn(amountIn, fee) == CeilDiv(amountIn * fee.num, fee.den)

QuoteBaseIn(amountIn, total, src, fee) ==
  SwapTokenAmountBaseIn(amountIn - SwapFeeIn(amountIn, fee), total, src)

(* process_swap_base_out: the amount the user pays, fee included. *)
QuoteBaseOut(amountOut, total, src, fee) ==
  CeilDiv(SwapTokenAmountBaseOut(amountOut, total, src) * fee.den,
          fee.den - fee.num)

(* What a swap makes of the reserves. *)
After(total, src, in, out) ==
  [s \in Side |-> IF s = src THEN total[s] + in ELSE total[s] - out]

(* simulate_swap_base_in and simulate_swap_base_out quote as the handlers  *)
(* do, and add how far the swap moves the price, which they take as whole  *)
(* pc per coin, in millionths of the price before.                         *)
WholePrice(t) == t["pc"] \div t["coin"]

PriceMoveSwapped(before, after, src) ==
  IF src = "pc" THEN WholePrice(before) - WholePrice(after) ELSE WholePrice(after) - WholePrice(before)

PriceMove(before, after, src) ==
  IF src = "coin" THEN WholePrice(before) - WholePrice(after) ELSE WholePrice(after) - WholePrice(before)

PriceImpact(before, after, src) == (PriceMove(before, after, src) * 1000000) \div WholePrice(before)

(* Its checked operations fail on a price of zero, on no coin left and on  *)
(* a price that moves the other way.                                       *)
SimulationPanics(before, after, src) ==
  after["coin"] = 0 \/ WholePrice(before) = 0 \/ PriceMove(before, after, src) < 0

-----------------------------------------------------------------------------
(* Liquidity. *)

(* InvariantToken::exchange_coin_to_pc and exchange_pc_to_coin, rounded    *)
(* with checked_ceil_div: what goes with amount of side s.                 *)
ExchangeToken(amount, total, s) == CeilDiv(amount * total[Other(s)], total[s])

(* InvariantPool::exchange_token_to_pool, RoundDirection::Floor. *)
ExchangeTokenToPool(amount, tokenTotal, lpTotal) == (lpTotal * amount) \div tokenTotal

(* InvariantPool::exchange_pool_to_token, RoundDirection::Floor. *)
ExchangePoolToToken(lp, lpTotal, tokenTotal) == (tokenTotal * lp) \div lpTotal

(* process_deposit: both sides of a deposit of amount on the base side. *)
DepositDeduct(base, amount, total) ==
  [s \in Side |-> IF s = base THEN amount ELSE ExchangeToken(amount, total, base)]

DepositMint(base, amount, total, lpTotal) ==
  ExchangeTokenToPool(amount, total[base], lpTotal)

(* process_withdraw: both sides of what lp is worth. *)
WithdrawOut(lp, total, lpTotal) ==
  [s \in Side |-> ExchangePoolToToken(lp, lpTotal, total[s])]

-----------------------------------------------------------------------------
(* Processor::calc_take_pnl.  calc is the baseline (calc_pnl_x on the pc   *)
(* side, calc_pnl_y on the coin side), n the normalized reserves (x1, y1)  *)
(* and x2 the integer square root of CalcXPower(calc, n).                  *)

CalcXPower(calc, n) == (calc["pc"] * calc["coin"] * n["pc"]) \div n["coin"]

(* x1 - x2 and y1 - y2, with y2 = x2 * y1 / x1. *)
PnlDiff(n, x2) ==
  [s \in Side |-> IF s = "pc" THEN n["pc"] - x2
                  ELSE n["coin"] - ((x2 * n["coin"]) \div n["pc"])]

ShareOf(d, fraction) == [s \in Side |-> (d[s] * fraction.num) \div fraction.den]

(* Native amounts owed to the protocol; nothing is taken unless both sides *)
(* are positive.                                                           *)
TakePnl(n, x2, fraction, unit, sys) ==
  LET pnl == ShareOf(Restore(PnlDiff(n, x2), unit, sys), fraction) IN
    IF \A s \in Side : pnl[s] # 0 THEN pnl ELSE Zero

(* delta_x and delta_y: the normalized amounts the baseline gives up. *)
TakeDelta(n, x2, fraction, unit, sys) ==
  IF TakePnl(n, x2, fraction, unit, sys) = Zero THEN Zero
  ELSE ShareOf(PnlDiff(n, x2), fraction)

(* The outcomes of the call for native reserves total: at most one, and    *)
(* none when it fails: with CalcPnlError, on a division by zero, on x1 - x2 *)
(* or on the reserves left below zero.                                     *)
TakeOutcomes(total, calc, fraction, unit, sys) ==
  LET n       == Normalize(total, unit, sys)
      covered == /\ Product(total) >= Product(Restore(calc, unit, sys))
                 /\ \A s \in Side : n[s] # 0
      roots   == {x2 \in 0 .. n["pc"] : covered /\ IsIntegerSqrt(x2, CalcXPower(calc, n))}
      taken   == {[pnl   |-> TakePnl(n, x2, fraction, unit, sys),
                   delta |-> TakeDelta(n, x2, fraction, unit, sys)] : x2 \in roots}
  IN {t \in taken : AtMost(t.pnl, total)}
=============================================================================
