---------------------------- MODULE AmmMathLemmas ----------------------------
(***************************************************************************)
(* Facts about the operators of AmmMath, for every value of their          *)
(* arguments, and about sums over finite sets and sequences; the proofs    *)
(* about the state machines cite them by name.                             *)
(***************************************************************************)
EXTENDS AmmMath, Functions, FiniteSetTheorems, SequenceTheorems, WellFoundedInduction, TLAPS

Positive == Nat \ {0}

(* A quotient of naturals is the natural that brackets the dividend. *)
LEMMA DivFloor ==
  ASSUME NEW a \in Nat, NEW b \in Positive
  PROVE  /\ a \div b \in Nat
         /\ b * (a \div b) <= a
         /\ a < b * (a \div b) + b
BY DEF Positive

(* Truncating division is monotonic in the dividend. *)
LEMMA DivMonotonic ==
  ASSUME NEW a \in Nat, NEW c \in Nat, NEW b \in Positive, a <= c
  PROVE  a \div b <= c \div b
BY DEF Positive

(* A proper fraction of an amount is below it (process of every fee and    *)
(* share that Fees::validate admits).                                      *)
LEMMA FractionBelow ==
  ASSUME NEW a \in Nat, NEW f \in Fraction
  PROVE  /\ (a * f.num) \div f.den \in Nat
         /\ (a * f.num) \div f.den <= a
         /\ a # 0 => (a * f.num) \div f.den < a
BY DEF Fraction, ValidFraction

(* The other side of a side. *)
LEMMA OtherSide ==
  ASSUME NEW s \in Side
  PROVE  Other(s) \in Side /\ Other(s) # s /\ Other(Other(s)) = s
BY DEF Side, Other

(* checked_ceil_div returns a natural, and when it does not return zero it *)
(* never rounds down.                                                      *)
LEMMA CeilDivAbove ==
  ASSUME NEW a \in Nat, NEW b \in Positive
  PROVE  /\ CeilDiv(a, b) \in Nat
         /\ CeilDiv(a, b) # 0 => a <= b * CeilDiv(a, b)
<1>1. PICK q \in Nat, r \in Nat :
        a \div b = q /\ a % b = r /\ a = b * q + r /\ r < b
  BY DEF Positive
<1>2. CASE q = 0
  BY <1>1, <1>2 DEF CeilDiv, Positive
<1>3. CASE q # 0 /\ r > 0
  <2>1. CeilDiv(a, b) = q + 1
    BY <1>1, <1>3 DEF CeilDiv
  <2>2. b * (q + 1) = b * q + b
    BY DEF Positive
  <2>3. b * q + r <= b * q + b
    BY <1>1 DEF Positive
  <2> QED
    BY <1>1, <2>1, <2>2, <2>3
<1>4. CASE q # 0 /\ r = 0
  <2>1. CeilDiv(a, b) = q
    BY <1>1, <1>4 DEF CeilDiv
  <2>2. a = b * q
    BY <1>1, <1>4 DEF Positive
  <2>3. a <= b * CeilDiv(a, b)
    BY <2>1, <2>2
  <2> QED
    BY <2>1, <2>3
<1> QED
  BY <1>1, <1>2, <1>3, <1>4

(* ... and it exceeds the truncated quotient by at most one. *)
LEMMA CeilDivBelow ==
  ASSUME NEW a \in Nat, NEW b \in Positive
  PROVE  /\ CeilDiv(a, b) <= a \div b + 1
         /\ a = 0 => CeilDiv(a, b) = 0
<1>1. a \div b \in Nat /\ (a = 0 => a \div b = 0)
  BY DivFloor DEF Positive
<1>2. CeilDiv(a, b) <= a \div b + 1
  BY <1>1 DEF CeilDiv
<1>3. a = 0 => CeilDiv(a, b) = 0
  BY <1>1 DEF CeilDiv, Positive
<1> QED
  BY <1>2, <1>3

(* A conversion to sys units and back never gains. *)
LEMMA RestoreNormalize ==
  ASSUME NEW v \in Nat, NEW unit \in Positive, NEW sys \in Positive
  PROVE  /\ NormalizeDecimal(v, unit, sys) \in Nat
         /\ RestoreDecimal(v, unit, sys) \in Nat
         /\ RestoreDecimal(NormalizeDecimal(v, unit, sys), unit, sys) <= v
<1> DEFINE n == (v * sys) \div unit
<1>1. n \in Nat /\ unit * n <= v * sys
  <2>1. v * sys \in Nat
    BY DEF Positive
  <2> QED
    BY <2>1, DivFloor
<1>2. n * unit \in Nat /\ v * sys \in Nat /\ v * unit \in Nat
  BY <1>1 DEF Positive
<1>3. (n * unit) \div sys \in Nat /\ sys * ((n * unit) \div sys) <= n * unit
  BY <1>2, DivFloor
<1>4. sys * ((n * unit) \div sys) <= sys * v
  BY <1>1, <1>2, <1>3 DEF Positive
<1>5. (n * unit) \div sys <= v
  BY <1>3, <1>4 DEF Positive
<1>6. (v * unit) \div sys \in Nat
  BY <1>2, DivFloor
<1> QED
  BY <1>1, <1>5, <1>6 DEF NormalizeDecimal, RestoreDecimal

(* sys_decimal_value is positive. *)
LEMMA SysPositive ==
  ASSUME NEW unit \in [Side -> Positive], NEW coinLot \in Positive, NEW pcLot \in Positive
  PROVE  SysDecimalValue(unit, coinLot, pcLot) \in Positive
<1>1. unit["coin"] \in Positive /\ unit["pc"] \in Positive
  BY DEF Side
<1>2. coinLot * unit["pc"] \in Nat /\ pcLot * unit["coin"] \in Positive
  BY <1>1 DEF Positive
<1>3. (coinLot * unit["pc"]) \div (pcLot * unit["coin"]) \in Nat
  BY <1>2, DivFloor
<1> QED
  BY <1>1, <1>3 DEF SysDecimalValue, Positive

-----------------------------------------------------------------------------
(* Amounts of both tokens. *)

LEMMA NormalizeType ==
  ASSUME NEW t \in Amount, NEW unit \in [Side -> Positive], NEW sys \in Positive
  PROVE  /\ Normalize(t, unit, sys) \in Amount
         /\ Restore(t, unit, sys) \in Amount
<1>1. \A s \in Side : t[s] \in Nat /\ unit[s] \in Positive
  BY DEF Amount
<1>2. \A s \in Side : NormalizeDecimal(t[s], unit[s], sys) \in Nat
                    /\ RestoreDecimal(t[s], unit[s], sys) \in Nat
  BY <1>1, RestoreNormalize
<1> QED
  BY <1>2 DEF Normalize, Restore, Amount

(* Sums, covered differences and products of amounts stay natural.         *)
LEMMA ArithmeticType ==
  ASSUME NEW t \in Amount, NEW u \in Amount
  PROVE  /\ Plus(t, u) \in Amount
         /\ AtMost(u, t) => Minus(t, u) \in Amount
         /\ Product(t) \in Nat
<1>1. \A s \in Side : t[s] \in Nat /\ u[s] \in Nat
  BY DEF Amount
<1>2. t["pc"] * t["coin"] \in Nat
  BY <1>1 DEF Side
<1> QED
  BY <1>1, <1>2 DEF Plus, Minus, AtMost, Amount, Product

(* The differences x1 - x2 and y1 - y2 of calc_take_pnl are natural as     *)
(* soon as x2 is at most x1.                                               *)
LEMMA PnlDiffType ==
  ASSUME NEW n \in Amount, \A s \in Side : n[s] # 0, NEW x2 \in 0 .. n["pc"]
  PROVE  PnlDiff(n, x2) \in Amount /\ AtMost(PnlDiff(n, x2), n)
<1> DEFINE y2 == (x2 * n["coin"]) \div n["pc"]
<1>1. n["pc"] \in Positive /\ n["coin"] \in Positive /\ x2 \in Nat /\ x2 <= n["pc"]
  BY DEF Amount, Side, Positive
<1>2. x2 * n["coin"] \in Nat /\ x2 * n["coin"] <= n["pc"] * n["coin"]
  BY <1>1 DEF Positive
<1>3. y2 \in Nat /\ n["pc"] * y2 <= n["pc"] * n["coin"]
  <2>1. y2 \in Nat /\ n["pc"] * y2 <= x2 * n["coin"]
    BY <1>1, <1>2, DivFloor
  <2>2. n["pc"] * y2 \in Nat /\ n["pc"] * n["coin"] \in Nat
    BY <1>1, <2>1 DEF Positive
  <2> QED
    BY <1>2, <2>1, <2>2
<1>4. y2 <= n["coin"]
  BY <1>1, <1>3 DEF Positive
<1> QED
  BY <1>1, <1>3, <1>4 DEF PnlDiff, Amount, AtMost, Side, Positive

(* A fraction below one of an amount is below it, so that calc_take_pnl    *)
(* never takes all of a profit.                                            *)
LEMMA ShareOfBelow ==
  ASSUME NEW d \in Amount, NEW f \in Fraction
  PROVE  /\ ShareOf(d, f) \in Amount
         /\ AtMost(ShareOf(d, f), d)
         /\ \A s \in Side : d[s] # 0 => ShareOf(d, f)[s] < d[s]
<1>1. \A s \in Side : d[s] \in Nat
  BY DEF Amount
<1> QED
  BY <1>1, FractionBelow DEF ShareOf, Amount, AtMost

(* The protocol's share is natural, leaves something of every reserve, and *)
(* the baseline's share fits in the normalized reserves.                   *)
LEMMA PnlBounds ==
  ASSUME NEW t \in Amount, NEW unit \in [Side -> Positive], NEW sys \in Positive,
         \A s \in Side : Normalize(t, unit, sys)[s] # 0,
         NEW x2 \in 0 .. Normalize(t, unit, sys)["pc"],
         NEW f \in Fraction
  PROVE  LET n == Normalize(t, unit, sys) IN
           /\ TakePnl(n, x2, f, unit, sys) \in Amount
           /\ \A s \in Side : TakePnl(n, x2, f, unit, sys)[s] < t[s]
           /\ TakeDelta(n, x2, f, unit, sys) \in Amount
           /\ AtMost(TakeDelta(n, x2, f, unit, sys), n)
<1> DEFINE n == Normalize(t, unit, sys)
           d == PnlDiff(n, x2)
           r == Restore(d, unit, sys)
<1>1. n \in Amount /\ \A s \in Side : n[s] # 0
  BY NormalizeType
<1>2. d \in Amount /\ AtMost(d, n)
  BY <1>1, PnlDiffType
<1>3. r \in Amount
  BY <1>2, NormalizeType
<1>4. \A s \in Side : t[s] # 0
  <2> SUFFICES ASSUME NEW s \in Side, t[s] = 0
               PROVE  FALSE
    BY DEF Amount
  <2>1. n[s] = (0 * sys) \div unit[s] /\ unit[s] \in Positive
    BY DEF Normalize, NormalizeDecimal
  <2>2. n[s] = 0
    BY <2>1 DEF Positive
  <2> QED
    BY <1>1, <2>2
<1>5. \A s \in Side : r[s] <= t[s]
  <2> SUFFICES ASSUME NEW s \in Side
               PROVE  r[s] <= t[s]
    OBVIOUS
  <2>1. t[s] \in Nat /\ n[s] \in Nat /\ d[s] \in Nat /\ d[s] <= n[s]
        /\ unit[s] \in Positive
    BY <1>1, <1>2 DEF Amount, AtMost
  <2>2. d[s] * unit[s] \in Nat /\ n[s] * unit[s] \in Nat
        /\ d[s] * unit[s] <= n[s] * unit[s]
    BY <2>1 DEF Positive
  <2>3. (d[s] * unit[s]) \div sys <= (n[s] * unit[s]) \div sys
    BY <2>2, DivMonotonic
  <2>4. RestoreDecimal(NormalizeDecimal(t[s], unit[s], sys), unit[s], sys) <= t[s]
    BY <2>1, RestoreNormalize
  <2>5. r[s] = (d[s] * unit[s]) \div sys
    BY DEF Restore, RestoreDecimal
  <2>6. RestoreDecimal(NormalizeDecimal(t[s], unit[s], sys), unit[s], sys)
          = (n[s] * unit[s]) \div sys
    BY DEF RestoreDecimal, Normalize
  <2>7. r[s] \in Nat /\ (n[s] * unit[s]) \div sys \in Nat
    BY <1>3, <2>2, DivFloor DEF Amount
  <2> QED
    BY <2>1, <2>3, <2>4, <2>5, <2>6, <2>7
<1>6. ShareOf(r, f) \in Amount /\ \A s \in Side : ShareOf(r, f)[s] < t[s]
  BY <1>3, <1>4, <1>5, ShareOfBelow DEF Amount, AtMost
<1>7. ShareOf(d, f) \in Amount /\ AtMost(ShareOf(d, f), n)
  BY <1>1, <1>2, ShareOfBelow DEF Amount, AtMost
<1>8. Zero \in Amount /\ AtMost(Zero, n) /\ \A s \in Side : Zero[s] < t[s]
  BY <1>1, <1>4 DEF Zero, Amount, AtMost
<1> QED
  BY <1>6, <1>7, <1>8 DEF TakePnl, TakeDelta

-----------------------------------------------------------------------------
(* Quotes. *)

(* A fee is at most the amount it is taken from, so that the checked       *)
(* subtraction of process_swap_base_in never fails.                        *)
LEMMA SwapFeeBelow ==
  ASSUME NEW a \in Nat, NEW f \in Fraction
  PROVE  SwapFeeIn(a, f) \in 0 .. a
<1>1. f.num \in Nat /\ f.den \in Positive /\ a * f.num \in Nat
  BY DEF Fraction, ValidFraction, Positive
<1>2. CASE a = 0
  <2>1. a * f.num = 0
    BY <1>1, <1>2
  <2> QED
    BY <1>1, <1>2, <2>1, CeilDivBelow DEF SwapFeeIn
<1>3. CASE a # 0
  <2>1. (a * f.num) \div f.den \in Nat /\ (a * f.num) \div f.den < a
    BY <1>3, FractionBelow
  <2>2. /\ SwapFeeIn(a, f) \in Nat
        /\ SwapFeeIn(a, f) <= (a * f.num) \div f.den + 1
    BY <1>1, CeilDivAbove, CeilDivBelow DEF SwapFeeIn
  <2> QED
    BY <2>1, <2>2
<1> QED
  BY <1>2, <1>3

(* Both swap quotes are naturals while the divisors of the code are        *)
(* positive.                                                               *)
LEMMA SwapQuoteType ==
  ASSUME NEW t \in Amount, \A s \in Side : t[s] # 0,
         NEW a \in Nat, NEW src \in Side, NEW f \in Fraction
  PROVE  /\ QuoteBaseIn(a, t, src, f) \in Nat
         /\ a < t[Other(src)] => QuoteBaseOut(a, t, src, f) \in Nat
<1>1. t[src] \in Positive /\ t[Other(src)] \in Positive
  BY OtherSide DEF Amount, Positive
<1>2. f.num \in Nat /\ f.den \in Positive /\ f.den - f.num \in Positive
  BY DEF Fraction, ValidFraction, Positive
<1>3. QuoteBaseIn(a, t, src, f) \in Nat
  <2>1. a - SwapFeeIn(a, f) \in Nat
    BY SwapFeeBelow
  <2>2. /\ t[Other(src)] * (a - SwapFeeIn(a, f)) \in Nat
        /\ t[src] + (a - SwapFeeIn(a, f)) \in Positive
    BY <1>1, <2>1 DEF Positive
  <2> QED
    BY <2>2, DivFloor DEF QuoteBaseIn, SwapTokenAmountBaseIn
<1>4. ASSUME a < t[Other(src)]
      PROVE  QuoteBaseOut(a, t, src, f) \in Nat
  <2>1. t[src] * a \in Nat /\ t[Other(src)] - a \in Positive
    BY <1>1, <1>4 DEF Positive
  <2>2. SwapTokenAmountBaseOut(a, t, src) \in Nat
    BY <2>1, CeilDivAbove DEF SwapTokenAmountBaseOut
  <2>3. SwapTokenAmountBaseOut(a, t, src) * f.den \in Nat
    BY <1>2, <2>2 DEF Positive
  <2> QED
    BY <1>2, <2>3, CeilDivAbove DEF QuoteBaseOut
<1> QED
  BY <1>3, <1>4

(* What a deposit takes and mints. *)
LEMMA DepositType ==
  ASSUME NEW t \in Amount, NEW base \in Side, t[base] # 0, NEW a \in Nat, NEW lp \in Nat
  PROVE  /\ DepositDeduct(base, a, t) \in Amount
         /\ DepositMint(base, a, t, lp) \in Nat
<1>1. t[base] \in Positive /\ t[Other(base)] \in Nat
  BY OtherSide DEF Amount, Positive
<1>2. a * t[Other(base)] \in Nat /\ lp * a \in Nat
  BY <1>1
<1>3. ExchangeToken(a, t, base) \in Nat
  BY <1>1, <1>2, CeilDivAbove DEF ExchangeToken
<1>4. ExchangeTokenToPool(a, t[base], lp) \in Nat
  BY <1>1, <1>2, DivFloor DEF ExchangeTokenToPool
<1> QED
  BY <1>3, <1>4 DEF DepositDeduct, DepositMint, Amount

(* Whoever redeems less than all of the liquidity leaves a part of every   *)
(* reserve.                                                                *)
LEMMA WithdrawLeaves ==
  ASSUME NEW t \in Amount, \A s \in Side : t[s] # 0,
         NEW lp \in Nat, NEW lpTotal \in Nat, lp < lpTotal
  PROVE  /\ WithdrawOut(lp, t, lpTotal) \in Amount
         /\ \A s \in Side : WithdrawOut(lp, t, lpTotal)[s] < t[s]
<1>1. [num |-> lp, den |-> lpTotal] \in Fraction
  BY DEF Fraction, ValidFraction
<1>2. \A s \in Side : (t[s] * lp) \div lpTotal \in Nat /\ (t[s] * lp) \div lpTotal < t[s]
  BY <1>1, FractionBelow DEF Amount
<1> QED
  BY <1>2 DEF WithdrawOut, ExchangePoolToToken, Amount

-----------------------------------------------------------------------------
(* Swaps keep the product of the reserves. *)

(* If out costs at most the share of the other reserve that paid brings,   *)
(* paying in at least paid does not lower the product.                     *)
LEMMA ProductKept ==
  ASSUME NEW x \in Positive, NEW y \in Positive,
         NEW paid \in Nat, NEW in \in Nat, NEW out \in Nat,
         paid <= in, out < y, out * (x + paid) <= y * paid
  PROVE  x * y <= (x + in) * (y - out)
<1>1. x \in Nat /\ y \in Nat /\ y - out \in Nat
  BY DEF Positive
<1>2. (x + paid) * (y - out) = x * y + y * paid - out * (x + paid)
  BY <1>1
<1>3. x * y <= (x + paid) * (y - out)
  <2>1. out * (x + paid) \in Nat /\ y * paid \in Nat /\ x * y \in Nat
    BY <1>1
  <2> QED
    BY <1>1, <1>2, <2>1
<1>4. (x + paid) * (y - out) <= (x + in) * (y - out)
  <2>1. (x + in) * (y - out) = (x + paid) * (y - out) + (in - paid) * (y - out)
    BY <1>1
  <2>2. (in - paid) * (y - out) \in Nat
    BY <1>1
  <2> QED
    BY <1>1, <2>1, <2>2
<1>5. x * y \in Nat /\ (x + paid) * (y - out) \in Nat /\ (x + in) * (y - out) \in Nat
  BY <1>1
<1> QED
  BY <1>3, <1>4, <1>5

(* process_swap_base_in. *)
LEMMA SwapInKeepsProduct ==
  ASSUME NEW t \in Amount, \A s \in Side : t[s] # 0,
         NEW a \in Nat, NEW src \in Side, NEW f \in Fraction,
         QuoteBaseIn(a, t, src, f) < t[Other(src)]
  PROVE  t[src] * t[Other(src)]
           <= (t[src] + a) * (t[Other(src)] - QuoteBaseIn(a, t, src, f))
<1> DEFINE paid == a - SwapFeeIn(a, f)
           x    == t[src]
           y    == t[Other(src)]
           out  == QuoteBaseIn(a, t, src, f)
<1>1. x \in Positive /\ y \in Positive
  BY OtherSide DEF Amount, Positive
<1>2. paid \in Nat /\ paid <= a
  BY SwapFeeBelow
<1>3. y * paid \in Nat /\ x + paid \in Positive
  BY <1>1, <1>2 DEF Positive
<1>4. out = (y * paid) \div (x + paid)
  BY DEF QuoteBaseIn, SwapTokenAmountBaseIn
<1>5. out \in Nat /\ (x + paid) * out <= y * paid
  BY <1>3, <1>4, DivFloor
<1>6. out * (x + paid) <= y * paid
  BY <1>3, <1>5 DEF Positive
<1> QED
  BY <1>1, <1>2, <1>5, <1>6, ProductKept

(* process_swap_base_out. *)
LEMMA SwapOutKeepsProduct ==
  ASSUME NEW t \in Amount, \A s \in Side : t[s] # 0,
         NEW a \in Nat, NEW src \in Side, NEW f \in Fraction,
         a < t[Other(src)], QuoteBaseOut(a, t, src, f) # 0
  PROVE  t[src] * t[Other(src)]
           <= (t[src] + QuoteBaseOut(a, t, src, f)) * (t[Other(src)] - a)
<1> DEFINE x    == t[src]
           y    == t[Other(src)]
           paid == SwapTokenAmountBaseOut(a, t, src)
           in   == QuoteBaseOut(a, t, src, f)
<1>1. x \in Positive /\ y \in Positive /\ y - a \in Positive
  BY OtherSide DEF Amount, Positive
<1>2. f.num \in Nat /\ f.den \in Positive /\ f.den - f.num \in Positive
  BY DEF Fraction, ValidFraction, Positive
<1>3. x * a \in Nat
  BY <1>1 DEF Positive
<1>4. paid \in Nat /\ (paid # 0 => x * a <= (y - a) * paid)
  BY <1>1, <1>3, CeilDivAbove DEF SwapTokenAmountBaseOut
<1>5. paid * f.den \in Nat
  BY <1>2, <1>4 DEF Positive
<1>6. in \in Nat /\ in # 0 /\ paid * f.den <= (f.den - f.num) * in
  BY <1>2, <1>5, CeilDivAbove DEF QuoteBaseOut
<1>7. paid # 0
  <2> SUFFICES ASSUME paid = 0 PROVE FALSE
    BY <1>4
  <2>1. paid * f.den = 0
    BY <1>2 DEF Positive
  <2> QED
    BY <1>2, <1>6, <2>1, CeilDivBelow DEF QuoteBaseOut
<1>8. paid <= in
  <2>1. (f.den - f.num) * paid <= paid * f.den
    BY <1>2, <1>4 DEF Positive
  <2>2. (f.den - f.num) * paid <= (f.den - f.num) * in
    <3>1. (f.den - f.num) * paid \in Nat /\ (f.den - f.num) * in \in Nat
      BY <1>2, <1>4, <1>6 DEF Positive
    <3> QED
      BY <1>5, <1>6, <2>1, <3>1
  <2> QED
    BY <1>2, <1>4, <1>6, <2>2 DEF Positive
<1>9. a * (x + paid) <= y * paid
  BY <1>1, <1>4, <1>7 DEF Positive
<1> QED
  BY <1>1, <1>4, <1>6, <1>8, <1>9, ProductKept

-----------------------------------------------------------------------------
(* Decimals.  When sys is a multiple of unit, normalizing loses nothing    *)
(* and restoring loses less than one native unit.                          *)

LEMMA DivUnique ==
  ASSUME NEW a \in Nat, NEW b \in Positive, NEW q \in Nat, b * q <= a, a < b * q + b
  PROVE  a \div b = q
BY DEF Positive

(* normalize_decimal and restore_decimal when sys is k units.              *)
LEMMA NormalizeExact ==
  ASSUME NEW v \in Nat, NEW unit \in Positive, NEW k \in Positive
  PROVE  /\ NormalizeDecimal(v, unit, k * unit) = k * v
         /\ RestoreDecimal(v, unit, k * unit) = v \div k
<1>1. unit \in Nat /\ unit > 0 /\ k \in Nat /\ k > 0
  BY DEF Positive
<1>2. NormalizeDecimal(v, unit, k * unit) = k * v
  <2>1. v * (k * unit) = unit * (k * v) /\ k * v \in Nat /\ v * (k * unit) \in Nat
    BY <1>1
  <2>2. (v * (k * unit)) \div unit = k * v
    BY <1>1, <2>1, DivUnique
  <2> QED
    BY <2>2 DEF NormalizeDecimal
<1>3. RestoreDecimal(v, unit, k * unit) = v \div k
  <2> DEFINE q == v \div k
  <2>1. q \in Nat /\ k * q <= v /\ v < k * q + k
    BY DivFloor
  <2>2. v * unit \in Nat /\ k * unit \in Positive
    BY <1>1 DEF Positive
  <2>3. (k * unit) * q <= v * unit /\ v * unit < (k * unit) * q + k * unit
    <3>1. (k * unit) * q = (k * q) * unit /\ (k * unit) * q + k * unit = (k * q + k) * unit
      BY <1>1, <2>1
    <3>2. k * q \in Nat /\ k * q + k \in Nat
      BY <1>1, <2>1
    <3>3. (k * q) * unit <= v * unit /\ v * unit < (k * q + k) * unit
      BY <1>1, <2>1, <3>2
    <3> QED
      BY <3>1, <3>3
  <2> HIDE DEF q
  <2>4. (v * unit) \div (k * unit) = q
    BY <2>1, <2>2, <2>3, DivUnique
  <2> QED
    BY <2>4 DEF RestoreDecimal, q
<1> QED
  BY <1>2, <1>3

(* The normalized share of a profit covers the native share of it.         *)
LEMMA ScaledShare ==
  ASSUME NEW d \in Nat, NEW k \in Positive, NEW f \in Fraction
  PROVE  k * (((d \div k) * f.num) \div f.den) <= (d * f.num) \div f.den
<1> DEFINE q == d \div k
           p == (q * f.num) \div f.den
           r == (d * f.num) \div f.den
<1>1. f.num \in Nat /\ f.den \in Nat /\ f.den > 0 /\ f.den \in Positive /\ k \in Nat /\ k > 0
  BY DEF Fraction, ValidFraction, Positive
<1>2. q \in Nat /\ k * q <= d
  BY DivFloor
<1>3. q * f.num \in Nat /\ d * f.num \in Nat
  BY <1>1, <1>2
<1>4. p \in Nat /\ f.den * p <= q * f.num
  BY <1>1, <1>3, DivFloor
<1>5. r \in Nat /\ d * f.num < f.den * r + f.den
  BY <1>1, <1>3, DivFloor
<1> HIDE DEF q, p, r
<1>6. k * p \in Nat /\ f.den * (k * p) <= d * f.num
  <2>1. f.den * (k * p) = k * (f.den * p) /\ k * p \in Nat
    BY <1>1, <1>4
  <2>2. f.den * p \in Nat /\ k * (f.den * p) <= k * (q * f.num)
    BY <1>1, <1>3, <1>4
  <2>3. k * (q * f.num) = (k * q) * f.num /\ k * q \in Nat
    BY <1>1, <1>2
  <2>4. (k * q) * f.num <= d * f.num
    BY <1>1, <1>2, <2>3
  <2>5. f.den * (k * p) \in Nat /\ k * (q * f.num) \in Nat
    BY <1>1, <1>3, <2>1
  <2> QED
    BY <1>3, <2>1, <2>2, <2>3, <2>4, <2>5
<1>7. f.den * (k * p) < f.den * (r + 1)
  <2>1. f.den * (r + 1) = f.den * r + f.den /\ f.den * (r + 1) \in Nat /\ f.den * (k * p) \in Nat
    BY <1>1, <1>5, <1>6
  <2> QED
    BY <1>3, <1>5, <1>6, <2>1
<1>8. k * p < r + 1
  BY <1>1, <1>5, <1>6, <1>7
<1> QED
  BY <1>5, <1>6, <1>8 DEF q, p, r

(* Larger reserves have a larger product. *)
LEMMA ProductMonotonic ==
  ASSUME NEW t \in Amount, NEW u \in Amount, AtMost(t, u)
  PROVE  Product(t) <= Product(u)
<1>1. \A s \in Side : t[s] \in Nat /\ u[s] \in Nat /\ t[s] <= u[s]
  BY DEF Amount, AtMost
<1>2. /\ t["pc"] \in Nat /\ t["coin"] \in Nat /\ u["pc"] \in Nat /\ u["coin"] \in Nat
      /\ t["pc"] <= u["pc"] /\ t["coin"] <= u["coin"]
  BY <1>1 DEF Side
<1>3. t["pc"] * t["coin"] <= u["pc"] * t["coin"] /\ u["pc"] * t["coin"] <= u["pc"] * u["coin"]
  BY <1>2
<1>4. t["pc"] * t["coin"] \in Nat /\ u["pc"] * t["coin"] \in Nat /\ u["pc"] * u["coin"] \in Nat
  BY <1>2
<1> QED
  BY <1>3, <1>4 DEF Product

(* integer_sqrt has a result, and one below any bound whose square is.     *)
LEMMA IntegerSqrtExists ==
  ASSUME NEW n \in Nat, NEW top \in Nat, n <= top * top
  PROVE  \E r \in 0 .. top : IsIntegerSqrt(r, n)
<1> DEFINE above == {r \in Nat : n < (r + 1) * (r + 1)}
<1>1. top \in above
  <2>1. (top + 1) * (top + 1) = top * top + 2 * top + 1 /\ top * top \in Nat
    BY SMT
  <2> QED
    BY <2>1
<1>2. PICK r \in above : \A y \in above : ~(<<y, r>> \in OpToRel(<, Nat))
  <2>1. above \subseteq Nat /\ above # {}
    BY <1>1
  <2> HIDE DEF above
  <2> QED
    BY <2>1, NatLessThanWellFounded, WFMin
<1>3. \A y \in above : ~(y < r)
  BY <1>2 DEF OpToRel
<1>4. r \in Nat /\ n < (r + 1) * (r + 1)
  OBVIOUS
<1>5. r <= top
  BY <1>1, <1>3, <1>4
<1>6. r * r <= n
  <2>1. CASE r = 0
    BY <2>1
  <2>2. CASE r # 0
    <3>1. r - 1 \in Nat /\ r - 1 \notin above
      BY <1>3, <1>4, <2>2
    <3>2. ~(n < ((r - 1) + 1) * ((r - 1) + 1))
      BY <3>1
    <3>3. (r - 1) + 1 = r /\ r * r \in Nat
      BY <1>4
    <3> QED
      BY <3>2, <3>3
  <2> QED
    BY <2>1, <2>2
<1> QED
  BY <1>4, <1>5, <1>6 DEF IsIntegerSqrt

(* While the normalized reserves cover the baseline, x2 is at most x1.     *)
LEMMA RootFits ==
  ASSUME NEW calc \in Amount, NEW n \in Amount, \A s \in Side : n[s] # 0,
         Product(calc) <= Product(n)
  PROVE  \E x2 \in 0 .. n["pc"] : IsIntegerSqrt(x2, CalcXPower(calc, n))
<1> DEFINE x == n["pc"]
           y == n["coin"]
           c == calc["pc"] * calc["coin"]
<1>1. x \in Nat /\ y \in Positive /\ c \in Nat
  <2>1. x \in Nat /\ y \in Nat /\ y # 0 /\ calc["pc"] \in Nat /\ calc["coin"] \in Nat
    BY DEF Amount, Side
  <2> QED
    BY <2>1 DEF Positive
<1>2. c <= x * y
  BY DEF Product
<1> HIDE DEF c
<1>3. c * x \in Nat /\ c * x <= y * (x * x)
  <2>1. c * x <= (x * y) * x /\ (x * y) * x = y * (x * x)
    BY <1>1, <1>2 DEF Positive
  <2> QED
    BY <1>1, <2>1 DEF Positive
<1>4. (c * x) \div y \in Nat /\ y * ((c * x) \div y) <= c * x
  BY <1>1, <1>3, DivFloor
<1>5. (c * x) \div y <= x * x
  <2> DEFINE v == (c * x) \div y
  <2>1. v \in Nat /\ y * v <= y * (x * x)
    <3>1. y * v \in Nat /\ y * (x * x) \in Nat
      BY <1>1, <1>4 DEF Positive
    <3> QED
      BY <1>3, <1>4, <3>1
  <2> HIDE DEF v
  <2>2. v <= x * x
    BY <1>1, <2>1 DEF Positive
  <2> QED
    BY <2>2 DEF v
<1>6. CalcXPower(calc, n) = (c * x) \div y
  BY DEF CalcXPower, c
<1> QED
  BY <1>1, <1>4, <1>5, <1>6, IntegerSqrtExists

-----------------------------------------------------------------------------
(* Induction, stated of a set T where the library's theorems have an       *)
(* operator: T holds everything if it holds what its smaller parts imply.  *)
LEMMA LeastNatural ==
  ASSUME NEW T, T \subseteq Nat, T # {}
  PROVE  \E m \in T : \A k \in T : m <= k
<1>1. PICK m \in T : \A y \in T : ~(<<y, m>> \in OpToRel(<, Nat))
  BY NatLessThanWellFounded, WFMin
<1>2. \A y \in T : ~(y < m)
  BY <1>1 DEF OpToRel
<1> QED
  BY <1>2

LEMMA NatSetInduction ==
  ASSUME NEW T, 0 \in T, \A n \in Nat : n \in T => n + 1 \in T
  PROVE  Nat \subseteq T
<1> DEFINE out == Nat \ T
<1> SUFFICES ASSUME out # {} PROVE FALSE
  OBVIOUS
<1>1. out \subseteq Nat
  OBVIOUS
<1> HIDE DEF out
<1>2. PICK m \in out : \A k \in out : m <= k
  BY <1>1, LeastNatural
<1>3. m \in Nat /\ m # 0
  BY <1>1, <1>2 DEF out
<1>4. m - 1 \in Nat /\ m - 1 \notin out
  BY <1>2, <1>3
<1>5. (m - 1) + 1 \in T /\ (m - 1) + 1 = m
  BY <1>3, <1>4 DEF out
<1> QED
  BY <1>5 DEF out

LEMMA FiniteSetInduction ==
  ASSUME NEW D, IsFiniteSet(D), NEW T,
         \A s \in SUBSET D : (\A x \in s : s \ {x} \in T) => s \in T
  PROVE  SUBSET D \subseteq T
<1> SUFFICES ASSUME NEW r \in SUBSET D, r \notin T PROVE FALSE
  OBVIOUS
<1> DEFINE sizes == {n \in Nat : \E s \in SUBSET D : s \notin T /\ Cardinality(s) = n}
<1>1. \A s \in SUBSET D : IsFiniteSet(s) /\ Cardinality(s) \in Nat
  BY FS_Subset, FS_CardinalityType
<1>2. sizes # {} /\ sizes \subseteq Nat
  BY <1>1
<1>3. PICK m \in sizes : \A k \in sizes : m <= k
  <2> HIDE DEF sizes
  <2> QED
    BY <1>2, LeastNatural
<1>4. PICK s \in SUBSET D : s \notin T /\ Cardinality(s) = m
  OBVIOUS
<1>5. PICK x \in s : s \ {x} \notin T
  BY <1>4
<1> DEFINE t == s \ {x}
<1>6. t \in SUBSET D /\ t \notin T
  BY <1>5
<1>7. Cardinality(t) \in Nat /\ Cardinality(t) = m - 1 /\ m \in Nat
  BY <1>1, <1>4, FS_RemoveElement
<1>8. Cardinality(t) \in sizes
  BY <1>6, <1>7
<1> HIDE DEF sizes, t
<1> QED
  BY <1>3, <1>7, <1>8

LEMMA SequenceInduction ==
  ASSUME NEW S, NEW T, <<>> \in T, \A s \in Seq(S), e \in S : s \in T => Append(s, e) \in T
  PROVE  Seq(S) \subseteq T
<1> DEFINE good == {n \in Nat : \A s \in Seq(S) : Len(s) = n => s \in T}
<1>1. 0 \in good
  BY EmptySeq
<1>2. ASSUME NEW n \in Nat, n \in good PROVE n + 1 \in good
  <2> SUFFICES ASSUME NEW s \in Seq(S), Len(s) = n + 1 PROVE s \in T
    OBVIOUS
  <2>1. s # <<>>
    OBVIOUS
  <2>2. PICK r \in Seq(S), e \in S : s = Append(r, e)
    BY <2>1, SequenceEmptyOrAppend
  <2>3. Len(s) = Len(r) + 1 /\ Len(r) \in Nat
    BY <2>2, AppendProperties, LenProperties
  <2>4. Len(r) = n
    BY <2>3
  <2>5. r \in T
    BY <1>2, <2>4
  <2> QED
    BY <2>2, <2>5
<1>3. Nat \subseteq good
  <2> HIDE DEF good
  <2> QED
    BY <1>1, <1>2, NatSetInduction
<1> QED
  BY <1>3, LenProperties

-----------------------------------------------------------------------------
(* The sum of a function over a finite set.  SumFunctionOnSet folds in an  *)
(* order that CHOOSE fixes; the lemmas end in SumRemove, by which any      *)
(* member may come first.                                                  *)
First(s) == CHOOSE x \in s : TRUE

Unrolled(f, s, h) == IF s = {} THEN 0 ELSE f[First(s)] + h[s \ {First(s)}]

PartialSums(f, domain, h) == h = [s \in domain |-> Unrolled(f, s, h)]

LEMMA FirstIsMember ==
  ASSUME NEW s, s # {} PROVE First(s) \in s
BY DEF First

LEMMA SumUnrolls ==
  ASSUME NEW f, NEW D
  PROVE  SumFunctionOnSet(f, D) = (CHOOSE h : PartialSums(f, SUBSET D, h))[D]
BY DEF SumFunctionOnSet, FoldFunctionOnSet, MapThenFoldSet, PartialSums, Unrolled, First

(* The recursion of the fold has a solution.                               *)
LEMMA SumsExist ==
  ASSUME NEW f, NEW D, IsFiniteSet(D)
  PROVE  \E h : PartialSums(f, SUBSET D, h)
<1> DEFINE Small(n) == {s \in SUBSET D : Cardinality(s) <= n}
           good == {n \in Nat : \E h : PartialSums(f, Small(n), h)}
<1>1. \A s \in SUBSET D : IsFiniteSet(s) /\ Cardinality(s) \in Nat /\ Cardinality(s) <= Cardinality(D)
  BY FS_Subset, FS_CardinalityType
<1>2. 0 \in good
  <2> DEFINE h == [s \in Small(0) |-> 0]
  <2>1. \A s \in Small(0) : s = {}
    BY <1>1, FS_EmptySet
  <2>2. PartialSums(f, Small(0), h)
    BY <2>1 DEF PartialSums, Unrolled
  <2> QED
    BY <2>2
<1>3. ASSUME NEW n \in Nat, n \in good PROVE n + 1 \in good
  <2>1. PICK h : PartialSums(f, Small(n), h)
    BY <1>3
  <2> DEFINE k == [s \in Small(n + 1) |-> Unrolled(f, s, h)]
  <2>2. ASSUME NEW s \in Small(n + 1), s # {}
        PROVE  s \ {First(s)} \in Small(n) /\ s \ {First(s)} \in Small(n + 1)
    <3>1. IsFiniteSet(s) /\ First(s) \in s
      BY <1>1, <2>2, FirstIsMember
    <3>2. Cardinality(s \ {First(s)}) = Cardinality(s) - 1
      BY <3>1, FS_RemoveElement
    <3> QED
      BY <1>1, <3>2
  <2>3. ASSUME NEW s \in Small(n) PROVE h[s] = Unrolled(f, s, h)
    <3> HIDE DEF Small
    <3> QED
      BY <2>1, <2>3 DEF PartialSums
  <2>4. ASSUME NEW s \in Small(n + 1) PROVE Unrolled(f, s, h) = Unrolled(f, s, k)
    <3>1. CASE s = {}
      BY <3>1 DEF Unrolled
    <3>2. CASE s # {}
      <4>1. k[s \ {First(s)}] = h[s \ {First(s)}]
        BY <2>2, <2>3, <3>2
      <4> QED
        BY <3>2, <4>1 DEF Unrolled
    <3> QED
      BY <3>1, <3>2
  <2>5. PartialSums(f, Small(n + 1), k)
    BY <2>4 DEF PartialSums
  <2>6. n + 1 \in Nat
    OBVIOUS
  <2> HIDE DEF Small, k
  <2>7. \E g : PartialSums(f, Small(n + 1), g)
    BY <2>5
  <2> QED
    BY <2>6, <2>7
<1>4. Cardinality(D) \in good
  <2> HIDE DEF good
  <2> QED
    BY <1>2, <1>3, NatSetInduction, FS_CardinalityType
<1>5. Small(Cardinality(D)) = SUBSET D
  BY <1>1
<1> QED
  BY <1>4, <1>5

(* Where two functions agree, so do their sums, whatever larger sets the   *)
(* folds were started on.                                                  *)
LEMMA PartialSumsAgree ==
  ASSUME NEW f, NEW g, NEW D, NEW E, NEW h, NEW k,
         PartialSums(f, SUBSET D, h), PartialSums(g, SUBSET E, k),
         NEW S, S \subseteq D, S \subseteq E, IsFiniteSet(S), \A x \in S : f[x] = g[x]
  PROVE  h[S] = k[S]
<1> DEFINE same == {s \in SUBSET S : h[s] = k[s]}
<1>1. ASSUME NEW s \in SUBSET S, \A x \in s : s \ {x} \in same
      PROVE  s \in same
  <2>1. h[s] = Unrolled(f, s, h) /\ k[s] = Unrolled(g, s, k)
    BY DEF PartialSums
  <2>2. CASE s = {}
    BY <2>1, <2>2 DEF Unrolled
  <2>3. CASE s # {}
    <3>1. First(s) \in s
      BY <2>3, FirstIsMember
    <3>2. f[First(s)] = g[First(s)] /\ h[s \ {First(s)}] = k[s \ {First(s)}]
      BY <1>1, <3>1
    <3> QED
      BY <2>1, <2>3, <3>2 DEF Unrolled
  <2> QED
    BY <2>2, <2>3
<1>2. SUBSET S \subseteq same
  <2> HIDE DEF same
  <2> QED
    BY <1>1, FiniteSetInduction
<1> QED
  BY <1>2

(* A sum is that of the solution.                                          *)
LEMMA SumIsSolution ==
  ASSUME NEW f, NEW D, IsFiniteSet(D)
  PROVE  \E h : PartialSums(f, SUBSET D, h) /\ SumFunctionOnSet(f, D) = h[D]
<1> DEFINE h == CHOOSE h : PartialSums(f, SUBSET D, h)
<1>1. PartialSums(f, SUBSET D, h)
  BY SumsExist
<1>2. SumFunctionOnSet(f, D) = h[D]
  BY SumUnrolls
<1> QED
  BY <1>1, <1>2

LEMMA SumCongruent ==
  ASSUME NEW f, NEW g, NEW D, IsFiniteSet(D), \A x \in D : f[x] = g[x]
  PROVE  SumFunctionOnSet(f, D) = SumFunctionOnSet(g, D)
<1>1. PICK h : PartialSums(f, SUBSET D, h) /\ SumFunctionOnSet(f, D) = h[D]
  BY SumIsSolution
<1>2. PICK k : PartialSums(g, SUBSET D, k) /\ SumFunctionOnSet(g, D) = k[D]
  BY SumIsSolution
<1> QED
  BY <1>1, <1>2, PartialSumsAgree

LEMMA SumEmpty ==
  ASSUME NEW f PROVE SumFunctionOnSet(f, {}) = 0
<1>1. PICK h : PartialSums(f, SUBSET {}, h) /\ SumFunctionOnSet(f, {}) = h[{}]
  BY SumIsSolution, FS_EmptySet
<1> QED
  BY <1>1 DEF PartialSums, Unrolled

LEMMA SumFirst ==
  ASSUME NEW f, NEW D, IsFiniteSet(D), D # {}
  PROVE  SumFunctionOnSet(f, D) = f[First(D)] + SumFunctionOnSet(f, D \ {First(D)})
<1> DEFINE E == D \ {First(D)}
<1>1. PICK h : PartialSums(f, SUBSET D, h) /\ SumFunctionOnSet(f, D) = h[D]
  BY SumIsSolution
<1>2. IsFiniteSet(E) /\ E \subseteq D
  BY FS_RemoveElement
<1>3. PICK k : PartialSums(f, SUBSET E, k) /\ SumFunctionOnSet(f, E) = k[E]
  BY <1>2, SumIsSolution
<1>4. h[E] = k[E]
  <2> HIDE DEF E
  <2> QED
    BY <1>1, <1>2, <1>3, PartialSumsAgree
<1>5. h[D] = Unrolled(f, D, h)
  BY <1>1 DEF PartialSums
<1> QED
  BY <1>1, <1>3, <1>4, <1>5 DEF Unrolled

LEMMA SumInt ==
  ASSUME NEW f, NEW D, IsFiniteSet(D), \A x \in D : f[x] \in Int
  PROVE  SumFunctionOnSet(f, D) \in Int
<1> DEFINE ints == {s \in SUBSET D : SumFunctionOnSet(f, s) \in Int}
<1>1. ASSUME NEW s \in SUBSET D, \A x \in s : s \ {x} \in ints
      PROVE  s \in ints
  <2>1. CASE s = {}
    BY <2>1, SumEmpty
  <2>2. CASE s # {}
    <3>1. IsFiniteSet(s) /\ First(s) \in s
      BY <2>2, FirstIsMember, FS_Subset
    <3>2. SumFunctionOnSet(f, s) = f[First(s)] + SumFunctionOnSet(f, s \ {First(s)})
      BY <2>2, <3>1, SumFirst
    <3>3. f[First(s)] \in Int /\ SumFunctionOnSet(f, s \ {First(s)}) \in Int
      BY <1>1, <3>1
    <3> QED
      BY <3>2, <3>3
  <2> QED
    BY <2>1, <2>2
<1>2. SUBSET D \subseteq ints
  <2> HIDE DEF ints
  <2> QED
    BY <1>1, FiniteSetInduction
<1> QED
  BY <1>2

LEMMA SumRemove ==
  ASSUME NEW f, NEW D, IsFiniteSet(D), \A x \in D : f[x] \in Int, NEW a \in D
  PROVE  SumFunctionOnSet(f, D) = f[a] + SumFunctionOnSet(f, D \ {a})
<1> DEFINE Sum(s) == SumFunctionOnSet(f, s)
           any == {s \in SUBSET D : \A x \in s : Sum(s) = f[x] + Sum(s \ {x})}
<1>1. \A s \in SUBSET D : IsFiniteSet(s) /\ Sum(s) \in Int
  BY FS_Subset, SumInt
<1>2. ASSUME NEW s \in SUBSET D, \A x \in s : s \ {x} \in any
      PROVE  s \in any
  <2> SUFFICES ASSUME NEW x \in s PROVE Sum(s) = f[x] + Sum(s \ {x})
    OBVIOUS
  <2> DEFINE p == First(s)
             rest == Sum((s \ {p}) \ {x})
  <2>1. p \in s /\ Sum(s) = f[p] + Sum(s \ {p})
    BY <1>1, FirstIsMember, SumFirst
  <2>2. CASE x = p
    BY <2>1, <2>2
  <2>3. CASE x # p
    <3>1. Sum(s \ {p}) = f[x] + rest
      BY <1>2, <2>1, <2>3
    <3>2. Sum(s \ {x}) = f[p] + Sum((s \ {x}) \ {p})
      BY <1>2, <2>1, <2>3
    <3>3. (s \ {x}) \ {p} = (s \ {p}) \ {x}
      OBVIOUS
    <3>4. f[x] \in Int /\ f[p] \in Int /\ rest \in Int
      BY <1>1, <2>1
    <3>5. Sum(s \ {x}) = f[p] + rest
      BY <3>2, <3>3
    <3> HIDE DEF Sum, rest, p
    <3>6. f[p] + (f[x] + rest) = f[x] + (f[p] + rest)
      BY <3>4
    <3> QED
      BY <2>1, <3>1, <3>5, <3>6
  <2> QED
    BY <2>2, <2>3
<1>3. SUBSET D \subseteq any
  <2> HIDE DEF any
  <2> QED
    BY <1>2, FiniteSetInduction
<1> QED
  BY <1>3

-----------------------------------------------------------------------------
(* The sum of the weights that w gives to the members of a sequence.       *)
Weight(w, seq) == SumFunction([i \in DOMAIN seq |-> w[seq[i]]])

LEMMA WeightEmpty ==
  ASSUME NEW w PROVE Weight(w, <<>>) = 0
<1> DEFINE f == [i \in DOMAIN <<>> |-> w[<<>>[i]]]
<1>1. DOMAIN f = {}
  OBVIOUS
<1> HIDE DEF f
<1> QED
  BY <1>1, SumEmpty DEF Weight, SumFunction, f

LEMMA WeightInt ==
  ASSUME NEW S, NEW w \in [S -> Int], NEW seq \in Seq(S)
  PROVE  Weight(w, seq) \in Int
<1> DEFINE f == [i \in DOMAIN seq |-> w[seq[i]]]
<1>1. DOMAIN seq = 1 .. Len(seq) /\ Len(seq) \in Nat /\ \A i \in DOMAIN seq : seq[i] \in S
  BY LenProperties, ElementOfSeq
<1>2. DOMAIN f = DOMAIN seq /\ \A i \in DOMAIN seq : f[i] \in Int
  BY <1>1
<1>3. IsFiniteSet(DOMAIN seq)
  BY <1>1, FS_Interval
<1> HIDE DEF f
<1>4. SumFunctionOnSet(f, DOMAIN f) \in Int
  BY <1>2, <1>3, SumInt
<1> QED
  BY <1>4 DEF Weight, SumFunction, f

LEMMA WeightAppend ==
  ASSUME NEW S, NEW w \in [S -> Int], NEW seq \in Seq(S), NEW e \in S
  PROVE  Weight(w, Append(seq, e)) = Weight(w, seq) + w[e]
<1> DEFINE n    == Len(seq)
           both == Append(seq, e)
           f    == [i \in DOMAIN seq |-> w[seq[i]]]
           g    == [i \in DOMAIN both |-> w[both[i]]]
           lo   == 1 .. n
           hi   == 1 .. n + 1
<1>1. /\ DOMAIN seq = 1 .. n /\ n \in Nat /\ \A i \in 1 .. n : seq[i] \in S
      /\ both \in Seq(S) /\ Len(both) = n + 1
      /\ \A i \in 1 .. n : both[i] = seq[i]
      /\ both[n + 1] = e
  BY LenProperties, ElementOfSeq, AppendProperties
<1>2. DOMAIN both = 1 .. n + 1
  BY <1>1, LenProperties
<1>3. DOMAIN f = lo /\ DOMAIN g = hi /\ (\A i \in lo : f[i] = g[i]) /\ g[n + 1] = w[e]
  BY <1>1, <1>2
<1>4. \A i \in hi : g[i] \in Int
  BY <1>1, <1>2
<1>5. IsFiniteSet(hi) /\ IsFiniteSet(lo) /\ n + 1 \in hi /\ hi \ {n + 1} = lo /\ lo \subseteq hi
  <2>1. n \in Int /\ n + 1 \in Int /\ 1 \in Int
    BY <1>1
  <2> HIDE DEF n
  <2>2. IsFiniteSet(hi) /\ IsFiniteSet(lo)
    BY <2>1, FS_Interval
  <2> QED
    BY <1>1, <2>1, <2>2 DEF n
<1> HIDE DEF f, g, n, lo, hi
<1>6. SumFunctionOnSet(g, hi) = g[n + 1] + SumFunctionOnSet(g, lo)
  <2>1. SumFunctionOnSet(g, hi) = g[n + 1] + SumFunctionOnSet(g, hi \ {n + 1})
    BY <1>4, <1>5, SumRemove
  <2> QED
    BY <1>5, <2>1
<1>7. SumFunctionOnSet(f, lo) = SumFunctionOnSet(g, lo) /\ SumFunctionOnSet(g, lo) \in Int
  <2>1. \A i \in lo : g[i] \in Int
    BY <1>4, <1>5
  <2> QED
    BY <1>3, <1>5, <2>1, SumCongruent, SumInt
<1>8. SumFunctionOnSet(g, hi) = SumFunctionOnSet(f, lo) + w[e]
  <2>1. w[e] \in Int
    OBVIOUS
  <2> QED
    BY <1>3, <1>6, <1>7, <2>1
<1> QED
  BY <1>3, <1>8 DEF Weight, SumFunction, f, g

LEMMA WeightOne ==
  ASSUME NEW S, NEW w \in [S -> Int], NEW e \in S
  PROVE  <<e>> \in Seq(S) /\ Weight(w, <<e>>) = w[e]
<1>1. <<>> \in Seq(S) /\ Append(<<>>, e) = <<e>>
  OBVIOUS
<1>2. Weight(w, Append(<<>>, e)) = Weight(w, <<>>) + w[e]
  BY <1>1, WeightAppend
<1>3. w[e] \in Int
  OBVIOUS
<1> QED
  BY <1>1, <1>2, <1>3, WeightEmpty

LEMMA WeightConcat ==
  ASSUME NEW S, NEW w \in [S -> Int], NEW s \in Seq(S), NEW t \in Seq(S)
  PROVE  Weight(w, s \o t) = Weight(w, s) + Weight(w, t)
<1> DEFINE adds == {u \in Seq(S) : Weight(w, s \o u) = Weight(w, s) + Weight(w, u)}
<1>1. <<>> \in adds
  <2>1. s \o <<>> = s /\ Weight(w, <<>>) = 0 /\ Weight(w, s) \in Int /\ <<>> \in Seq(S)
    BY ConcatEmptySeq, WeightEmpty, WeightInt
  <2> QED
    BY <2>1
<1>2. ASSUME NEW u \in Seq(S), NEW e \in S, u \in adds
      PROVE  Append(u, e) \in adds
  <2>1. s \o u \in Seq(S) /\ Append(u, e) \in Seq(S) /\ <<e>> \in Seq(S)
    BY ConcatProperties, AppendProperties
  <2>2. s \o Append(u, e) = Append(s \o u, e)
    BY <2>1, AppendIsConcat, ConcatAssociative
  <2>3. Weight(w, Append(s \o u, e)) = Weight(w, s \o u) + w[e]
    BY <2>1, WeightAppend
  <2>4. Weight(w, Append(u, e)) = Weight(w, u) + w[e]
    BY WeightAppend
  <2>5. Weight(w, s) \in Int /\ Weight(w, u) \in Int /\ w[e] \in Int
    BY WeightInt
  <2>6. Weight(w, s \o u) = Weight(w, s) + Weight(w, u)
    BY <1>2
  <2>7. Weight(w, s \o Append(u, e)) = Weight(w, s) + Weight(w, Append(u, e))
    BY <2>2, <2>3, <2>4, <2>5, <2>6
  <2> QED
    BY <2>1, <2>7
<1>3. Seq(S) \subseteq adds
  <2> HIDE DEF adds
  <2> QED
    BY <1>1, <1>2, SequenceInduction
<1> QED
  BY <1>3

(* Weights of the parts of a sequence: its head and its tail, ...          *)
LEMMA WeightTail ==
  ASSUME NEW S, NEW w \in [S -> Int], NEW seq \in Seq(S), seq # <<>>
  PROVE  /\ Head(seq) \in S /\ Tail(seq) \in Seq(S)
         /\ Weight(w, seq) = w[Head(seq)] + Weight(w, Tail(seq))
<1>1. Len(seq) \in Nat /\ Len(seq) >= 1
  BY EmptySeq
<1>2. Head(seq) \in S /\ Tail(seq) \in Seq(S) /\ Head(seq) = seq[1] /\ Tail(seq) = SubSeq(seq, 2, Len(seq))
  BY HeadTailProperties, TailIsSubSeq
<1>3. SubSeq(seq, 1, Len(seq)) = seq /\ SubSeq(seq, 1, Len(seq)) = <<seq[1]>> \o SubSeq(seq, 1 + 1, Len(seq))
  BY <1>1, SubSeqFull, SubSeqRecursiveFirst
<1>4. <<Head(seq)>> \in Seq(S) /\ seq = <<Head(seq)>> \o Tail(seq)
  BY <1>2, <1>3
<1>5. Weight(w, <<Head(seq)>>) = w[Head(seq)]
  <2> DEFINE e == Head(seq)
  <2>1. e \in S
    BY <1>2
  <2> HIDE DEF e
  <2>2. Weight(w, <<e>>) = w[e]
    BY <2>1, WeightOne, ZenonT(40)
  <2> QED
    BY <2>2 DEF e
<1> QED
  BY <1>2, <1>4, <1>5, WeightConcat

(* ... a prefix and the rest, ...                                          *)
LEMMA WeightSplit ==
  ASSUME NEW S, NEW w \in [S -> Int], NEW seq \in Seq(S), NEW n \in 0 .. Len(seq)
  PROVE  /\ SubSeq(seq, 1, n) \in Seq(S) /\ SubSeq(seq, n + 1, Len(seq)) \in Seq(S)
         /\ Len(SubSeq(seq, 1, n)) = n
         /\ Weight(w, seq) = Weight(w, SubSeq(seq, 1, n)) + Weight(w, SubSeq(seq, n + 1, Len(seq)))
<1>1. Len(seq) \in Nat /\ \A i \in 1 .. Len(seq) : seq[i] \in S
  BY LenProperties, ElementOfSeq
<1>2. SubSeq(seq, 1, n) \in Seq(S) /\ SubSeq(seq, n + 1, Len(seq)) \in Seq(S) /\ Len(SubSeq(seq, 1, n)) = n
  BY <1>1, SubSeqProperties
<1>3. SubSeq(seq, 1, n) \o SubSeq(seq, n + 1, Len(seq)) = SubSeq(seq, 1, Len(seq))
  <2>1. 1 \in 1 .. Len(seq) + 1 /\ n \in 1 - 1 .. Len(seq) /\ Len(seq) \in n .. Len(seq)
    BY <1>1
  <2> QED
    BY <2>1, ConcatAdjacentSubSeq
<1>4. SubSeq(seq, 1, Len(seq)) = seq
  BY SubSeqFull
<1> QED
  BY <1>2, <1>3, <1>4, WeightConcat, ZenonT(40)

(* ... and what is before one of its members, that member and the rest.    *)
Around(S, w, seq, i) ==
  /\ seq[i] \in S
  /\ SubSeq(seq, 1, i - 1) \in Seq(S) /\ SubSeq(seq, i + 1, Len(seq)) \in Seq(S)
  /\ Len(SubSeq(seq, 1, i - 1)) = i - 1 /\ Len(SubSeq(seq, i + 1, Len(seq))) = Len(seq) - i
  /\ Weight(w, seq) = Weight(w, SubSeq(seq, 1, i - 1)) + w[seq[i]]
                         + Weight(w, SubSeq(seq, i + 1, Len(seq)))

LEMMA WeightAround ==
  ASSUME NEW S, NEW w \in [S -> Int], NEW seq \in Seq(S), NEW i \in 1 .. Len(seq)
  PROVE  Around(S, w, seq, i)
<1> DEFINE front == SubSeq(seq, 1, i)
           first == SubSeq(seq, 1, i - 1)
           last  == SubSeq(seq, i + 1, Len(seq))
<1>1. Len(seq) \in Nat /\ seq[i] \in S /\ i \in 0 .. Len(seq) /\ i - 1 \in 0 .. Len(seq)
      /\ \A j \in i + 1 .. Len(seq) : seq[j] \in S
  BY LenProperties, ElementOfSeq
<1>2. front \in Seq(S) /\ last \in Seq(S) /\ Weight(w, seq) = Weight(w, front) + Weight(w, last)
  BY <1>1, WeightSplit, SMTT(30)
<1>3. front = first \o <<seq[i]>> /\ first \in Seq(S) /\ Len(first) = i - 1
  BY <1>1, SubSeqRecursiveSecond, WeightSplit
<1>4. Len(last) = Len(seq) - i
  BY <1>1, SubSeqProperties
<1>5. Weight(w, front) = Weight(w, first) + w[seq[i]]
  <2>1. <<seq[i]>> \in Seq(S) /\ Weight(w, <<seq[i]>>) = w[seq[i]]
    BY <1>1, WeightOne
  <2> HIDE DEF front, first
  <2> QED
    BY <1>3, <2>1, WeightConcat
<1> HIDE DEF front, first, last
<1> QED
  BY <1>1, <1>2, <1>3, <1>4, <1>5 DEF first, last, Around

(* Where every weight is natural, so is the sum, and no member weighs more *)
(* than all.                                                               *)
LEMMA WeightNat ==
  ASSUME NEW S, NEW w \in [S -> Nat], NEW seq \in Seq(S)
  PROVE  /\ Weight(w, seq) \in Nat
         /\ \A i \in 1 .. Len(seq) : w[seq[i]] <= Weight(w, seq)
<1>1. w \in [S -> Int]
  OBVIOUS
<1> DEFINE nats == {u \in Seq(S) : Weight(w, u) \in Nat}
<1>2. <<>> \in nats
  BY WeightEmpty
<1>3. ASSUME NEW u \in Seq(S), NEW e \in S, u \in nats
      PROVE  Append(u, e) \in nats
  <2>1. Weight(w, Append(u, e)) = Weight(w, u) + w[e] /\ w[e] \in Nat /\ Append(u, e) \in Seq(S)
    BY <1>1, WeightAppend
  <2> QED
    BY <1>3, <2>1
<1>4. Seq(S) \subseteq nats
  <2> HIDE DEF nats
  <2> QED
    BY <1>2, <1>3, SequenceInduction
<1>5. ASSUME NEW i \in 1 .. Len(seq)
      PROVE  w[seq[i]] <= Weight(w, seq)
  <2> DEFINE first == SubSeq(seq, 1, i - 1)
             last  == SubSeq(seq, i + 1, Len(seq))
  <2>1. /\ seq[i] \in S /\ first \in Seq(S) /\ last \in Seq(S)
        /\ Weight(w, seq) = Weight(w, first) + w[seq[i]] + Weight(w, last)
    BY <1>1, WeightAround, SMTT(30) DEF Around
  <2>2. Weight(w, first) \in Nat /\ Weight(w, last) \in Nat /\ w[seq[i]] \in Nat
    BY <1>4, <2>1
  <2> HIDE DEF first, last
  <2> QED
    BY <2>1, <2>2
<1> QED
  BY <1>4, <1>5

(* Weights that are the same for all members, ...                          *)
LEMMA WeightConstant ==
  ASSUME NEW S, NEW w \in [S -> Int], NEW seq \in Seq(S), NEW c \in Int,
         \A i \in 1 .. Len(seq) : w[seq[i]] = c
  PROVE  Weight(w, seq) = c * Len(seq)
<1> DEFINE good == {n \in Nat : n <= Len(seq) => Weight(w, SubSeq(seq, 1, n)) = c * n}
<1>1. Len(seq) \in Nat /\ \A i \in 1 .. Len(seq) : seq[i] \in S
  BY LenProperties, ElementOfSeq
<1>2. 0 \in good
  <2>1. SubSeq(seq, 1, 0) = <<>> /\ c * 0 = 0 /\ 0 \in Nat
    BY SubSeqEmpty
  <2>2. Weight(w, SubSeq(seq, 1, 0)) = c * 0
    BY <2>1, WeightEmpty
  <2> QED
    BY <2>1, <2>2
<1>3. ASSUME NEW n \in Nat, n \in good PROVE n + 1 \in good
  <2> SUFFICES ASSUME n + 1 <= Len(seq) PROVE Weight(w, SubSeq(seq, 1, n + 1)) = c * (n + 1)
    OBVIOUS
  <2>1. n + 1 \in 1 .. Len(seq) /\ 1 \in 1 .. Len(seq) /\ n + 1 \in 1 .. Len(seq) /\ n \in 0 .. Len(seq)
    BY <1>1
  <2>2. SubSeq(seq, 1, n + 1) = SubSeq(seq, 1, n) \o <<seq[n + 1]>>
    BY <2>1, SubSeqRecursiveSecond
  <2>3. SubSeq(seq, 1, n) \in Seq(S) /\ seq[n + 1] \in S /\ w[seq[n + 1]] = c
    BY <1>1, <2>1, WeightSplit
  <2>4. Weight(w, SubSeq(seq, 1, n + 1)) = Weight(w, SubSeq(seq, 1, n)) + c
    <3> DEFINE first == SubSeq(seq, 1, n)
    <3>1. first \in Seq(S) /\ <<seq[n + 1]>> \in Seq(S) /\ Weight(w, <<seq[n + 1]>>) = c
      BY <2>3, WeightOne
    <3>2. SubSeq(seq, 1, n + 1) = first \o <<seq[n + 1]>>
      BY <2>2
    <3> HIDE DEF first
    <3>3. Weight(w, first \o <<seq[n + 1]>>) = Weight(w, first) + c
      BY <3>1, WeightConcat
    <3> QED
      BY <3>2, <3>3 DEF first
  <2>5. Weight(w, SubSeq(seq, 1, n)) = c * n /\ c * (n + 1) = c * n + c
    BY <1>1, <1>3
  <2> QED
    BY <2>4, <2>5
<1>4. Len(seq) \in good
  <2> HIDE DEF good
  <2> QED
    BY <1>1, <1>2, <1>3, NatSetInduction
<1>5. Weight(w, SubSeq(seq, 1, Len(seq))) = c * Len(seq)
  BY <1>1, <1>4
<1>6. SubSeq(seq, 1, Len(seq)) = seq
  BY SubSeqFull
<1> QED
  BY <1>5, <1>6

(* ... and weights that are the difference of two others.                  *)
IsDifference(w, u, v, S) ==
  /\ u \in [S -> Int] /\ v \in [S -> Int] /\ w \in [S -> Int]
  /\ \A e \in S : w[e] = u[e] - v[e]

LEMMA WeightMinus ==
  ASSUME NEW S, NEW u, NEW v, NEW w, NEW seq \in Seq(S), IsDifference(w, u, v, S)
  PROVE  Weight(w, seq) = Weight(u, seq) - Weight(v, seq)
<1> DEFINE good == {s \in Seq(S) : Weight(w, s) = Weight(u, s) - Weight(v, s)}
<1>0. /\ u \in [S -> Int] /\ v \in [S -> Int] /\ w \in [S -> Int]
      /\ \A e \in S : w[e] = u[e] - v[e]
  BY DEF IsDifference
<1>1. <<>> \in good
  BY WeightEmpty
<1>2. ASSUME NEW s \in Seq(S), NEW e \in S, s \in good
      PROVE  Append(s, e) \in good
  <2>1. /\ Weight(u, Append(s, e)) = Weight(u, s) + u[e]
        /\ Weight(v, Append(s, e)) = Weight(v, s) + v[e]
        /\ Weight(w, Append(s, e)) = Weight(w, s) + w[e]
    BY <1>0, WeightAppend
  <2>2. Weight(u, s) \in Int /\ Weight(v, s) \in Int /\ u[e] \in Int /\ v[e] \in Int
    BY <1>0, WeightInt
  <2>3. w[e] = u[e] - v[e] /\ Weight(w, s) = Weight(u, s) - Weight(v, s)
    BY <1>0, <1>2
  <2> QED
    BY <2>1, <2>2, <2>3
<1>3. Seq(S) \subseteq good
  <2> HIDE DEF good
  <2> QED
    BY <1>1, <1>2, SequenceInduction
<1> QED
  BY <1>3
-----------------------------------------------------------------------------
(* The protocol's share of a profit, against the baseline.                 *)

(* Less than half of something, and not nothing, is at most as its double  *)
(* plus one says.                                                          *)
LEMMA MinorPart ==
  ASSUME NEW a \in Nat, NEW f \in Fraction, 2 * f.num < f.den, (a * f.num) \div f.den # 0
  PROVE  /\ (a * f.num) \div f.den \in Positive
         /\ 2 * ((a * f.num) \div f.den) + 1 <= a
<1> DEFINE part == (a * f.num) \div f.den
<1>1. f.num \in Nat /\ f.den \in Positive /\ a * f.num \in Nat
  BY DEF Fraction, ValidFraction, Positive
<1>2. part \in Nat /\ f.den * part <= a * f.num
  BY <1>1, DivFloor
<1>3. part # 0
  OBVIOUS
<1> HIDE DEF part
<1>4. a # 0
  <2>1. f.den * part # 0 /\ f.den * part \in Nat
    BY <1>1, <1>2, <1>3 DEF Positive
  <2> QED
    BY <1>1, <1>2, <2>1
<1>5. f.den * (2 * part) < f.den * a
  <2>1. f.den * (2 * part) = 2 * (f.den * part) /\ f.den * part \in Nat
    BY <1>1, <1>2 DEF Positive
  <2>2. 2 * (a * f.num) = a * (2 * f.num)
    BY <1>1
  <2>3. a * (2 * f.num) < a * f.den
    BY <1>1, <1>4 DEF Positive
  <2>4. a * (2 * f.num) \in Nat /\ a * f.den \in Nat /\ a * f.den = f.den * a
    BY <1>1 DEF Positive
  <2> QED
    BY <1>1, <1>2, <2>1, <2>2, <2>3, <2>4
<1>6. 2 * part < a
  <2>1. 2 * part \in Nat
    BY <1>2
  <2> QED
    BY <1>1, <1>5, <2>1 DEF Positive
<1> QED
  BY <1>2, <1>3, <1>6 DEF Positive, part

(* Reserves x and y, of which x2 is the root r and y2 the quotient q, less *)
(* minor parts of what they have grown by.  In units of y / x the side y   *)
(* keeps half of the growth a of the side x and more, the rounding of q    *)
(* taken off; either half is above what the root lost to its rounding.     *)
LEMMA CutKeepsProduct ==
  ASSUME NEW x \in Positive, NEW y \in Positive, NEW r \in Nat, r <= x,
         NEW q \in Nat, x * q <= r * y, r * y < x * q + x,
         NEW da \in Positive, 2 * da + 1 <= x - r,
         NEW db \in Positive, 2 * db + 1 <= y - q
  PROVE  (r + 1) * (r + 1) * y <= (x - da) * (y - db) * x
<1> DEFINE a == x - r
           A == x - da
           B == y - db
<1>1. /\ x \in Nat /\ y \in Nat /\ x > 0 /\ y > 0 /\ da \in Nat /\ db \in Nat /\ da >= 1 /\ db >= 1
  BY DEF Positive
<1>2. a \in Nat /\ a >= 3 /\ A \in Nat /\ 2 * A >= 2 * r + a + 1 /\ A >= r + 2
  BY <1>1
<1>3. B \in Nat /\ 2 * B >= q + y + 1 /\ B >= q + 2
  BY <1>1
<1>4. /\ x * q \in Nat /\ r * y \in Nat /\ x * y \in Nat /\ x * B \in Nat
      /\ x * y = r * y + a * y /\ a * y \in Nat
  BY <1>1, <1>2, <1>3
<1> HIDE DEF A, B, a
<1>5. CASE y <= x
  <2>1. (r + 1) * y <= x * B
    <3>1. x * (q + 2) <= x * B
      BY <1>1, <1>3
    <3>2. x * (q + 2) = x * q + 2 * x /\ (r + 1) * y = r * y + y
      BY <1>1
    <3>3. x * (q + 2) \in Nat /\ (r + 1) * y \in Nat
      BY <1>1
    <3> QED
      BY <1>1, <1>4, <1>5, <3>1, <3>2, <3>3
  <2>2. (r + 1) * ((r + 1) * y) <= (r + 1) * (x * B)
    BY <1>1, <1>4, <2>1
  <2>3. (r + 1) * (x * B) <= A * (x * B)
    BY <1>2, <1>4
  <2>4. (r + 1) * ((r + 1) * y) = (r + 1) * (r + 1) * y /\ A * (x * B) = A * B * x
    BY <1>1, <1>2, <1>3
  <2>5. (r + 1) * ((r + 1) * y) \in Nat /\ (r + 1) * (x * B) \in Nat /\ A * (x * B) \in Nat
    BY <1>1, <1>2, <1>4
  <2> QED
    BY <2>2, <2>3, <2>4, <2>5 DEF A, B
<1>6. CASE x < y
  <2> DEFINE m == 2 * r + a
  <2>1. m \in Nat /\ m >= 3 /\ m - 1 \in Nat /\ 2 * A >= m + 1
    BY <1>2
  <2>2. (m - 1) * y <= 2 * (x * B)
    <3>1. x * (q + y + 1) <= x * (2 * B)
      BY <1>1, <1>3
    <3>2. x * (q + y + 1) = x * q + x * y + x /\ x * (2 * B) = 2 * (x * B)
      BY <1>1, <1>3
    <3>3. (m - 1) * y = 2 * (r * y) + a * y - y
      BY <1>1, <1>2
    <3> HIDE DEF m
    <3>4. x * (q + y + 1) \in Nat /\ (m - 1) * y \in Nat
      BY <1>1, <2>1
    <3> QED
      BY <1>1, <1>4, <1>6, <3>1, <3>2, <3>3, <3>4
  <2> HIDE DEF m
  <2>3. (m + 1) * ((m - 1) * y) <= (2 * A) * (2 * (x * B))
    <3>1. (m - 1) * y \in Nat /\ 2 * (x * B) \in Nat /\ 2 * A \in Nat /\ m + 1 \in Nat
      BY <1>1, <1>2, <1>4, <2>1
    <3>2. (m + 1) * ((m - 1) * y) <= (m + 1) * (2 * (x * B))
      BY <2>2, <3>1
    <3>3. (m + 1) * (2 * (x * B)) <= (2 * A) * (2 * (x * B))
      BY <2>1, <3>1
    <3>4. /\ (m + 1) * ((m - 1) * y) \in Nat /\ (m + 1) * (2 * (x * B)) \in Nat
          /\ (2 * A) * (2 * (x * B)) \in Nat
      BY <3>1
    <3> QED
      BY <3>2, <3>3, <3>4
  <2>4. 4 * ((r + 1) * (r + 1)) <= (m + 1) * (m - 1)
    <3>1. m >= 2 * r + 3
      BY <1>2 DEF m
    <3>2. 2 * r + 4 <= m + 1 /\ 2 * r + 2 <= m - 1
      BY <2>1, <3>1
    <3>3. (2 * r + 4) * (2 * r + 2) <= (m + 1) * (2 * r + 2)
      BY <2>1, <3>2
    <3>4. (m + 1) * (2 * r + 2) <= (m + 1) * (m - 1)
      BY <2>1, <3>2
    <3>5. (2 * r + 4) * (2 * r + 2) = 4 * ((r + 1) * (r + 1)) + 4 * r + 4
      OBVIOUS
    <3>6. /\ (m + 1) * (2 * r + 2) \in Nat /\ (m + 1) * (m - 1) \in Nat
          /\ (r + 1) * (r + 1) \in Nat /\ (2 * r + 4) * (2 * r + 2) \in Nat
      BY <2>1
    <3> QED
      BY <3>3, <3>4, <3>5, <3>6
  <2>5. 4 * ((r + 1) * (r + 1)) * y <= (m + 1) * (m - 1) * y
    <3>1. 4 * ((r + 1) * (r + 1)) \in Nat /\ (m + 1) * (m - 1) \in Nat
      BY <2>1
    <3> QED
      BY <1>1, <2>4, <3>1
  <2>6. /\ 4 * ((r + 1) * (r + 1)) * y = 4 * ((r + 1) * (r + 1) * y)
        /\ (m + 1) * (m - 1) * y = (m + 1) * ((m - 1) * y)
        /\ (2 * A) * (2 * (x * B)) = 4 * (A * B * x)
    BY <1>1, <1>2, <1>3, <2>1
  <2>7. (r + 1) * (r + 1) * y \in Nat /\ (m + 1) * ((m - 1) * y) \in Nat /\ A * B * x \in Nat
    BY <1>1, <1>2, <1>3, <2>1
  <2> QED
    BY <2>3, <2>5, <2>6, <2>7 DEF A, B
<1> QED
  BY <1>1, <1>5, <1>6
(* The baseline that is left when a minor share of the profit is taken of  *)
(* both sides still covers the old one.                                    *)
LEMMA ShareKeepsBaseline ==
  ASSUME NEW calc \in Amount, NEW n \in Amount, \A s \in Side : n[s] # 0,
         NEW x2 \in 0 .. n["pc"], IsIntegerSqrt(x2, CalcXPower(calc, n)),
         NEW f \in Fraction, 2 * f.num < f.den,
         \A s \in Side : ShareOf(PnlDiff(n, x2), f)[s] # 0
  PROVE  Product(calc) <= Product(Minus(n, ShareOf(PnlDiff(n, x2), f)))
<1> DEFINE x == n["pc"]
           y == n["coin"]
           c == calc["pc"] * calc["coin"]
           q == (x2 * y) \div x
           d == PnlDiff(n, x2)
           da == ShareOf(d, f)["pc"]
           db == ShareOf(d, f)["coin"]
<1>1. x \in Positive /\ y \in Positive /\ c \in Nat /\ x2 \in Nat /\ x2 <= x
  <2>1. x \in Nat /\ y \in Nat /\ calc["pc"] \in Nat /\ calc["coin"] \in Nat /\ x # 0 /\ y # 0
    BY DEF Amount, Side
  <2> QED
    BY <2>1 DEF Positive
<1>2. q \in Nat /\ x * q <= x2 * y /\ x2 * y < x * q + x
  <2>1. x2 * y \in Nat
    BY <1>1 DEF Positive
  <2> QED
    BY <1>1, <2>1, DivFloor
<1>3. d["pc"] = x - x2 /\ d["coin"] = y - q /\ d \in Amount
  BY <1>1, PnlDiffType DEF PnlDiff, Side
<1>4. d["pc"] \in Nat /\ d["coin"] \in Nat
  BY <1>3 DEF Amount, Side
<1>5. /\ da = (d["pc"] * f.num) \div f.den /\ da # 0
      /\ db = (d["coin"] * f.num) \div f.den /\ db # 0
  BY DEF ShareOf, Side
<1> HIDE DEF d, da, db
<1>6. /\ da \in Positive /\ 2 * da + 1 <= x - x2
      /\ db \in Positive /\ 2 * db + 1 <= y - q
  BY <1>3, <1>4, <1>5, MinorPart
<1> HIDE DEF q
<1>7. (x2 + 1) * (x2 + 1) * y <= (x - da) * (y - db) * x
  BY <1>1, <1>2, <1>6, CutKeepsProduct
<1>8. c * x < (x2 + 1) * (x2 + 1) * y
  <2> DEFINE v == (c * x) \div y
             top == (x2 + 1) * (x2 + 1)
  <2>1. c * x \in Nat
    BY <1>1 DEF Positive
  <2>2. v \in Nat /\ c * x < y * v + y
    BY <1>1, <2>1, DivFloor
  <2>3. v < top
    BY DEF IsIntegerSqrt, CalcXPower
  <2>4. top \in Nat
    BY <1>1
  <2> HIDE DEF v, top
  <2>5. y * (v + 1) <= y * top
    BY <1>1, <2>2, <2>3, <2>4 DEF Positive
  <2>6. y * (v + 1) = y * v + y /\ y * top = top * y /\ y * (v + 1) \in Nat /\ y * top \in Nat
    BY <1>1, <2>2, <2>4 DEF Positive
  <2> QED
    BY <2>1, <2>2, <2>5, <2>6 DEF top
<1>9. c < (x - da) * (y - db)
  <2> DEFINE left == (x - da) * (y - db)
             bound == (x2 + 1) * (x2 + 1) * y
  <2>1. x - da \in Nat /\ y - db \in Nat /\ left \in Nat
    <3>1. x - da \in Nat /\ y - db \in Nat
      BY <1>1, <1>2, <1>6 DEF Positive
    <3> QED
      BY <3>1
  <2>2. bound \in Nat /\ c * x \in Nat
    BY <1>1 DEF Positive
  <2>3. c * x < bound /\ bound <= left * x
    BY <1>7, <1>8
  <2> HIDE DEF left, bound
  <2>4. left * x \in Nat
    BY <1>1, <2>1 DEF Positive
  <2>5. c * x < left * x
    BY <2>2, <2>3, <2>4
  <2>6. c < left
    BY <1>1, <2>1, <2>5 DEF Positive
  <2> QED
    BY <2>6 DEF left
<1>10. Product(Minus(n, ShareOf(d, f))) = (x - da) * (y - db)
  BY DEF Product, Minus, Side, da, db
<1>11. x - da \in Nat /\ y - db \in Nat /\ (x - da) * (y - db) \in Nat
  <2>1. x - da \in Nat /\ y - db \in Nat
    BY <1>1, <1>2, <1>6 DEF Positive
  <2> QED
    BY <2>1
<1> QED
  BY <1>1, <1>9, <1>10, <1>11 DEF Product, d

(* The normalized share of a profit exceeds the native share of it by less *)
(* than two native units.                                                  *)
LEMMA ShareSlack ==
  ASSUME NEW d \in Nat, NEW k \in Positive, NEW f \in Fraction
  PROVE  (d * f.num) \div f.den <= k * (((d \div k) * f.num) \div f.den) + 2 * k - 2
<1> DEFINE q == d \div k
           p == (q * f.num) \div f.den
           r == (d * f.num) \div f.den
<1>1. /\ f.num \in Nat /\ f.den \in Nat /\ f.num <= f.den - 1 /\ f.den \in Positive /\ f.den >= 1
      /\ k \in Nat /\ k >= 1 /\ k - 1 \in Nat
  BY DEF Fraction, ValidFraction, Positive
<1>2. q \in Nat /\ d <= k * q + (k - 1)
  BY <1>1, DivFloor
<1>3. q * f.num \in Nat /\ d * f.num \in Nat /\ k * q \in Nat
  BY <1>1, <1>2
<1>4. p \in Nat /\ q * f.num <= f.den * p + (f.den - 1)
  BY <1>1, <1>3, DivFloor
<1>5. r \in Nat /\ f.den * r <= d * f.num
  BY <1>1, <1>3, DivFloor
<1> HIDE DEF q, p, r
<1>6. d * f.num <= k * (q * f.num) + (k - 1) * f.num
  <2>1. d * f.num <= (k * q + (k - 1)) * f.num
    BY <1>1, <1>2, <1>3
  <2>2. (k * q + (k - 1)) * f.num = k * (q * f.num) + (k - 1) * f.num
    BY <1>1, <1>2
  <2> QED
    BY <2>1, <2>2
<1>7. k * (q * f.num) <= k * (f.den * p + (f.den - 1)) /\ (k - 1) * f.num <= (k - 1) * (f.den - 1)
  <2> DEFINE v == f.den * p + (f.den - 1)
             w == q * f.num
  <2>1. v \in Nat /\ w \in Nat /\ w <= v
    BY <1>1, <1>3, <1>4
  <2> HIDE DEF v, w
  <2>2. k * w <= k * v
    BY <1>1, <2>1
  <2>3. (k - 1) * f.num <= (k - 1) * (f.den - 1)
    BY <1>1
  <2> QED
    BY <2>2, <2>3 DEF v, w
<1>8. k * (f.den * p + (f.den - 1)) + (k - 1) * (f.den - 1) = f.den * (k * p + 2 * k - 1) - 2 * k + 1
  BY <1>1, <1>4
<1>9. f.den * r < f.den * (k * p + 2 * k - 1)
  <2>1. k * (q * f.num) \in Nat /\ (k - 1) * f.num \in Nat /\ f.den * r \in Nat
    BY <1>1, <1>3, <1>5
  <2>2. k * (f.den * p + (f.den - 1)) \in Nat /\ (k - 1) * (f.den - 1) \in Nat
    <3>1. f.den * p + (f.den - 1) \in Nat /\ f.den - 1 \in Nat
      BY <1>1, <1>4
    <3> QED
      BY <1>1, <3>1
  <2>3. f.den * (k * p + 2 * k - 1) \in Nat
    <3>1. k * p + 2 * k - 1 \in Nat
      BY <1>1, <1>4
    <3> QED
      BY <1>1, <3>1
  <2> QED
    BY <1>1, <1>3, <1>6, <1>7, <1>8, <1>5, <2>1, <2>2, <2>3
<1>10. r < k * p + 2 * k - 1
  <2> DEFINE top == k * p + 2 * k - 1
  <2>1. top \in Nat /\ f.den * r < f.den * top
    BY <1>1, <1>4, <1>9
  <2> HIDE DEF top
  <2>2. r < top
    BY <1>1, <1>5, <2>1
  <2> QED
    BY <2>2 DEF top
<1>11. k * p \in Nat
  BY <1>1, <1>4
<1> QED
  BY <1>1, <1>5, <1>10, <1>11 DEF q, p, r

(* Amounts that keep pace with the shares on each side keep pace in their  *)
(* product, share for share.                                               *)
LEMMA ShareForShare ==
  ASSUME NEW t \in Amount, NEW u \in Amount, NEW old \in Nat, NEW new \in Nat,
         \A s \in Side : t[s] * new <= u[s] * old
  PROVE  Product(t) * new * new <= Product(u) * old * old
<1>1. /\ t["pc"] \in Nat /\ t["coin"] \in Nat /\ u["pc"] \in Nat /\ u["coin"] \in Nat
      /\ t["pc"] * new <= u["pc"] * old /\ t["coin"] * new <= u["coin"] * old
  BY DEF Amount, Side
<1>2. /\ t["pc"] * new \in Nat /\ t["coin"] * new \in Nat
      /\ u["pc"] * old \in Nat /\ u["coin"] * old \in Nat
  BY <1>1
<1>3. /\ (t["pc"] * new) * (t["coin"] * new) <= (u["pc"] * old) * (t["coin"] * new)
      /\ (u["pc"] * old) * (t["coin"] * new) <= (u["pc"] * old) * (u["coin"] * old)
  BY <1>1, <1>2
<1>4. /\ (t["pc"] * new) * (t["coin"] * new) = t["pc"] * t["coin"] * new * new
      /\ (u["pc"] * old) * (u["coin"] * old) = u["pc"] * u["coin"] * old * old
  BY <1>1
<1>5. /\ (t["pc"] * new) * (t["coin"] * new) \in Nat /\ (u["pc"] * old) * (t["coin"] * new) \in Nat
      /\ (u["pc"] * old) * (u["coin"] * old) \in Nat
  BY <1>2
<1> QED
  BY <1>3, <1>4, <1>5 DEF Product
-----------------------------------------------------------------------------
(* Units.  Where a native unit is a whole number of normalized ones,       *)
(* normalizing is exact and restoring truncates.                           *)
WholeUnits(unit, sys) ==
  /\ unit \in [Side -> Positive] /\ sys \in Positive
  /\ \A s \in Side : sys % unit[s] = 0

ScaleOf(unit, sys) == [s \in Side |-> sys \div unit[s]]

LEMMA WholeScale ==
  ASSUME NEW unit, NEW sys, WholeUnits(unit, sys)
  PROVE  \A s \in Side : /\ ScaleOf(unit, sys)[s] \in Positive /\ unit[s] \in Positive
                         /\ sys = ScaleOf(unit, sys)[s] * unit[s]
<1> SUFFICES ASSUME NEW s \in Side
             PROVE  /\ ScaleOf(unit, sys)[s] \in Positive /\ unit[s] \in Positive
                    /\ sys = ScaleOf(unit, sys)[s] * unit[s]
  OBVIOUS
<1>1. unit[s] \in Positive /\ sys \in Positive /\ sys % unit[s] = 0
  BY DEF WholeUnits
<1>2. ScaleOf(unit, sys)[s] = sys \div unit[s]
  BY DEF ScaleOf
<1>3. sys \div unit[s] \in Nat /\ sys = (sys \div unit[s]) * unit[s]
  BY <1>1 DEF Positive
<1>4. sys \div unit[s] # 0
  BY <1>1, <1>3 DEF Positive
<1> QED
  BY <1>1, <1>2, <1>3, <1>4 DEF Positive

LEMMA WholeAmounts ==
  ASSUME NEW unit, NEW sys, WholeUnits(unit, sys), NEW t \in Amount, NEW s \in Side
  PROVE  /\ Normalize(t, unit, sys)[s] = ScaleOf(unit, sys)[s] * t[s]
         /\ Restore(t, unit, sys)[s] = t[s] \div ScaleOf(unit, sys)[s]
<1> DEFINE k == ScaleOf(unit, sys)[s]
<1>1. t[s] \in Nat /\ k \in Positive /\ unit[s] \in Positive /\ sys = k * unit[s]
  BY WholeScale DEF Amount
<1>2. /\ Normalize(t, unit, sys)[s] = NormalizeDecimal(t[s], unit[s], sys)
      /\ Restore(t, unit, sys)[s] = RestoreDecimal(t[s], unit[s], sys)
  BY DEF Normalize, Restore
<1> HIDE DEF k
<1>3. /\ NormalizeDecimal(t[s], unit[s], k * unit[s]) = k * t[s]
      /\ RestoreDecimal(t[s], unit[s], k * unit[s]) = t[s] \div k
  BY <1>1, NormalizeExact
<1> QED
  BY <1>1, <1>2, <1>3 DEF k

(* The products before and after a conversion. *)
LEMMA WholeProduct ==
  ASSUME NEW unit, NEW sys, WholeUnits(unit, sys), NEW t \in Amount
  PROVE  LET scale == ScaleOf(unit, sys)["pc"] * ScaleOf(unit, sys)["coin"] IN
           /\ scale \in Positive
           /\ Product(Normalize(t, unit, sys)) = scale * Product(t)
           /\ scale * Product(Restore(t, unit, sys)) <= Product(t)
<1> DEFINE p == ScaleOf(unit, sys)["pc"]
           c == ScaleOf(unit, sys)["coin"]
           r == Restore(t, unit, sys)
<1>1. /\ p \in Positive /\ c \in Positive /\ t["pc"] \in Nat /\ t["coin"] \in Nat
      /\ Normalize(t, unit, sys)["pc"] = p * t["pc"]
      /\ Normalize(t, unit, sys)["coin"] = c * t["coin"]
      /\ r["pc"] = t["pc"] \div p /\ r["coin"] = t["coin"] \div c
  BY WholeScale, WholeAmounts DEF Amount, Side
<1> HIDE DEF p, c
<1>2. p * c \in Positive
  BY <1>1 DEF Positive
<1>3. Product(Normalize(t, unit, sys)) = (p * c) * Product(t)
  <2>1. (p * t["pc"]) * (c * t["coin"]) = (p * c) * (t["pc"] * t["coin"])
    BY <1>1 DEF Positive
  <2> QED
    BY <1>1, <2>1 DEF Product
<1>4. (p * c) * Product(r) <= Product(t)
  <2>1. /\ r["pc"] \in Nat /\ p * r["pc"] <= t["pc"]
        /\ r["coin"] \in Nat /\ c * r["coin"] <= t["coin"]
    BY <1>1, DivFloor
  <2>2. (p * c) * (r["pc"] * r["coin"]) = (p * r["pc"]) * (c * r["coin"])
    BY <1>1, <2>1 DEF Positive
  <2>3. p * r["pc"] \in Nat /\ c * r["coin"] \in Nat
    BY <1>1, <2>1 DEF Positive
  <2>4. (p * r["pc"]) * (c * r["coin"]) <= t["pc"] * t["coin"]
    <3>1. (p * r["pc"]) * (c * r["coin"]) <= t["pc"] * (c * r["coin"])
      BY <1>1, <2>1, <2>3
    <3>2. t["pc"] * (c * r["coin"]) <= t["pc"] * t["coin"]
      BY <1>1, <2>1, <2>3
    <3>3. /\ (p * r["pc"]) * (c * r["coin"]) \in Nat /\ t["pc"] * (c * r["coin"]) \in Nat
          /\ t["pc"] * t["coin"] \in Nat
      BY <1>1, <2>3
    <3> QED
      BY <3>1, <3>2, <3>3
  <2> QED
    BY <2>2, <2>4 DEF Product
<1> QED
  BY <1>2, <1>3, <1>4 DEF p, c

(* What calc_take_pnl takes of the baseline covers what it takes of the    *)
(* reserves, and exceeds it by less than two native units.                 *)
LEMMA TakeTogether ==
  ASSUME NEW unit, NEW sys, WholeUnits(unit, sys),
         NEW n \in Amount, \A s \in Side : n[s] # 0,
         NEW x2 \in 0 .. n["pc"], NEW f \in Fraction, NEW s \in Side
  PROVE  LET pnl   == TakePnl(n, x2, f, unit, sys)[s]
             delta == TakeDelta(n, x2, f, unit, sys)[s]
             k     == ScaleOf(unit, sys)[s]
         IN /\ pnl \in Nat /\ delta \in Nat
            /\ k * pnl <= delta /\ delta <= k * pnl + 2 * k - 2
<1> DEFINE d == PnlDiff(n, x2)
           k == ScaleOf(unit, sys)[s]
           native == ((d[s] \div k) * f.num) \div f.den
           share  == (d[s] * f.num) \div f.den
<1>1. d \in Amount
  BY PnlDiffType
<1>2. d[s] \in Nat /\ k \in Positive
  BY <1>1, WholeScale DEF Amount
<1>3. Restore(d, unit, sys)[s] = d[s] \div k
  BY <1>1, WholeAmounts
<1> HIDE DEF d, k
<1>4. ShareOf(Restore(d, unit, sys), f)[s] = native /\ ShareOf(d, f)[s] = share
  BY <1>3 DEF ShareOf
<1>5. native \in Nat /\ share \in Nat
  <2>1. d[s] \div k \in Nat
    BY <1>2, DivFloor
  <2> QED
    BY <1>2, <2>1, FractionBelow
<1>6. k * native <= share /\ share <= k * native + 2 * k - 2
  BY <1>2, ScaledShare, ShareSlack
<1> HIDE DEF native, share
<1>7. CASE TakePnl(n, x2, f, unit, sys) = Zero
  <2>1. TakePnl(n, x2, f, unit, sys)[s] = 0 /\ TakeDelta(n, x2, f, unit, sys)[s] = 0
    BY <1>7 DEF TakeDelta, Zero
  <2> QED
    BY <1>2, <2>1 DEF Positive, k
<1>8. CASE TakePnl(n, x2, f, unit, sys) # Zero
  <2>1. TakePnl(n, x2, f, unit, sys)[s] = native /\ TakeDelta(n, x2, f, unit, sys)[s] = share
    BY <1>4, <1>8 DEF TakePnl, TakeDelta, d
  <2> QED
    BY <1>5, <1>6, <2>1 DEF k
<1> QED
  BY <1>7, <1>8

(* ... and leaves a baseline that is covered still covered by what is left *)
(* of the normalized reserves, while the share is below a half.            *)
LEMMA TakeLeavesBaseline ==
  ASSUME NEW unit, NEW sys, WholeUnits(unit, sys),
         NEW calc \in Amount, NEW n \in Amount, \A s \in Side : n[s] # 0,
         Product(calc) <= Product(n),
         NEW x2 \in 0 .. n["pc"], IsIntegerSqrt(x2, CalcXPower(calc, n)),
         NEW f \in Fraction, 2 * f.num < f.den
  PROVE  Product(calc) <= Product(Minus(n, TakeDelta(n, x2, f, unit, sys)))
<1>1. CASE TakePnl(n, x2, f, unit, sys) = Zero
  <2>1. TakeDelta(n, x2, f, unit, sys) = Zero
    BY <1>1 DEF TakeDelta
  <2>2. n["pc"] \in Nat /\ n["coin"] \in Nat
    BY DEF Amount, Side
  <2>3. Product(Minus(n, Zero)) = Product(n)
    BY <2>2 DEF Product, Minus, Zero, Side
  <2> QED
    BY <2>1, <2>3
<1>2. CASE TakePnl(n, x2, f, unit, sys) # Zero
  <2> DEFINE d == PnlDiff(n, x2)
             pnl == TakePnl(n, x2, f, unit, sys)
             delta == TakeDelta(n, x2, f, unit, sys)
             k == ScaleOf(unit, sys)
  <2>1. delta = ShareOf(d, f) /\ \A s \in Side : pnl[s] # 0
    BY <1>2 DEF TakeDelta, TakePnl
  <2>2. \A s \in Side : pnl[s] \in Nat /\ delta[s] \in Nat /\ k[s] * pnl[s] <= delta[s]
    BY TakeTogether
  <2>3. \A s \in Side : k[s] \in Positive
    BY WholeScale
  <2> HIDE DEF d, pnl, delta, k
  <2>4. ASSUME NEW s \in Side PROVE ShareOf(d, f)[s] # 0
    <3>1. k[s] * pnl[s] # 0 /\ k[s] * pnl[s] \in Nat
      BY <2>1, <2>2, <2>3 DEF Positive
    <3>2. delta[s] # 0
      BY <2>2, <3>1
    <3> QED
      BY <2>1, <3>2
  <2>5. Product(calc) <= Product(Minus(n, ShareOf(d, f)))
    BY <2>4, ShareKeepsBaseline DEF d
  <2> QED
    BY <2>1, <2>5 DEF delta
<1> QED
  BY <1>1, <1>2
-----------------------------------------------------------------------------
(* Sums over the holders of something. *)
LEMMA SumNat ==
  ASSUME NEW f, NEW D, IsFiniteSet(D), \A x \in D : f[x] \in Nat
  PROVE  SumFunctionOnSet(f, D) \in Nat
<1> DEFINE nats == {s \in SUBSET D : SumFunctionOnSet(f, s) \in Nat}
<1>1. ASSUME NEW s \in SUBSET D, \A x \in s : s \ {x} \in nats
      PROVE  s \in nats
  <2>1. CASE s = {}
    BY <2>1, SumEmpty
  <2>2. CASE s # {}
    <3>1. IsFiniteSet(s) /\ First(s) \in s
      BY <2>2, FirstIsMember, FS_Subset
    <3>2. SumFunctionOnSet(f, s) = f[First(s)] + SumFunctionOnSet(f, s \ {First(s)})
      BY <2>2, <3>1, SumFirst
    <3>3. f[First(s)] \in Nat /\ SumFunctionOnSet(f, s \ {First(s)}) \in Nat
      BY <1>1, <3>1
    <3> QED
      BY <3>2, <3>3
  <2> QED
    BY <2>1, <2>2
<1>2. SUBSET D \subseteq nats
  <2> HIDE DEF nats
  <2> QED
    BY <1>1, FiniteSetInduction
<1> QED
  BY <1>2

(* Nobody holds more than all do. *)
LEMMA MemberWithinSum ==
  ASSUME NEW D, IsFiniteSet(D), NEW f \in [D -> Nat], NEW a \in D
  PROVE  f[a] <= SumFunction(f) /\ SumFunction(f) \in Nat
<1>1. SumFunctionOnSet(f, D) = f[a] + SumFunctionOnSet(f, D \ {a})
  BY SumRemove
<1>2. SumFunctionOnSet(f, D \ {a}) \in Nat /\ SumFunctionOnSet(f, D) \in Nat
  BY SumNat, FS_RemoveElement
<1>3. SumFunction(f) = SumFunctionOnSet(f, D)
  BY DEF SumFunction
<1> QED
  BY <1>1, <1>2, <1>3

(* All hold as much more as the one whose amount changes.                  *)
LEMMA SumChanges ==
  ASSUME NEW D, IsFiniteSet(D), NEW f \in [D -> Int], NEW g \in [D -> Int], NEW a \in D,
         \A x \in D : x # a => g[x] = f[x]
  PROVE  SumFunction(g) = SumFunction(f) + (g[a] - f[a])
<1> DEFINE rest == SumFunctionOnSet(f, D \ {a})
<1>1. IsFiniteSet(D \ {a})
  BY FS_RemoveElement
<1>2. SumFunctionOnSet(f, D) = f[a] + rest /\ rest \in Int
  BY <1>1, SumRemove, SumInt
<1>3. SumFunctionOnSet(g, D) = g[a] + SumFunctionOnSet(g, D \ {a})
  BY SumRemove
<1>4. SumFunctionOnSet(g, D \ {a}) = rest
  BY <1>1, SumCongruent
<1>5. SumFunction(f) = SumFunctionOnSet(f, D) /\ SumFunction(g) = SumFunctionOnSet(g, D)
  BY DEF SumFunction
<1> HIDE DEF rest
<1> QED
  BY <1>2, <1>3, <1>4, <1>5

(* Nobody holds anything. *)
LEMMA SumOfNothing ==
  ASSUME NEW D, IsFiniteSet(D), NEW f, f = [x \in D |-> 0]
  PROVE  SumFunction(f) = 0
<1> DEFINE none == {s \in SUBSET D : SumFunctionOnSet(f, s) = 0}
<1>1. ASSUME NEW s \in SUBSET D, \A x \in s : s \ {x} \in none
      PROVE  s \in none
  <2>1. CASE s = {}
    BY <2>1, SumEmpty
  <2>2. CASE s # {}
    <3>1. IsFiniteSet(s) /\ First(s) \in s
      BY <2>2, FirstIsMember, FS_Subset
    <3>2. SumFunctionOnSet(f, s) = f[First(s)] + SumFunctionOnSet(f, s \ {First(s)})
      BY <2>2, <3>1, SumFirst
    <3>3. f[First(s)] = 0 /\ SumFunctionOnSet(f, s \ {First(s)}) = 0
      BY <1>1, <3>1
    <3> QED
      BY <3>2, <3>3
  <2> QED
    BY <2>1, <2>2
<1>2. SUBSET D \subseteq none
  <2> HIDE DEF none
  <2> QED
    BY <1>1, FiniteSetInduction
<1> QED
  BY <1>2 DEF SumFunction
-----------------------------------------------------------------------------
(* Claims and shares. *)

(* A factor that both sides of a comparison share can be dropped.          *)
LEMMA CancelFactor ==
  ASSUME NEW b \in Positive, NEW c \in Nat, NEW d \in Nat, b * c <= b * d
  PROVE  c <= d
<1> SUFFICES ASSUME d + 1 <= c PROVE FALSE
  OBVIOUS
<1>1. b \in Nat /\ b > 0 /\ b * (d + 1) <= b * c /\ b * (d + 1) = b * d + b
  BY DEF Positive
<1>2. b * c \in Nat /\ b * d \in Nat
  BY <1>1
<1> QED
  BY <1>1, <1>2

(* The liquidity a deposit mints is not generous to either side.           *)
LEMMA MintNotGenerous ==
  ASSUME NEW t \in Amount, \A s \in Side : t[s] # 0, NEW base \in Side,
         NEW amount \in Nat, NEW lp \in Nat, NEW s \in Side,
         DepositDeduct(base, amount, t)[s] # 0
  PROVE  t[s] * DepositMint(base, amount, t, lp) <= DepositDeduct(base, amount, t)[s] * lp
<1> DEFINE b    == t[base]
           mint == DepositMint(base, amount, t, lp)
           paid == DepositDeduct(base, amount, t)[s]
<1>1. b \in Positive /\ b \in Nat /\ t[s] \in Nat /\ lp * amount \in Nat
  BY DEF Amount, Positive
<1>2. mint \in Nat /\ b * mint <= lp * amount
  BY <1>1, DivFloor DEF DepositMint, ExchangeTokenToPool
<1>3. CASE s = base
  <2>1. paid = amount /\ t[s] = b
    BY <1>3 DEF DepositDeduct
  <2>2. lp * amount = amount * lp
    OBVIOUS
  <2> QED
    BY <1>2, <2>1, <2>2
<1>4. CASE s # base
  <2>1. s = Other(base)
    BY <1>4 DEF Side, Other
  <2> DEFINE o == t[s]
  <2>2. paid = CeilDiv(amount * o, b) /\ amount * o \in Nat
    BY <1>1, <1>4, <2>1 DEF DepositDeduct, ExchangeToken
  <2>3. paid \in Nat /\ amount * o <= b * paid
    BY <1>1, <2>2, CeilDivAbove
  <2> HIDE DEF b, mint, paid, o
  <2>4. o \in Nat
    BY <1>1 DEF o
  <2>5. o * (b * mint) <= o * (lp * amount)
    BY <1>1, <1>2, <2>4
  <2>6. lp * (amount * o) <= lp * (b * paid)
    BY <1>1, <2>2, <2>3, <2>4
  <2>7. o * (b * mint) = b * (o * mint) /\ o * (lp * amount) = lp * (amount * o)
        /\ lp * (b * paid) = b * (paid * lp)
    BY <1>1, <1>2, <2>3, <2>4
  <2>8. o * mint \in Nat /\ paid * lp \in Nat /\ lp * (amount * o) \in Nat
        /\ b * (o * mint) \in Nat /\ b * (paid * lp) \in Nat
    BY <1>1, <1>2, <2>2, <2>3, <2>4
  <2>9. b * (o * mint) <= b * (paid * lp)
    BY <2>5, <2>6, <2>7, <2>8
  <2>10. o * mint <= paid * lp
    BY <1>1, <2>8, <2>9, CancelFactor
  <2> QED
    BY <2>10 DEF o, mint, paid
<1> QED
  BY <1>3, <1>4

(* What a withdrawal leaves is not less, share for share. *)
LEMMA WithdrawNotGenerous ==
  ASSUME NEW t \in Amount, NEW lp \in Nat, NEW lpTotal \in Nat, lp < lpTotal, NEW s \in Side
  PROVE  t[s] * (lpTotal - lp) <= (t[s] - WithdrawOut(lp, t, lpTotal)[s]) * lpTotal
<1> DEFINE out == WithdrawOut(lp, t, lpTotal)[s]
           v   == t[s]
<1>1. v \in Nat /\ lpTotal \in Positive /\ v * lp \in Nat
  BY DEF Amount, Positive
<1>2. out \in Nat /\ lpTotal * out <= v * lp
  BY <1>1, DivFloor DEF WithdrawOut, ExchangePoolToToken
<1> HIDE DEF out, v
<1>3. v * (lpTotal - lp) = v * lpTotal - v * lp /\ (v - out) * lpTotal = v * lpTotal - lpTotal * out
  BY <1>1, <1>2
<1>4. v * lpTotal \in Nat /\ lpTotal * out \in Nat
  BY <1>1, <1>2
<1> QED
  BY <1>1, <1>2, <1>3, <1>4 DEF out, v
=============================================================================
