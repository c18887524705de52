--------------------------- MODULE AmmQuoteProofs ---------------------------
(* What the quotes promise for every reserve, amount and fee: the theorems *)
(* behind MCAmmMath, whose bounds may be any naturals.                     *)
EXTENDS MCAmmMath, AmmMathLemmas

-----------------------------------------------------------------------------
(* checked_ceil_div never exceeds the exact quotient by a whole unit.      *)
LEMMA CeilDivTight ==
  ASSUME NEW a \in Nat, NEW b \in Positive
  PROVE  b * CeilDiv(a, b) < a + b
<1>1. PICK q \in Nat, r \in Nat :
        a \div b = q /\ a % b = r /\ a = b * q + r /\ r < b
  BY DEF Positive
<1>2. CASE q = 0
  <2>1. CeilDiv(a, b) = 0 \/ (CeilDiv(a, b) = 1 /\ a > 0)
    BY <1>1, <1>2 DEF CeilDiv, Positive
  <2>2. b \in Nat /\ b > 0
    BY DEF Positive
  <2>3. CASE CeilDiv(a, b) = 0
    BY <2>2, <2>3
  <2>4. CASE CeilDiv(a, b) = 1 /\ a > 0
    BY <2>2, <2>4
  <2> QED
    BY <2>1, <2>3, <2>4
<1>3. CASE q # 0 /\ r > 0
  <2>1. CeilDiv(a, b) = q + 1
    BY <1>1, <1>3 DEF CeilDiv
  <2>2. b * (q + 1) = b * q + b /\ b * q \in Nat /\ b \in Nat
    BY <1>1 DEF Positive
  <2>3. b * CeilDiv(a, b) = b * q + b
    BY <2>1, <2>2
  <2> QED
    BY <1>1, <1>3, <2>2, <2>3
<1>4. CASE q # 0 /\ ~(r > 0)
  <2>1. CeilDiv(a, b) = q
    BY <1>1, <1>4 DEF CeilDiv
  <2>2. b * q = a /\ b > 0 /\ b \in Nat
    BY <1>1, <1>4 DEF Positive
  <2> QED
    BY <2>1, <2>2
<1> QED
  BY <1>1, <1>2, <1>3, <1>4

(* ... so that it is at most any bound of the exact quotient.              *)
LEMMA CeilDivAtMost ==
  ASSUME NEW a \in Nat, NEW b \in Positive, NEW c \in Nat, a <= b * c
  PROVE  CeilDiv(a, b) <= c
<1> DEFINE q == CeilDiv(a, b)
<1>1. q \in Nat /\ b * q < a + b
  BY CeilDivAbove, CeilDivTight
<1> HIDE DEF q
<1> SUFFICES ASSUME c + 1 <= q PROVE FALSE
  BY <1>1 DEF q
<1>2. b \in Nat /\ b * (c + 1) <= b * q /\ b * (c + 1) = b * c + b
  BY <1>1 DEF Positive
<1>3. b * c \in Nat /\ b * q \in Nat
  BY <1>1, <1>2
<1> QED
  BY <1>1, <1>2, <1>3

(* Truncating division is at least any bound of the exact quotient.        *)
LEMMA DivAtLeast ==
  ASSUME NEW a \in Nat, NEW b \in Positive, NEW c \in Nat, b * c <= a
  PROVE  c <= a \div b
<1> DEFINE q == a \div b
<1>1. q \in Nat /\ a < b * q + b
  BY DivFloor
<1> HIDE DEF q
<1> SUFFICES ASSUME q + 1 <= c PROVE FALSE
  BY <1>1 DEF q
<1>2. b \in Nat /\ b * (q + 1) <= b * c /\ b * (q + 1) = b * q + b
  BY <1>1 DEF Positive
<1>3. b * c \in Nat /\ b * q \in Nat
  BY <1>1, <1>2
<1> QED
  BY <1>1, <1>2, <1>3

(* ... and at most any bound of it.                                        *)
LEMMA DivAtMost ==
  ASSUME NEW a \in Nat, NEW b \in Positive, NEW c \in Nat, a < b * c + b
  PROVE  a \div b <= c
<1> DEFINE q == a \div b
<1>1. q \in Nat /\ b * q <= a
  BY DivFloor
<1> HIDE DEF q
<1> SUFFICES ASSUME c + 1 <= q PROVE FALSE
  BY <1>1 DEF q
<1>2. b \in Nat /\ b * (c + 1) <= b * q /\ b * (c + 1) = b * c + b
  BY <1>1 DEF Positive
<1>3. b * c \in Nat /\ b * q \in Nat
  BY <1>1, <1>2
<1> QED
  BY <1>1, <1>2, <1>3

-----------------------------------------------------------------------------
(* What a probe of each kind is made of. *)
LEMMA QuoteProbe ==
  ASSUME probe \in QuoteProbes \cup PnlProbes, Quoted
  PROVE  /\ probe.total \in Amount /\ \A s \in Side : probe.total[s] # 0
         /\ probe.side \in Side
         /\ probe.amount \in Positive
         /\ probe.fee \in Fraction
         /\ probe.lp \in Positive
<1>1. probe \in QuoteProbes
  BY DEF Quoted, PnlProbes
<1>2. /\ probe.total \in [Side -> 1 .. MaxReserve] /\ probe.side \in Side
      /\ probe.amount \in 1 .. MaxAmount /\ probe.fee \in Fees /\ probe.lp \in 1 .. MaxLp
  BY <1>1 DEF QuoteProbes, Reserves
<1> QED
  BY <1>2, ProbeAssumption DEF Amount, Positive

(* The probe never changes: what holds of every probe holds always.        *)
LEMMA ProbeStays == Spec => [](probe \in QuoteProbes \cup PnlProbes)
<1>1. probe \in QuoteProbes \cup PnlProbes /\ [UNCHANGED probe]_probe
        => (probe \in QuoteProbes \cup PnlProbes)'
  OBVIOUS
<1> QED
  BY <1>1, PTL DEF Spec

-----------------------------------------------------------------------------
(* Swaps keep the product of the reserves. *)

(* What swap_base_in pays out is below the reserve it comes from. *)
LEMMA QuoteBelowReserve ==
  ASSUME NEW t \in Amount, \A s \in Side : t[s] # 0,
         NEW a \in Nat, NEW src \in Side, NEW f \in Fraction
  PROVE  QuoteBaseIn(a, t, src, f) < t[Other(src)]
<1> DEFINE p == a - SwapFeeIn(a, f)
           x == t[src]
           y == t[Other(src)]
<1>1. x \in Positive /\ y \in Positive
  BY OtherSide DEF Amount, Positive
<1>2. p \in Nat
  BY SwapFeeBelow
<1>3. QuoteBaseIn(a, t, src, f) = (y * p) \div (x + p)
  BY DEF QuoteBaseIn, SwapTokenAmountBaseIn
<1> HIDE DEF p, x, y
<1>4. x + p \in Positive /\ y * p \in Nat /\ y - 1 \in Nat
  BY <1>1, <1>2 DEF Positive
<1>5. y * p < (x + p) * (y - 1) + (x + p)
  <2>1. x \in Nat /\ y \in Nat /\ x > 0 /\ y > 0
    BY <1>1 DEF Positive
  <2>2. (x + p) * (y - 1) + (x + p) = x * y + y * p
    BY <1>2, <2>1
  <2>3. x * y \in Nat /\ x * y > 0
    BY <2>1
  <2> HIDE <2>1
  <2> QED
    BY <1>4, <2>2, <2>3
<1>6. (y * p) \div (x + p) <= y - 1
  BY <1>4, <1>5, DivAtMost
<1> QED
  BY <1>1, <1>3, <1>4, <1>6, DivFloor DEF Positive, y

(* The product of the reserves after a swap, from either side.             *)
LEMMA ProductAfter ==
  ASSUME NEW t \in Amount, NEW src \in Side, NEW in \in Nat, NEW out \in Nat, out <= t[Other(src)]
  PROVE  /\ Product(After(t, src, in, out)) = (t[src] + in) * (t[Other(src)] - out)
         /\ Product(t) = t[src] * t[Other(src)]
<1>1. t["pc"] \in Nat /\ t["coin"] \in Nat
  BY DEF Amount, Side
<1>2. CASE src = "coin"
  BY <1>1, <1>2 DEF Product, After, Side, Other
<1>3. CASE src = "pc"
  BY <1>1, <1>3 DEF Product, After, Side, Other
<1> QED
  BY <1>2, <1>3 DEF Side

(* No swap_base_in that is executed lowers the product of the reserves,    *)
(* for all reserves, amounts and fees.                                     *)
THEOREM SwapInNeverLowersProduct == Spec => []BaseInKeepsProduct
<1>1. probe \in QuoteProbes \cup PnlProbes => BaseInKeepsProduct
  <2> SUFFICES ASSUME probe \in QuoteProbes \cup PnlProbes, Quoted
               PROVE  Product(After(probe.total, probe.side, probe.amount, Out)) >= Product(probe.total)
    BY DEF BaseInKeepsProduct
  <2>1. /\ probe.total \in Amount /\ \A s \in Side : probe.total[s] # 0
        /\ probe.side \in Side /\ probe.amount \in Nat /\ probe.fee \in Fraction
    BY QuoteProbe DEF Positive
  <2>2. Out \in Nat /\ Out < probe.total[Other(probe.side)]
    BY <2>1, SwapQuoteType, QuoteBelowReserve DEF Out
  <2>3. probe.total[Other(probe.side)] \in Nat
    BY <2>1, OtherSide DEF Amount
  <2>4. probe.total[probe.side] * probe.total[Other(probe.side)]
          <= (probe.total[probe.side] + probe.amount) * (probe.total[Other(probe.side)] - Out)
    BY <2>1, <2>2, SwapInKeepsProduct DEF Out
  <2>5. /\ Product(After(probe.total, probe.side, probe.amount, Out))
             = (probe.total[probe.side] + probe.amount) * (probe.total[Other(probe.side)] - Out)
        /\ Product(probe.total) = probe.total[probe.side] * probe.total[Other(probe.side)]
    BY <2>1, <2>2, <2>3, ProductAfter
  <2>6. probe.total[probe.side] \in Nat
    BY <2>1 DEF Amount
  <2>7. /\ probe.total[probe.side] * probe.total[Other(probe.side)] \in Int
        /\ (probe.total[probe.side] + probe.amount) * (probe.total[Other(probe.side)] - Out) \in Int
    BY <2>1, <2>2, <2>3, <2>6
  <2> QED
    BY <2>4, <2>5, <2>7
<1> QED
  BY <1>1, ProbeStays, PTL

(* No swap_base_out that is executed lowers it either. *)
THEOREM SwapOutNeverLowersProduct == Spec => []BaseOutKeepsProduct
<1>1. probe \in QuoteProbes \cup PnlProbes => BaseOutKeepsProduct
  <2> SUFFICES ASSUME probe \in QuoteProbes \cup PnlProbes, Quoted,
                      probe.amount < probe.total[Other(probe.side)], In # 0
               PROVE  Product(After(probe.total, probe.side, In, probe.amount)) >= Product(probe.total)
    BY DEF BaseOutKeepsProduct
  <2>1. /\ probe.total \in Amount /\ \A s \in Side : probe.total[s] # 0
        /\ probe.side \in Side /\ probe.amount \in Nat /\ probe.fee \in Fraction
    BY QuoteProbe DEF Positive
  <2>2. In \in Nat
    BY <2>1, SwapQuoteType DEF In
  <2>3. probe.total[Other(probe.side)] \in Nat /\ probe.total[probe.side] \in Nat
    BY <2>1, OtherSide DEF Amount
  <2>4. probe.total[probe.side] * probe.total[Other(probe.side)]
          <= (probe.total[probe.side] + In) * (probe.total[Other(probe.side)] - probe.amount)
    BY <2>1, <2>2, SwapOutKeepsProduct DEF In
  <2>5. /\ Product(After(probe.total, probe.side, In, probe.amount))
             = (probe.total[probe.side] + In) * (probe.total[Other(probe.side)] - probe.amount)
        /\ Product(probe.total) = probe.total[probe.side] * probe.total[Other(probe.side)]
    BY <2>1, <2>2, <2>3, ProductAfter
  <2>6. /\ probe.total[probe.side] * probe.total[Other(probe.side)] \in Int
        /\ (probe.total[probe.side] + In) * (probe.total[Other(probe.side)] - probe.amount) \in Int
    BY <2>1, <2>2, <2>3
  <2> QED
    BY <2>4, <2>5, <2>6
<1> QED
  BY <1>1, ProbeStays, PTL

-----------------------------------------------------------------------------
(* The two swap instructions quote one price. *)

(* Paying what swap_base_out asks leaves, after the fee of swap_base_in,   *)
(* at least what swap_base_out computed before its fee.                    *)
LEMMA FeeComesBack ==
  ASSUME NEW paid \in Nat, NEW f \in Fraction
  PROVE  LET in == CeilDiv(paid * f.den, f.den - f.num) IN
           in # 0 => in \in Nat /\ paid <= in - SwapFeeIn(in, f)
<1> DEFINE in  == CeilDiv(paid * f.den, f.den - f.num)
           fee == SwapFeeIn(in, f)
<1>1. f.num \in Nat /\ f.den \in Positive /\ f.den - f.num \in Positive /\ f.den \in Nat
  BY DEF Fraction, ValidFraction, Positive
<1>2. paid * f.den \in Nat
  BY <1>1
<1>3. in \in Nat /\ (in # 0 => paid * f.den <= (f.den - f.num) * in)
  BY <1>1, <1>2, CeilDivAbove
<1> HIDE DEF in
<1> SUFFICES ASSUME in # 0 PROVE paid <= in - fee
  BY <1>3 DEF in
<1>4. in * f.num \in Nat
  BY <1>1, <1>3
<1>5. fee \in Nat /\ f.den * fee < in * f.num + f.den
  BY <1>1, <1>4, CeilDivAbove, CeilDivTight DEF SwapFeeIn
<1> HIDE DEF fee
<1>6. f.den * (in - fee) > paid * f.den - f.den
  <2>1. (f.den - f.num) * in = f.den * in - in * f.num
    BY <1>1, <1>3
  <2>2. f.den * (in - fee) = f.den * in - f.den * fee
    BY <1>1, <1>3, <1>5
  <2>3. f.den * in \in Nat /\ f.den * fee \in Nat
    BY <1>1, <1>3, <1>5
  <2> QED
    BY <1>1, <1>2, <1>3, <1>4, <1>5, <2>1, <2>2, <2>3
<1>7. f.den * (in - fee) > f.den * (paid - 1)
  <2>1. f.den * (paid - 1) = paid * f.den - f.den
    <3>1. \A d, k \in Int : d * (k - 1) = k * d - d
      OBVIOUS
    <3>2. f.den \in Int /\ paid \in Int
      BY <1>1
    <3> QED
      BY <3>1, <3>2
  <2> QED
    BY <1>6, <2>1
<1>8. f.den > 0 /\ in - fee \in Int /\ paid - 1 \in Int
  BY <1>1, <1>3, <1>5 DEF Positive
<1>9. in - fee > paid - 1
  BY <1>1, <1>7, <1>8
<1> QED
  BY <1>3, <1>5, <1>9

(* If out costs no more than paid, swap_base_in pays at least out for any  *)
(* amount that leaves paid after its fee.                                  *)
LEMMA QuoteCovers ==
  ASSUME NEW x \in Positive, NEW y \in Positive, NEW out \in Nat, out < y,
         NEW paid \in Nat, NEW p \in Nat, paid <= p, x * out <= (y - out) * paid
  PROVE  out <= (y * p) \div (x + p)
<1>1. x \in Nat /\ y \in Nat /\ x > 0 /\ y > 0 /\ x + p \in Positive /\ y - out \in Nat
  BY DEF Positive
<1>2. y * p \in Nat
  BY <1>1
<1>3. (y - out) * paid <= (y - out) * p
  BY <1>1
<1>4. (y - out) * p = y * p - out * p /\ (x + p) * out = x * out + out * p
  BY <1>1
<1>5. /\ x * out \in Nat /\ out * p \in Nat /\ (y - out) * paid \in Nat /\ (y - out) * p \in Nat
      /\ (x + p) * out \in Nat
  BY <1>1
<1>6. (x + p) * out <= y * p
  BY <1>2, <1>3, <1>4, <1>5
<1> QED
  BY <1>1, <1>2, <1>6, DivAtLeast

(* Whoever pays through swap_base_in what swap_base_out asks for an output *)
(* gets at least that output.                                              *)
THEOREM SwapInServesSwapOut == Spec => []QuotesAgree
<1>1. probe \in QuoteProbes \cup PnlProbes => QuotesAgree
  <2> SUFFICES ASSUME probe \in QuoteProbes \cup PnlProbes, Quoted,
                      probe.amount < probe.total[Other(probe.side)], In # 0
               PROVE  probe.amount <= QuoteBaseIn(In, probe.total, probe.side, probe.fee)
    <3>1. probe \in QuoteProbes \cup PnlProbes /\ Quoted /\ probe.amount < probe.total[Other(probe.side)] /\ In # 0
            => probe.amount \in Nat /\ QuoteBaseIn(In, probe.total, probe.side, probe.fee) \in Nat
      BY QuoteProbe, SwapQuoteType DEF In, Positive
    <3> QED
      BY <3>1 DEF QuotesAgree
  <2> DEFINE x    == probe.total[probe.side]
             y    == probe.total[Other(probe.side)]
             f    == probe.fee
             out  == probe.amount
             paid == SwapTokenAmountBaseOut(out, probe.total, probe.side)
  <2>1. /\ x \in Positive /\ y \in Positive /\ out \in Positive /\ out < y /\ f \in Fraction
        /\ x \in Nat /\ y \in Nat /\ out \in Nat /\ y - out \in Positive
    BY QuoteProbe, OtherSide DEF Amount, Positive
  <2>2. In = CeilDiv(paid * f.den, f.den - f.num)
    BY DEF In, QuoteBaseOut
  <2>3. paid = CeilDiv(x * out, y - out)
    BY DEF SwapTokenAmountBaseOut
  <2>4. QuoteBaseIn(In, probe.total, probe.side, f)
          = (y * (In - SwapFeeIn(In, f))) \div (x + (In - SwapFeeIn(In, f)))
    BY DEF QuoteBaseIn, SwapTokenAmountBaseIn
  <2> HIDE DEF x, y, f, out, paid
  <2>5. x * out \in Nat /\ x * out > 0
    BY <2>1 DEF Positive
  <2>6. paid \in Nat /\ (paid # 0 => x * out <= (y - out) * paid)
    BY <2>1, <2>3, <2>5, CeilDivAbove
  <2>7. paid # 0
    <3> SUFFICES ASSUME paid = 0 PROVE FALSE
      OBVIOUS
    <3>1. f.den \in Nat /\ f.den - f.num \in Positive
      BY <2>1 DEF Fraction, ValidFraction, Positive
    <3>2. paid * f.den = 0
      BY <3>1
    <3>3. CeilDiv(0, f.den - f.num) = 0
      BY <3>1, CeilDivBelow
    <3> QED
      BY <2>2, <3>2, <3>3
  <2>8. In \in Nat /\ paid <= In - SwapFeeIn(In, f)
    BY <2>1, <2>2, <2>6, FeeComesBack
  <2>9. In - SwapFeeIn(In, f) \in Nat
    BY <2>1, <2>8, SwapFeeBelow
  <2>10. out <= (y * (In - SwapFeeIn(In, f))) \div (x + (In - SwapFeeIn(In, f)))
    BY <2>1, <2>6, <2>7, <2>8, <2>9, QuoteCovers
  <2> QED
    BY <2>4, <2>10 DEF out, f
<1> QED
  BY <1>1, ProbeStays, PTL

(* If out is at most what p buys, swap_base_out asks no more than p for    *)
(* it before its fee.                                                      *)
LEMMA QuoteWithin ==
  ASSUME NEW x \in Positive, NEW y \in Positive, NEW out \in Nat, out < y,
         NEW p \in Nat, out <= (y * p) \div (x + p)
  PROVE  CeilDiv(x * out, y - out) <= p
<1>1. x \in Nat /\ y \in Nat /\ x + p \in Positive /\ y - out \in Positive /\ y - out \in Nat
  BY DEF Positive
<1>2. y * p \in Nat /\ x * out \in Nat
  BY <1>1
<1> DEFINE q == (y * p) \div (x + p)
<1>3. q \in Nat /\ (x + p) * q <= y * p /\ out <= q
  BY <1>1, <1>2, DivFloor
<1> HIDE DEF q
<1>4. (x + p) * out <= (x + p) * q
  BY <1>1, <1>3
<1>5. (y - out) * p = y * p - out * p /\ (x + p) * out = x * out + out * p
  BY <1>1
<1>6. (x + p) * out \in Nat /\ (x + p) * q \in Nat /\ out * p \in Nat
  BY <1>1, <1>3
<1>7. x * out <= (y - out) * p
  BY <1>2, <1>3, <1>4, <1>5, <1>6
<1> QED
  BY <1>1, <1>2, <1>7, CeilDivAtMost

(* If fee is not below the exact fee of amount, adding the fee to what it  *)
(* leaves does not exceed amount.                                          *)
LEMMA FeeAddedBack ==
  ASSUME NEW amount \in Nat, NEW fee \in Nat, fee <= amount, NEW f \in Fraction,
         amount * f.num <= fee * f.den,
         NEW paid \in Nat, paid <= amount - fee
  PROVE  CeilDiv(paid * f.den, f.den - f.num) <= amount
<1>1. f.num \in Nat /\ f.den \in Nat /\ f.den - f.num \in Positive
  BY DEF Fraction, ValidFraction, Positive
<1>2. paid * f.den \in Nat
  BY <1>1
<1>3. paid * f.den <= (amount - fee) * f.den
  BY <1>1
<1>4. (amount - fee) * f.den = amount * f.den - fee * f.den
  BY <1>1
<1>5. (f.den - f.num) * amount = amount * f.den - amount * f.num
  BY <1>1
<1>6. /\ amount * f.den \in Nat /\ fee * f.den \in Nat /\ amount * f.num \in Nat
      /\ (amount - fee) * f.den \in Int /\ (f.den - f.num) * amount \in Int
  BY <1>1
<1>7. paid * f.den <= (f.den - f.num) * amount
  BY <1>2, <1>3, <1>4, <1>5, <1>6
<1> QED
  BY <1>1, <1>2, <1>7, CeilDivAtMost

(* Buying through swap_base_out what swap_base_in gives for an input costs *)
(* no more than that input, when its fee was not rounded down.             *)
THEOREM SwapOutServesSwapIn == Spec => []QuotesAgreeBack
<1>1. probe \in QuoteProbes \cup PnlProbes => QuotesAgreeBack
  <2> DEFINE x   == probe.total[probe.side]
             y   == probe.total[Other(probe.side)]
             f   == probe.fee
             a   == probe.amount
             fee == SwapFeeIn(a, f)
  <2> SUFFICES ASSUME probe \in QuoteProbes \cup PnlProbes, Quoted, Out # 0, fee * f.den >= a * f.num
               PROVE  QuoteBaseOut(Out, probe.total, probe.side, f) <= a
    BY DEF QuotesAgreeBack
  <2>1. /\ x \in Positive /\ y \in Positive /\ a \in Nat /\ f \in Fraction
        /\ x \in Nat /\ y \in Nat
    BY QuoteProbe, OtherSide DEF Amount, Positive
  <2>2. Out \in Nat /\ Out < y
    BY QuoteProbe, SwapQuoteType, QuoteBelowReserve DEF Out, Positive
  <2>3. fee \in Nat /\ fee <= a /\ a - fee \in Nat
    BY <2>1, SwapFeeBelow
  <2>4. Out = (y * (a - fee)) \div (x + (a - fee))
    BY DEF Out, QuoteBaseIn, SwapTokenAmountBaseIn
  <2>5. QuoteBaseOut(Out, probe.total, probe.side, f)
          = CeilDiv(CeilDiv(x * Out, y - Out) * f.den, f.den - f.num)
    BY DEF QuoteBaseOut, SwapTokenAmountBaseOut
  <2>6. a * f.num <= fee * f.den
    <3>1. f.num \in Nat /\ f.den \in Nat
      BY <2>1 DEF Fraction
    <3>2. a * f.num \in Nat /\ fee * f.den \in Nat
      BY <2>1, <2>3, <3>1
    <3> QED
      BY <3>2
  <2> HIDE DEF x, y, f, a, fee
  <2>7. y - Out \in Positive /\ x * Out \in Nat
    BY <2>1, <2>2 DEF Positive
  <2>8. CeilDiv(x * Out, y - Out) \in Nat
    BY <2>7, CeilDivAbove
  <2>9. CeilDiv(x * Out, y - Out) <= a - fee
    <3>1. Out <= (y * (a - fee)) \div (x + (a - fee))
      BY <2>2, <2>4
    <3> QED
      BY <2>1, <2>2, <2>3, <3>1, QuoteWithin
  <2> QED
    BY <2>1, <2>3, <2>5, <2>6, <2>8, <2>9, FeeAddedBack DEF a, f
<1> QED
  BY <1>1, ProbeStays, PTL

-----------------------------------------------------------------------------
(* Liquidity: what mint is worth of a reserve raised by paid is at most    *)
(* paid, when the mint was not generous.                                   *)
LEMMA WorthAtMostPaid ==
  ASSUME NEW t \in Nat, NEW paid \in Nat, NEW lp \in Positive, NEW mint \in Nat,
         t * mint <= paid * lp
  PROVE  ((t + paid) * mint) \div (lp + mint) <= paid
<1>1. lp \in Nat /\ lp > 0 /\ lp + mint \in Positive /\ lp + mint \in Nat
  BY DEF Positive
<1>2. (t + paid) * mint = t * mint + paid * mint /\ (lp + mint) * paid = paid * lp + paid * mint
  BY <1>1
<1>3. /\ t * mint \in Nat /\ paid * mint \in Nat /\ paid * lp \in Nat
      /\ (t + paid) * mint \in Nat /\ (lp + mint) * paid \in Nat
  BY <1>1
<1>4. (t + paid) * mint < (lp + mint) * paid + (lp + mint)
  BY <1>1, <1>2, <1>3
<1> QED
  BY <1>1, <1>3, <1>4, DivAtMost

(* A deposit followed at once by the withdrawal of what it minted never    *)
(* returns more of either token than was paid.                             *)
THEOREM DepositThenWithdrawNeverProfits == Spec => []RoundTripNeverProfits
<1>1. probe \in QuoteProbes \cup PnlProbes => RoundTripNeverProfits
  <2> SUFFICES ASSUME probe \in QuoteProbes \cup PnlProbes, Quoted,
                      Mint # 0, \A s \in Side : Deduct[s] # 0, NEW s \in Side
               PROVE  WithdrawOut(Mint, Plus(probe.total, Deduct), probe.lp + Mint)[s] <= Deduct[s]
    BY DEF RoundTripNeverProfits, AtMost
  <2>1. /\ probe.total \in Amount /\ \A r \in Side : probe.total[r] # 0
        /\ probe.side \in Side /\ probe.amount \in Nat /\ probe.lp \in Positive /\ probe.lp \in Nat
    BY QuoteProbe DEF Positive
  <2>2. Deduct \in Amount /\ Mint \in Nat
    BY <2>1, DepositType DEF Deduct, Mint
  <2>3. probe.total[s] \in Nat /\ Deduct[s] \in Nat
    BY <2>1, <2>2 DEF Amount
  <2>4. probe.total[s] * Mint <= Deduct[s] * probe.lp
    BY <2>1, MintNotGenerous DEF Deduct, Mint
  <2>5. ((probe.total[s] + Deduct[s]) * Mint) \div (probe.lp + Mint) <= Deduct[s]
    BY <2>1, <2>2, <2>3, <2>4, WorthAtMostPaid
  <2> QED
    BY <2>5 DEF WithdrawOut, ExchangePoolToToken, Plus
<1> QED
  BY <1>1, ProbeStays, PTL

-----------------------------------------------------------------------------
(* Simulations. *)

(* A quotient grows with its dividend and shrinks with its divisor.        *)
LEMMA DivGrows ==
  ASSUME NEW a \in Nat, NEW b \in Positive, NEW c \in Nat, NEW d \in Positive, a <= c, d <= b
  PROVE  a \div b <= c \div d
<1> DEFINE q == a \div b
<1>1. q \in Nat /\ b * q <= a
  BY DivFloor
<1> HIDE DEF q
<1>2. b \in Nat /\ d \in Nat /\ d * q <= b * q
  BY <1>1 DEF Positive
<1>3. d * q \in Nat /\ b * q \in Nat
  BY <1>1, <1>2
<1>4. d * q <= c
  BY <1>1, <1>2, <1>3
<1> QED
  BY <1>1, <1>4, DivAtLeast DEF q

(* The whole price moves the way the swap pushes it, so that a simulation  *)
(* of it answers when the price before is not zero.                        *)
LEMMA SwapMovesPrice ==
  ASSUME NEW t \in Amount, \A s \in Side : t[s] # 0, t["pc"] >= t["coin"],
         NEW src \in Side, NEW in \in Nat, NEW out \in Nat, out < t[Other(src)]
  PROVE  /\ ~SimulationPanics(t, After(t, src, in, out), src)
         /\ src = "coin" => PriceImpact(t, After(t, src, in, out), src) <= 1000000
<1> DEFINE u == After(t, src, in, out)
<1>1. t["pc"] \in Positive /\ t["coin"] \in Positive /\ t["pc"] \in Nat /\ t["coin"] \in Nat
  BY DEF Amount, Side, Positive
<1>2. WholePrice(t) \in Nat /\ 1 <= WholePrice(t)
  <2>1. t["coin"] * 1 <= t["pc"] /\ 1 \in Nat
    BY <1>1
  <2> QED
    BY <1>1, <2>1, DivFloor, DivAtLeast DEF WholePrice
<1>3. CASE src = "coin"
  <2>1. u["coin"] = t["coin"] + in /\ u["pc"] = t["pc"] - out /\ out < t["pc"]
    BY <1>3 DEF After, Side, Other
  <2>2. u["coin"] \in Positive /\ u["pc"] \in Nat /\ u["pc"] <= t["pc"] /\ t["coin"] <= u["coin"]
    BY <1>1, <2>1 DEF Positive
  <2> HIDE DEF u
  <2>3. WholePrice(u) \in Nat /\ WholePrice(u) <= WholePrice(t)
    BY <1>1, <2>2, DivFloor, DivGrows DEF WholePrice
  <2> DEFINE before == WholePrice(t)
             move   == before - WholePrice(u)
  <2>4. move \in Nat /\ move <= before
    BY <1>2, <2>3
  <2>5. PriceMove(t, u, src) = move
    BY <1>3 DEF PriceMove
  <2>6. u["coin"] # 0
    BY <2>2 DEF Positive
  <2>7. ~SimulationPanics(t, u, src)
    BY <1>2, <2>4, <2>5, <2>6 DEF SimulationPanics
  <2> HIDE DEF move, before
  <2>8. before \in Positive /\ before \in Nat
    BY <1>2 DEF before, Positive
  <2>9. move * 1000000 \in Nat /\ move * 1000000 < before * 1000000 + before
    BY <1>2, <2>4 DEF before
  <2>10. (move * 1000000) \div before <= 1000000
    BY <2>8, <2>9, DivAtMost
  <2> QED
    BY <2>5, <2>7, <2>10 DEF PriceImpact, u, before
<1>4. CASE src = "pc"
  <2>1. u["coin"] = t["coin"] - out /\ u["pc"] = t["pc"] + in /\ out < t["coin"]
    BY <1>4 DEF After, Side, Other
  <2>2. u["coin"] \in Positive /\ u["pc"] \in Nat /\ t["pc"] <= u["pc"] /\ u["coin"] <= t["coin"]
    BY <1>1, <2>1 DEF Positive
  <2> HIDE DEF u
  <2>3. WholePrice(u) \in Nat /\ WholePrice(t) <= WholePrice(u)
    BY <1>1, <2>2, DivFloor, DivGrows DEF WholePrice
  <2>4. PriceMove(t, u, src) = WholePrice(u) - WholePrice(t)
    BY <1>4 DEF PriceMove
  <2>5. u["coin"] # 0
    BY <2>2 DEF Positive
  <2> QED
    BY <1>2, <1>4, <2>3, <2>4, <2>5 DEF SimulationPanics, u
<1> QED
  BY <1>3, <1>4 DEF Side

(* A simulation answers for every swap that the handlers execute in a pool *)
(* whose coin is worth a pc at least.                                      *)
THEOREM SimulationServesSwaps == Spec => []SimulationAnswers
<1>1. probe \in QuoteProbes \cup PnlProbes => SimulationAnswers
  <2> SUFFICES ASSUME probe \in QuoteProbes \cup PnlProbes, Quoted, probe.total["pc"] >= probe.total["coin"]
               PROVE  SimulationAnswers
    BY DEF SimulationAnswers
  <2>1. /\ probe.total \in Amount /\ \A s \in Side : probe.total[s] # 0
        /\ probe.side \in Side /\ probe.amount \in Nat /\ probe.fee \in Fraction
    BY QuoteProbe DEF Positive
  <2>2. Out \in Nat /\ Out < probe.total[Other(probe.side)]
    BY <2>1, SwapQuoteType, QuoteBelowReserve DEF Out
  <2>3. probe.amount < probe.total[Other(probe.side)] => In \in Nat
    BY <2>1, SwapQuoteType DEF In
  <2> QED
    BY <2>1, <2>2, <2>3, SwapMovesPrice DEF SimulationAnswers
<1> QED
  BY <1>1, ProbeStays, PTL
-----------------------------------------------------------------------------
(* The protocol's share. *)

(* The shares that the properties are about are below one half.            *)
MinorShares == \A f \in Shares : 2 * f.num < f.den

(* What a pnl probe is made of, and what calc_take_pnl makes of it.        *)
LEMMA PnlProbe ==
  ASSUME WholeUnits(Unit, Sys), probe \in QuoteProbes \cup PnlProbes, Settled
  PROVE  /\ probe.total \in Amount /\ probe.calc \in Amount
         /\ probe.share \in Fraction /\ probe.share \in Shares
         /\ X1Y1 \in Amount /\ \A s \in Side : X1Y1[s] # 0
         /\ Product(probe.calc) <= Product(X1Y1)
         /\ Root \in 0 .. X1Y1["pc"] /\ IsIntegerSqrt(Root, CalcXPower(probe.calc, X1Y1))
<1>1. probe \in PnlProbes
  BY DEF Settled, QuoteProbes
<1>2. /\ probe.total \in [Side -> 1 .. MaxReserve] /\ probe.calc \in [Side -> 1 .. MaxBaseline]
      /\ probe.share \in Shares
      /\ Product(probe.calc) <= Product(X1Y1)
  BY <1>1 DEF PnlProbes, Reserves, X1Y1
<1>3. /\ probe.total \in Amount /\ probe.calc \in Amount /\ probe.share \in Fraction
      /\ \A s \in Side : probe.total[s] \in Positive
  BY <1>2, ProbeAssumption DEF Amount, Positive
<1>4. X1Y1 \in Amount
  BY <1>3, NormalizeType DEF X1Y1, WholeUnits
<1>5. ASSUME NEW s \in Side PROVE X1Y1[s] # 0
  <2>1. X1Y1[s] = ScaleOf(Unit, Sys)[s] * probe.total[s] /\ ScaleOf(Unit, Sys)[s] \in Positive
    BY <1>3, WholeAmounts, WholeScale DEF X1Y1
  <2> QED
    BY <1>3, <2>1 DEF Positive
<1>6. \E r \in 0 .. X1Y1["pc"] : IsIntegerSqrt(r, CalcXPower(probe.calc, X1Y1))
  BY <1>2, <1>3, <1>4, <1>5, RootFits
<1> QED
  BY <1>2, <1>3, <1>4, <1>5, <1>6 DEF Root

(* On each side: what is recorded of the reserves that are left is at most *)
(* these.                                                                  *)
LEMMA RecordedWithinLeft ==
  ASSUME WholeUnits(Unit, Sys), probe \in QuoteProbes \cup PnlProbes, Settled
  PROVE  /\ Minus(probe.total, Pnl) \in Amount /\ Minus(X1Y1, Delta) \in Amount
         /\ AtMost(Minus(X1Y1, Delta), Normalize(Minus(probe.total, Pnl), Unit, Sys))
<1> DEFINE left == Minus(probe.total, Pnl)
           k    == ScaleOf(Unit, Sys)
<1>1. /\ probe.total \in Amount /\ X1Y1 \in Amount
      /\ \A s \in Side : probe.total[s] \in Nat /\ X1Y1[s] \in Nat
  BY PnlProbe DEF Amount
<1>2. /\ Pnl \in Amount /\ \A s \in Side : Pnl[s] < probe.total[s]
      /\ Delta \in Amount /\ AtMost(Delta, X1Y1)
  BY PnlProbe, PnlBounds DEF X1Y1, Pnl, Delta, WholeUnits
<1>3. \A s \in Side : Pnl[s] \in Nat /\ Delta[s] \in Nat /\ k[s] * Pnl[s] <= Delta[s]
  BY PnlProbe, TakeTogether DEF Pnl, Delta
<1>4. left \in Amount /\ Minus(X1Y1, Delta) \in Amount
  <2>1. AtMost(Pnl, probe.total)
    BY <1>1, <1>2, <1>3 DEF AtMost
  <2> QED
    BY <1>1, <1>2, <2>1, ArithmeticType
<1>5. ASSUME NEW s \in Side
      PROVE  Minus(X1Y1, Delta)[s] <= Normalize(left, Unit, Sys)[s]
  <2>1. /\ Normalize(left, Unit, Sys)[s] = k[s] * left[s]
        /\ X1Y1[s] = k[s] * probe.total[s] /\ k[s] \in Positive
    BY <1>1, <1>4, WholeAmounts, WholeScale DEF X1Y1
  <2>2. left[s] = probe.total[s] - Pnl[s] /\ Minus(X1Y1, Delta)[s] = X1Y1[s] - Delta[s]
    BY DEF Minus
  <2> HIDE DEF k, left
  <2>3. k[s] * left[s] = k[s] * probe.total[s] - k[s] * Pnl[s]
    BY <1>1, <1>3, <2>1, <2>2 DEF Positive
  <2>4. k[s] * probe.total[s] \in Nat /\ k[s] * Pnl[s] \in Nat
    BY <1>1, <1>3, <2>1 DEF Positive
  <2> QED
    BY <1>1, <1>3, <2>1, <2>2, <2>3, <2>4
<1> QED
  BY <1>4, <1>5 DEF AtMost

(* The protocol's share comes out of the profit, whatever the reserves,    *)
(* the baseline they cover and the share below one half: calc_take_pnl     *)
(* leaves reserves that cover the baseline still.                          *)
THEOREM ShareComesOutOfProfit == WholeUnits(Unit, Sys) /\ MinorShares => (Spec => []ShareLeavesBaseline)
<1> SUFFICES ASSUME WholeUnits(Unit, Sys), MinorShares PROVE Spec => []ShareLeavesBaseline
  OBVIOUS
<1>1. ASSUME probe \in QuoteProbes \cup PnlProbes PROVE ShareLeavesBaseline
  <2> SUFFICES ASSUME Settled
               PROVE  /\ Product(Minus(probe.total, Pnl)) >= Product(Restore(probe.calc, Unit, Sys))
                      /\ Product(Minus(X1Y1, Delta)) >= Product(probe.calc)
    BY DEF ShareLeavesBaseline
  <2> DEFINE left   == Product(Minus(probe.total, Pnl))
             old    == Product(probe.calc)
             native == Product(Restore(probe.calc, Unit, Sys))
             next   == Product(Minus(X1Y1, Delta))
             scale  == ScaleOf(Unit, Sys)["pc"] * ScaleOf(Unit, Sys)["coin"]
  <2>1. old <= next
    BY <1>1, PnlProbe, TakeLeavesBaseline DEF MinorShares, Delta
  <2>2. /\ Minus(probe.total, Pnl) \in Amount /\ Minus(X1Y1, Delta) \in Amount
        /\ probe.calc \in Amount
        /\ AtMost(Minus(X1Y1, Delta), Normalize(Minus(probe.total, Pnl), Unit, Sys))
    BY <1>1, RecordedWithinLeft, PnlProbe
  <2>3. /\ scale \in Positive /\ scale * native <= old
        /\ Product(Normalize(Minus(probe.total, Pnl), Unit, Sys)) = scale * left
    BY <2>2, WholeProduct
  <2>4. /\ Restore(probe.calc, Unit, Sys) \in Amount
        /\ Normalize(Minus(probe.total, Pnl), Unit, Sys) \in Amount
    BY <2>2, NormalizeType DEF WholeUnits
  <2>5. left \in Nat /\ old \in Nat /\ native \in Nat /\ next \in Nat
    BY <2>2, <2>4, ArithmeticType
  <2>6. next <= scale * left
    BY <2>2, <2>3, <2>4, ProductMonotonic
  <2> HIDE DEF left, old, native, next, scale
  <2>7. scale * native \in Nat /\ scale * left \in Nat
    BY <2>3, <2>5 DEF Positive
  <2>8. scale * native <= scale * left
    BY <2>1, <2>3, <2>5, <2>6, <2>7
  <2>9. native <= left
    BY <2>3, <2>5, <2>8 DEF Positive
  <2> QED
    BY <2>1, <2>5, <2>9 DEF left, old, native, next
<1> QED
  BY <1>1, ProbeStays, PTL

(* The next baseline never exceeds the reserves it is recorded of.         *)
THEOREM BaselineWithinReserves == WholeUnits(Unit, Sys) => (Spec => []DeltaCoversPnl)
<1> SUFFICES ASSUME WholeUnits(Unit, Sys) PROVE Spec => []DeltaCoversPnl
  OBVIOUS
<1>1. ASSUME probe \in QuoteProbes \cup PnlProbes PROVE DeltaCoversPnl
  BY <1>1, RecordedWithinLeft DEF DeltaCoversPnl
<1> QED
  BY <1>1, ProbeStays, PTL
=============================================================================
