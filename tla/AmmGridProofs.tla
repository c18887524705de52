---------------------------- MODULE AmmGridProofs ----------------------------
(***************************************************************************)
(* What a plan of AmmGrid guarantees, for every pool, market and fee.      *)
(***************************************************************************)
EXTENDS AmmGrid, AmmMathLemmas

Order == [price : Nat, vol : Nat]

(* What the plan is made from is positive and stays as it is. *)
Base ==
  /\ total \in Amount
  /\ Sys \in Positive
  /\ Tick \in Positive
  /\ Lot \in Positive
  /\ Target \in Amount
  /\ Target["pc"] > 0 /\ Target["coin"] > 0
  /\ CurPrice \in Nat
  /\ CurPrice >= Tick

(* Every bid at or below the pool's price, every ask above it. *)
AroundPrice ==
  /\ \A i \in DOMAIN bids : bids[i].price <= CurPrice
  /\ TradeFee.num + MinSeparate > 0 => \A i \in DOMAIN asks : asks[i].price > CurPrice

GridInv == TypeOK /\ Base /\ AroundPrice /\ BidsKeepProduct

-----------------------------------------------------------------------------
(* The constants, in the form the lemmas use. *)
LEMMA GridConstants ==
  /\ Unit \in [Side -> Positive] /\ CoinLot \in Positive /\ PcLot \in Positive
  /\ OrderNum \in 1 .. 10 /\ Depth \in 1 .. 99
  /\ TradeFee.num \in Nat /\ TradeFee.den \in Positive
  /\ MinSeparate \in Nat /\ MinSeparate + TradeFee.num <= TradeFee.den
  /\ CutRatio \in 0 .. 10000
  /\ LastOrder.num \in Nat /\ LastOrder.den \in Nat
BY GridAssumption DEF MaxOrderLimit, Positive, Fraction, ValidFraction

(* saturating_sub stays between zero and what it subtracts from. *)
LEMMA SaturatingSubBelow ==
  ASSUME NEW a \in Nat, NEW b \in Nat
  PROVE  /\ SaturatingSub(a, b) \in 0 .. a
         /\ SaturatingSub(a, b) > 0 => SaturatingSub(a, b) = a - b
BY DEF SaturatingSub

(* A ceiling division of at least one never rounds down, not even to the   *)
(* quotient. *)
LEMMA CeilDivOfLarge ==
  ASSUME NEW a \in Nat, NEW b \in Positive, a >= b
  PROVE  CeilDiv(a, b) \in Nat /\ a <= b * CeilDiv(a, b) /\ CeilDiv(a, b) >= 1
<1>1. a \div b \in Nat /\ a \div b >= 1
  <2>1. a \div b \in Nat /\ a < b * (a \div b) + b
    BY DivFloor
  <2>2. CASE a \div b = 0
    BY <2>1, <2>2 DEF Positive
  <2> QED
    BY <2>1, <2>2
<1>2. CeilDiv(a, b) >= 1
  BY <1>1 DEF CeilDiv
<1> QED
  BY <1>2, CeilDivAbove

(* ceil_lot of at least a lot is a price and rounds up; floor_lot rounds   *)
(* down.                                                                   *)
LEMMA LotRounding ==
  ASSUME NEW v \in Nat, NEW lot \in Positive
  PROVE  /\ FloorLot(v, lot) \in 0 .. v
         /\ CeilLot(v, lot) \in Nat
         /\ v >= lot => CeilLot(v, lot) >= v
<1>1. v \div lot \in Nat /\ lot * (v \div lot) <= v
  BY DivFloor
<1>2. CeilDiv(v, lot) \in Nat
  BY CeilDivAbove
<1>3. v >= lot => v <= lot * CeilDiv(v, lot)
  BY CeilDivOfLarge
<1>4. lot \in Nat
  BY DEF Positive
<1>5. (v \div lot) * lot \in Nat /\ CeilDiv(v, lot) * lot \in Nat
  BY <1>1, <1>2, <1>4
<1> QED
  BY <1>1, <1>2, <1>3, <1>4, <1>5 DEF FloorLot, CeilLot

(* What is offered of a maximal size is a part of it. *)
LEMMA OfferedBelow ==
  ASSUME NEW m \in Nat, Lot \in Positive
  PROVE  Offered(m) \in 0 .. m
<1> DEFINE cut == (CutRatio * m) \div 10000
<1>1. cut \in Nat /\ cut <= m
  <2>1. CutRatio * m \in Nat /\ CutRatio * m <= 10000 * m
    <3>1. CutRatio \in Nat /\ CutRatio <= 10000
      BY GridConstants
    <3> QED
      BY <3>1
  <2>2. cut \in Nat /\ 10000 * cut <= CutRatio * m
    BY <2>1, DivFloor DEF Positive
  <2> QED
    BY <2>1, <2>2
<1>2. m - cut \in 0 .. m
  BY <1>1
<1>3. FloorLot(m - cut, Lot) \in 0 .. m - cut
  BY <1>2, LotRounding
<1> QED
  BY <1>2, <1>3 DEF Offered

(* The price that get_max_buy_size_at_price divides by is at least the     *)
(* order's. *)
LEMMA BidFee ==
  ASSUME NEW p \in Nat
  PROVE  BidPriceWithFee(p) \in Nat /\ BidPriceWithFee(p) >= p
<1>1. TradeFee.num \in Nat /\ TradeFee.den \in Positive
  BY GridConstants
<1> DEFINE a == p * (TradeFee.den + TradeFee.num)
           d == TradeFee.den
<1>2. d \in Positive /\ d \in Nat /\ a \in Nat
  BY <1>1 DEF Positive
<1>3. a >= d * p
  <2>1. a = d * p + p * TradeFee.num /\ p * TradeFee.num \in Nat
    BY <1>1, <1>2
  <2> QED
    BY <2>1, <1>2
<1>4. a \div d \in Nat /\ a < d * (a \div d) + d
  BY <1>2, DivFloor
<1>5. a \div d >= p
  <2> HIDE DEF a, d
  <2> SUFFICES ASSUME a \div d < p PROVE FALSE
    BY <1>4
  <2>1. PICK q \in Nat : q = a \div d
    BY <1>4
  <2>2. q + 1 <= p
    BY <2>1
  <2>3. d * (q + 1) <= d * p
    BY <2>2, <1>2, <2>1
  <2>4. d * (q + 1) = d * q + d
    BY <1>2
  <2> QED
    BY <2>1, <2>3, <2>4, <1>2, <1>3, <1>4
<1> QED
  BY <1>4, <1>5 DEF BidPriceWithFee

(* Buying no more than get_max_buy_size_at_price at the order's price is   *)
(* paid for by the plan's pc and does not lower the product.               *)
LEMMA BuyKeepsProduct ==
  ASSUME NEW plan \in Amount, Sys \in Positive, NEW p \in Positive,
         NEW q \in 0 .. MaxBuySize(p, plan)
  PROVE  /\ Cost(q, p) \in 0 .. plan["pc"]
         /\ plan["pc"] * plan["coin"] <= (plan["pc"] - Cost(q, p)) * (plan["coin"] + q)
<1> DEFINE x == plan["pc"]
           y == plan["coin"]
           w == BidPriceWithFee(p)
           m == (x * Sys) \div w
           c == Cost(q, p)
<1>1. x \in Nat /\ y \in Nat /\ p \in Nat /\ Sys \in Nat /\ Sys > 0
  BY DEF Amount, Side, Positive
<1>2. w \in Positive /\ w >= p
  BY <1>1, BidFee DEF Positive
<1>3. m \in Nat /\ w * m <= x * Sys
  <2>1. x * Sys \in Nat
    BY <1>1
  <2> HIDE DEF x, w
  <2> QED
    BY <2>1, <1>2, DivFloor
<1>4. MaxBuySize(p, plan) = SaturatingSub(m, y)
  BY DEF MaxBuySize
<1>5. q \in Nat
  BY <1>1, <1>3, <1>4, SaturatingSubBelow
<1>6. q * p \in Nat /\ c \in Nat /\ Sys * c <= q * p
  BY <1>1, <1>5, DivFloor DEF Cost
<1>7. CASE q = 0
  <2>1. c = 0
    <3>1. q * p = 0
      BY <1>7, <1>1
    <3>2. Sys * c <= 0
      BY <1>6, <3>1
    <3> HIDE DEF c
    <3> QED
      BY <3>2, <1>1, <1>6
  <2> HIDE DEF c
  <2>2. x - c = x /\ y + q = y
    BY <2>1, <1>7, <1>1
  <2>3. c \in 0 .. x
    BY <2>1, <1>1
  <2>4. x * y <= x * y
    BY <1>1
  <2> QED
    BY <2>2, <2>3, <2>4 DEF c
<1>8. CASE q > 0
  <2> HIDE DEF x, y, w, m, c
  <2>1. y + q <= m
    <3>1. q <= SaturatingSub(m, y) /\ SaturatingSub(m, y) \in Nat
      BY <1>1, <1>3, <1>4, SaturatingSubBelow
    <3>2. SaturatingSub(m, y) = m - y
      BY <3>1, <1>8, <1>1, <1>3, <1>5, SaturatingSubBelow
    <3> QED
      BY <3>1, <3>2, <1>1, <1>3, <1>5
  <2>2. c * (y + q) <= x * q
    <3>1. w \in Nat /\ y + q \in Nat
      BY <1>1, <1>2, <1>5 DEF Positive
    <3>2. w * (y + q) <= x * Sys
      <4>1. w * (y + q) <= w * m
        BY <2>1, <3>1, <1>3
      <4> QED
        BY <4>1, <1>3, <1>1, <3>1
    <3>3. (Sys * c) * (y + q) <= (q * p) * (y + q)
      BY <1>6, <3>1, <1>1
    <3>4. (q * p) * (y + q) <= (q * w) * (y + q)
      <4>1. q * p <= q * w
        BY <1>1, <1>2, <1>5, <3>1
      <4>2. q * p \in Nat /\ q * w \in Nat
        BY <1>1, <1>5, <3>1
      <4> QED
        BY <4>1, <4>2, <3>1
    <3>5. (q * w) * (y + q) = q * (w * (y + q))
      BY <1>5, <3>1
    <3>6. q * (w * (y + q)) <= q * (x * Sys)
      <4>1. w * (y + q) \in Nat /\ x * Sys \in Nat
        BY <1>1, <3>1
      <4> QED
        BY <3>2, <4>1, <1>5
    <3>7. (Sys * c) * (y + q) = Sys * (c * (y + q)) /\ q * (x * Sys) = Sys * (x * q)
      BY <1>1, <1>5, <1>6, <3>1
    <3>8. Sys * (c * (y + q)) <= Sys * (x * q)
      <4> DEFINE a1 == (Sys * c) * (y + q)
                 a2 == (q * p) * (y + q)
                 a3 == (q * w) * (y + q)
                 a4 == q * (x * Sys)
      <4>1. a1 \in Nat /\ a2 \in Nat /\ a3 \in Nat /\ a4 \in Nat
        BY <1>1, <1>5, <1>6, <3>1
      <4>2. a1 <= a2 /\ a2 <= a3 /\ a3 <= a4
        BY <3>3, <3>4, <3>5, <3>6
      <4>3. a1 <= a4
        <5> HIDE DEF a1, a2, a3, a4
        <5> QED
          BY <4>1, <4>2
      <4> QED
        BY <4>3, <3>7
    <3>9. c * (y + q) \in Nat /\ x * q \in Nat
      BY <1>1, <1>5, <1>6, <3>1
    <3> DEFINE l == c * (y + q)
               r == x * q
    <3>10. l \in Nat /\ r \in Nat /\ Sys * l <= Sys * r
      BY <3>8, <3>9
    <3>11. l <= r
      <4> HIDE DEF l, r
      <4>1. SUFFICES ASSUME r + 1 <= l PROVE FALSE
        BY <3>10
      <4>2. Sys * (r + 1) <= Sys * l
        BY <4>1, <3>10, <1>1
      <4>3. Sys * (r + 1) = Sys * r + Sys
        BY <3>10, <1>1
      <4> QED
        BY <4>2, <4>3, <3>10, <1>1
    <3> QED
      BY <3>11
  <2>3. c <= x
    <3>1. SUFFICES ASSUME x + 1 <= c PROVE FALSE
      BY <1>1, <1>6
    <3>2. (x + 1) * (y + q) <= c * (y + q)
      BY <3>1, <1>1, <1>5, <1>6
    <3>3. (x + 1) * (y + q) = x * y + x * q + y + q
      BY <1>1, <1>5
    <3>4. x * y \in Nat /\ x * q \in Nat
      BY <1>1, <1>5
    <3> DEFINE a == x * y
               b == x * q
               d == c * (y + q)
    <3>5. a \in Nat /\ b \in Nat /\ d \in Int /\ a + b + y + q <= d /\ d <= b
      BY <3>2, <3>3, <3>4, <2>2, <1>1, <1>5, <1>6
    <3> HIDE DEF a, b, d
    <3> QED
      BY <3>5, <1>8, <1>1, <1>5
  <2>4. (x - c) * (y + q) = x * y + x * q - c * (y + q)
    BY <1>1, <1>5, <1>6
  <2>5. x * y <= (x - c) * (y + q)
    <3> DEFINE a == x * y
               b == x * q
               d == c * (y + q)
    <3>1. a \in Int /\ b \in Int /\ d \in Int /\ d <= b /\ (x - c) * (y + q) = a + b - d
      BY <2>2, <2>4, <1>1, <1>5, <1>6
    <3>2. a <= a + b - d
      <4> HIDE DEF a, b, d
      <4> QED
        BY <3>1
    <3> QED
      BY <3>1, <3>2
  <2>6. c \in 0 .. x
    BY <2>3, <1>1, <1>6
  <2> QED
    BY <2>5, <2>6 DEF x, y, c
<1> QED
  BY <1>5, <1>7, <1>8

-----------------------------------------------------------------------------
(* The best prices and the grid, around the pool's price. *)
LEMMA BestPrices ==
  ASSUME Base
  PROVE  /\ MaxBid \in 0 .. CurPrice
         /\ MinAsk \in Nat
         /\ TradeFee.den * MinAsk >= CurPrice * (TradeFee.den + (MinSeparate + TradeFee.num))
         /\ MinAsk >= CurPrice
         /\ TradeFee.num + MinSeparate > 0 => MinAsk > CurPrice
         /\ Grid \in 0 .. CurPrice
<1> DEFINE c == CurPrice
           d == TradeFee.den
           k == MinSeparate + TradeFee.num
<1>1. c \in Nat /\ d \in Nat /\ d \in Positive /\ k \in Nat /\ k <= d
  BY GridConstants DEF Base, Positive
<1>2. c >= 1 /\ Tick \in Nat /\ Tick <= c
  BY DEF Base, Positive
<1>3. MaxBid \in 0 .. c
  <2>1. MaxBid = (c * (d - k)) \div d
    BY DEF MaxBid
  <2> HIDE DEF c, d, k
  <2>2. c * (d - k) \in Nat /\ c * (d - k) <= d * c
    <3>1. d - k \in Nat /\ d - k <= d
      BY <1>1
    <3> QED
      BY <3>1, <1>1
  <2> DEFINE a == c * (d - k)
             b == d * c
  <2>3. a \div d \in Nat /\ d * (a \div d) <= b
    <3>1. a \in Nat /\ a <= b /\ b \in Nat
      BY <2>2, <1>1
    <3> HIDE DEF a, b
    <3>2. a \div d \in Nat /\ d * (a \div d) <= a
      BY <3>1, <1>1, DivFloor
    <3> QED
      BY <3>1, <3>2, <1>1
  <2>4. a \div d <= c
    <3> DEFINE q == a \div d
    <3>1. q \in Nat /\ d * q <= d * c /\ d >= 1
      BY <2>3, <1>1 DEF Positive
    <3> HIDE DEF q
    <3>2. SUFFICES ASSUME c + 1 <= q PROVE FALSE
      BY <3>1, <1>1 DEF q
    <3>3. d * (c + 1) <= d * q
      BY <3>1, <3>2, <1>1
    <3>4. d * (c + 1) = d * c + d
      BY <1>1
    <3> QED
      BY <3>1, <3>3, <3>4, <1>1
  <2> QED
    BY <2>1, <2>3, <2>4 DEF a
<1>4. /\ MinAsk \in Nat
      /\ d * MinAsk >= c * (d + k)
      /\ MinAsk >= c
      /\ k > 0 => MinAsk > c
  <2>1. MinAsk = CeilDiv(c * (d + k), d)
    BY DEF MinAsk
  <2> HIDE DEF c, d, k
  <2>2. c * (d + k) = d * c + c * k /\ c * k \in Nat /\ d * c \in Nat /\ d * c >= d
    BY <1>1, <1>2
  <2> DEFINE a == c * (d + k)
             m == CeilDiv(a, d)
  <2>3. a \in Nat /\ a >= d
    BY <2>2, <1>1
  <2>4. m \in Nat /\ a <= d * m
    <3> HIDE DEF a
    <3> QED
      BY <2>3, <1>1, CeilDivOfLarge
  <2> HIDE DEF m
  <2>5. m >= c /\ (k > 0 => m > c)
    <3>1. d * c + c * k <= d * m
      BY <2>2, <2>4
    <3>2. m >= c
      <4>1. SUFFICES ASSUME m + 1 <= c PROVE FALSE
        BY <2>4, <1>1
      <4>2. d * (m + 1) <= d * c
        BY <4>1, <2>4, <1>1
      <4>3. d * (m + 1) = d * m + d
        BY <2>4, <1>1
      <4> QED
        BY <3>1, <4>2, <4>3, <2>2, <2>4, <1>1 DEF Positive
    <3>3. ASSUME k > 0, m = c PROVE FALSE
      <4>1. c * k >= 1
        BY <3>3, <1>1, <1>2
      <4> QED
        BY <3>1, <3>3, <4>1, <2>2, <1>1
    <3> QED
      BY <3>2, <3>3, <2>4, <1>1
  <2> QED
    BY <2>1, <2>4, <2>5 DEF m, a
<1>5. Grid \in 0 .. c
  <2>1. Depth \in Nat /\ Depth <= 100 /\ OrderNum \in Positive
    BY GridConstants DEF Positive
  <2> DEFINE a == (c * Depth) \div 100
             b == a \div OrderNum
  <2>2. c * Depth \in Nat /\ c * Depth <= 100 * c
    <3> HIDE DEF c
    <3> QED
      BY <2>1, <1>1
  <2>3. a \in Nat /\ a <= c
    <3> DEFINE n == c * Depth
    <3>1. n \in Nat /\ n <= 100 * c
      BY <2>2
    <3>2. a = n \div 100
      OBVIOUS
    <3> HIDE DEF n, a, c
    <3>3. n \div 100 \in Nat /\ 100 * (n \div 100) <= n
      BY <3>1, DivFloor DEF Positive
    <3> QED
      BY <3>1, <3>2, <3>3, <1>1
  <2>4. b \in Nat /\ b <= a
    <3> HIDE DEF a
    <3>1. b \in Nat /\ OrderNum * b <= a
      BY <2>1, <2>3, DivFloor
    <3>2. OrderNum \in Nat /\ OrderNum >= 1
      BY <2>1 DEF Positive
    <3>3. b <= OrderNum * b
      <4> HIDE DEF b
      <4> QED
        BY <3>1, <3>2
    <3> QED
      BY <2>3, <3>1, <3>2, <3>3
  <2>5. Grid = IF b < Tick THEN Tick ELSE b
    BY DEF Grid
  <2> HIDE DEF b, a
  <2> QED
    BY <2>3, <2>4, <2>5, <1>1, <1>2
<1>6. TradeFee.num \in Nat /\ MinSeparate \in Nat
  BY GridConstants
<1> QED
  BY <1>3, <1>4, <1>5, <1>6

(* The level that is planned next and its distance from the best price. *)
LEMMA LevelType ==
  ASSUME TypeOK, Base, Len(bids) < OrderNum
  PROVE  Level \in 1 .. OrderNum /\ Distance \in Nat
<1>1. Len(bids) \in Nat /\ OrderNum \in 1 .. 10
  BY GridConstants DEF TypeOK
<1>2. Level \in 1 .. OrderNum /\ Level \in 1 .. 10
  BY <1>1 DEF Level
<1>3. Fibonacci[Level] \in Nat
  BY <1>2 DEF Fibonacci
<1>4. Grid \in Nat
  BY BestPrices DEF Base
<1> QED
  BY <1>2, <1>3, <1>4 DEF Distance

(* No bid above the pool's price. *)
LEMMA BidPriceBelow ==
  ASSUME TypeOK, Base, Len(bids) < OrderNum
  PROVE  BidPrice \in 0 .. CurPrice
<1> DEFINE price == SaturatingSub(MaxBid, Distance)
<1>1. price \in 0 .. CurPrice
  <2>1. MaxBid \in 0 .. CurPrice /\ Distance \in Nat /\ CurPrice \in Nat
    BY BestPrices, LevelType DEF Base
  <2> QED
    BY <2>1 DEF SaturatingSub
<1>2. IsLastOrder => LastBidPrice(price) \in 0 .. CurPrice
  <2> HAVE IsLastOrder
  <2> DEFINE target == (CurPrice * LastOrder.den) \div LastOrder.num
  <2>1. target \in Nat
    <3>1. CurPrice * LastOrder.den \in Nat /\ LastOrder.num \in Positive
      BY GridConstants DEF Base, IsLastOrder, Positive
    <3> QED
      BY <3>1, DivFloor
  <2>2. Grid \in 0 .. CurPrice /\ CurPrice \in Nat
    BY BestPrices DEF Base
  <2> HIDE DEF target, price
  <2>3. LastBidPrice(price) = IF RaisesLastBid(IF price > target THEN target ELSE price)
                              THEN Grid ELSE (IF price > target THEN target ELSE price)
    BY DEF LastBidPrice, target
  <2> QED
    BY <1>1, <2>1, <2>2, <2>3
<1>3. Tick \in Positive /\ CurPrice \in Nat
  BY DEF Base
<1> DEFINE p == IF IsLastOrder THEN LastBidPrice(price) ELSE price
<1>4. p \in 0 .. CurPrice /\ p \in Nat
  BY <1>1, <1>2, <1>3
<1>5. BidPrice = FloorLot(p, Tick)
  BY DEF BidPrice
<1> HIDE DEF p
<1> QED
  BY <1>3, <1>4, <1>5, LotRounding

(* No ask below the pool's best one. *)
LEMMA AskPriceAbove ==
  ASSUME TypeOK, Base, Len(bids) < OrderNum
  PROVE  AskPrice \in Nat /\ AskPrice >= MinAsk
<1> DEFINE price == MinAsk + Distance
           target == (CurPrice * LastOrder.num) \div LastOrder.den
           p == IF IsLastOrder /\ price < target THEN target ELSE price
<1>1. MinAsk \in Nat /\ Distance \in Nat /\ CurPrice \in Nat /\ MinAsk >= CurPrice
  BY BestPrices, LevelType DEF Base
<1>2. price \in Nat /\ price >= MinAsk
  BY <1>1
<1>3. IsLastOrder => target \in Nat
  <2> HAVE IsLastOrder
  <2>1. CurPrice * LastOrder.num \in Nat /\ LastOrder.den \in Positive
    BY GridConstants, <1>1 DEF IsLastOrder, Positive
  <2> QED
    BY <2>1, DivFloor
<1>4. p \in Nat /\ p >= MinAsk
  <2> HIDE DEF price, target
  <2> QED
    BY <1>1, <1>2, <1>3
<1>5. Tick \in Positive /\ CurPrice >= Tick /\ Tick \in Nat
  BY DEF Base, Positive
<1>6. AskPrice = CeilLot(p, Tick)
  BY DEF AskPrice
<1>7. p >= Tick
  <2> HIDE DEF p
  <2> QED
    BY <1>1, <1>4, <1>5
<1> HIDE DEF p
<1>8. CeilLot(p, Tick) \in Nat /\ CeilLot(p, Tick) >= p
  BY <1>4, <1>5, <1>7, LotRounding
<1> QED
  BY <1>1, <1>4, <1>6, <1>8

(* get_max_sell_size_at_price does not divide by zero: an ask is far enough *)
(* above the pool's price for the fee to leave something of it.            *)
LEMMA AskDivisor ==
  ASSUME TypeOK, Base, Len(bids) < OrderNum
  PROVE  AskPriceWithFee(AskPrice) \in Positive
<1> DEFINE d == TradeFee.den
           n == TradeFee.num
           s == MinSeparate
           p == AskPrice
           c == CurPrice
<1>1. d \in Nat /\ d >= 1 /\ n \in Nat /\ s \in Nat /\ c \in Nat /\ c >= 1
  BY GridConstants DEF Base, Positive
<1>2. p \in Nat /\ MinAsk \in Nat /\ p >= MinAsk /\ d * MinAsk >= c * (d + (s + n))
  BY AskPriceAbove, BestPrices
<1>3. AskPriceWithFee(p) = (p * d) \div (d + n)
  BY DEF AskPriceWithFee
<1> HIDE DEF d, n, s, p, c
<1>4. p * d >= d + n
  <2>1. d * p >= d * MinAsk
    BY <1>1, <1>2
  <2>2. c * (d + (s + n)) >= d + (s + n)
    BY <1>1
  <2> DEFINE a == c * (d + (s + n))
  <2>3. a \in Nat /\ a >= d + (s + n) /\ d * MinAsk >= a
    BY <1>1, <1>2, <2>2
  <2> HIDE DEF a
  <2> QED
    BY <2>1, <2>3, <1>1, <1>2
<1> DEFINE a == p * d
           b == d + n
<1>5. a \in Nat /\ b \in Positive /\ b \in Nat /\ a >= b
  BY <1>1, <1>2, <1>4 DEF Positive
<1>6. a \div b \in Positive
  <2> HIDE DEF a, b
  <2>1. a \div b \in Nat /\ a < b * (a \div b) + b
    BY <1>5, DivFloor
  <2>2. CASE a \div b = 0
    BY <1>5, <2>1, <2>2
  <2> QED
    BY <2>1, <2>2 DEF Positive
<1> QED
  BY <1>3, <1>6 DEF p

-----------------------------------------------------------------------------
(* Nothing of the plan changes what it is made from. *)
LEMMA BaseKept ==
  ASSUME Base, UNCHANGED total
  PROVE  Base' /\ CurPrice' = CurPrice /\ Target' = Target
<1>1. Target' = Target
  BY DEF Target
<1>2. CurPrice' = CurPrice
  BY <1>1 DEF CurPrice
<1> QED
  BY <1>1, <1>2 DEF Base

(* An empty plan satisfies the invariant. *)
LEMMA GridInvInit == Init => GridInv
<1> SUFFICES ASSUME Init PROVE GridInv
  OBVIOUS
<1>1. total \in Amount /\ bids = <<>> /\ asks = <<>> /\ buy = Target /\ sell = Target
  BY GridAssumption DEF Init
<1>2. Sys \in Positive
  BY GridConstants, SysPositive DEF Sys
<1>3. Unit \in [Side -> Positive]
  BY GridConstants
<1>4. Target \in Amount
  BY <1>1, <1>2, <1>3, NormalizeType DEF Target
<1>5. Target["pc"] > 0 /\ Target["coin"] > 0
  BY DEF Init, Plannable, Side
<1>6. CurPrice \in Nat
  <2>1. Target["pc"] \in Nat /\ Target["coin"] \in Positive /\ Sys \in Nat
    BY <1>2, <1>4, <1>5 DEF Amount, Side, Positive
  <2>2. Target["pc"] * Sys \in Nat
    BY <2>1
  <2> QED
    BY <2>1, <2>2, DivFloor DEF CurPrice
<1>7. Tick \in Positive
  <2>1. /\ PcLot \in Nat /\ PcLot > 0 /\ Sys \in Nat /\ Unit["coin"] \in Nat
        /\ CoinLot \in Positive /\ Unit["pc"] \in Positive
    BY <1>2, GridConstants DEF Side, Positive
  <2>2. PcLot * Sys * Unit["coin"] \in Nat /\ CoinLot * Unit["pc"] \in Positive
    BY <2>1 DEF Positive
  <2>3. Tick \in Nat
    BY <2>2, DivFloor DEF Tick
  <2> QED
    BY <2>3 DEF Init, LotsExist, Positive
<1>8. Lot \in Positive
  <2>1. CoinLot \in Nat /\ Unit["coin"] \in Positive
    BY GridConstants DEF Side, Positive
  <2>2. Lot \in Nat
    BY <2>1, <1>2, RestoreNormalize DEF Lot
  <2> QED
    BY <2>2 DEF Init, LotsExist, Positive
<1>9. Base
  BY <1>1, <1>2, <1>4, <1>5, <1>6, <1>7, <1>8 DEF Base, Init, Plannable
<1>10. TypeOK
  BY <1>1, <1>4, GridConstants DEF TypeOK
<1>11. BidsKeepProduct
  <2>1. Product(Target) \in Nat
    BY <1>4, ArithmeticType
  <2> QED
    BY <1>1, <2>1 DEF BidsKeepProduct
<1> QED
  BY <1>1, <1>9, <1>10, <1>11 DEF GridInv, AroundPrice

(* What a level adds to the plan: prices around the pool's, sizes that the *)
(* plan still has, and bids on the pool's curve.                           *)
LEMMA LevelFacts ==
  ASSUME TypeOK, Base, Len(bids) < OrderNum
  PROVE  /\ BidPrice \in Nat /\ BidPrice <= CurPrice
         /\ AskPrice \in Nat /\ (TradeFee.num + MinSeparate > 0 => AskPrice > CurPrice)
         /\ buy["coin"] \in Nat /\ buy["pc"] \in Nat /\ sell["coin"] \in Nat /\ sell["pc"] \in Nat
         /\ BidVol(BidPrice) \in Nat
         /\ Cost(BidVol(BidPrice), BidPrice) \in 0 .. buy["pc"]
         /\ buy["pc"] * buy["coin"]
              <= (buy["pc"] - Cost(BidVol(BidPrice), BidPrice)) * (buy["coin"] + BidVol(BidPrice))
         /\ MaxSellSize(AskPrice, sell) \in 0 .. sell["coin"]
         /\ AskVol(AskPrice) \in 0 .. MaxSellSize(AskPrice, sell)
         /\ Cost(AskVol(AskPrice), AskPrice) \in Nat
<1> DEFINE bid == BidPrice
           ask == AskPrice
           bidVol == BidVol(bid)
           askVol == AskVol(ask)
<1>1. Sys \in Positive /\ Sys \in Nat /\ Lot \in Positive /\ CurPrice \in Nat
  BY DEF Base, Positive
<1>2. bid \in Nat /\ bid <= CurPrice
  BY <1>1, BidPriceBelow
<1>3. ask \in Nat /\ (TradeFee.num + MinSeparate > 0 => ask > CurPrice)
  <2>1. ask \in Nat /\ ask >= MinAsk /\ MinAsk \in Nat
        /\ (TradeFee.num + MinSeparate > 0 => MinAsk > CurPrice)
    BY AskPriceAbove, BestPrices
  <2> HIDE DEF ask
  <2> QED
    BY <2>1, <1>1
<1>4. buy \in Amount /\ sell \in Amount
  BY DEF TypeOK
<1>5. buy["coin"] \in Nat /\ buy["pc"] \in Nat /\ sell["coin"] \in Nat /\ sell["pc"] \in Nat
  BY <1>4 DEF Amount, Side
<1>6. /\ bidVol \in Nat
      /\ Cost(bidVol, bid) \in 0 .. buy["pc"]
      /\ buy["pc"] * buy["coin"] <= (buy["pc"] - Cost(bidVol, bid)) * (buy["coin"] + bidVol)
  <2> HIDE DEF bid
  <2>1. CASE bid = 0
    <3>1. bidVol = 0
      BY <2>1 DEF BidVol
    <3>2. 0 * bid = 0 /\ Sys \in Positive /\ 0 \div Sys \in Nat /\ Sys * (0 \div Sys) <= 0
      BY <1>1, <1>2, DivFloor
    <3>3. Cost(0, bid) = 0
      <4> DEFINE z == 0 \div Sys
      <4>1. Cost(0, bid) = z
        BY <3>2 DEF Cost
      <4>2. z \in Nat /\ Sys * z <= 0 /\ Sys \in Nat /\ Sys >= 1
        BY <3>2 DEF Positive
      <4> HIDE DEF z
      <4>3. z = 0
        BY <4>2
      <4> QED
        BY <4>1, <4>3
    <3> HIDE DEF bidVol
    <3>4. buy["pc"] * buy["coin"] \in Nat
      BY <1>5
    <3> QED
      BY <3>1, <3>3, <3>4, <1>5
  <2>2. CASE bid # 0
    <3>1. bid \in Positive
      BY <1>2, <2>2 DEF Positive
    <3>2. MaxBuySize(bid, buy) \in Nat
      <4> DEFINE w == BidPriceWithFee(bid)
                 a == buy["pc"] * Sys
      <4>1. w \in Positive
        BY <3>1, BidFee DEF Positive
      <4>2. a \in Nat
        BY <1>1, <1>5
      <4> HIDE DEF w, a
      <4> DEFINE m == a \div w
      <4>3. m \in Nat
        BY <4>1, <4>2, DivFloor
      <4>4. MaxBuySize(bid, buy) = SaturatingSub(m, buy["coin"])
        BY DEF MaxBuySize, w, a
      <4> HIDE DEF m
      <4> QED
        BY <4>3, <4>4, <1>5 DEF SaturatingSub
    <3>3. bidVol = Offered(MaxBuySize(bid, buy))
      BY <2>2 DEF BidVol
    <3>4. bidVol \in 0 .. MaxBuySize(bid, buy)
      BY <3>2, <3>3, <1>1, OfferedBelow
    <3> HIDE DEF bidVol
    <3> QED
      BY <3>1, <3>2, <3>4, <1>1, <1>4, BuyKeepsProduct
  <2> QED
    BY <2>1, <2>2
<1>7. /\ MaxSellSize(ask, sell) \in 0 .. sell["coin"]
      /\ askVol \in 0 .. MaxSellSize(ask, sell)
      /\ Cost(askVol, ask) \in Nat
  <2> DEFINE w == AskPriceWithFee(ask)
             a == sell["pc"] * Sys
  <2>1. w \in Positive
    BY AskDivisor
  <2>2. a \in Nat
    BY <1>1, <1>5
  <2>3. MaxSellSize(ask, sell) = SaturatingSub(sell["coin"], a \div w)
    BY DEF MaxSellSize
  <2> HIDE DEF ask, w, a
  <2>4. a \div w \in Nat
    BY <2>1, <2>2, DivFloor
  <2>5. MaxSellSize(ask, sell) \in 0 .. sell["coin"]
    BY <2>3, <2>4, <1>5, SaturatingSubBelow
  <2>6. askVol = Offered(MaxSellSize(ask, sell))
    BY DEF AskVol
  <2>7. Offered(MaxSellSize(ask, sell)) \in 0 .. MaxSellSize(ask, sell)
    BY <2>5, <1>1, <1>5, OfferedBelow
  <2>8. askVol \in Nat /\ askVol <= sell["coin"]
    BY <2>5, <2>6, <2>7, <1>5
  <2>9. askVol \in 0 .. MaxSellSize(ask, sell)
    BY <2>6, <2>7
  <2> HIDE DEF askVol
  <2>10. askVol * ask \in Nat
    BY <2>8, <1>3
  <2> QED
    BY <2>5, <2>9, <2>10, <1>1, DivFloor DEF Cost
<1> QED
  BY <1>2, <1>3, <1>5, <1>6, <1>7

(* Planning a level keeps the invariant. *)
LEMMA GridInvStep == GridInv /\ [Next]_vars => GridInv'
<1> SUFFICES ASSUME GridInv, [Next]_vars PROVE GridInv'
  OBVIOUS
<1> USE DEF GridInv
<1>1. CASE UNCHANGED vars
  <2>1. Base' /\ CurPrice' = CurPrice /\ Target' = Target
    BY <1>1, BaseKept DEF vars
  <2> QED
    BY <1>1, <2>1 DEF vars, TypeOK, AroundPrice, BidsKeepProduct
<1>2. CASE PlanLevel
  <2> DEFINE bid == BidPrice
             ask == AskPrice
             bidVol == BidVol(bid)
             askVol == AskVol(ask)
  <2>1. /\ Len(bids) < OrderNum
        /\ bids' = Append(bids, [price |-> bid, vol |-> bidVol])
        /\ asks' = Append(asks, [price |-> ask, vol |-> askVol])
        /\ buy' = [coin |-> buy["coin"] + bidVol, pc |-> buy["pc"] - Cost(bidVol, bid)]
        /\ sell' = [coin |-> sell["coin"] - askVol, pc |-> sell["pc"] + Cost(askVol, ask)]
        /\ total' = total
    BY <1>2 DEF PlanLevel
  <2>2. Base' /\ CurPrice' = CurPrice /\ Target' = Target
    BY <2>1, BaseKept
  <2>3. Sys \in Positive /\ Sys \in Nat /\ Lot \in Positive /\ CurPrice \in Nat
    BY DEF Base, Positive
  <2>4. /\ bid \in Nat /\ bid <= CurPrice
        /\ ask \in Nat /\ (TradeFee.num + MinSeparate > 0 => ask > CurPrice)
        /\ buy["coin"] \in Nat /\ buy["pc"] \in Nat /\ sell["coin"] \in Nat /\ sell["pc"] \in Nat
        /\ bidVol \in Nat /\ Cost(bidVol, bid) \in 0 .. buy["pc"]
        /\ buy["pc"] * buy["coin"] <= (buy["pc"] - Cost(bidVol, bid)) * (buy["coin"] + bidVol)
        /\ MaxSellSize(ask, sell) \in 0 .. sell["coin"]
        /\ askVol \in 0 .. MaxSellSize(ask, sell) /\ Cost(askVol, ask) \in Nat
    BY <2>1, LevelFacts
  <2> HIDE DEF bid, ask, bidVol, askVol
  <2>5. /\ buy["coin"] + bidVol \in Nat /\ buy["pc"] - Cost(bidVol, bid) \in Nat
        /\ sell["coin"] - askVol \in Nat /\ sell["pc"] + Cost(askVol, ask) \in Nat
        /\ askVol \in Nat
    <3> DEFINE c == Cost(bidVol, bid)
               e == Cost(askVol, ask)
               m == MaxSellSize(ask, sell)
    <3>1. /\ buy["coin"] \in Nat /\ buy["pc"] \in Nat /\ sell["coin"] \in Nat /\ sell["pc"] \in Nat
          /\ bidVol \in Nat /\ c \in 0 .. buy["pc"]
          /\ m \in 0 .. sell["coin"] /\ askVol \in 0 .. m /\ e \in Nat
      BY <2>4
    <3> HIDE DEF c, e, m
    <3>2. /\ buy["coin"] + bidVol \in Nat /\ buy["pc"] - c \in Nat
          /\ sell["coin"] - askVol \in Nat /\ sell["pc"] + e \in Nat
          /\ askVol \in Nat
      BY <3>1
    <3> QED
      BY <3>2 DEF c, e
  <2>6. TypeOK'
    <3>1. bids \in Seq(Order) /\ asks \in Seq(Order) /\ Len(bids) = Len(asks) /\ total \in Amount
      BY DEF TypeOK, Order
    <3>2. [price |-> bid, vol |-> bidVol] \in Order /\ [price |-> ask, vol |-> askVol] \in Order
      BY <2>4, <2>5 DEF Order
    <3>3. bids' \in Seq(Order) /\ asks' \in Seq(Order)
      BY <2>1, <3>1, <3>2
    <3>4. Len(bids') = Len(bids) + 1 /\ Len(asks') = Len(asks) + 1
      BY <2>1, <3>1
    <3>5. Len(bids) \in Nat /\ OrderNum \in Nat
      BY <3>1, GridConstants
    <3>6. buy' \in Amount
      BY <2>1, <2>5 DEF Amount, Side
    <3>7. sell' \in Amount
      BY <2>1, <2>5 DEF Amount, Side
    <3> QED
      BY <2>1, <3>1, <3>3, <3>4, <3>5, <3>6, <3>7 DEF TypeOK, Order
  <2>7. AroundPrice'
    <3>1. bids \in Seq(Order) /\ asks \in Seq(Order)
      BY DEF TypeOK, Order
    <3>2. \A i \in DOMAIN bids' : bids'[i].price <= CurPrice
      <4> SUFFICES ASSUME NEW i \in DOMAIN bids' PROVE bids'[i].price <= CurPrice
        OBVIOUS
      <4>1. CASE i \in DOMAIN bids
        <5>1. bids'[i] = bids[i]
          BY <4>1, <2>1, <3>1
        <5> QED
          BY <4>1, <5>1 DEF AroundPrice
      <4>2. CASE i \notin DOMAIN bids
        <5>1. i = Len(bids) + 1
          BY <4>2, <2>1, <3>1
        <5>2. bids'[i] = [price |-> bid, vol |-> bidVol]
          BY <5>1, <2>1, <3>1
        <5> QED
          BY <5>2, <2>4
      <4> QED
        BY <4>1, <4>2
    <3>3. TradeFee.num + MinSeparate > 0 => \A i \in DOMAIN asks' : asks'[i].price > CurPrice
      <4> SUFFICES ASSUME TradeFee.num + MinSeparate > 0, NEW i \in DOMAIN asks'
                   PROVE asks'[i].price > CurPrice
        OBVIOUS
      <4>1. CASE i \in DOMAIN asks
        <5>1. asks'[i] = asks[i]
          BY <4>1, <2>1, <3>1
        <5> QED
          BY <4>1, <5>1 DEF AroundPrice
      <4>2. CASE i \notin DOMAIN asks
        <5>1. i = Len(asks) + 1
          BY <4>2, <2>1, <3>1
        <5>2. asks'[i] = [price |-> ask, vol |-> askVol]
          BY <5>1, <2>1, <3>1
        <5> QED
          BY <5>2, <2>4
      <4> QED
        BY <4>1, <4>2
    <3> QED
      BY <2>2, <3>2, <3>3 DEF AroundPrice
  <2>8. BidsKeepProduct'
    <3> DEFINE old == buy["pc"] * buy["coin"]
               new == (buy["pc"] - Cost(bidVol, bid)) * (buy["coin"] + bidVol)
               target == Product(Target)
    <3>1. Product(buy) = old /\ Product(buy') = new /\ Product(Target') = target
      BY <2>1, <2>2 DEF Product
    <3>2. target <= old
      BY <3>1 DEF BidsKeepProduct
    <3>3. target \in Nat /\ old \in Nat /\ new \in Int /\ old <= new
      <4>1. target \in Nat
        BY ArithmeticType DEF Base
      <4>2. Cost(bidVol, bid) \in Nat
        BY <2>4
      <4> QED
        BY <4>1, <4>2, <2>4
    <3>4. target <= new
      <4> HIDE DEF target, old, new
      <4> QED
        BY <3>2, <3>3
    <3> QED
      BY <3>1, <3>3, <3>4 DEF BidsKeepProduct
  <2> QED
    BY <2>2, <2>6, <2>7, <2>8
<1> QED
  BY <1>1, <1>2 DEF Next

(* The invariant excludes a panic in the middle of a plan. *)
LEMMA GridInvPlans == GridInv => PlanNeverFails
<1> SUFFICES ASSUME GridInv,
                    OrderNum > 2 \/ LastOrder.num = 0 \/ LastOrder.den = 0,
                    Len(bids) < OrderNum
             PROVE  ~PlanFails
  BY DEF PlanNeverFails
<1>1. AskPriceWithFee(AskPrice) \in Positive
  BY AskDivisor DEF GridInv
<1>2. ~(IsLastOrder /\ Level <= 2)
  <2>1. OrderNum \in Nat
    BY GridConstants
  <2> QED
    BY <2>1 DEF IsLastOrder
<1> QED
  BY <1>1, <1>2 DEF PlanFails, Positive

(* The invariant keeps bids and asks apart. *)
LEMMA GridInvApart == GridInv => NeverCrosses
<1> SUFFICES ASSUME GridInv, TradeFee.num + MinSeparate > 0,
                    NEW i \in DOMAIN bids, NEW j \in DOMAIN asks
             PROVE  bids[i].price < asks[j].price
  BY DEF NeverCrosses
<1>1. bids[i].price <= CurPrice /\ asks[j].price > CurPrice
  BY DEF GridInv, AroundPrice
<1>2. bids[i] \in Order /\ asks[j] \in Order
  <2>1. bids \in Seq(Order) /\ asks \in Seq(Order)
    BY DEF GridInv, TypeOK, Order
  <2> QED
    BY <2>1
<1>3. bids[i].price \in Nat /\ asks[j].price \in Nat /\ CurPrice \in Nat
  BY <1>2 DEF Order, GridInv, Base
<1> QED
  BY <1>1, <1>3

-----------------------------------------------------------------------------
(* What the market locks and pays for the orders of a plan, in native      *)
(* amounts, for a pool whose pc has a unit that divides Sys and, where it  *)
(* is needed, whose market has a tick that is a whole number of 1/Sys.     *)
PcAligned == Sys % Unit["pc"] = 0

WholeTick == Tick * (CoinLot * Unit["pc"]) = PcLot * Sys * Unit["coin"]

PerPc == Sys \div Unit["pc"]

BidLockOf == [o \in Order |-> BidLock(o)]
AskLockOf == [o \in Order |-> AskLock(o)]
PaidOf == [o \in Order |-> Paid(o)]

(* Products of bounds, and cancelling in them. *)
LEMMA TimesMonotonic ==
  ASSUME NEW a \in Nat, NEW b \in Nat, NEW c \in Nat, NEW d \in Nat, a <= b, c <= d
  PROVE  a * c <= b * d
<1>1. a * c <= b * c
  OBVIOUS
<1>2. b * c <= b * d
  OBVIOUS
<1>3. a * c \in Nat /\ b * c \in Nat /\ b * d \in Nat
  OBVIOUS
<1> DEFINE p == a * c
           q == b * c
           r == b * d
<1>4. p \in Nat /\ q \in Nat /\ r \in Nat /\ p <= q /\ q <= r
  BY <1>1, <1>2, <1>3
<1> HIDE DEF p, q, r
<1>5. p <= r
  BY <1>4
<1> QED
  BY <1>5 DEF p, r

LEMMA TimesCancels ==
  ASSUME NEW m \in Positive, NEW a \in Nat, NEW b \in Nat, m * a <= m * b
  PROVE  a <= b
<1>1. m \in Nat /\ m >= 1
  BY DEF Positive
<1> SUFFICES ASSUME b + 1 <= a PROVE FALSE
  OBVIOUS
<1>2. m * (b + 1) <= m * a
  BY <1>1
<1>3. m * (b + 1) = m * b + m /\ m * b \in Nat /\ m * a \in Nat
  BY <1>1
<1> DEFINE p == m * a
           q == m * b
<1>4. p \in Nat /\ q \in Nat /\ q + m <= p /\ p <= q
  BY <1>2, <1>3
<1> HIDE DEF p, q
<1> QED
  BY <1>1, <1>4

(* The largest quotient below a bound. *)
LEMMA QuotientAtLeast ==
  ASSUME NEW a \in Nat, NEW b \in Positive, NEW q \in Nat, b * q <= a
  PROVE  q <= a \div b
<1>1. b \in Nat /\ a \div b \in Nat /\ a < b * (a \div b) + b
  BY DivFloor DEF Positive
<1> DEFINE d == a \div b
<1>2. d \in Nat /\ b * (d + 1) = b * d + b /\ b * q < b * (d + 1)
  <2>1. b * d \in Nat /\ b * q \in Nat /\ b * (d + 1) = b * d + b
    BY <1>1
  <2> QED
    BY <2>1, <1>1
<1> HIDE DEF d
<1>3. SUFFICES ASSUME d + 1 <= q PROVE FALSE
  BY <1>2 DEF d
<1>4. b * (d + 1) <= b * q
  BY <1>1, <1>2, <1>3
<1>5. b * (d + 1) \in Nat /\ b * q \in Nat
  BY <1>1, <1>2
<1> QED
  BY <1>2, <1>4, <1>5

(* l lots at r ticks of a pc lot g each come, in normalized pc, to no more *)
(* than vol costs at price, when sizes, prices and the pc lot were rounded *)
(* down.                                                                   *)
LEMMA LotsBelowCost ==
  ASSUME NEW l \in Nat, NEW r \in Nat, NEW g \in Nat, NEW vol \in Nat, NEW price \in Nat,
         NEW lot \in Positive, NEW t \in Positive, NEW c \in Positive, NEW u \in Positive,
         NEW k \in Positive, NEW s \in Positive, s = k * u,
         l * (lot * s) <= vol * c, r * t <= price, g * (s * c) <= t * lot * u
  PROVE  k * (l * r * g) <= (vol * price) \div s
<1>1. /\ lot \in Nat /\ t \in Nat /\ c \in Nat /\ u \in Nat /\ k \in Nat /\ s \in Nat
  BY DEF Positive
<1>2. (l * (lot * s)) * (r * t) <= (vol * c) * price
  <2>1. l * (lot * s) \in Nat /\ vol * c \in Nat /\ r * t \in Nat
    BY <1>1
  <2> QED
    BY <2>1, TimesMonotonic
<1>3. ((l * (lot * s)) * (r * t)) * (g * (s * c)) <= ((vol * c) * price) * (t * lot * u)
  <2>1. /\ (l * (lot * s)) * (r * t) \in Nat /\ (vol * c) * price \in Nat
        /\ g * (s * c) \in Nat /\ t * lot * u \in Nat
    BY <1>1
  <2> QED
    BY <2>1, <1>2, TimesMonotonic
<1> DEFINE m == lot * t * c * u
           a == s * (k * (l * r * g))
           b == vol * price
<1>4. m \in Positive /\ a \in Nat /\ b \in Nat
  <2>1. lot * t \in Positive
    BY <1>1 DEF Positive
  <2>2. lot * t * c \in Positive
    BY <2>1, <1>1 DEF Positive
  <2>3. m \in Positive
    BY <2>2, <1>1 DEF Positive
  <2>4. l * r * g \in Nat
    OBVIOUS
  <2>5. k * (l * r * g) \in Nat
    BY <2>4, <1>1
  <2>6. a \in Nat
    BY <2>5, <1>1
  <2> QED
    BY <2>3, <2>6
<1>5. m * a = ((l * (lot * s)) * (r * t)) * (g * (s * c))
  BY <1>1
<1>6. m * b = ((vol * c) * price) * (t * lot * u)
  BY <1>1
<1>7. m * a <= m * b
  BY <1>3, <1>5, <1>6
<1>8. a <= b
  <2> HIDE DEF m, a, b
  <2> QED
    BY <1>4, <1>7, TimesCancels
<1>9. k * (l * r * g) \in Nat
  <2>1. l * r * g \in Nat
    OBVIOUS
  <2> QED
    BY <2>1, <1>1
<1> QED
  BY <1>4, <1>8, <1>9, QuotientAtLeast
-----------------------------------------------------------------------------
(* The conversions of do_place_orders round down.                          *)
LEMMA OutType ==
  ASSUME Base, NEW o \in Order
  PROVE  /\ ConvertVolOut(o.vol) \in Nat
         /\ ConvertVolOut(o.vol) * (CoinLot * Sys) <= o.vol * Unit["coin"]
         /\ ConvertPriceOut(o.price) \in Nat
         /\ ConvertPriceOut(o.price) * Tick <= o.price
         /\ OutPcLot \in Nat
         /\ OutPcLot * (Sys * Unit["coin"]) <= Tick * CoinLot * Unit["pc"]
         /\ BidLock(o) \in Nat /\ AskLock(o) \in Nat /\ Paid(o) \in Nat
<1>1. /\ Unit["coin"] \in Nat /\ Unit["coin"] > 0 /\ Unit["pc"] \in Nat /\ Unit["pc"] > 0
      /\ CoinLot \in Nat /\ CoinLot > 0 /\ PcLot \in Nat
      /\ Sys \in Nat /\ Sys > 0 /\ Tick \in Nat /\ Tick > 0
  BY GridConstants DEF Base, Side, Positive
<1>2. o.vol \in Nat /\ o.price \in Nat
  BY DEF Order
<1> DEFINE l == ConvertVolOut(o.vol)
           r == ConvertPriceOut(o.price)
           g == OutPcLot
<1>3. l \in Nat /\ l * (CoinLot * Sys) <= o.vol * Unit["coin"]
  <2>1. CoinLot * Sys \in Positive /\ o.vol * Unit["coin"] \in Nat
    BY <1>1, <1>2 DEF Positive
  <2>2. l \in Nat /\ (CoinLot * Sys) * l <= o.vol * Unit["coin"]
    BY <2>1, DivFloor DEF ConvertVolOut
  <2> HIDE DEF l
  <2>3. l * (CoinLot * Sys) = (CoinLot * Sys) * l
    BY <1>1, <2>2
  <2> QED
    BY <2>2, <2>3
<1>4. r \in Nat /\ r * Tick <= o.price
  <2>1. Tick \in Positive
    BY <1>1 DEF Positive
  <2>2. r \in Nat /\ Tick * r <= o.price
    BY <2>1, <1>2, DivFloor DEF ConvertPriceOut
  <2> HIDE DEF r
  <2>3. r * Tick = Tick * r
    BY <1>1, <2>2
  <2> QED
    BY <2>2, <2>3
<1>5. g \in Nat /\ g * (Sys * Unit["coin"]) <= Tick * CoinLot * Unit["pc"]
  <2>1. Sys * Unit["coin"] \in Positive /\ Tick * CoinLot * Unit["pc"] \in Nat
    BY <1>1 DEF Positive
  <2>2. g \in Nat /\ (Sys * Unit["coin"]) * g <= Tick * CoinLot * Unit["pc"]
    BY <2>1, DivFloor DEF OutPcLot
  <2> HIDE DEF g
  <2>3. g * (Sys * Unit["coin"]) = (Sys * Unit["coin"]) * g
    BY <1>1, <2>2
  <2> QED
    BY <2>2, <2>3
<1>6. BidLock(o) = l * r * g /\ AskLock(o) = l * CoinLot /\ Paid(o) = l * r * PcLot
  BY DEF BidLock, AskLock, Paid
<1> HIDE DEF l, r, g
<1>7. l * r * g \in Nat /\ l * CoinLot \in Nat /\ l * r * PcLot \in Nat
  BY <1>1, <1>3, <1>4, <1>5
<1> QED
  BY <1>3, <1>4, <1>5, <1>6, <1>7 DEF l, r, g

(* A whole number of 1/Sys makes a native unit of pc. *)
LEMMA PerPcType ==
  ASSUME Base, PcAligned
  PROVE  /\ PerPc \in Positive /\ Sys = PerPc * Unit["pc"]
         /\ Target["pc"] = PerPc * total["pc"]
<1>1. Sys \in Nat /\ Sys > 0 /\ Unit["pc"] \in Nat /\ Unit["pc"] > 0 /\ Unit["pc"] \in Positive
  BY GridConstants DEF Base, Side, Positive
<1>2. Sys = PerPc * Unit["pc"] /\ PerPc \in Nat
  <2>1. Sys % Unit["pc"] = 0
    BY DEF PcAligned
  <2>2. Sys = Unit["pc"] * (Sys \div Unit["pc"]) + (Sys % Unit["pc"]) /\ Sys \div Unit["pc"] \in Nat
    BY <1>1
  <2> QED
    BY <2>1, <2>2, <1>1 DEF PerPc
<1>3. PerPc # 0
  BY <1>1, <1>2
<1>4. PerPc \in Positive
  BY <1>2, <1>3 DEF Positive
<1>5. total["pc"] \in Nat
  BY DEF Base, Amount, Side
<1>6. Target["pc"] = NormalizeDecimal(total["pc"], Unit["pc"], Sys)
  BY DEF Target, Normalize, Side
<1>7. NormalizeDecimal(total["pc"], Unit["pc"], PerPc * Unit["pc"]) = PerPc * total["pc"]
  BY <1>1, <1>4, <1>5, NormalizeExact
<1> QED
  BY <1>2, <1>4, <1>6, <1>7

(* The lock of a bid is covered by the pc that the plan sets aside for it; *)
(* an ask locks no more coin than was planned, and is paid no more than    *)
(* was planned.                                                            *)
LEMMA BidLockCovered ==
  ASSUME Base, PcAligned, NEW o \in Order
  PROVE  PerPc * BidLock(o) <= Cost(o.vol, o.price)
<1>1. /\ Unit["coin"] \in Positive /\ Unit["pc"] \in Positive /\ CoinLot \in Positive
      /\ Sys \in Positive /\ Tick \in Positive
  BY GridConstants DEF Base, Side
<1>2. o.vol \in Nat /\ o.price \in Nat
  BY DEF Order
<1>3. PerPc \in Positive /\ Sys = PerPc * Unit["pc"]
  BY PerPcType
<1> DEFINE l == ConvertVolOut(o.vol)
           r == ConvertPriceOut(o.price)
<1>4. /\ l \in Nat /\ r \in Nat /\ OutPcLot \in Nat
      /\ l * (CoinLot * Sys) <= o.vol * Unit["coin"]
      /\ r * Tick <= o.price
      /\ OutPcLot * (Sys * Unit["coin"]) <= Tick * CoinLot * Unit["pc"]
  BY OutType
<1>5. BidLock(o) = l * r * OutPcLot
  BY DEF BidLock
<1>6. Cost(o.vol, o.price) = (o.vol * o.price) \div Sys
  BY DEF Cost
<1> HIDE DEF l, r
<1>7. PerPc * (l * r * OutPcLot) <= (o.vol * o.price) \div Sys
  BY <1>1, <1>2, <1>3, <1>4, LotsBelowCost
<1> QED
  BY <1>5, <1>6, <1>7

LEMMA PaidCovered ==
  ASSUME Base, PcAligned, WholeTick, NEW o \in Order
  PROVE  PerPc * Paid(o) <= Cost(o.vol, o.price)
<1>1. /\ Unit["coin"] \in Positive /\ Unit["pc"] \in Positive /\ CoinLot \in Positive
      /\ Sys \in Positive /\ Tick \in Positive /\ PcLot \in Positive
  BY GridConstants DEF Base, Side
<1>2. o.vol \in Nat /\ o.price \in Nat
  BY DEF Order
<1>3. PerPc \in Positive /\ Sys = PerPc * Unit["pc"]
  BY PerPcType
<1> DEFINE l == ConvertVolOut(o.vol)
           r == ConvertPriceOut(o.price)
<1>4. /\ l \in Nat /\ r \in Nat
      /\ l * (CoinLot * Sys) <= o.vol * Unit["coin"]
      /\ r * Tick <= o.price
  BY OutType
<1>5. Paid(o) = l * r * PcLot
  BY DEF Paid
<1>6. Cost(o.vol, o.price) = (o.vol * o.price) \div Sys
  BY DEF Cost
<1>7. PcLot \in Nat /\ PcLot * (Sys * Unit["coin"]) <= Tick * CoinLot * Unit["pc"]
  <2>1. /\ PcLot \in Nat /\ Sys \in Nat /\ Unit["coin"] \in Nat /\ Unit["pc"] \in Nat
        /\ Tick \in Nat /\ CoinLot \in Nat
    BY <1>1 DEF Positive
  <2>2. PcLot * (Sys * Unit["coin"]) = Tick * CoinLot * Unit["pc"]
    <3>1. Tick * (CoinLot * Unit["pc"]) = PcLot * Sys * Unit["coin"]
      BY DEF WholeTick
    <3>2. Tick * (CoinLot * Unit["pc"]) = Tick * CoinLot * Unit["pc"]
      BY <2>1
    <3>3. PcLot * Sys * Unit["coin"] = PcLot * (Sys * Unit["coin"])
      BY <2>1
    <3> QED
      BY <3>1, <3>2, <3>3
  <2>3. Tick * CoinLot * Unit["pc"] \in Nat
    BY <2>1
  <2> QED
    BY <2>1, <2>2, <2>3
<1> HIDE DEF l, r
<1>8. PerPc * (l * r * PcLot) <= (o.vol * o.price) \div Sys
  BY <1>1, <1>2, <1>3, <1>4, <1>7, LotsBelowCost
<1> QED
  BY <1>5, <1>6, <1>8

LEMMA AskLockCovered ==
  ASSUME Base, NEW o \in Order
  PROVE  Sys * AskLock(o) <= Unit["coin"] * o.vol
<1>1. CoinLot \in Nat /\ Sys \in Nat /\ Unit["coin"] \in Nat /\ o.vol \in Nat
  BY GridConstants DEF Base, Side, Positive, Order
<1> DEFINE l == ConvertVolOut(o.vol)
<1>2. l \in Nat /\ l * (CoinLot * Sys) <= o.vol * Unit["coin"]
  BY OutType
<1>3. AskLock(o) = l * CoinLot
  BY DEF AskLock
<1> HIDE DEF l
<1>4. Sys * (l * CoinLot) = l * (CoinLot * Sys) /\ Unit["coin"] * o.vol = o.vol * Unit["coin"]
  BY <1>1, <1>2
<1> QED
  BY <1>2, <1>3, <1>4

(* The sums over a plan, as sums of weights. *)
LEMMA SumsAreWeights ==
  ASSUME TypeOK
  PROVE  /\ SumBy(BidLock, bids) = Weight(BidLockOf, bids)
         /\ SumBy(AskLock, asks) = Weight(AskLockOf, asks)
         /\ SumBy(Paid, asks) = Weight(PaidOf, asks)
<1>1. bids \in Seq(Order) /\ asks \in Seq(Order)
  BY DEF TypeOK, Order
<1>2. (\A i \in DOMAIN bids : bids[i] \in Order) /\ (\A i \in DOMAIN asks : asks[i] \in Order)
  BY <1>1
<1>3. [i \in DOMAIN bids |-> BidLock(bids[i])] = [i \in DOMAIN bids |-> BidLockOf[bids[i]]]
  BY <1>2 DEF BidLockOf
<1>4. [i \in DOMAIN asks |-> AskLock(asks[i])] = [i \in DOMAIN asks |-> AskLockOf[asks[i]]]
  BY <1>2 DEF AskLockOf
<1>5. [i \in DOMAIN asks |-> Paid(asks[i])] = [i \in DOMAIN asks |-> PaidOf[asks[i]]]
  BY <1>2 DEF PaidOf
<1> QED
  BY <1>3, <1>4, <1>5 DEF SumBy, Weight

LEMMA LockWeights ==
  ASSUME Base
  PROVE  BidLockOf \in [Order -> Nat] /\ AskLockOf \in [Order -> Nat] /\ PaidOf \in [Order -> Nat]
BY OutType DEF BidLockOf, AskLockOf, PaidOf

LEMMA SumTypes ==
  ASSUME TypeOK, Base
  PROVE  /\ SumBy(BidLock, bids) \in Nat /\ SumBy(AskLock, asks) \in Nat /\ SumBy(Paid, asks) \in Nat
<1>1. bids \in Seq(Order) /\ asks \in Seq(Order)
  BY DEF TypeOK, Order
<1>2. BidLockOf \in [Order -> Nat] /\ AskLockOf \in [Order -> Nat] /\ PaidOf \in [Order -> Nat]
  BY LockWeights
<1>3. Weight(BidLockOf, bids) \in Nat /\ Weight(AskLockOf, asks) \in Nat /\ Weight(PaidOf, asks) \in Nat
  BY <1>1, <1>2, WeightNat
<1> QED
  BY <1>3, SumsAreWeights

(* A level adds its own orders to the sums. *)
LEMMA SumsGrow ==
  ASSUME TypeOK, TypeOK', Base, Base', NEW b \in Order, NEW a \in Order,
         bids' = Append(bids, b), asks' = Append(asks, a)
  PROVE  /\ SumBy(BidLock, bids)' = SumBy(BidLock, bids) + BidLock(b)
         /\ SumBy(AskLock, asks)' = SumBy(AskLock, asks) + AskLock(a)
         /\ SumBy(Paid, asks)' = SumBy(Paid, asks) + Paid(a)
<1>1. bids \in Seq(Order) /\ asks \in Seq(Order)
  BY DEF TypeOK, Order
<1>2. BidLockOf \in [Order -> Int] /\ AskLockOf \in [Order -> Int] /\ PaidOf \in [Order -> Int]
  BY LockWeights
<1>3. /\ SumBy(BidLock, bids) = Weight(BidLockOf, bids)
      /\ SumBy(AskLock, asks) = Weight(AskLockOf, asks)
      /\ SumBy(Paid, asks) = Weight(PaidOf, asks)
  BY SumsAreWeights
<1>4. bids' \in Seq(Order) /\ asks' \in Seq(Order)
  BY <1>1
<1>5. /\ SumBy(BidLock, bids') = Weight(BidLockOf, bids')
      /\ SumBy(AskLock, asks') = Weight(AskLockOf, asks')
      /\ SumBy(Paid, asks') = Weight(PaidOf, asks')
  <2>1. (\A i \in DOMAIN bids' : bids'[i] \in Order) /\ (\A i \in DOMAIN asks' : asks'[i] \in Order)
    BY <1>4
  <2>2. [i \in DOMAIN bids' |-> BidLock(bids'[i])] = [i \in DOMAIN bids' |-> BidLockOf[bids'[i]]]
    BY <2>1 DEF BidLockOf
  <2>3. [i \in DOMAIN asks' |-> AskLock(asks'[i])] = [i \in DOMAIN asks' |-> AskLockOf[asks'[i]]]
    BY <2>1 DEF AskLockOf
  <2>4. [i \in DOMAIN asks' |-> Paid(asks'[i])] = [i \in DOMAIN asks' |-> PaidOf[asks'[i]]]
    BY <2>1 DEF PaidOf
  <2> QED
    BY <2>2, <2>3, <2>4 DEF SumBy, Weight
<1>6. /\ Weight(BidLockOf, Append(bids, b)) = Weight(BidLockOf, bids) + BidLockOf[b]
      /\ Weight(AskLockOf, Append(asks, a)) = Weight(AskLockOf, asks) + AskLockOf[a]
      /\ Weight(PaidOf, Append(asks, a)) = Weight(PaidOf, asks) + PaidOf[a]
  BY <1>1, <1>2, WeightAppend
<1>7. BidLockOf[b] = BidLock(b) /\ AskLockOf[a] = AskLock(a) /\ PaidOf[a] = Paid(a)
  BY DEF BidLockOf, AskLockOf, PaidOf
<1> QED
  BY <1>3, <1>5, <1>6, <1>7

-----------------------------------------------------------------------------
(* The pc that the bids lock and the pc that the plan still has are no     *)
(* more than it began with; so are the coin that the asks lock and the     *)
(* coin that it still has.  What the asks are paid is at most what the     *)
(* plan expects of them.                                                   *)
BidsBudget == PerPc * SumBy(BidLock, bids) + buy["pc"] <= Target["pc"]

AsksBudget ==
  Sys * SumBy(AskLock, asks) + Unit["coin"] * sell["coin"] <= Unit["coin"] * Target["coin"]

PaidBudget == PerPc * (total["pc"] + SumBy(Paid, asks)) <= sell["pc"]

LEMMA NoSums ==
  ASSUME bids = <<>>, asks = <<>>, TypeOK
  PROVE  SumBy(BidLock, bids) = 0 /\ SumBy(AskLock, asks) = 0 /\ SumBy(Paid, asks) = 0
BY SumsAreWeights, WeightEmpty

LEMMA BudgetsInit ==
  ASSUME Init
  PROVE  /\ PcAligned => BidsBudget /\ PaidBudget
         /\ AsksBudget
<1>1. GridInv /\ bids = <<>> /\ asks = <<>> /\ buy = Target /\ sell = Target
  BY GridInvInit DEF Init
<1>2. TypeOK /\ Base
  BY <1>1 DEF GridInv
<1>3. SumBy(BidLock, bids) = 0 /\ SumBy(AskLock, asks) = 0 /\ SumBy(Paid, asks) = 0
  BY <1>1, <1>2, NoSums
<1>4. Target["pc"] \in Nat /\ Target["coin"] \in Nat /\ total["pc"] \in Nat
  BY <1>2 DEF Base, Amount, Side
<1>5. Sys \in Nat /\ Unit["coin"] \in Nat
  BY <1>2, GridConstants DEF Base, Side, Positive
<1>6. AsksBudget
  <2>1. Sys * 0 + Unit["coin"] * Target["coin"] <= Unit["coin"] * Target["coin"]
    BY <1>4, <1>5
  <2> QED
    BY <1>1, <1>3, <2>1 DEF AsksBudget
<1>7. PcAligned => BidsBudget /\ PaidBudget
  <2> HAVE PcAligned
  <2>1. PerPc \in Positive /\ Target["pc"] = PerPc * total["pc"]
    BY <1>2, PerPcType
  <2>2. PerPc \in Nat
    BY <2>1 DEF Positive
  <2>3. PerPc * 0 + Target["pc"] <= Target["pc"] /\ PerPc * (total["pc"] + 0) <= Target["pc"]
    <3>1. PerPc * 0 = 0 /\ total["pc"] + 0 = total["pc"]
      BY <1>4, <2>2
    <3> QED
      BY <1>4, <2>1, <3>1
  <2> QED
    BY <1>1, <1>3, <2>3 DEF BidsBudget, PaidBudget
<1> QED
  BY <1>6, <1>7

(* The orders of a level and what they do to the plan. *)
LEMMA LevelOrders ==
  ASSUME GridInv, PlanLevel
  PROVE  /\ TypeOK /\ Base /\ TypeOK' /\ Base' /\ total' = total /\ Target' = Target
         /\ Len(bids) < OrderNum
         /\ [price |-> BidPrice, vol |-> BidVol(BidPrice)] \in Order
         /\ [price |-> AskPrice, vol |-> AskVol(AskPrice)] \in Order
         /\ bids' = Append(bids, [price |-> BidPrice, vol |-> BidVol(BidPrice)])
         /\ asks' = Append(asks, [price |-> AskPrice, vol |-> AskVol(AskPrice)])
         /\ buy["pc"] \in Nat /\ sell["pc"] \in Nat /\ sell["coin"] \in Nat
         /\ Cost(BidVol(BidPrice), BidPrice) \in 0 .. buy["pc"]
         /\ buy'["pc"] = buy["pc"] - Cost(BidVol(BidPrice), BidPrice)
         /\ AskVol(AskPrice) \in 0 .. sell["coin"] /\ Cost(AskVol(AskPrice), AskPrice) \in Nat
         /\ sell'["pc"] = sell["pc"] + Cost(AskVol(AskPrice), AskPrice)
         /\ sell'["coin"] = sell["coin"] - AskVol(AskPrice)
<1>1. GridInv'
  BY GridInvStep DEF Next
<1>2. TypeOK /\ Base /\ TypeOK' /\ Base'
  BY <1>1 DEF GridInv
<1> DEFINE bid == BidPrice
           ask == AskPrice
           bidVol == BidVol(bid)
           askVol == AskVol(ask)
<1>3. /\ Len(bids) < OrderNum
      /\ bids' = Append(bids, [price |-> bid, vol |-> bidVol])
      /\ asks' = Append(asks, [price |-> ask, vol |-> askVol])
      /\ buy' = [coin |-> buy["coin"] + bidVol, pc |-> buy["pc"] - Cost(bidVol, bid)]
      /\ sell' = [coin |-> sell["coin"] - askVol, pc |-> sell["pc"] + Cost(askVol, ask)]
      /\ total' = total
  BY DEF PlanLevel
<1>4. Target' = Target
  BY <1>2, <1>3, BaseKept
<1>5. /\ bid \in Nat /\ ask \in Nat /\ bidVol \in Nat
      /\ buy["pc"] \in Nat /\ sell["coin"] \in Nat /\ sell["pc"] \in Nat
      /\ Cost(bidVol, bid) \in 0 .. buy["pc"]
      /\ MaxSellSize(ask, sell) \in 0 .. sell["coin"]
      /\ askVol \in 0 .. MaxSellSize(ask, sell) /\ Cost(askVol, ask) \in Nat
  BY <1>2, <1>3, LevelFacts
<1> HIDE DEF bid, ask, bidVol, askVol
<1>6. askVol \in 0 .. sell["coin"] /\ askVol \in Nat
  BY <1>5
<1>7. [price |-> bid, vol |-> bidVol] \in Order /\ [price |-> ask, vol |-> askVol] \in Order
  BY <1>5, <1>6 DEF Order
<1>8. /\ buy'["pc"] = buy["pc"] - Cost(bidVol, bid)
      /\ sell'["pc"] = sell["pc"] + Cost(askVol, ask)
      /\ sell'["coin"] = sell["coin"] - askVol
  BY <1>3
<1> QED
  BY <1>2, <1>3, <1>4, <1>5, <1>6, <1>7, <1>8 DEF bid, ask, bidVol, askVol

LEMMA BidsBudgetStep ==
  ASSUME GridInv, PlanLevel, PcAligned, BidsBudget
  PROVE  BidsBudget'
<1> DEFINE o == [price |-> BidPrice, vol |-> BidVol(BidPrice)]
           c == Cost(BidVol(BidPrice), BidPrice)
           S == SumBy(BidLock, bids)
           k == PerPc
           d == k * BidLock(o)
<1>1. /\ TypeOK /\ Base /\ o \in Order /\ buy["pc"] \in Nat /\ c \in 0 .. buy["pc"]
      /\ buy'["pc"] = buy["pc"] - c /\ Target' = Target
  BY LevelOrders
<1>2. SumBy(BidLock, bids)' = S + BidLock(o)
  BY LevelOrders, SumsGrow
<1>3. S \in Nat /\ BidLock(o) \in Nat /\ k \in Nat
  BY <1>1, SumTypes, OutType, PerPcType DEF Positive
<1>4. d <= c
  <2>1. k * BidLock(o) <= Cost(o.vol, o.price)
    <3> HIDE DEF o
    <3> QED
      BY <1>1, BidLockCovered
  <2> QED
    BY <2>1
<1>5. k * S + buy["pc"] <= Target["pc"] /\ Target["pc"] \in Nat
  BY <1>1 DEF BidsBudget, Base, Amount, Side
<1>6. k * (S + BidLock(o)) = k * S + d /\ k * S \in Nat /\ d \in Nat
  <2> HIDE DEF S, k, o
  <2> QED
    BY <1>3
<1>7. k * (S + BidLock(o)) + (buy["pc"] - c) <= Target["pc"]
  <2> DEFINE e == k * S
             f == k * (S + BidLock(o))
  <2>1. e \in Nat /\ f = e + d /\ d \in Nat /\ d <= c /\ e + buy["pc"] <= Target["pc"]
    BY <1>4, <1>5, <1>6
  <2> HIDE DEF c, d, e, f
  <2>2. f + (buy["pc"] - c) <= Target["pc"]
    BY <1>1, <1>5, <2>1
  <2> QED
    BY <2>2 DEF f
<1>8. PerPc' = PerPc
  BY DEF PerPc
<1> HIDE DEF S, o, c, k, d
<1> QED
  BY <1>1, <1>2, <1>7, <1>8 DEF BidsBudget, k

LEMMA PaidBudgetStep ==
  ASSUME GridInv, PlanLevel, PcAligned, WholeTick, PaidBudget
  PROVE  PaidBudget'
<1> DEFINE o == [price |-> AskPrice, vol |-> AskVol(AskPrice)]
           c == Cost(AskVol(AskPrice), AskPrice)
           S == SumBy(Paid, asks)
           k == PerPc
           d == k * Paid(o)
           t == total["pc"]
<1>1. /\ TypeOK /\ Base /\ o \in Order /\ sell["pc"] \in Nat /\ c \in Nat
      /\ sell'["pc"] = sell["pc"] + c /\ total' = total
  BY LevelOrders
<1>2. SumBy(Paid, asks)' = S + Paid(o)
  BY LevelOrders, SumsGrow
<1>3. S \in Nat /\ Paid(o) \in Nat /\ k \in Nat /\ t \in Nat
  BY <1>1, SumTypes, OutType, PerPcType DEF Positive, Base, Amount, Side
<1>4. d <= c
  <2>1. k * Paid(o) <= Cost(o.vol, o.price)
    <3> HIDE DEF o
    <3> QED
      BY <1>1, PaidCovered
  <2> QED
    BY <2>1
<1>5. k * (t + S) <= sell["pc"]
  BY DEF PaidBudget
<1>6. k * (t + (S + Paid(o))) = k * (t + S) + d /\ k * (t + S) \in Nat /\ d \in Nat
  <2> HIDE DEF S, k, o, t
  <2> QED
    BY <1>3
<1>7. k * (t + (S + Paid(o))) <= sell["pc"] + c
  <2> DEFINE e == k * (t + S)
             f == k * (t + (S + Paid(o)))
  <2>1. e \in Nat /\ f = e + d /\ d \in Nat /\ d <= c /\ e <= sell["pc"]
    BY <1>4, <1>5, <1>6
  <2> HIDE DEF c, d, e, f
  <2>2. f <= sell["pc"] + c
    BY <1>1, <2>1
  <2> QED
    BY <2>2 DEF f
<1>8. PerPc' = PerPc /\ total'["pc"] = t
  BY <1>1 DEF PerPc
<1> HIDE DEF S, o, c, k, d, t
<1> QED
  BY <1>1, <1>2, <1>7, <1>8 DEF PaidBudget, k

LEMMA AsksBudgetStep ==
  ASSUME GridInv, PlanLevel, AsksBudget
  PROVE  AsksBudget'
<1> DEFINE o == [price |-> AskPrice, vol |-> AskVol(AskPrice)]
           v == AskVol(AskPrice)
           S == SumBy(AskLock, asks)
           d == Sys * AskLock(o)
           u == Unit["coin"]
           y == sell["coin"]
<1>1. /\ TypeOK /\ Base /\ o \in Order /\ y \in Nat /\ v \in 0 .. y
      /\ sell'["coin"] = y - v /\ Target' = Target
  BY LevelOrders
<1>2. SumBy(AskLock, asks)' = S + AskLock(o)
  BY LevelOrders, SumsGrow
<1>3. S \in Nat /\ AskLock(o) \in Nat /\ Sys \in Nat /\ u \in Nat /\ Target["coin"] \in Nat
  <2>1. S \in Nat /\ AskLock(o) \in Nat
    <3> HIDE DEF o
    <3> QED
      BY <1>1, SumTypes, OutType
  <2>2. Sys \in Nat /\ u \in Nat /\ Target["coin"] \in Nat
    BY <1>1, GridConstants DEF Positive, Base, Side, Amount
  <2> QED
    BY <2>1, <2>2
<1>4. d <= u * v
  <2>1. Sys * AskLock(o) <= Unit["coin"] * o.vol
    <3> HIDE DEF o
    <3> QED
      BY <1>1, AskLockCovered
  <2> QED
    BY <2>1
<1>5. Sys * S + u * y <= u * Target["coin"]
  BY DEF AsksBudget
<1> HIDE DEF S, o, u, v, y
<1>6. /\ Sys * (S + AskLock(o)) = Sys * S + d /\ Sys * S \in Nat /\ d \in Nat
      /\ v \in Nat /\ u * (y - v) = u * y - u * v /\ u * y \in Nat /\ u * v \in Nat /\ u * Target["coin"] \in Nat
  BY <1>1, <1>3
<1>7. Sys * (S + AskLock(o)) + u * (y - v) <= u * Target["coin"]
  <2> DEFINE e == Sys * S
             f == Sys * (S + AskLock(o))
             g == u * y
             h == u * v
             i == u * (y - v)
             j == u * Target["coin"]
  <2>1. /\ e \in Nat /\ f = e + d /\ d \in Nat /\ d <= h /\ g \in Nat /\ h \in Nat /\ i = g - h
        /\ j \in Nat /\ e + g <= j
    BY <1>4, <1>5, <1>6
  <2> HIDE DEF d, e, f, g, h, i, j
  <2>2. f + i <= j
    BY <2>1
  <2> QED
    BY <2>2 DEF f, i, j
<1>8. Sys' = Sys
  BY DEF Sys
<1> QED
  BY <1>1, <1>2, <1>7, <1>8 DEF AsksBudget, u, y, v

(* A plan pays for its bids and has the coin of its asks, in native units. *)
LEMMA BidsAfford ==
  ASSUME TypeOK, Base, PcAligned, BidsBudget
  PROVE  SumBy(BidLock, bids) <= total["pc"]
<1> DEFINE S == SumBy(BidLock, bids)
           t == total["pc"]
           b == buy["pc"]
<1>1. S \in Nat /\ t \in Nat /\ b \in Nat
  BY SumTypes DEF TypeOK, Amount, Side
<1>2. PerPc \in Positive /\ Target["pc"] = PerPc * t
  BY PerPcType
<1>3. PerPc * S + b <= PerPc * t
  BY <1>2 DEF BidsBudget
<1> HIDE DEF S, t, b
<1>4. PerPc * S <= PerPc * t
  <2>1. PerPc * S \in Nat /\ PerPc * t \in Nat
    BY <1>1, <1>2 DEF Positive
  <2> QED
    BY <1>1, <1>3, <2>1
<1>5. S <= t
  BY <1>1, <1>2, <1>4, TimesCancels
<1> QED
  BY <1>5 DEF S, t

(* The reserves after the asks, in normalized and in native coin.          *)
LEMMA AsksAfford ==
  ASSUME TypeOK, Base, AsksBudget
  PROVE  /\ SumBy(AskLock, asks) <= total["coin"]
         /\ Unit["coin"] * sell["coin"] <= Sys * (total["coin"] - SumBy(AskLock, asks))
<1> DEFINE S == SumBy(AskLock, asks)
           t == total["coin"]
           y == sell["coin"]
           u == Unit["coin"]
           n == Target["coin"]
<1>1. S \in Nat /\ t \in Nat /\ y \in Nat /\ n \in Nat
  BY SumTypes DEF TypeOK, Base, Amount, Side
<1>2. Sys \in Positive /\ Sys \in Nat /\ u \in Positive /\ u \in Nat
  BY GridConstants DEF Base, Side, Positive
<1>3. Sys * S + u * y <= u * n
  BY DEF AsksBudget
<1>4. u * n <= Sys * t
  <2>1. n = (t * Sys) \div u
    BY DEF Target, Normalize, NormalizeDecimal, Side
  <2> HIDE DEF n, t, u
  <2>2. t * Sys \in Nat /\ t * Sys = Sys * t
    BY <1>1, <1>2
  <2>3. u * ((t * Sys) \div u) <= t * Sys
    BY <1>2, <2>2, DivFloor
  <2> QED
    BY <2>1, <2>2, <2>3
<1> HIDE DEF S, t, y, u, n
<1>5. Sys * S \in Nat /\ u * y \in Nat /\ u * n \in Nat /\ Sys * t \in Nat
  BY <1>1, <1>2
<1>6. Sys * S <= Sys * t /\ u * y <= Sys * t - Sys * S
  BY <1>3, <1>4, <1>5
<1>7. S <= t
  BY <1>1, <1>2, <1>6, TimesCancels
<1>8. Sys * (t - S) = Sys * t - Sys * S
  BY <1>1, <1>2
<1> QED
  BY <1>6, <1>7, <1>8 DEF S, t, y, u

LEMMA FundedFollows ==
  ASSUME TypeOK, Base, PcAligned, BidsBudget, AsksBudget
  PROVE  Funded
BY BidsAfford, AsksAfford DEF Funded

-----------------------------------------------------------------------------
(* An ask of v at price p takes lock and brings paid, in native units: x    *)
(* and y are the plan's reserves, rich and left the native ones, and the   *)
(* price is above the plan's after the ask is filled.                      *)
PricedAbove(x, y, v, rich, left, lock, paid, p, s, c, u, k) ==
  /\ x \in Nat /\ y \in Nat /\ v \in Nat /\ rich \in Nat /\ left \in Nat
  /\ lock \in Nat /\ paid \in Nat /\ p \in Nat
  /\ s \in Positive /\ c \in Positive /\ u \in Positive /\ k \in Positive
  /\ s = k * u /\ v <= y /\ lock <= left
  /\ k * rich <= x /\ x * s <= p * (y - v) /\ c * (y - v) <= s * (left - lock)
  /\ paid * (s * c) = lock * p * u

(* Such an ask does not lower the product of the native reserves.          *)
LEMMA AskIsWorthIt ==
  ASSUME NEW x, NEW y, NEW v, NEW rich, NEW left, NEW lock, NEW paid, NEW p,
         NEW s, NEW c, NEW u, NEW k,
         PricedAbove(x, y, v, rich, left, lock, paid, p, s, c, u, k)
  PROVE  rich * left <= (rich + paid) * (left - lock)
<1>0. /\ x \in Nat /\ y \in Nat /\ v \in Nat /\ rich \in Nat /\ left \in Nat
      /\ lock \in Nat /\ paid \in Nat /\ p \in Nat
      /\ s \in Nat /\ c \in Nat /\ u \in Nat /\ k \in Nat /\ s > 0 /\ c > 0
      /\ s = k * u /\ v <= y /\ lock <= left
      /\ k * rich <= x /\ x * s <= p * (y - v) /\ c * (y - v) <= s * (left - lock)
      /\ paid * (s * c) = lock * p * u
  BY DEF PricedAbove, Positive
<1>1. /\ x \in Nat /\ y \in Nat /\ v \in Nat /\ rich \in Nat /\ left \in Nat
      /\ lock \in Nat /\ paid \in Nat /\ p \in Nat
      /\ s \in Nat /\ c \in Nat /\ u \in Nat /\ k \in Nat /\ s > 0 /\ c > 0
  BY <1>0
<1> DEFINE w == y - v
           z == left - lock
<1>2. w \in Nat /\ z \in Nat
  BY <1>0
<1>3. x * s <= p * w /\ c * w <= s * z
  BY <1>0
<1> HIDE DEF w, z
<1>4. (k * rich) * (s * (lock * u * c)) <= (x * s) * (lock * u * c)
  <2>1. lock * u * c \in Nat /\ k * rich \in Nat
    BY <1>1
  <2>2. (k * rich) * s <= x * s
    <3>1. k * rich <= x
      BY <1>0
    <3> QED
      BY <3>1, <2>1, <1>1
  <2>3. (k * rich) * s \in Nat /\ x * s \in Nat
    BY <2>1, <1>1
  <2>4. ((k * rich) * s) * (lock * u * c) <= (x * s) * (lock * u * c)
    BY <2>1, <2>2, <2>3
  <2>5. ((k * rich) * s) * (lock * u * c) = (k * rich) * (s * (lock * u * c))
    BY <2>1, <1>1
  <2> QED
    BY <2>4, <2>5
<1>5. (x * s) * (lock * u * c) <= (p * w) * (lock * u * c)
  <2>1. lock * u * c \in Nat /\ x * s \in Nat /\ p * w \in Nat
    BY <1>1, <1>2
  <2> QED
    BY <1>3, <2>1
<1>6. (p * w) * (lock * u * c) = (lock * p * u) * (c * w)
  BY <1>1, <1>2
<1>7. (lock * p * u) * (c * w) <= (lock * p * u) * (s * z)
  <2>1. lock * p * u \in Nat /\ c * w \in Nat /\ s * z \in Nat
    BY <1>1, <1>2
  <2> QED
    BY <1>3, <2>1
<1>8. (lock * p * u) * (s * z) = (paid * (s * c)) * (s * z)
  BY <1>0
<1> DEFINE m == s * s * c
           a == rich * lock
           b == paid * z
<1>9. (k * rich) * (s * (lock * u * c)) = m * a
  <2>1. (k * rich) * (s * (lock * u * c)) = (k * u) * s * c * (rich * lock)
    BY <1>1
  <2>2. s = k * u
    BY <1>0
  <2> QED
    BY <2>1, <2>2
<1>10. (paid * (s * c)) * (s * z) = m * b
  BY <1>1, <1>2
<1>11. m \in Positive /\ a \in Nat /\ b \in Nat
  <2>1. s * s \in Positive
    BY <1>1 DEF Positive
  <2>2. m \in Positive
    BY <2>1, <1>1 DEF Positive
  <2> QED
    BY <2>2, <1>1, <1>2
<1>12. m * a <= m * b
  <2> DEFINE q1 == (k * rich) * (s * (lock * u * c))
             q2 == (x * s) * (lock * u * c)
             q3 == (p * w) * (lock * u * c)
             q4 == (lock * p * u) * (s * z)
  <2>1. q1 <= q2 /\ q2 <= q3 /\ q3 <= q4 /\ m * a = q1 /\ m * b = q4
    BY <1>4, <1>5, <1>6, <1>7, <1>8, <1>9, <1>10
  <2>2. q1 \in Int /\ q2 \in Int /\ q3 \in Int /\ q4 \in Int
    BY <1>1, <1>2
  <2> HIDE DEF q1, q2, q3, q4, m, a, b
  <2> QED
    BY <2>1, <2>2
<1>13. a <= b
  <2> HIDE DEF m, a, b
  <2> QED
    BY <1>11, <1>12, TimesCancels
<1>14. (rich + paid) * z = rich * left - a + b
  <2>1. z = left - lock
    BY DEF z
  <2>2. (rich + paid) * z = rich * z + paid * z
    BY <1>1, <1>2
  <2>3. rich * z = rich * left - rich * lock
    BY <1>1, <2>1
  <2> QED
    BY <2>2, <2>3
<1>15. rich * left <= rich * left - a + b
  <2> DEFINE r == rich * left
  <2>1. r \in Nat /\ a \in Nat /\ b \in Nat /\ a <= b
    BY <1>1, <1>11, <1>13
  <2> HIDE DEF r, a, b
  <2>2. r <= r - a + b
    BY <2>1
  <2> QED
    BY <2>2 DEF r
<1> QED
  BY <1>14, <1>15 DEF z

(* The fee makes get_max_sell_size_at_price divide by less than the price. *)
LEMMA AskFee ==
  ASSUME NEW p \in Nat
  PROVE  AskPriceWithFee(p) \in Nat /\ AskPriceWithFee(p) <= p
<1> DEFINE d == TradeFee.den
           b == TradeFee.den + TradeFee.num
           w == (p * d) \div b
<1>1. d \in Nat /\ b \in Positive /\ b \in Nat /\ d <= b
  BY GridConstants DEF Positive
<1>2. w = AskPriceWithFee(p)
  BY DEF AskPriceWithFee
<1> HIDE DEF d, b
<1>3. p * d \in Nat /\ p * b \in Nat /\ p * d <= p * b
  BY <1>1
<1>4. w \in Nat /\ b * w <= p * d
  BY <1>1, <1>3, DivFloor
<1> HIDE DEF w
<1>5. b * w <= b * p
  <2>1. b * p = p * b /\ b * w \in Nat
    BY <1>1, <1>4
  <2> QED
    BY <1>3, <1>4, <2>1
<1>6. w <= p
  BY <1>1, <1>4, <1>5, TimesCancels
<1> QED
  BY <1>2, <1>4, <1>6

(* An ask of which a unit was cut leaves the pool's price, after it is     *)
(* filled, at or below its own.                                            *)
LEMMA AskOnCurve ==
  ASSUME TypeOK, Base, NEW p \in Nat, AskPriceWithFee(p) \in Positive,
         AskVol(p) \in Nat, AskVol(p) > 0, CutRatio * AskVol(p) >= 10000
  PROVE  /\ AskVol(p) <= sell["coin"]
         /\ sell["pc"] * Sys <= p * (sell["coin"] - AskVol(p))
<1> DEFINE x == sell["pc"]
           y == sell["coin"]
           w == AskPriceWithFee(p)
           v == AskVol(p)
           q == (x * Sys) \div w
           m == MaxSellSize(p, sell)
           cut == (CutRatio * m) \div 10000
<1>1. x \in Nat /\ y \in Nat /\ Sys \in Nat /\ Lot \in Positive
  BY DEF TypeOK, Amount, Side, Base, Positive
<1>2. w \in Positive /\ w \in Nat /\ w <= p
  BY AskFee
<1>3. q \in Nat /\ x * Sys < w * q + w
  <2>1. x * Sys \in Nat
    BY <1>1
  <2> HIDE DEF x, w
  <2> QED
    BY <1>2, <2>1, DivFloor
<1>4. m = SaturatingSub(y, q)
  BY DEF MaxSellSize
<1>5. v = Offered(m)
  BY DEF AskVol
<1> HIDE DEF q, w, x, y
<1>6. m \in 0 .. y /\ (m > 0 => m = y - q)
  <2> HIDE DEF m
  <2> QED
    BY <1>1, <1>3, <1>4, SaturatingSubBelow
<1> HIDE DEF m, v
<1>7. v \in 0 .. m /\ m \in Nat
  BY <1>1, <1>5, <1>6, OfferedBelow
<1>8. CutRatio \in Nat /\ CutRatio <= 10000 /\ v > 0 /\ CutRatio * v >= 10000
  BY GridConstants DEF v
<1>9. CutRatio * m \in Nat /\ CutRatio * m >= 10000 /\ CutRatio * m <= 10000 * m
  <2>1. CutRatio * v <= CutRatio * m /\ CutRatio * v \in Nat /\ CutRatio * m \in Nat
    BY <1>7, <1>8
  <2>2. CutRatio * m <= 10000 * m
    BY <1>7, <1>8
  <2> QED
    BY <1>8, <2>1, <2>2
<1>10. cut \in Nat /\ cut >= 1 /\ cut <= m
  <2> DEFINE n == CutRatio * m
  <2>1. n \in Nat /\ n >= 10000 /\ n <= 10000 * m
    BY <1>9
  <2> HIDE DEF n
  <2>2. n \div 10000 \in Nat /\ n \div 10000 >= 1 /\ n \div 10000 <= m
    BY <2>1, <1>7
  <2> QED
    BY <2>2 DEF n
<1> HIDE DEF cut
<1>11. v <= m - cut
  <2>1. Offered(m) = IF m - cut < MinSize THEN 0 ELSE FloorLot(m - cut, Lot)
    BY DEF Offered, cut
  <2>2. m - cut \in Nat
    BY <1>7, <1>10
  <2>3. FloorLot(m - cut, Lot) \in 0 .. m - cut
    BY <1>1, <2>2, LotRounding
  <2> QED
    BY <1>5, <2>1, <2>2, <2>3
<1>12. q + 1 <= y - v /\ v <= y
  BY <1>1, <1>3, <1>6, <1>7, <1>8, <1>10, <1>11
<1> DEFINE z == y - v
<1>13. z \in Nat /\ q + 1 <= z
  BY <1>1, <1>7, <1>12
<1> HIDE DEF z
<1>14. w * (q + 1) <= p * z
  BY <1>2, <1>3, <1>13, TimesMonotonic
<1>15. w * (q + 1) = w * q + w
  BY <1>2, <1>3
<1>16. x * Sys <= p * z
  <2> DEFINE a == x * Sys
             b == w * (q + 1)
             c == p * z
  <2>1. a \in Nat /\ b \in Nat /\ c \in Nat /\ a < b /\ b <= c
    BY <1>1, <1>2, <1>3, <1>13, <1>14, <1>15
  <2> HIDE DEF a, b, c
  <2>2. a <= c
    BY <2>1
  <2> QED
    BY <2>2 DEF a, c
<1> QED
  BY <1>12, <1>16 DEF v, x, y, z

(* An ask is priced at a whole number of ticks.                            *)
LEMMA AskWholeTicks ==
  ASSUME TypeOK, Base, Len(bids) < OrderNum
  PROVE  AskPrice = ConvertPriceOut(AskPrice) * Tick
<1>1. Tick \in Positive /\ Tick \in Nat
  BY DEF Base, Positive
<1> DEFINE price == MinAsk + Distance
           target == (CurPrice * LastOrder.num) \div LastOrder.den
           z == IF IsLastOrder /\ price < target THEN target ELSE price
           n == CeilDiv(z, Tick)
<1>2. z \in Nat
  <2>1. price \in Nat
    BY BestPrices, LevelType DEF Base
  <2>2. IsLastOrder => target \in Nat
    <3> HAVE IsLastOrder
    <3>1. CurPrice * LastOrder.num \in Nat /\ LastOrder.den \in Positive
      BY GridConstants DEF IsLastOrder, Positive, Base
    <3> QED
      BY <3>1, DivFloor
  <2> HIDE DEF price, target
  <2> QED
    BY <2>1, <2>2
<1>3. AskPrice = CeilLot(z, Tick)
  BY DEF AskPrice
<1> HIDE DEF z
<1>4. AskPrice = n * Tick
  BY <1>3 DEF CeilLot
<1>5. n \in Nat
  BY <1>1, <1>2, CeilDivAbove
<1> HIDE DEF n
<1>6. (n * Tick) \div Tick = n
  <2>1. n * Tick \in Nat /\ Tick * n <= n * Tick /\ n * Tick < Tick * n + Tick
    <3>1. n * Tick = Tick * n /\ n * Tick \in Nat
      BY <1>1, <1>5
    <3> QED
      BY <3>1, <1>1 DEF Positive
  <2> QED
    BY <1>1, <1>5, <2>1, DivUnique
<1> QED
  BY <1>4, <1>6 DEF ConvertPriceOut

(* The price of an ask, from what it locks to what it is paid.             *)
LEMMA PaidExactly ==
  ASSUME Base, WholeTick, NEW o \in Order, o.price = ConvertPriceOut(o.price) * Tick
  PROVE  Paid(o) * (Sys * Unit["coin"]) = AskLock(o) * o.price * Unit["pc"]
<1>1. /\ PcLot \in Nat /\ Sys \in Nat /\ Unit["coin"] \in Nat /\ Unit["pc"] \in Nat
      /\ Tick \in Nat /\ CoinLot \in Nat
  BY GridConstants DEF Base, Side, Positive
<1> DEFINE l == ConvertVolOut(o.vol)
           r == ConvertPriceOut(o.price)
           c == Unit["coin"]
           u == Unit["pc"]
<1>2. l \in Nat /\ r \in Nat
  BY OutType
<1>3. Paid(o) = l * r * PcLot /\ AskLock(o) = l * CoinLot /\ o.price = r * Tick
  BY DEF Paid, AskLock
<1>4. Tick * (CoinLot * u) = PcLot * Sys * c
  BY DEF WholeTick
<1> HIDE DEF l, r, c, u
<1>5. c \in Nat /\ u \in Nat
  BY <1>1 DEF c, u
<1>6. (l * r * PcLot) * (Sys * c) = (l * r) * (PcLot * Sys * c)
  BY <1>1, <1>2, <1>5
<1>7. (l * r) * (Tick * (CoinLot * u)) = (l * CoinLot) * (r * Tick) * u
  BY <1>1, <1>2, <1>5
<1> QED
  BY <1>3, <1>4, <1>6, <1>7 DEF c, u

(* One more ask keeps the product. *)
LEMMA AsksProductStep ==
  ASSUME GridInv, PlanLevel, PcAligned, WholeTick, PaidBudget, AsksBudget, AsksBudget', AsksKeepProduct
  PROVE  AsksKeepProduct'
<1> DEFINE p == AskPrice
           v == AskVol(AskPrice)
           o == [price |-> AskPrice, vol |-> AskVol(AskPrice)]
           locked == SumBy(AskLock, asks)
           earned == SumBy(Paid, asks)
           rich == total["pc"] + earned
           left == total["coin"] - locked
           x == sell["pc"]
           y == sell["coin"]
<1>1. /\ TypeOK /\ Base /\ TypeOK' /\ Base' /\ o \in Order /\ total' = total /\ Target' = Target
      /\ Len(bids) < OrderNum /\ asks' = Append(asks, o)
      /\ x \in Nat /\ y \in Nat /\ v \in 0 .. y
  BY LevelOrders
<1>2. /\ SumBy(AskLock, asks)' = locked + AskLock(o)
      /\ SumBy(Paid, asks)' = earned + Paid(o)
  BY LevelOrders, SumsGrow
<1>3. p \in Nat /\ v \in Nat
  BY <1>1 DEF Order
<1>4. /\ locked \in Nat /\ earned \in Nat /\ AskLock(o) \in Nat /\ Paid(o) \in Nat
      /\ total["pc"] \in Nat /\ total["coin"] \in Nat
  <2>1. locked \in Nat /\ earned \in Nat
    BY <1>1, SumTypes
  <2>2. AskLock(o) \in Nat /\ Paid(o) \in Nat
    <3> HIDE DEF o
    <3> QED
      BY <1>1, OutType
  <2>3. total["pc"] \in Nat /\ total["coin"] \in Nat
    BY <1>1 DEF Base, Amount, Side
  <2> QED
    BY <2>1, <2>2, <2>3
<1>5. locked <= total["coin"] /\ Unit["coin"] * y <= Sys * left
  BY <1>1, AsksAfford
<1>6. locked + AskLock(o) <= total["coin"]
  <2>1. (SumBy(AskLock, asks) <= total["coin"])'
    <3>1. /\ (SumBy(AskLock, asks) <= total["coin"])'
          /\ (Unit["coin"] * sell["coin"] <= Sys * (total["coin"] - SumBy(AskLock, asks)))'
      BY <1>1, AsksAfford, PTL
    <3> QED
      BY <3>1
  <2> QED
    BY <1>1, <1>2, <2>1
<1> SUFFICES ASSUME EveryAskIsCut'
             PROVE  Product(total) <= (rich + Paid(o)) * (left - AskLock(o))
  <2>1. total["pc"] + (earned + Paid(o)) = rich + Paid(o)
    <3> HIDE DEF earned, o
    <3> QED
      BY <1>4
  <2>2. total["coin"] - (locked + AskLock(o)) = left - AskLock(o)
    <3> HIDE DEF locked, o
    <3> QED
      BY <1>4
  <2>3. Product(total') = Product(total)
    BY <1>1
  <2> HIDE DEF rich, left, locked, earned, o
  <2> QED
    BY <1>1, <1>2, <2>1, <2>2, <2>3 DEF AsksKeepProduct
<1>7. EveryAskIsCut /\ (v = 0 \/ CutRatio * v >= 10000)
  <2>1. asks \in Seq(Order)
    BY <1>1 DEF TypeOK, Order
  <2> HIDE DEF o
  <2>2. /\ \A i \in DOMAIN asks : i \in DOMAIN asks' /\ asks'[i] = asks[i]
        /\ Len(asks) + 1 \in DOMAIN asks' /\ asks'[Len(asks) + 1] = o
    BY <1>1, <2>1
  <2>3. \A i \in DOMAIN asks' : asks'[i].vol = 0 \/ CutRatio * asks'[i].vol >= 10000
    BY DEF EveryAskIsCut
  <2>4. EveryAskIsCut
    BY <2>2, <2>3 DEF EveryAskIsCut
  <2>5. o.vol = 0 \/ CutRatio * o.vol >= 10000
    BY <2>2, <2>3
  <2> QED
    BY <2>4, <2>5 DEF o
<1>8. Product(total) <= rich * left
  BY <1>7 DEF AsksKeepProduct
<1>9. rich \in Nat /\ left \in Nat /\ left - AskLock(o) \in Nat /\ AskLock(o) <= left
  <2>1. locked <= total["coin"]
    BY <1>5
  <2> HIDE DEF locked, earned, o
  <2> QED
    BY <1>4, <1>6, <2>1
<1>10. rich * left <= (rich + Paid(o)) * (left - AskLock(o))
  <2>1. CASE v = 0
    <3>1. Sys * AskLock(o) <= Unit["coin"] * o.vol
      <4> HIDE DEF o
      <4> QED
        BY <1>1, AskLockCovered
    <3>2. Sys \in Positive /\ Unit["coin"] \in Nat /\ o.vol = 0
      BY <1>1, <2>1, GridConstants DEF Base, Side, Positive
    <3> HIDE DEF o, rich, left
    <3>3. AskLock(o) = 0
      <4>1. Sys * AskLock(o) <= Sys * 0
        BY <3>1, <3>2 DEF Positive
      <4>2. AskLock(o) <= 0
        BY <1>4, <3>2, <4>1, TimesCancels
      <4> QED
        BY <1>4, <4>2
    <3>4. rich * left <= (rich + Paid(o)) * left
      BY <1>4, <1>9
    <3>5. left - 0 = left
      BY <1>9
    <3> QED
      BY <3>3, <3>4, <3>5
  <2>2. CASE v # 0
    <3>1. AskPriceWithFee(p) \in Positive
      BY <1>1, AskDivisor
    <3>2. v > 0 /\ CutRatio * v >= 10000
      BY <1>3, <1>7, <2>2
    <3>3. v <= y /\ x * Sys <= p * (y - v)
      BY <1>1, <1>3, <3>1, <3>2, AskOnCurve
    <3>4. /\ Sys \in Positive /\ Unit["coin"] \in Positive /\ Unit["pc"] \in Positive
          /\ PerPc \in Positive /\ Sys = PerPc * Unit["pc"]
      BY <1>1, PerPcType, GridConstants DEF Base, Side
    <3>5. PerPc * rich <= x
      BY DEF PaidBudget
    <3>6. Unit["coin"] * (y - v) <= Sys * (left - AskLock(o))
      <4>1. /\ (SumBy(AskLock, asks) <= total["coin"])'
            /\ (Unit["coin"] * sell["coin"] <= Sys * (total["coin"] - SumBy(AskLock, asks)))'
        BY <1>1, AsksAfford, PTL
      <4>2. sell'["coin"] = y - v
        BY LevelOrders
      <4>3. Sys' = Sys
        BY DEF Sys
      <4>4. Unit["coin"] * sell'["coin"] <= Sys * (total["coin"] - (locked + AskLock(o)))
        BY <1>1, <1>2, <4>1, <4>3
      <4>5. total["coin"] - (locked + AskLock(o)) = left - AskLock(o)
        <5> HIDE DEF locked, o
        <5> QED
          BY <1>4
      <4> QED
        BY <4>2, <4>4, <4>5
    <3>7. Paid(o) * (Sys * Unit["coin"]) = AskLock(o) * p * Unit["pc"]
      <4>1. o.price = ConvertPriceOut(o.price) * Tick /\ o.price = p
        BY <1>1, AskWholeTicks
      <4> HIDE DEF o
      <4>2. Paid(o) * (Sys * Unit["coin"]) = AskLock(o) * o.price * Unit["pc"]
        BY <1>1, <4>1, PaidExactly
      <4> QED
        BY <4>1, <4>2
    <3> DEFINE lock == AskLock(o)
               paid == Paid(o)
               c == Unit["coin"]
               u == Unit["pc"]
    <3>8. /\ lock \in Nat /\ paid \in Nat /\ lock <= left /\ paid * (Sys * c) = lock * p * u
          /\ c * (y - v) <= Sys * (left - lock)
          /\ c \in Positive /\ u \in Positive /\ Sys = PerPc * u
      BY <1>4, <1>9, <3>4, <3>6, <3>7
    <3>9. /\ x \in Nat /\ y \in Nat /\ v \in Nat /\ rich \in Nat /\ left \in Nat /\ p \in Nat
          /\ Sys \in Positive /\ PerPc \in Positive
          /\ v <= y /\ PerPc * rich <= x /\ x * Sys <= p * (y - v)
      BY <1>1, <1>3, <1>9, <3>3, <3>4, <3>5
    <3> HIDE DEF lock, paid, c, u, o, p, v, x, y, rich, left
    <3>10. PricedAbove(x, y, v, rich, left, lock, paid, p, Sys, c, u, PerPc)
      BY <3>8, <3>9 DEF PricedAbove
    <3>11. rich * left <= (rich + paid) * (left - lock)
      BY <3>10, AskIsWorthIt
    <3> QED
      BY <3>11 DEF lock, paid
  <2> QED
    BY <2>1, <2>2
<1>11. Product(total) \in Nat
  BY <1>1, ArithmeticType DEF Base
<1> QED
  <2> DEFINE a == Product(total)
             b == rich * left
             c == (rich + Paid(o)) * (left - AskLock(o))
  <2>1. a \in Nat /\ b \in Int /\ c \in Int /\ a <= b /\ b <= c
    <3>1. a \in Nat /\ a <= b /\ b <= c
      BY <1>8, <1>10, <1>11
    <3> HIDE DEF rich, left, o
    <3>2. b \in Int /\ c \in Int
      BY <1>4, <1>9
    <3> QED
      BY <3>1, <3>2
  <2> HIDE DEF a, b, c
  <2>2. a <= c
    BY <2>1
  <2> QED
    BY <2>2 DEF a, c

(* Nothing happens to a plan that stays as it is.                          *)
LEMMA BudgetsStutter ==
  ASSUME UNCHANGED vars
  PROVE  /\ BidsBudget => BidsBudget'
         /\ AsksBudget => AsksBudget'
         /\ PaidBudget => PaidBudget'
<1>1. total' = total /\ bids' = bids /\ asks' = asks /\ buy' = buy /\ sell' = sell
  BY DEF vars
<1>2. Target' = Target /\ PerPc' = PerPc /\ Sys' = Sys
  BY <1>1 DEF Target, PerPc, Sys
<1>3. /\ SumBy(BidLock, bids)' = SumBy(BidLock, bids)
      /\ SumBy(AskLock, asks)' = SumBy(AskLock, asks)
      /\ SumBy(Paid, asks)' = SumBy(Paid, asks)
  BY <1>1 DEF SumBy
<1> QED
  BY <1>1, <1>2, <1>3 DEF BidsBudget, AsksBudget, PaidBudget

LEMMA AsksProductStutter ==
  ASSUME UNCHANGED vars, AsksKeepProduct
  PROVE  AsksKeepProduct'
<1>1. total' = total /\ asks' = asks
  BY DEF vars
<1>2. SumBy(AskLock, asks)' = SumBy(AskLock, asks) /\ SumBy(Paid, asks)' = SumBy(Paid, asks)
  BY <1>1 DEF SumBy
<1>3. EveryAskIsCut' = EveryAskIsCut
  BY <1>1 DEF EveryAskIsCut
<1>4. Product(total') = Product(total)
  BY <1>1
<1> QED
  BY <1>1, <1>2, <1>3, <1>4 DEF AsksKeepProduct

LEMMA AsksProductInit ==
  ASSUME Init
  PROVE  AsksKeepProduct
<1>1. GridInv /\ bids = <<>> /\ asks = <<>>
  BY GridInvInit DEF Init
<1>2. SumBy(AskLock, asks) = 0 /\ SumBy(Paid, asks) = 0
  BY <1>1, NoSums DEF GridInv
<1>3. total["pc"] \in Nat /\ total["coin"] \in Nat
  BY <1>1 DEF GridInv, Base, Amount, Side
<1>4. (total["pc"] + 0) * (total["coin"] - 0) >= Product(total)
  BY <1>3 DEF Product
<1> QED
  BY <1>2, <1>4 DEF AsksKeepProduct

-----------------------------------------------------------------------------
(* Plans are well typed: no size or reserve ever becomes negative, because *)
(* every subtraction of do_plan_orderbook is of a part. *)
THEOREM GridTypeOK == Spec => []TypeOK
<1>1. GridInv => TypeOK
  BY DEF GridInv
<1> QED
  BY <1>1, GridInvInit, GridInvStep, PTL DEF Spec

(* Filling the bids of a plan, in order, never lowers the product of the   *)
(* reserves, for every fee, grid, price tick and lot size.                 *)
THEOREM GridBidsKeepProduct == Spec => []BidsKeepProduct
<1>1. GridInv => BidsKeepProduct
  BY DEF GridInv
<1> QED
  BY <1>1, GridInvInit, GridInvStep, PTL DEF Spec

(* The pool's own bids and asks never meet. *)
THEOREM GridNeverCrosses == Spec => []NeverCrosses
BY GridInvApart, GridInvInit, GridInvStep, PTL DEF Spec

(* No level of a plan panics, once there are three orders or last_order_*  *)
(* is not set. *)
THEOREM GridPlanNeverFails == Spec => []PlanNeverFails
BY GridInvPlans, GridInvInit, GridInvStep, PTL DEF Spec

(* Everything that the market locks for a plan is there, whatever the      *)
(* rounding to lots and ticks did to its sizes and prices.                 *)
THEOREM GridFunded == PcAligned => (Spec => []Funded)
<1> SUFFICES ASSUME PcAligned PROVE Spec => []Funded
  OBVIOUS
<1> DEFINE Inv == GridInv /\ BidsBudget /\ AsksBudget
<1>1. Init => Inv
  BY GridInvInit, BudgetsInit
<1>2. Inv /\ [Next]_vars => Inv'
  <2> SUFFICES ASSUME GridInv, BidsBudget, AsksBudget, [Next]_vars
               PROVE  GridInv' /\ BidsBudget' /\ AsksBudget'
    OBVIOUS
  <2>1. GridInv'
    BY GridInvStep
  <2>2. CASE PlanLevel
    BY <2>1, <2>2, BidsBudgetStep, AsksBudgetStep
  <2>3. CASE UNCHANGED vars
    BY <2>1, <2>3, BudgetsStutter
  <2> QED
    BY <2>2, <2>3 DEF Next
<1>3. Inv => Funded
  BY FundedFollows DEF GridInv
<1> QED
  <2> HIDE DEF Inv
  <2> QED
    BY <1>1, <1>2, <1>3, PTL DEF Spec

(* However many asks of a plan are filled, the product of the native       *)
(* reserves does not fall.                                                 *)
THEOREM GridAsksKeepProduct == PcAligned /\ WholeTick => (Spec => []AsksKeepProduct)
<1> SUFFICES ASSUME PcAligned, WholeTick PROVE Spec => []AsksKeepProduct
  OBVIOUS
<1> DEFINE Inv == GridInv /\ PaidBudget /\ AsksBudget /\ AsksKeepProduct
<1>1. Init => Inv
  BY GridInvInit, BudgetsInit, AsksProductInit
<1>2. Inv /\ [Next]_vars => Inv'
  <2> SUFFICES ASSUME GridInv, PaidBudget, AsksBudget, AsksKeepProduct, [Next]_vars
               PROVE  GridInv' /\ PaidBudget' /\ AsksBudget' /\ AsksKeepProduct'
    OBVIOUS
  <2>1. GridInv'
    BY GridInvStep
  <2>2. CASE PlanLevel
    <3>1. PaidBudget' /\ AsksBudget'
      BY <2>2, PaidBudgetStep, AsksBudgetStep
    <3>2. AsksKeepProduct'
      BY <2>2, <3>1, AsksProductStep
    <3> QED
      BY <2>1, <3>1, <3>2
  <2>3. CASE UNCHANGED vars
    BY <2>1, <2>3, BudgetsStutter, AsksProductStutter
  <2> QED
    BY <2>2, <2>3 DEF Next
<1>3. Inv => AsksKeepProduct
  OBVIOUS
<1> QED
  <2> HIDE DEF Inv
  <2> QED
    BY <1>1, <1>2, <1>3, PTL DEF Spec
=============================================================================
