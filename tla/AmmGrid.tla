------------------------------- MODULE AmmGrid -------------------------------
(***************************************************************************)
(* The grid of limit orders that the crank plans from the pool's reserves: *)
(* do_plan_orderbook of src/program/src/processor.rs and the lot, price    *)
(* and size helpers of math.rs.                                            *)
(*                                                                         *)
(* A behaviour is one plan.  A step is one iteration of the loop over the  *)
(* levels: the calls of a keeper cut the loop into runs of plan_order_limit *)
(* iterations, and what lies between two calls changes nothing that an     *)
(* iteration reads, because a call that finds other reserves than target_x *)
(* and target_y plans nothing.  AmmCrank models those calls.               *)
(***************************************************************************)
EXTENDS AmmMath, Sequences

CONSTANTS
  Unit,        \* 10^decimals of the coin and the pc mint
  CoinLot,     \* the market's coin_lot_size, in native coin
  PcLot,       \* the market's pc_lot_size, in native pc
  OrderNum,    \* amm.order_num
  Depth,       \* amm.depth, in percent
  TradeFee,    \* amm.fees.trade_fee_numerator and _denominator
  MinSeparate, \* amm.fees.min_separate_numerator
  CutRatio,    \* amm.vol_max_cut_ratio, in ten-thousandths
  LastOrder,   \* target_orders.last_order_numerator and _denominator
  Reserves     \* native reserves to plan from

MaxOrderLimit == 10

ASSUME GridAssumption ==
  /\ Unit \in [Side -> Nat \ {0}]
  /\ CoinLot \in Nat \ {0}
  /\ PcLot \in Nat \ {0}
  /\ OrderNum \in 1 .. MaxOrderLimit
  /\ Depth \in 1 .. 99
  /\ TradeFee \in Fraction
  /\ MinSeparate \in Nat
  /\ MinSeparate + TradeFee.num <= TradeFee.den
  /\ CutRatio \in 0 .. 10000
  /\ LastOrder \in [num : Nat, den : Nat]
  /\ Reserves \subseteq Amount

VARIABLES
  total,  \* the native reserves the plan is made from
  bids,   \* target_orders.buy_orders, as far as they are planned
  asks,   \* target_orders.sell_orders, as far as they are planned
  buy,    \* plan_y_buy (coin) and plan_x_buy (pc): if the bids were filled
  sell    \* plan_y_sell and plan_x_sell: if the asks were filled

vars == <<total, bids, asks, buy, sell>>

-----------------------------------------------------------------------------
(* Plausible mistakes in what follows, each of which breaks a property.    *)
FeeTakenOff(price) == (price * TradeFee.den) \div (TradeFee.den + TradeFee.num)
FeePutOn(price) == (price * (TradeFee.den + TradeFee.num)) \div TradeFee.den
CheckedSub(a, b) == a - b

FloorLot(v, lot) == (v \div lot) * lot

CeilLot(v, lot) == CeilDiv(v, lot) * lot

(* Calculator::fibonacci, for every order_num that set_params accepts. *)
Fibonacci == <<0, 1, 2, 3, 5, 8, 13, 21, 34, 55>>

Sys == SysDecimalValue(Unit, CoinLot, PcLot)

(* amm.pc_lot_size, the price tick in units of 1/Sys: convert_in_pc_lot_size. *)
Tick == (PcLot * Sys * Unit["coin"]) \div (CoinLot * Unit["pc"])

(* The coin lot in units of 1/Sys, which is also amm.min_size. *)
Lot == NormalizeDecimal(CoinLot, Unit["coin"], Sys)

MinSize == Lot

(* target_x and target_y. *)
Target == Normalize(total, Unit, Sys)

CurPrice == (Target["pc"] * Sys) \div Target["coin"]

(* The fee on the wrong side of the price. *)
MaxBidAbovePrice ==
  (CurPrice * (TradeFee.den + (MinSeparate + TradeFee.num))) \div TradeFee.den

MaxBid ==
  (CurPrice * (TradeFee.den - (MinSeparate + TradeFee.num))) \div TradeFee.den

MinAsk ==
  CeilDiv(CurPrice * (TradeFee.den + (MinSeparate + TradeFee.num)), TradeFee.den)

Grid ==
  LET step == ((CurPrice * Depth) \div 100) \div OrderNum
  IN IF step < Tick THEN Tick ELSE step

(* The level that is planned next, counted from 1, and its distance from   *)
(* the best price.                                                         *)
Level == Len(bids) + 1

Distance == Grid * Fibonacci[Level]

(* Only the last level is moved by last_order_numerator and _denominator.  *)
IsLastOrder == Level = OrderNum /\ LastOrder.num # 0 /\ LastOrder.den # 0

-----------------------------------------------------------------------------
(* Prices. *)

SaturatingSub(a, b) == IF a > b THEN a - b ELSE 0

(* When the last bid falls below a tick it is raised to the grid, unless   *)
(* the order two places before it has no price or the grid as its price.   *)
RaisesLastBid(price) ==
  /\ price < Tick
  /\ bids[Level - 2].price # 0
  /\ bids[Level - 2].price # Grid

LastBidPrice(price) ==
  LET target == (CurPrice * LastOrder.den) \div LastOrder.num
      capped == IF price > target THEN target ELSE price
  IN IF RaisesLastBid(capped) THEN Grid ELSE capped

BidPrice ==
  LET price == SaturatingSub(MaxBid, Distance)
  IN FloorLot(IF IsLastOrder THEN LastBidPrice(price) ELSE price, Tick)

(* The asks below the price, like the bids. *)
AskPriceMirrored == CeilLot(SaturatingSub(MinAsk, Distance), Tick)

AskPrice ==
  LET price == MinAsk + Distance
      target == (CurPrice * LastOrder.num) \div LastOrder.den
  IN CeilLot(IF IsLastOrder /\ price < target THEN target ELSE price, Tick)

-----------------------------------------------------------------------------
(* Sizes. *)

BidPriceWithFee(price) == (price * (TradeFee.den + TradeFee.num)) \div TradeFee.den

AskPriceWithFee(price) == (price * TradeFee.den) \div (TradeFee.den + TradeFee.num)

(* get_max_buy_size_at_price and get_max_sell_size_at_price: how much coin *)
(* brings the pool's own price to the order's price.                       *)
MaxBuySize(price, plan) ==
  SaturatingSub((plan["pc"] * Sys) \div BidPriceWithFee(price), plan["coin"])

MaxSellSize(price, plan) ==
  SaturatingSub(plan["coin"], (plan["pc"] * Sys) \div AskPriceWithFee(price))

(* What is offered of a maximal size: a part is cut off, a size below the  *)
(* minimum is not offered, the rest is rounded to whole lots.              *)
Offered(maxSize) ==
  LET vol == maxSize - (CutRatio * maxSize) \div 10000
  IN IF vol < MinSize THEN 0 ELSE FloorLot(vol, Lot)

BidVol(price) == IF price = 0 THEN 0 ELSE Offered(MaxBuySize(price, buy))

AskVol(price) == Offered(MaxSellSize(price, sell))

(* The pc that vol of coin costs at price. *)
Cost(vol, price) == (vol * price) \div Sys

-----------------------------------------------------------------------------
(* What do_place_orders makes of an order: the lots it sends to the market *)
(* and the native amount it lets the market lock for a bid or an ask.      *)
OutPcLot == (Tick * CoinLot * Unit["pc"]) \div (Sys * Unit["coin"])

ConvertVolOut(vol) == (vol * Unit["coin"]) \div (CoinLot * Sys)

ConvertPriceOut(price) == price \div Tick

BidLock(order) == ConvertVolOut(order.vol) * ConvertPriceOut(order.price) * OutPcLot

AskLock(order) == ConvertVolOut(order.vol) * CoinLot

(* The pc that an ask brings when it is filled completely. *)
Paid(order) == ConvertVolOut(order.vol) * ConvertPriceOut(order.price) * PcLot

-----------------------------------------------------------------------------
(* A checked operation of the iteration fails, and the crank panics: the   *)
(* index of RaisesLastBid or the divisor of MaxSellSize.                   *)
PlanFails ==
  \/ /\ IsLastOrder
     /\ Level <= 2
     /\ LET target == (CurPrice * LastOrder.den) \div LastOrder.num
            price == SaturatingSub(MaxBid, Distance)
        IN price < Tick \/ target < Tick
  \/ AskPriceWithFee(AskPrice) = 0

TypeOK ==
  /\ total \in Amount
  /\ bids \in Seq([price : Nat, vol : Nat])
  /\ asks \in Seq([price : Nat, vol : Nat])
  /\ Len(bids) = Len(asks)
  /\ Len(bids) <= OrderNum
  /\ buy \in Amount
  /\ sell \in Amount

(* What do_plan_orderbook requires of the reserves before it plans: both   *)
(* sides of them positive, and the price at least a tick (min_price_multiplier *)
(* is 1 unless the administrator raises it).                               *)
Plannable ==
  /\ \A s \in Side : Target[s] > 0
  /\ CurPrice >= Tick

(* process_monitor_step and the market refuse a pool without them. *)
LotsExist == Lot > 0 /\ Tick > 0

Init ==
  /\ total \in Reserves
  /\ LotsExist
  /\ Plannable
  /\ bids = <<>>
  /\ asks = <<>>
  /\ buy = Target
  /\ sell = Target

(* Each side planned from the whole reserves. *)
PlanLevelAfresh ==
  /\ Len(bids) < OrderNum
  /\ ~PlanFails
  /\ bids' = Append(bids, [price |-> BidPrice, vol |-> BidVol(BidPrice)])
  /\ asks' = Append(asks, [price |-> AskPrice, vol |-> AskVol(AskPrice)])
  /\ UNCHANGED <<total, buy, sell>>

PlanLevel ==
  LET bid == BidPrice
      ask == AskPrice
      bidVol == BidVol(bid)
      askVol == AskVol(ask)
  IN
  /\ Len(bids) < OrderNum
  /\ ~PlanFails
  /\ bids' = Append(bids, [price |-> bid, vol |-> bidVol])
  /\ asks' = Append(asks, [price |-> ask, vol |-> askVol])
  /\ buy' = [coin |-> buy["coin"] + bidVol, pc |-> buy["pc"] - Cost(bidVol, bid)]
  /\ sell' = [coin |-> sell["coin"] - askVol, pc |-> sell["pc"] + Cost(askVol, ask)]
  /\ UNCHANGED total

Next == PlanLevel

Spec == Init /\ [][Next]_vars

-----------------------------------------------------------------------------
(* The plan never panics half way, which would leave every later call of   *)
(* the crank to panic at the same level.  The index two places before the  *)
(* last bid needs three orders when last_order_* is set.                   *)
PlanNeverFails ==
  (OrderNum > 2 \/ LastOrder.num = 0 \/ LastOrder.den = 0) /\ Len(bids) < OrderNum
    => ~PlanFails

(* However many bids are filled completely, in the order in which the      *)
(* market fills them, the product of the planned reserves is at least that *)
(* of the reserves the plan was made from: the sizes of                    *)
(* get_max_buy_size_at_price stay on the pool's own curve.                 *)
BidsKeepProduct == Product(buy) >= Product(Target)

(* No bid of a plan reaches an ask of the same plan, so that the pool never *)
(* trades with itself, once the fee or the separation is positive: every   *)
(* rounding to ticks and every change to the last order keeps the bids at  *)
(* or below the pool's price and the asks above it.                        *)
NeverCrosses ==
  TradeFee.num + MinSeparate > 0 =>
    \A i \in DOMAIN bids, j \in DOMAIN asks : bids[i].price < asks[j].price

(* What the market locks for all the orders of the plan together is there, *)
(* in native amounts, although sizes and prices are planned in normalized  *)
(* ones: otherwise do_place_orders would give up half way and cancel what  *)
(* it had placed, again and again.                                         *)
Funded ==
  /\ SumBy(BidLock, bids) <= total["pc"]
  /\ SumBy(AskLock, asks) <= total["coin"]

(* vol_max_cut_ratio took at least one unit off every size.                *)
EveryAskIsCut == \A i \in DOMAIN asks : asks[i].vol = 0 \/ CutRatio * asks[i].vol >= 10000

(* However many asks are filled completely, the product of the native      *)
(* reserves does not fall once every size is cut: get_max_sell_size_at_price *)
(* rounds the pool's curve against the pool, by less than a unit.          *)
AsksKeepProduct ==
  EveryAskIsCut =>
    (total["pc"] + SumBy(Paid, asks)) * (total["coin"] - SumBy(AskLock, asks)) >= Product(total)
=============================================================================
