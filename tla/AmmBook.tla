------------------------------- MODULE AmmBook -------------------------------
(***************************************************************************)
(* The ledger of a pool whose liquidity also stands on the order book: the *)
(* order-book branches of the instructions that AmmPool models without it, *)
(* with the pool's own vaults and its standing on the market as separate   *)
(* state.                                                                  *)
(*                                                                         *)
(* A crank round is what it leaves behind: the profit that do_idle_state   *)
(* sets aside, orders that the plan allows, or nothing on the book.        *)
(* AmmCrank models how the crank comes to it, AmmGrid the plan.            *)
(*                                                                         *)
(* Left out, because AmmPool has them: the users' own balances (who asks   *)
(* for an exchange can pay for it), the limits they put in, gifts to the   *)
(* vaults, burnt lp tokens, and time, so that a status that waits for it   *)
(* may find it has come.  Trades are whole lots of one coin.               *)
(***************************************************************************)
EXTENDS Market, AmmStatus

CONSTANTS
  Unit,          \* 10^decimals of each token
  SysChoices,    \* amm.sys_decimal_value, for lot sizes that markets have
  SwapFee,       \* amm.fees.swap_fee_numerator and _denominator
  PnlShare,      \* amm.fees.pnl_numerator and _denominator
  OrderFee,      \* amm.fees.trade_fee_numerator and _denominator
  InitVault,     \* the vaults when the pool is opened
  InitLp,        \* the liquidity that process_initialize2 makes of them
  StatusChoices, \* statuses that the administrator sets
  Amounts,       \* amounts of a deposit or a swap
  Shares,        \* lp tokens of a withdrawal
  Prices,        \* pc that an order trades for one coin
  Sizes,         \* coin that an order trades
  MaxMoves       \* bound on the steps of everybody but the consumer

ASSUME BookAssumption ==
  /\ Unit \in [Side -> Nat \ {0}]
  /\ SysChoices \subseteq Nat
  /\ \A s \in Side, value \in SysChoices : Unit[s] <= value
  /\ SwapFee \in Fraction /\ PnlShare \in Fraction /\ OrderFee \in Fraction
  /\ InitVault \in Amount
  /\ InitLp \in Nat /\ Unit["coin"] <= InitLp /\ IsIntegerSqrt(InitLp, Product(InitVault))
  /\ StatusChoices \subseteq ValidStatus
  /\ Amounts \subseteq Nat \ {0} /\ Shares \subseteq Nat \ {0}
  /\ Prices \subseteq Nat \ {0} /\ Sizes \subseteq Nat \ {0}
  /\ MaxMoves \in Nat

VARIABLES
  status,       \* amm.status
  vault,        \* balances of the pool's two vaults
  market,       \* the pool's standing on the market
  needTakePnl,  \* amm.state_data.need_take_pnl_coin and _pc
  calcPnl,      \* target_orders.calc_pnl_x (pc) and calc_pnl_y (coin)
  lpAmount,     \* amm.lp_amount
  sys,          \* amm.sys_decimal_value
  pnlPaid,      \* the protocol's coin and pc accounts
  stranded,     \* the pool's tokens in open orders accounts it has given up
  moves         \* bounded by MaxMoves

vars == <<status, vault, market, needTakePnl, calcPnl, lpAmount, sys, pnlPaid, stranded, moves>>

TypeOK ==
  /\ status \in ValidStatus
  /\ vault \in Amount
  /\ market \in Standing
  /\ needTakePnl \in Amount
  /\ calcPnl \in Amount
  /\ lpAmount \in Nat
  /\ sys \in SysChoices
  /\ pnlPaid \in Amount
  /\ stranded \in Amount
  /\ moves \in 0 .. MaxMoves

(* Opened by process_initialize2 and given the order book since. *)
Init ==
  /\ status = "Initialized"
  /\ vault = InitVault
  /\ market = NoStanding
  /\ needTakePnl = Zero
  /\ sys \in SysChoices
  /\ calcPnl = Normalize(InitVault, Unit, sys)
  /\ lpAmount = InitLp
  /\ pnlPaid = Zero
  /\ stranded = Zero
  /\ moves = 0

-----------------------------------------------------------------------------
(* What the handlers share. *)

OrderBookOn == status \in OrderbookPermission

(* calc_total_without_take_pnl and, without the order book, the same of    *)
(* the vaults alone.                                                       *)
Total ==
  LET owned == IF OrderBookOn THEN Plus(vault, CalcExact(market)) ELSE vault
  IN Minus(owned, needTakePnl)

Normalized == Normalize(Total, Unit, sys)

NoSkim == [pnl |-> Zero, delta |-> Zero]

CalcTakePnl ==
  IF AtMost(Zero, Total) THEN TakeOutcomes(Total, calcPnl, PnlShare, Unit, sys) ELSE {}

(* Holders can redeem all but what process_initialize2 withheld. *)
LpSupply == lpAmount - Unit["coin"]

Move == moves < MaxMoves /\ moves' = moves + 1

(* What is in the vaults once funds are settled from a standing. *)
SettledNothing(m) == vault

Settled(m) == Plus(vault, m.free)

(* Plausible mistakes in what follows, each of which breaks a property.    *)
ClearedTooEarly == CancelBoth(Settle(market))
PayableOfTotal(paid) == AtMost(paid, Total)
CancelledOpposite(s) == CancelAfter(market, Other(s), 0)
AllIsBackUnchecked == TRUE
PlannedAgainstFee(s, price, size) ==
  LET minus == OrderFee.den - OrderFee.num IN
  IF s = "pc" THEN price * (Total["coin"] + size) * minus <= Total["pc"] * OrderFee.den
  ELSE /\ size < Total["coin"]
       /\ price * (Total["coin"] - size) * OrderFee.den >= Total["pc"] * minus

(* The book after all of the pool's orders are cancelled and settled.      *)
Cleared == Settle(CancelBoth(market))

-----------------------------------------------------------------------------
(* process_deposit leaves the orders as they are. *)
Deposit(base, amount) ==
  /\ status \in DepositPermission
  /\ lpAmount # 0
  /\ \E taken \in CalcTakePnl :
       LET total  == Minus(Total, taken.pnl)
           deduct == DepositDeduct(base, amount, total)
           mint   == DepositMint(base, amount, total, lpAmount)
       IN /\ total[base] # 0
          /\ mint # 0 /\ (\A s \in Side : deduct[s] # 0)
          /\ vault' = Plus(vault, deduct)
          /\ lpAmount' = lpAmount + mint
          /\ needTakePnl' = Plus(needTakePnl, taken.pnl)
          /\ calcPnl' = Minus(Plus(Normalized, Normalize(deduct, Unit, sys)), taken.delta)
  /\ UNCHANGED <<status, market, sys, pnlPaid, stranded>>

(* process_withdraw cancels all orders and settles, but compares what it   *)
(* pays with the vaults as they were before.                               *)
PayableWhen(paid) == \A s \in Side : paid[s] < vault[s]

Withdraw(lp) ==
  /\ status \in WithdrawPermission
  /\ lp <= LpSupply /\ lp < lpAmount
  /\ AtMost(Zero, Total)
  /\ \E taken \in IF status = "WithdrawOnly" THEN {NoSkim} ELSE CalcTakePnl :
       LET out  == WithdrawOut(lp, Minus(Total, taken.pnl), lpAmount)
           next == Minus(Minus(Normalized, Normalize(out, Unit, sys)), taken.delta)
       IN /\ \A s \in Side : out[s] # 0
          /\ PayableWhen(out)
          /\ AtMost(Zero, next)
          /\ vault' = Minus(IF OrderBookOn THEN Settled(CancelBoth(market)) ELSE vault, out)
          /\ market' = IF OrderBookOn THEN Cleared ELSE market
          /\ lpAmount' = lpAmount - lp
          /\ needTakePnl' = Plus(needTakePnl, taken.pnl)
          /\ calcPnl' = next
  /\ UNCHANGED <<status, sys, pnlPaid, stranded>>

(* process_withdrawpnl neither cancels nor settles: what is owed has to be *)
(* in the vaults.                                                          *)
WithdrawPnl ==
  /\ \E taken \in CalcTakePnl :
       LET owed == Plus(needTakePnl, taken.pnl) IN
         /\ AtMost(owed, vault)
         /\ vault' = Minus(vault, owed)
         /\ pnlPaid' = Plus(pnlPaid, owed)
         /\ needTakePnl' = Zero
         /\ calcPnl' = Minus(Normalized, taken.delta)
  /\ UNCHANGED <<status, market, lpAmount, sys, stranded>>

-----------------------------------------------------------------------------
(* The first swap after its time gives a waiting pool its next status.     *)
OpenForSwap ==
  /\ status \in SwapPermission \cup {"OrderBookOnly"}
  /\ status' = CASE status = "WaitingTrade"  -> "SwapOnly"
                 [] status = "OrderBookOnly" -> "Initialized"
                 [] OTHER -> status

(* A swap that pays out token s cancels the orders that lock it ... *)
CancelledFor(s) == IF OrderBookOn THEN CancelAfter(market, s, 0) ELSE market

(* ... and settles when the vault alone cannot pay. *)
NeedsSettling(out, s) == OrderBookOn /\ out > vault[s]

ReadyFor(out, s) == IF NeedsSettling(out, s) THEN Settled(CancelledFor(s)) ELSE vault

Exchange(src, in, out) ==
  LET to == Other(src)
      ready == ReadyFor(out, to)
  IN
  /\ in # 0 /\ out # 0 /\ out < Total[to]
  /\ out <= ready[to]
  /\ vault' = [ready EXCEPT ![src] = @ + in, ![to] = @ - out]
  /\ market' = IF NeedsSettling(out, to) THEN Settle(CancelledFor(to)) ELSE CancelledFor(to)
  /\ UNCHANGED <<needTakePnl, calcPnl, lpAmount, sys, pnlPaid, stranded>>

SwapBaseIn(src, amountIn) ==
  /\ OpenForSwap
  /\ AtMost(Zero, Total)
  /\ Total[src] + amountIn - SwapFeeIn(amountIn, SwapFee) # 0
  /\ Exchange(src, amountIn, QuoteBaseIn(amountIn, Total, src, SwapFee))

(* process_swap_base_out passes the market's asks in the place of its coin *)
(* vault when it settles coin, which the market refuses.                   *)
SettleRefused(out, to) == to = "coin" /\ NeedsSettling(out, to)

SwapBaseOut(src, amountOut) ==
  /\ OpenForSwap
  /\ AtMost(Zero, Total) /\ amountOut < Total[Other(src)]
  /\ ~SettleRefused(amountOut, Other(src))
  /\ Exchange(src, QuoteBaseOut(amountOut, Total, src, SwapFee), amountOut)

-----------------------------------------------------------------------------
(* process_set_params: a new status is refused while anything of the pool  *)
(* is left on the market.  The other parameters, the crank's               *)
(* do_cancel_all_orders_state and process_admin_cancel_orders clear the    *)
(* book and change nothing else of this module.                            *)
ClearBook ==
  /\ vault' = Settled(CancelBoth(market))
  /\ market' = Cleared
  /\ UNCHANGED <<needTakePnl, calcPnl, lpAmount, sys, pnlPaid, stranded>>

AllIsBack == CalcExact(Cleared) = Zero

SetStatus(value) ==
  /\ ClearBook
  /\ AllIsBack
  /\ status' = value

CancelAll == ClearBook /\ UNCHANGED status

(* AmmParams::UpdateOpenOrder gives the pool another open orders account   *)
(* without asking what the old one still holds.                            *)
UpdateOpenOrder ==
  /\ vault' = Settled(CancelBoth(market))
  /\ market' = NoStanding
  /\ stranded' = Plus(stranded, CalcExact(Cleared))
  /\ UNCHANGED <<status, needTakePnl, calcPnl, lpAmount, sys, pnlPaid>>

(* process_migrate_to_openbook, which does ask.  amm.initialize starts     *)
(* state_data afresh, and the baseline is expressed in the new decimals    *)
(* when the new market has other lot sizes.                                *)
Rebased(newSys) == Normalize(Restore(calcPnl, Unit, sys), Unit, newSys)

Migrate(newSys) ==
  /\ AllIsBack
  /\ vault' = Settled(CancelBoth(market))
  /\ market' = NoStanding
  /\ status' = "WaitingTrade"
  /\ needTakePnl' = Zero
  /\ sys' = newSys
  /\ \/ calcPnl' = Rebased(newSys)
     \/ newSys = sys /\ UNCHANGED calcPnl
  /\ UNCHANGED <<lpAmount, pnlPaid, stranded>>

(* do_idle_state sets profit aside; the baseline follows only when it      *)
(* gives up something of both tokens.                                      *)
TakeProfit ==
  /\ OrderBookOn
  /\ \A s \in Side : Normalized[s] # 0
  /\ Product(Normalized) >= Product(calcPnl)
  /\ \E taken \in CalcTakePnl :
       /\ needTakePnl' = Plus(needTakePnl, taken.pnl)
       /\ calcPnl' = IF \A s \in Side : taken.delta[s] # 0
                     THEN Minus(Normalized, taken.delta) ELSE calcPnl
  /\ UNCHANGED <<status, vault, market, lpAmount, sys, pnlPaid, stranded>>

(* The size that the plan of do_plan_orderbook gives an order: trading all *)
(* of it brings the pool's price no further than the order's, with the fee *)
(* on the pool's side of it.                                               *)
Planned(s, price, size) ==
  LET plus == OrderFee.den + OrderFee.num IN
  IF s = "pc" THEN price * (Total["coin"] + size) * plus <= Total["pc"] * OrderFee.den
  ELSE /\ size < Total["coin"]
       /\ price * (Total["coin"] - size) * OrderFee.den >= Total["pc"] * plus

(* A round of do_place_orders that leaves one order locking s on the book, *)
(* in the place of an older one.                                           *)
PlaceOrder(s, price, size) ==
  LET lock == IF s = "pc" THEN price * size ELSE size
      before == CancelAfter(market, s, 0)
      order == [lock |-> lock, level |-> price, listed |-> TRUE]
  IN
  /\ OrderBookOn
  /\ Planned(s, price, size)
  /\ lock <= vault[s] + market.free[s] - needTakePnl[s]
  /\ FromVault(before, s, lock) <= vault[s]
  /\ market' = Rest(Funded(before, s, lock), s, order, TRUE)
  /\ vault' = [vault EXCEPT ![s] = @ - FromVault(before, s, lock)]
  /\ UNCHANGED <<status, needTakePnl, calcPnl, lpAmount, sys, pnlPaid, stranded>>

(* A trader takes lots of the pool's order at its price ... *)
TakeOrder(s) ==
  /\ market.orders[s] # <<>>
  /\ LET order == Head(market.orders[s]) IN
       IF s = "pc"
       THEN \E lots \in 1 .. order.lock \div order.level : market' = Take(market, s, lots * order.level, lots)
       ELSE \E lots \in 1 .. order.lock : market' = Take(market, s, lots, lots * order.level)
  /\ UNCHANGED <<status, vault, needTakePnl, calcPnl, lpAmount, sys, pnlPaid, stranded>>

(* ... and somebody consumes the event. *)
ConsumeEvents ==
  /\ market.queue # <<>>
  /\ market' = ConsumeHead(market)
  /\ UNCHANGED <<status, vault, needTakePnl, calcPnl, lpAmount, sys, pnlPaid, stranded, moves>>

UserStep ==
  \/ \E base \in Side, amount \in Amounts : Deposit(base, amount)
  \/ \E lp \in Shares : Withdraw(lp)
  \/ \E src \in Side, amount \in Amounts : SwapBaseIn(src, amount) \/ SwapBaseOut(src, amount)

OwnerStep ==
  \/ WithdrawPnl
  \/ CancelAll
  \/ UpdateOpenOrder
  \/ \E value \in StatusChoices : SetStatus(value)
  \/ \E newSys \in SysChoices : Migrate(newSys)

BookStep ==
  \/ TakeProfit
  \/ \E s \in Side, price \in Prices, size \in Sizes : PlaceOrder(s, price, size)
  \/ \E s \in Side : TakeOrder(s)

Next == (Move /\ (UserStep \/ OwnerStep \/ BookStep)) \/ ConsumeEvents

Spec == Init /\ [][Next]_vars

-----------------------------------------------------------------------------
(* Safety. *)

(* What an order that locks s brings of the other token. *)
Brings(s, o) == IF s = "pc" THEN o.lock \div o.level ELSE o.lock * o.level

(* What is left of each token when the orders of the given sides are       *)
(* filled.                                                                 *)
WhenFilled(total, orders, sides) ==
  [s \in Side |->
     LET spent  == IF s \in sides THEN Locked(orders[s]) ELSE 0
         gained == IF Other(s) \in sides
                   THEN SumBy(LAMBDA o : Brings(Other(s), o), orders[Other(s)]) ELSE 0
     IN total[s] - spent + gained]

Corners(total, orders) == {Product(WhenFilled(total, orders, sides)) : sides \in SUBSET Side}

(* The product of the reserves when traders take what is worst of the      *)
(* pool's standing orders.  Along the fill of an order the product first   *)
(* grows and then falls, so that the worst is at one of the ends.          *)
Worst == Min(Corners(Total, market.orders))

(* The worst that may become of the reserves behind each lp token only     *)
(* improves, whoever acts in whatever order: partial fills, trades that    *)
(* nobody has consumed, swaps that cancel one side only, deposits that     *)
(* leave the book alone, withdrawals that clear it.  Setting profit aside  *)
(* and giving up an open orders account are what takes from it.            *)
FloorNeverFalls ==
  [][UNCHANGED <<needTakePnl, pnlPaid, stranded>>
       => Worst' * lpAmount * lpAmount >= Worst * lpAmount' * lpAmount']_vars

NoTradePending == \A i \in DOMAIN market.queue : ~market.queue[i].maker

(* Whatever the book looks like, a swap finds the tokens it has to pay out *)
(* once no trade is pending: cancelling the orders that lock them and      *)
(* settling makes up for what the vault lacks, and leaves the profit owed. *)
SwapsArePaid ==
  NoTradePending =>
    \A s \in Side : \A out \in 1 .. Total[s] - 1 :
      /\ out <= ReadyFor(out, s)[s]
      /\ NeedsSettling(out, s) => out + needTakePnl[s] < ReadyFor(out, s)[s]

(* simulate_pool_info and the simulated swaps count the market in every    *)
(* status, the handlers only in those with the order book.  They see the   *)
(* same pool all the same, because no change of status leaves anything of  *)
(* it on the market.                                                       *)
SimulatedTotal == Minus(Plus(vault, CalcExact(market)), needTakePnl)

SimulationSeesPool == SimulatedTotal = Total

(* Once no trade is pending, cancelling all orders and settling brings     *)
(* everything back: the administrator's change of status and the migration *)
(* are not refused, and an open orders account that is given up is empty.  *)
ClearingBringsAllBack == NoTradePending => AllIsBack

(* What the pool is owed for trades that nobody has consumed yet. *)
Pending(s) == SumBy(LAMBDA e : IF e.maker /\ e.side # s THEN e.got ELSE 0, market.queue)

(* AmmParams::UpdateOpenOrder never asks whether a trade is pending.  It   *)
(* costs the pool what is owed for those trades, and nothing else: neither *)
(* what its orders lock, be they half filled, nor what is free.            *)
GivesUpOnlyTrades ==
  [][UpdateOpenOrder =>
       \A s \in Side :
         vault'[s] + CalcExact(market')[s] = vault[s] + CalcExact(market)[s] - Pending(s)]_vars

-----------------------------------------------------------------------------
(* What the source says of itself and does not keep. *)

(* instruction.rs, line 212: "Withdraw the vault tokens from the pool at   *)
(* the current ratio."  What a holder withdraws is paid, be it that the    *)
(* orders have to be cancelled for it.                                     *)
HolderCanExit ==
  NoTradePending /\ status \in WithdrawPermission =>
    \A lp \in 1 .. LpSupply : \A taken \in CalcTakePnl :
      PayableWhen(WithdrawOut(lp, Minus(Total, taken.pnl), lpAmount))

(* instruction.rs, line 341: "Swap coin or pc from pool, base amount_out   *)
(* with a slippage of max_amount_in".  A swap of either token is served,   *)
(* up to what the pool has of it.                                          *)
SwapBaseOutServed ==
  NoTradePending => \A s \in Side : \A out \in 1 .. Total[s] - 1 : ~SettleRefused(out, s)

(* The comment of process_withdrawpnl, "withdrawpnl in all status except   *)
(* Uninitialized": no sequence of trades and deposits makes calc_take_pnl  *)
(* fail, which stops deposits, withdrawals and withdrawpnl alike.          *)
CalcTakePnlNeverFails == stranded = Zero => CalcTakePnl # {}

(* state.rs, "delay to take pnl coin": profit set aside is paid later, and *)
(* is no longer owed only when it was paid.                                *)
OwedUntilPaid ==
  [][AtMost(Plus(needTakePnl, pnlPaid), Plus(needTakePnl', pnlPaid'))]_vars
=============================================================================
