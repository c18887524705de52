------------------------------- MODULE AmmCrank -------------------------------
(***************************************************************************)
(* The crank: process_monitor_step and the do_* steps of AmmState, which   *)
(* keep the pool's orders on the market in line with its reserves, next to *)
(* the swaps, the administrator, the traders of the market and whoever     *)
(* consumes the market's events.                                           *)
(*                                                                         *)
(* Every instruction is atomic, and one that fails changes nothing; so the *)
(* interleaving of whole instructions is what the model explores.          *)
(*                                                                         *)
(* Abstractions.  The prices and sizes of a plan are those of AmmGrid:     *)
(* here a level is only what its orders lock of each token, any of         *)
(* LevelLocks as long as the plan locks no more than the reserves (Funded  *)
(* of MCAmmGrid).  A client order id is the flag listed of the order that  *)
(* carries it.  The profit owed to the protocol is constant: AmmPool       *)
(* models how it grows.  A new order never meets an older order of the     *)
(* pool (the market would cancel the older one).                           *)
(***************************************************************************)
EXTENDS Market

CONSTANTS
  Unit,          \* 10^decimals of each token
  Sys,           \* amm.sys_decimal_value
  Tick,          \* amm.pc_lot_size
  MinMultiplier, \* amm.min_price_multiplier
  MaxMultiplier, \* amm.max_price_multiplier
  SwapFee,       \* amm.fees.swap_fee_numerator and _denominator
  InitVault,     \* the vaults at first
  Owed,          \* amm.state_data.need_take_pnl_coin and _pc
  Limits,        \* plan_order_limit and place_order_limit of a keeper's call
  LevelLocks,    \* what the two orders of a level may lock; 0 is no order
  Gains,         \* what an order that is taken receives
  SwapAmounts,   \* amount_in of a swap
  MaxOrderNum,   \* largest order_num the administrator sets
  SlotLimit,     \* used slots above which the crank waits: 100 in the code
  MaxMoves       \* bound on the steps of everybody but keeper and consumer

ASSUME CrankAssumption ==
  /\ Unit \in [Side -> Nat \ {0}]
  /\ Sys \in Nat \ {0}
  /\ \A s \in Side : Unit[s] <= Sys
  /\ InitVault \in Amount
  /\ Owed \in Amount
  /\ \A s \in Side : Owed[s] < InitVault[s]
  /\ Limits \subseteq Nat \ {0}
  /\ LevelLocks \subseteq Amount
  /\ Gains \subseteq Nat \ {0}
  /\ SwapAmounts \subseteq Nat \ {0}
  /\ SwapFee \in Fraction
  /\ MaxOrderNum \in 1 .. 10
  /\ SlotLimit \in Nat
  /\ MaxMoves \in Nat

VARIABLES
  enabled,   \* amm.status is Initialized or OrderBookOnly
  state,     \* amm.state
  resetFlag, \* amm.reset_flag is ResetYes
  orderNum,  \* amm.order_num
  vault,     \* balances of the pool's two vaults
  market,    \* the pool's standing on the market
  planned,   \* target.buy_orders and sell_orders up to plan_orders_cur
  placeCur,  \* target.place_orders_cur
  target,    \* target.target_y (coin) and target_x (pc)
  placed,    \* target.placed_y and placed_x
  valid,     \* target.valid_sell_order_num (coin) and valid_buy_order_num (pc)
  moves      \* bounded by MaxMoves

targetVars == <<planned, placeCur, target, placed, valid>>

vars == <<enabled, state, resetFlag, orderNum, vault, market, targetVars, moves>>

(* CancelOrderState is left out: nothing sets it, because process_set_params *)
(* overwrites the state it was given.                                      *)
State == {"Idle", "Plan", "Place", "Purge", "CancelAll"}

-----------------------------------------------------------------------------
(* calc_total_without_take_pnl. *)
Total == [s \in Side |-> vault[s] + CalcExact(market)[s] - Owed[s]]

(* The x and y of the do_* steps. *)
Reserves == Normalize(Total, Unit, Sys)

(* target.calc_pnl_x and calc_pnl_y, which stay as they were at first: the *)
(* protocol takes no share here.                                           *)
Baseline == Normalize(Minus(InitVault, Owed), Unit, Sys)

(* calc_total_without_take_pnl fails below zero, and the steps return an   *)
(* error at zero.  Normalizing keeps an amount positive, because no unit   *)
(* exceeds Sys.                                                            *)
NotEmpty == \A s \in Side : Total[s] > 0

Price == (Reserves["pc"] * Sys) \div Reserves["coin"]

InRange == Tick * MinMultiplier <= Price /\ Price <= Tick * MaxMultiplier

Book == market.orders

-----------------------------------------------------------------------------
(* The steps of the crank. *)

(* do_idle_state keeps the book only if no order is missing, one is there, *)
(* and the reserves are those it was placed for.                           *)
QuietWhateverReserves ==
  /\ \A s \in Side : Len(Book[s]) >= valid[s]
  /\ Book # NoOrders

Quiet ==
  /\ \A s \in Side : Len(Book[s]) >= valid[s]
  /\ Book # NoOrders
  /\ Reserves = placed

IdleStep ==
  /\ state = "Idle"
  /\ NotEmpty
  /\ planned' = IF Quiet THEN planned ELSE <<>>
  /\ state' = IF Product(Reserves) < Product(Baseline) THEN "CancelAll"
              ELSE IF ~InRange THEN IF Book = NoOrders THEN "Idle" ELSE "CancelAll"
              ELSE IF Quiet THEN "Idle" ELSE "Plan"
  /\ UNCHANGED <<enabled, resetFlag, orderNum, vault, market, placeCur, target, placed, valid, moves>>

Unclamped(limit) == limit

Levels(limit) == IF Len(planned) + limit > orderNum THEN orderNum - Len(planned) ELSE limit

Affordable(plan) ==
  \A s \in Side : SumBy(LAMBDA level : level[s], plan) <= Total[s]

(* do_plan_orderbook.  Its first branch, for a plan that is complete when  *)
(* the call starts, is never taken: completing it leaves the state.        *)
ValidKept(first) == valid

ValidAtPlan(first) == IF first THEN Zero ELSE valid

PlanStep(limit) ==
  LET first == planned = <<>>
      saved == IF first THEN Reserves ELSE target
  IN
  /\ state = "Plan"
  /\ NotEmpty
  /\ target' = saved
  /\ valid' = ValidAtPlan(first)
  /\ IF Reserves # saved \/ ~InRange
     THEN state' = "Idle" /\ UNCHANGED <<planned, placeCur, placed, market>>
     ELSE \E levels \in [1 .. Levels(limit) -> LevelLocks] :
            /\ Affordable(planned \o levels)
            /\ planned' = planned \o levels
            /\ IF Len(planned') = orderNum
               THEN /\ state' = "Place"
                    /\ placeCur' = 0
                    /\ placed' = Zero
                    /\ market' = [market EXCEPT !.orders =
                                    [s \in Side |-> [i \in DOMAIN @[s] |-> [@[s][i] EXCEPT !.listed = FALSE]]]]
               ELSE UNCHANGED <<state, placeCur, placed, market>>
  /\ UNCHANGED <<enabled, resetFlag, orderNum, vault, moves>>

-----------------------------------------------------------------------------
(* do_place_orders.  A round holds what its loop changes: the market, the  *)
(* vaults, the counts of placed orders, the levels done, the amounts       *)
(* thought to be available, and how it goes on: an order for which too     *)
(* little is available ends the round, one that the market cannot fund and *)
(* a negative available amount fail the instruction.                       *)

Available(m, v) == Minus(Plus(v, m.free), Owed)

NotReloaded(round) == round.available

(* Reloaded after each level; the coin from the pc vault. *)
Reloaded(round) ==
  [Available(round.market, round.vault) EXCEPT !["coin"] = @ - round.vault["coin"] + round.vault["pc"]]

Unlisted(s, m) == {i \in DOMAIN m.orders[s] : ~m.orders[s][i].listed}

(* invoke_dex_replace_order_by_client_id cancels the worst old order for   *)
(* the first new one and the best for any other.                           *)
Replaced(round, s) ==
  LET old == Unlisted(s, round.market)
  IN IF old = {} THEN round.market
     ELSE CancelAt(round.market, s, IF round.valid[s] = 0 THEN Max(old) ELSE Min(old))

(* The order of level i that locks token s.  meets is what it receives if  *)
(* it finds its counterpart in the market at once, and 0 if it rests.      *)
PlaceOrder(round, s, i, meets, rising) ==
  LET lock == planned[i][s]
      before == Replaced(round, s)
      funded == Funded(before, s, lock)
  IN CASE round.outcome # "placing" -> round
       [] round.outcome = "placing" /\ lock > round.available[s] -> [round EXCEPT !.outcome = "short", !.short = s]
       [] round.outcome = "placing" /\ lock <= round.available[s] /\ lock = 0 -> round
       [] OTHER ->
            IF FromVault(before, s, lock) > round.vault[s]
            THEN [round EXCEPT !.outcome = "unfunded", !.short = s]
            ELSE [round EXCEPT
                    !.market = IF meets > 0 THEN Trade(funded, s, lock, meets)
                               ELSE Rest(funded, s, [lock |-> lock, level |-> i, listed |-> TRUE],
                                         rising = (s = "pc")),
                    !.vault[s] = @ - FromVault(before, s, lock),
                    !.valid[s] = @ + 1]

PlaceLevel(round, i, meets, rising) ==
  LET both == PlaceOrder(PlaceOrder(round, "pc", i, meets["pc"], rising), "coin", i, meets["coin"], rising)
      after == [both EXCEPT !.cur = i, !.available = Reloaded(both)]
  IN IF both.outcome # "placing" THEN both
     ELSE IF \E s \in Side : after.available[s] < 0 THEN [after EXCEPT !.outcome = "panics"]
     ELSE after

Upto(limit) == IF placeCur + limit > orderNum THEN orderNum ELSE placeCur + limit

NoMeeting == [i \in 1 .. orderNum |-> Zero]

Round(limit, meetings, rising) ==
  LET round[i \in placeCur .. Upto(limit)] ==
        IF i = placeCur
        THEN [market |-> market, vault |-> vault, valid |-> valid, cur |-> placeCur,
              available |-> Available(market, vault), outcome |-> "placing", short |-> "pc"]
        ELSE PlaceLevel(round[i - 1], i, meetings[i], rising)
  IN round[Upto(limit)]

SlotsIgnored == FALSE

TooManySlots == SlotsUsed(market) > SlotLimit

NeverSaved(done) == placed

PlacedAfter(done) == IF done THEN Reserves ELSE placed

RunRound(limit, meetings, rising) ==
  LET round == Round(limit, meetings, rising)
      done == round.outcome = "placing" /\ round.cur = orderNum
  IN
  /\ \A s \in Side : Available(market, vault)[s] >= 0
  /\ round.outcome \in {"placing", "short"}
  /\ market' = round.market
  /\ vault' = round.vault
  /\ valid' = round.valid
  /\ placeCur' = round.cur
  /\ placed' = PlacedAfter(done)
  /\ state' = CASE round.outcome = "short" -> "CancelAll" [] done -> "Purge" [] OTHER -> "Place"

PlaceStep(limit) ==
  /\ state = "Place"
  /\ \/ /\ TooManySlots
        /\ state' = "CancelAll"
        /\ UNCHANGED <<market, vault, valid, placeCur, placed, moves>>
     \/ /\ ~TooManySlots /\ NotEmpty /\ Reserves # target
        /\ state' = "Idle"
        /\ UNCHANGED <<market, vault, valid, placeCur, placed, moves>>
     \/ /\ ~TooManySlots /\ NotEmpty /\ Reserves = target
        /\ \E rising \in BOOLEAN : RunRound(limit, NoMeeting, rising)
        /\ UNCHANGED moves
     \/ /\ ~TooManySlots /\ NotEmpty /\ Reserves = target
        /\ moves < MaxMoves
        /\ moves' = moves + 1
        /\ \E i \in placeCur + 1 .. Upto(limit), s \in Side, got \in Gains :
             /\ planned[i][s] > 0
             /\ RunRound(limit, [NoMeeting EXCEPT ![i][s] = got], TRUE)
  /\ UNCHANGED <<enabled, resetFlag, orderNum, planned, target>>

(* do_purge_orders cancels whatever is beyond the number of orders placed, *)
(* counted from the best price.                                            *)
PurgedBids == Len(Book["pc"]) <= valid["pc"]

Purged == \A s \in Side : Len(Book[s]) <= valid[s]

PurgeStep ==
  /\ state = "Purge"
  /\ IF Purged
     THEN state' = "Idle" /\ UNCHANGED market
     ELSE /\ market' = CancelAfter(CancelAfter(market, "pc", valid["pc"]), "coin", valid["coin"])
          /\ UNCHANGED state
  /\ UNCHANGED <<enabled, resetFlag, orderNum, vault, targetVars, moves>>

-----------------------------------------------------------------------------
(* do_cancel_all_orders_state: it waits while slots are short and there is *)
(* nothing to cancel.                                                      *)
CanCancelAll == ~(TooManySlots /\ Book = NoOrders)

CancelAllStep ==
  LET cancelled == CancelBoth(market) IN
  /\ CanCancelAll
  /\ IF market.total # Zero
     THEN market' = Settle(cancelled) /\ vault' = Plus(vault, cancelled.free)
     ELSE market' = cancelled /\ UNCHANGED vault
  /\ resetFlag' = FALSE
  /\ state' = "Idle"
  /\ planned' = <<>>
  /\ placeCur' = 0
  /\ UNCHANGED <<enabled, orderNum, target, placed, valid, moves>>

ResetsWhenEnabled == resetFlag /\ enabled

(* process_monitor_step: a reset comes first, whatever the status. *)
Resets == resetFlag

MonitorStep ==
  \/ Resets /\ CancelAllStep
  \/ /\ ~resetFlag /\ orderNum # 0 /\ enabled
     /\ \/ IdleStep
        \/ \E limit \in Limits : PlanStep(limit) \/ PlaceStep(limit)
        \/ PurgeStep
        \/ state = "CancelAll" /\ CancelAllStep

-----------------------------------------------------------------------------
(* The other instructions that touch the orders. *)

(* process_swap_base_in: cancels the orders that lock the token paid out,  *)
(* and settles when the vault alone cannot pay.  Without the order book    *)
(* the vaults are all the pool has.                                        *)
Swap(amount, src) ==
  LET to == Other(src)
      total == IF enabled THEN Total ELSE Minus(vault, Owed)
      out == QuoteBaseIn(amount, total, src, SwapFee)
      cancelled == CancelAfter(market, to, 0)
      settles == enabled /\ out > vault[to]
      ready == IF settles THEN Plus(vault, cancelled.free) ELSE vault
  IN
  /\ moves < MaxMoves
  /\ AtMost(Zero, total)
  /\ total[src] + amount - SwapFeeIn(amount, SwapFee) # 0
  /\ out # 0
  /\ out < total[to]
  /\ out <= ready[to]
  /\ vault' = [ready EXCEPT ![src] = @ + amount, ![to] = @ - out]
  /\ market' = IF settles THEN Settle(cancelled) ELSE IF enabled THEN cancelled ELSE market
  /\ moves' = moves + 1
  /\ UNCHANGED <<enabled, state, resetFlag, orderNum, targetVars>>

StatusUnchecked(after) == TRUE

(* A new status is refused while the pool has anything on the market. *)
StatusAllowed(after) == CalcExact(after) = Zero

(* process_set_params: every parameter cancels and settles all orders and  *)
(* asks for a reset; those other than the status and order_num change      *)
(* nothing of this module.                                                 *)
SetParams ==
  LET cancelled == CancelBoth(market) IN
  /\ moves < MaxMoves
  /\ market' = Settle(cancelled)
  /\ vault' = Plus(vault, cancelled.free)
  /\ \/ StatusAllowed(market') /\ enabled' \in BOOLEAN /\ UNCHANGED orderNum
     \/ orderNum' \in 0 .. MaxOrderNum /\ UNCHANGED enabled
  /\ state' = "CancelAll"
  /\ resetFlag' = TRUE
  /\ moves' = moves + 1
  /\ UNCHANGED targetVars

(* process_admin_cancel_orders. *)
AdminCancelOrders ==
  LET cancelled == CancelBoth(market) IN
  /\ moves < MaxMoves
  /\ IF cancelled.free = Zero
     THEN market' = cancelled /\ UNCHANGED vault
     ELSE market' = Settle(cancelled) /\ vault' = Plus(vault, cancelled.free)
  /\ moves' = moves + 1
  /\ UNCHANGED <<enabled, state, resetFlag, orderNum, targetVars>>

(* A trader of the market takes from the pool's best order. *)
TakeOrder ==
  /\ moves < MaxMoves
  /\ \E s \in Side, got \in Gains :
       /\ Book[s] # <<>>
       /\ \E paid \in 1 .. Head(Book[s]).lock : market' = Take(market, s, paid, got)
  /\ moves' = moves + 1
  /\ UNCHANGED <<enabled, state, resetFlag, orderNum, vault, targetVars>>

(* Anybody consumes the oldest event. *)
ConsumeEvents ==
  /\ market.queue # <<>>
  /\ market' = ConsumeHead(market)
  /\ UNCHANGED <<enabled, state, resetFlag, orderNum, vault, targetVars, moves>>

(* The pool has never used its market, and the administrator has just set  *)
(* a status with the order book: the targets are those of check_init.      *)
Init ==
  /\ enabled = TRUE
  /\ state = "CancelAll"
  /\ resetFlag = TRUE
  /\ orderNum = MaxOrderNum
  /\ vault = InitVault
  /\ market = NoStanding
  /\ planned = <<>>
  /\ placeCur = 0
  /\ target = Zero
  /\ placed = Zero
  /\ valid = Zero
  /\ moves = 0

Next ==
  \/ MonitorStep
  \/ \E amount \in SwapAmounts, src \in Side : Swap(amount, src)
  \/ SetParams
  \/ AdminCancelOrders
  \/ TakeOrder
  \/ ConsumeEvents

Spec == Init /\ [][Next]_vars

(* An idle crank leaves everything as it is. *)
AtRest ==
  /\ Product(Reserves) >= Product(Baseline)
  /\ IF InRange THEN Quiet ELSE Book = NoOrders /\ planned = <<>>

CanPlace ==
  \/ TooManySlots
  \/ NotEmpty /\ Reserves # target
  \/ /\ NotEmpty
     /\ \A s \in Side : Available(market, vault)[s] >= 0
     /\ \E limit \in Limits : Round(limit, NoMeeting, TRUE).outcome \in {"placing", "short"}

CrankCanMove ==
  \/ Resets /\ CanCancelAll
  \/ /\ ~resetFlag /\ orderNum # 0 /\ enabled
     /\ CASE state = "Idle" -> NotEmpty /\ ~AtRest
          [] state = "Plan" -> NotEmpty
          [] state = "Place" -> CanPlace
          [] state = "Purge" -> TRUE
          [] state = "CancelAll" -> CanCancelAll

(* simulate_run_crank: what a keeper that asks first is told. *)
SunkWithoutOrders == Product(Reserves) < Product(Baseline) /\ Book = NoOrders

IdleAdviceByBook == ~QuietWhateverReserves /\ InRange /\ ~SunkWithoutOrders

IdleAdvice == NotEmpty /\ ~Quiet /\ InRange /\ ~SunkWithoutOrders

RunCrank ==
  \/ resetFlag
  \/ /\ orderNum # 0 /\ enabled
     /\ CASE state = "Idle" -> IdleAdvice
          [] state = "CancelAll" -> CanCancelAll /\ ~SunkWithoutOrders
          [] OTHER -> TRUE

(* A keeper calls the crank at least when it is told to, and somebody goes *)
(* on consuming the events.  The first is weak fairness of MonitorStep     *)
(* while both hold, written with the condition under which it is enabled,  *)
(* which TLC evaluates faster than ENABLED.                                *)
KeeperCalls == []<>~(CrankCanMove /\ RunCrank) \/ []<><<MonitorStep>>_vars

FairSpec == Spec /\ KeeperCalls /\ WF_vars(ConsumeEvents)

-----------------------------------------------------------------------------
TypeOK ==
  /\ enabled \in BOOLEAN
  /\ state \in State
  /\ resetFlag \in BOOLEAN
  /\ orderNum \in 0 .. MaxOrderNum
  /\ vault \in Amount
  /\ market \in Standing
  /\ planned \in Seq(LevelLocks) /\ Len(planned) <= MaxOrderNum
  /\ placeCur \in 0 .. MaxOrderNum
  /\ target \in Amount
  /\ placed \in Amount
  /\ valid \in Amount
  /\ moves \in 0 .. MaxMoves

(* What the pool owns of each token, wherever it is: in the vault, free or *)
(* locked on the market, or owed to it by a trade nobody has consumed yet. *)
Holdings ==
  LET unseen(s) == SumBy(LAMBDA e : IF e.maker /\ e.side # s THEN e.got ELSE 0, market.queue)
  IN [s \in Side |-> vault[s] + market.free[s] + Locked(Book[s]) + unseen(s)]

(* The totals every quote is made from are what the pool really owns, less *)
(* the profit it owes, however trades, their consumption, cancellations and *)
(* settlements interleave: no trade in the event queue is missed or counted *)
(* twice.                                                                  *)
ExactTotals == Plus(Total, Owed) = Holdings

(* The open orders account never needs more than its slots, although a     *)
(* cancelled or replaced order keeps its slot until its event is consumed: *)
(* the crank stops placing above SlotLimit, 100 in the code, and adds at   *)
(* most two orders a level before it looks again; 100 + 20 is below 128.   *)
SlotsBounded == SlotsUsed(market) <= SlotLimit + 2 * MaxOrderNum

(* In the statuses without an order book nothing of the pool is left on    *)
(* the market, so that the vaults that are then all the program counts     *)
(* hold everything.                                                        *)
NothingLeftBehind == ~enabled => market.total = Zero /\ Book = NoOrders /\ CalcExact(market) = Zero

(* While orders are placed the plan is complete for the present order_num, *)
(* and the counts of placed orders, which index the lists of client order  *)
(* ids, are behind the level being placed.                                 *)
PlacesWithinPlan ==
  state = "Place" =>
    /\ Len(planned) = orderNum
    /\ placeCur < orderNum
    /\ \A s \in Side : valid[s] <= placeCur

(* The comment of do_place_orders at line 4940, "reload account data to    *)
(* check avaliable pc and avaliable coin is enough to place order": an     *)
(* order that passes the check is one the market can fund.                 *)
ChecksFunds(s) ==
  state = "Place" /\ Reserves = target /\ ~TooManySlots =>
    \A limit \in Limits, rising \in BOOLEAN :
      LET round == Round(limit, NoMeeting, rising)
      IN round.outcome = "unfunded" => round.short # s

BidsAreFunded == ChecksFunds("pc")

AsksAreFunded == ChecksFunds("coin")

-----------------------------------------------------------------------------
(* A parameter set by the administrator takes effect: the reset it asks    *)
(* for is served, even when the crank has to wait for slots.               *)
ResetServed == resetFlag ~> ~resetFlag

(* A call gives the round up, at an ask for which there is too little coin *)
(* by the balance it looks at, line 4948, and enough in truth.             *)
Misjudged(round) ==
  /\ round.outcome = "short" /\ round.short = "coin"
  /\ planned[round.cur + 1]["coin"] <= Available(round.market, round.vault)["coin"]

GivesUpFundedAsk ==
  /\ state = "Place" /\ ~TooManySlots /\ Reserves = target
  /\ state' = "CancelAll"
  /\ \E limit \in Limits, rising \in BOOLEAN :
       LET round == Round(limit, NoMeeting, rising)
       IN Misjudged(round) /\ market' = round.market /\ vault' = round.vault

Settles == <>[][Book' = Book]_vars

(* Two things keep the crank from resting.  Calls of several levels may    *)
(* give up, again and again, an ask that the pool can pay for; and events  *)
(* may be consumed so slowly that what one plan cancels leaves the next no *)
(* slots.                                                                  *)
KeepsStarting == []<><<GivesUpFundedAsk>>_vars \/ []<>(state = "Place" /\ TooManySlots)

(* When nobody trades, swaps or sets parameters any more, the crank comes  *)
(* to rest but for these two: it does not plan, place and cancel the same  *)
(* orders for ever.                                                        *)
BookSettles == KeepsStarting \/ Settles

(* The comment of do_place_orders at line 4863, "coin amount is            *)
(* InsufficientFunds": orders are cancelled for want of coin only when it  *)
(* is wanting, so that the crank comes to rest for every keeper.           *)
BookAlwaysSettles == Settles

(* do_purge_orders counts an order of an older plan among the new ones,    *)
(* because its price is better.                                            *)
PurgeCountsOld ==
  state = "Purge" /\ \E s \in Side : \E i \in Unlisted(s, market) : i <= valid[s]

(* The last orders placed are purged like that.                            *)
LastPurgeCountsOld == <>(PurgeCountsOld /\ [](state # "Plan"))

(* A crank with nothing left to do rests on orders placed for the reserves *)
(* that the pool has then, and on no other: none is left of a plan that    *)
(* was given up half way, or of an older one, unless do_purge_orders took  *)
(* it for a new one.  A pool that has lost all of a token is the exception: *)
(* every step refuses it, and its last orders stay.                        *)
BookMatchesReserves ==
  <>[]~CrankCanMove =>
    /\ <>[](Book # NoOrders /\ NotEmpty => placed = Reserves)
    /\ LastPurgeCountsOld \/ <>[](NotEmpty => \A s \in Side : Unlisted(s, market) = {})

(* For a keeper that follows the advice of simulate_run_crank, and unless  *)
(* the crank keeps starting, there is one more exception: it is never told *)
(* to call while the price is out of the range, so that orders placed      *)
(* before stay on the book.                                                *)
AdviceKeepsBookCurrent ==
  \/ KeepsStarting
  \/ <>[](\A s \in Side : Book # NoOrders /\ NotEmpty /\ InRange => placed[s] = Reserves[s])
=============================================================================
