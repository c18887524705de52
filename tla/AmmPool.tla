------------------------------- MODULE AmmPool -------------------------------
(***************************************************************************)
(* The ledger of one pool: the token accounts it owns, the liquidity it    *)
(* has issued, the profit it owes to the protocol and the baseline that    *)
(* profit is measured from.  One action per instruction of                 *)
(* src/program/src/processor.rs that moves them, while the pool's market   *)
(* is out of use (a status without orderbook_permission, so that the       *)
(* vaults hold everything the pool owns).                                  *)
(*                                                                         *)
(* An instruction is atomic: an error or a panic anywhere in the handler   *)
(* undoes all of it, so a condition under which the code returns an error, *)
(* or a checked operation that it unwraps fails, is a guard.               *)
(*                                                                         *)
(* Left out: the checks of account keys and signatures, the statistics of  *)
(* state_data (swap and total_pnl counters) that no instruction reads, and *)
(* the 64-bit bound on amounts, which no token supply exceeds.             *)
(***************************************************************************)
EXTENDS AmmMath, AmmStatus, FiniteSets

CONSTANTS
  Users,        \* wallets that send instructions
  Wealth,       \* tokens each of them holds at the start
  Unit,         \* 10^decimals of the coin and the pc mint
  CoinLot,      \* the market's coin_lot_size
  PcLot,        \* the market's pc_lot_size
  DefaultFees,  \* what Fees::initialize sets
  FeeChoices,   \* fees that the administrator may set
  StatusChoices,\* statuses that the administrator may set
  Limits,       \* maxima and minima that callers put in instructions
  MaxTime       \* bound on the clock

FeeSet == [swap : Fraction, pnl : Fraction]

ASSUME UsersAssumption == Users # {} /\ IsFiniteSet(Users) /\ Wealth \in [Users -> Amount]

ASSUME MarketAssumption ==
  /\ Unit \in [Side -> Nat \ {0}]
  /\ CoinLot \in Nat \ {0}
  /\ PcLot \in Nat \ {0}

ASSUME FeesAssumption == DefaultFees \in FeeSet /\ FeeChoices \subseteq FeeSet

ASSUME LimitsAssumption == Limits \subseteq Nat /\ MaxTime \in Nat

Sys == SysDecimalValue(Unit, CoinLot, PcLot)

(* sys_decimal_value is a whole multiple of both units: always so when it  *)
(* is the finer of the two, but not when it is the market's price tick.    *)
Aligned == \A s \in Side : Sys % Unit[s] = 0

VARIABLES
  status,       \* amm.status
  now,          \* Clock::unix_timestamp
  openTime,     \* amm.state_data.pool_open_time
  fees,         \* amm.fees
  vault,        \* balances of amm_coin_vault and amm_pc_vault
  needTakePnl,  \* amm.state_data.need_take_pnl_coin and _pc
  calcPnl,      \* target_orders.calc_pnl_x (pc) and calc_pnl_y (coin)
  lpAmount,     \* amm.lp_amount
  lpSupply,     \* supply of the lp mint
  wallet,       \* the users' coin and pc accounts
  lpOf,         \* the users' lp accounts
  pnlPaid       \* the protocol's coin and pc accounts

params == <<status, openTime, fees>>
ledger == <<vault, needTakePnl, calcPnl, lpAmount, lpSupply, wallet, lpOf, pnlPaid>>
vars == <<status, now, openTime, fees, vault, needTakePnl, calcPnl, lpAmount,
          lpSupply, wallet, lpOf, pnlPaid>>

-----------------------------------------------------------------------------
(* The statuses of this module. *)
LedgerStatus == ValidStatus \ OrderbookPermission

ASSUME StatusAssumption == StatusChoices \subseteq LedgerStatus

TypeOK ==
  /\ status \in LedgerStatus \cup {"Uninitialized"}
  /\ now \in Nat
  /\ openTime \in Nat
  /\ fees \in FeeSet
  /\ vault \in Amount
  /\ needTakePnl \in Amount
  /\ calcPnl \in Amount
  /\ lpAmount \in Nat
  /\ lpSupply \in Nat
  /\ wallet \in [Users -> Amount]
  /\ lpOf \in [Users -> Nat]
  /\ pnlPaid \in Amount

Init ==
  /\ status = "Uninitialized"
  /\ now = 0
  /\ openTime = 0
  /\ fees = DefaultFees
  /\ vault = Zero
  /\ needTakePnl = Zero
  /\ calcPnl = Zero
  /\ lpAmount = 0
  /\ lpSupply = 0
  /\ wallet = Wealth
  /\ lpOf = [u \in Users |-> 0]
  /\ pnlPaid = Zero

-----------------------------------------------------------------------------
(* Plausible mistakes in what follows, each of which breaks a property.    *)
MintWithoutLpAmount(u, n) ==
  /\ UNCHANGED lpAmount
  /\ lpSupply' = lpSupply + n
  /\ lpOf' = [lpOf EXCEPT ![u] = @ + n]
OpenedWithOrderbook ==
  /\ status \in SwapPermission
  /\ status = "WaitingTrade" => now >= openTime
  /\ status' = IF status = "WaitingTrade" THEN "Initialized" ELSE status

(* What the handlers share. *)

Live == status # "Uninitialized"

(* calc_total_without_take_pnl_no_orderbook; its subtractions are checked. *)
Total == Minus(vault, needTakePnl)

TotalDefined == AtMost(needTakePnl, vault)

(* x1 and y1. *)
Normalized == Normalize(Total, Unit, Sys)

(* calc_take_pnl, which fails as well when Total is not defined. *)
CalcTakePnl ==
  IF TotalDefined THEN TakeOutcomes(Total, calcPnl, fees.pnl, Unit, Sys) ELSE {}

(* The user u pays in to the vaults and out is paid to him. *)
Transfer(u, in, out) ==
  /\ wallet' = [wallet EXCEPT ![u] = Plus(Minus(@, in), out)]
  /\ vault' = Minus(Plus(vault, in), out)

Only(s, n) == [Zero EXCEPT ![s] = n]

(* token_mint_to and token_burn, with the change of amm.lp_amount. *)
MintLp(u, n) ==
  /\ lpAmount' = lpAmount + n
  /\ lpSupply' = lpSupply + n
  /\ lpOf' = [lpOf EXCEPT ![u] = @ + n]

BurnLp(u, n) ==
  /\ lpAmount' = lpAmount - n
  /\ lpSupply' = lpSupply - n
  /\ lpOf' = [lpOf EXCEPT ![u] = @ - n]

-----------------------------------------------------------------------------
(* Instructions of the pool's users. *)

(* process_initialize2.  The vaults may already hold tokens: they are      *)
(* associated accounts, to which anyone can send.                          *)
Initialize2(u, amount, open) ==
  /\ ~Live
  /\ AtMost(amount, wallet[u])
  /\ LET funded == Plus(vault, amount) IN
       /\ \A s \in Side : funded[s] # 0
       /\ \E liquidity \in Unit["coin"] .. funded["coin"] + funded["pc"] :
            /\ IsIntegerSqrt(liquidity, Product(funded))
            /\ lpAmount' = liquidity
            /\ lpSupply' = liquidity - Unit["coin"]
            /\ lpOf' = [lpOf EXCEPT ![u] = @ + (liquidity - Unit["coin"])]
       /\ calcPnl' = Normalize(funded, Unit, Sys)
  /\ Transfer(u, amount, Zero)
  /\ status' = IF open > now THEN "WaitingTrade" ELSE "SwapOnly"
  /\ openTime' = open
  /\ fees' = DefaultFees
  /\ needTakePnl' = Zero
  /\ UNCHANGED <<now, pnlPaid>>

(* process_deposit; base is the side that base_side names, max holds       *)
(* max_coin_amount and max_pc_amount, and an absent other_amount_min is 0.  *)
Deposit(u, base, max, otherMin) ==
  /\ status \in DepositPermission
  /\ \A s \in Side : max[s] # 0
  /\ lpAmount # 0
  /\ \E taken \in CalcTakePnl :
       LET total  == Minus(Total, taken.pnl)
           deduct == DepositDeduct(base, max[base], total)
           mint   == DepositMint(base, max[base], total, lpAmount)
       IN /\ total[base] # 0
          /\ AtMost(deduct, max)
          /\ deduct[Other(base)] >= otherMin
          /\ AtMost(deduct, wallet[u])
          /\ mint # 0 /\ (\A s \in Side : deduct[s] # 0)
          /\ Transfer(u, deduct, Zero)
          /\ MintLp(u, mint)
          /\ needTakePnl' = Plus(needTakePnl, taken.pnl)
          /\ calcPnl' = Minus(Plus(Normalized, Normalize(deduct, Unit, Sys)), taken.delta)
  /\ UNCHANGED <<params, now, pnlPaid>>

(* process_withdraw: WithdrawOnly skips calc_take_pnl; absent minimums     *)
(* (the instruction carries both or neither) are zero.                     *)
Withdraw(u, lp, min) ==
  /\ status \in WithdrawPermission
  /\ lp # 0 /\ lp <= lpOf[u]
  /\ lp <= lpSupply /\ lp < lpAmount
  /\ TotalDefined
  /\ \E taken \in IF status = "WithdrawOnly" THEN {[pnl |-> Zero, delta |-> Zero]}
                  ELSE CalcTakePnl :
       LET total == Minus(Total, taken.pnl)
           out   == WithdrawOut(lp, total, lpAmount)
           next  == Minus(Minus(Normalized, Normalize(out, Unit, Sys)), taken.delta)
       IN /\ \A s \in Side : out[s] # 0 /\ out[s] < vault[s]
          /\ AtMost(min, out)
          /\ \A s \in Side : next[s] >= 0
          /\ Transfer(u, Zero, out)
          /\ BurnLp(u, lp)
          /\ needTakePnl' = Plus(needTakePnl, taken.pnl)
          /\ calcPnl' = next
  /\ UNCHANGED <<params, now, pnlPaid>>

(* The swap instructions' test of the status: a pool waiting for its open  *)
(* time is opened by the first swap after it.                              *)
OpenForSwap ==
  /\ status \in SwapPermission
  /\ status = "WaitingTrade" => now >= openTime
  /\ status' = IF status = "WaitingTrade" THEN "SwapOnly" ELSE status

(* The exchange both swap instructions end in. *)
Exchange(u, src, in, out) ==
  /\ in # 0 /\ in <= wallet[u][src]
  /\ out # 0 /\ out < Total[Other(src)]
  /\ Transfer(u, Only(src, in), Only(Other(src), out))
  /\ UNCHANGED <<now, openTime, fees, needTakePnl, calcPnl, lpAmount, lpSupply, lpOf, pnlPaid>>

(* process_swap_base_in *)
SwapBaseIn(u, src, amountIn, minimumOut) ==
  /\ OpenForSwap
  /\ TotalDefined
  /\ LET out == QuoteBaseIn(amountIn, Total, src, fees.swap) IN
       /\ out >= minimumOut
       /\ Exchange(u, src, amountIn, out)

(* process_swap_base_out: the divisor total - amount_out of the quote is   *)
(* a checked subtraction and division.                                     *)
SwapBaseOut(u, src, maxIn, amountOut) ==
  /\ OpenForSwap
  /\ TotalDefined
  /\ amountOut < Total[Other(src)]
  /\ LET in == QuoteBaseOut(amountOut, Total, src, fees.swap) IN
       /\ in <= maxIn
       /\ Exchange(u, src, in, amountOut)

-----------------------------------------------------------------------------
(* Instructions of the protocol's owners. *)

(* process_withdrawpnl, in every status. *)
WithdrawPnl ==
  /\ Live
  /\ \E taken \in CalcTakePnl :
       LET owed == Plus(needTakePnl, taken.pnl) IN
         /\ AtMost(owed, vault)
         /\ vault' = Minus(vault, owed)
         /\ pnlPaid' = Plus(pnlPaid, owed)
         /\ needTakePnl' = Zero
         /\ calcPnl' = Minus(Normalized, taken.delta)
  /\ UNCHANGED <<params, now, lpAmount, lpSupply, wallet, lpOf>>

(* process_set_params.  Settling the empty open orders moves nothing. *)
SetStatus(value) ==
  /\ Live
  /\ status' = value
  /\ UNCHANGED <<now, openTime, fees, ledger>>

SetFees(value) ==
  /\ Live
  /\ fees' = value
  /\ UNCHANGED <<status, now, openTime, ledger>>

SetOpenTime(value) ==
  /\ Live
  /\ openTime' = value
  /\ UNCHANGED <<status, now, fees, ledger>>

-----------------------------------------------------------------------------
(* What happens around the program. *)

(* Anyone may send tokens to a vault ... *)
Donate(u, s) ==
  /\ wallet[u][s] # 0
  /\ Transfer(u, Only(s, 1), Zero)
  /\ UNCHANGED <<params, now, needTakePnl, calcPnl, lpAmount, lpSupply, lpOf, pnlPaid>>

(* ... and burn his own lp tokens with the token program, which checks    *)
(* both subtractions.                                                      *)
BurnOwnLp(u) ==
  /\ lpOf[u] # 0 /\ lpSupply # 0
  /\ lpOf' = [lpOf EXCEPT ![u] = @ - 1]
  /\ lpSupply' = lpSupply - 1
  /\ UNCHANGED <<params, now, vault, needTakePnl, calcPnl, lpAmount, wallet, pnlPaid>>

Tick ==
  /\ now < MaxTime
  /\ now' = now + 1
  /\ UNCHANGED <<params, ledger>>

-----------------------------------------------------------------------------
(* Requests larger than the sender's balance are refused, so that every    *)
(* amount worth sending is below it.                                       *)

Amounts(coin, pc) == [s \in Side |-> IF s = "coin" THEN coin ELSE pc]

UserStep(u) ==
  \/ \E coin \in 0 .. wallet[u]["coin"], pc \in 0 .. wallet[u]["pc"], open \in 0 .. MaxTime :
       Initialize2(u, Amounts(coin, pc), open)
  \/ \E base \in Side : \E amount \in 1 .. wallet[u][base], otherMax, otherMin \in Limits :
       Deposit(u, base, [s \in Side |-> IF s = base THEN amount ELSE otherMax], otherMin)
  \/ \E lp \in 1 .. lpOf[u], coin, pc \in Limits : Withdraw(u, lp, Amounts(coin, pc))
  \/ \E src \in Side : \E amount \in 1 .. wallet[u][src], minimum \in Limits :
       SwapBaseIn(u, src, amount, minimum)
  \/ \E src \in Side : \E max \in Limits, amount \in 1 .. vault[Other(src)] :
       SwapBaseOut(u, src, max, amount)

OwnerStep ==
  \/ WithdrawPnl
  \/ \E value \in StatusChoices : SetStatus(value)
  \/ \E value \in FeeChoices : SetFees(value)
  \/ \E value \in 0 .. MaxTime : SetOpenTime(value)

Outside ==
  \/ \E u \in Users, s \in Side : Donate(u, s)
  \/ \E u \in Users : BurnOwnLp(u)
  \/ Tick

Next == (\E u \in Users : UserStep(u)) \/ OwnerStep \/ Outside

Spec == Init /\ [][Next]_vars

-----------------------------------------------------------------------------
(* Safety. *)

(* The liquidity that amm.lp_amount divides by exceeds what holders can    *)
(* redeem by the amount that process_initialize2 withheld: no sequence of  *)
(* deposits, withdrawals and burns reaches the NotAllowZeroLP exits.       *)
LockedLiquidity == Live => lpAmount >= lpSupply + Unit["coin"]

(* The vaults hold strictly more than the profit set aside for the         *)
(* protocol: reserves never reach zero (every quote divides by them), and  *)
(* the CheckedSubOverflow and TakePnlError exits are unreachable.          *)
ReservesStayPositive == Live => \A s \in Side : needTakePnl[s] < vault[s]

(* The reserves cover the baseline: their product, as calc_take_pnl        *)
(* normalizes them, is never below the baseline's, so that x2 is at most   *)
(* x1.  Every instruction that stores a baseline has to store no more than *)
(* the reserves it leaves, and every other one has to keep their product.  *)
BaselineCovered == Live => Product(calcPnl) <= Product(Normalized)

(* calc_take_pnl, which every deposit, withdrawal and withdrawpnl starts   *)
(* with, never fails: neither with CalcPnlError nor by a division by zero  *)
(* or by x1 - x2 below zero.  Otherwise the pool's liquidity is frozen.    *)
CalcTakePnlNeverFails == Live => CalcTakePnl # {}

(* What calc_take_pnl's unwrapped x1.checked_sub(x2) takes for granted     *)
(* once its test of the two products has passed: the root is at most x1.   *)
RootWithinReserves ==
  Live /\ Product(Total) >= Product(Restore(calcPnl, Unit, Sys)) =>
    \E x2 \in 0 .. Normalized["pc"] : IsIntegerSqrt(x2, CalcXPower(calcPnl, Normalized))

(* What calc_take_pnl may take from the baseline beyond what it takes from *)
(* the reserves: both are truncated to whole native units on one way and   *)
(* not on the other, and each truncation loses less than one.  Nothing     *)
(* when a native unit is a normalized one.                                 *)
Dust == [s \in Side |-> 2 * (Sys \div Unit[s]) - 2]

(* Whatever a holder redeems, process_withdraw meets none of its own error *)
(* exits: the payment is below the vaults, and both checked subtractions   *)
(* from x1 and y1 are natural unless he leaves no more than dust behind.   *)
HolderCanExit ==
  \A u \in Users : \A lp \in 1 .. lpOf[u] :
    /\ lp <= lpSupply /\ lp < lpAmount
    /\ \A taken \in CalcTakePnl :
         LET total == Minus(Total, taken.pnl)
             out   == WithdrawOut(lp, total, lpAmount)
             left  == Normalize(Minus(total, out), Unit, Sys)
         IN \A s \in Side :
              /\ out[s] < vault[s]
              /\ left[s] >= Dust[s] =>
                   Normalized[s] - NormalizeDecimal(out[s], Unit[s], Sys) - taken.delta[s] >= 0

(* The geometric value of the baseline behind each lp token never falls:   *)
(* a deposit does not dilute it, the protocol's profit is taken out of     *)
(* growth only, and a withdrawal takes at most dust beyond its part.       *)
BaselinePerShareNeverFalls ==
  [][Live =>
       LET kept == IF lpAmount' < lpAmount THEN Plus(calcPnl', Dust) ELSE calcPnl' IN
         Product(kept) * lpAmount * lpAmount >= Product(calcPnl) * lpAmount' * lpAmount']_vars
=============================================================================
