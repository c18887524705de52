# Verification of raydium-amm

This directory holds a TLA+ model of the on-chain program in `src/program`: a
constant-product pool whose reserves may also be offered as limit orders on a
central limit order book (Serum / OpenBook).  TLC checks small instances of the
models and TLAPS proves the main invariants for every instance.

Line numbers refer to `src/program/src/processor.rs` unless a file is named.

## 1. Inventory

### What the program is

One Solana program, eleven thousand lines, no threads.  Every instruction is
atomic: an error or a panic (the crate is built with `overflow-checks = true`)
undoes all of it.  What makes it hard is not concurrency inside an instruction
but the *order of instructions*: swappers, liquidity providers, keepers that turn
the crank, the administrator and the market's own event queue interleave freely,
and each relies on sums that all the others maintain with truncating integer
arithmetic.

| Component | State | Operations | Talks to | What must hold |
|---|---|---|---|---|
| **Pool arithmetic** (`math.rs`, quote formulas of `processor.rs`) | none | normalization, quotes, exchange of liquidity, ceiling division, profit | called by every handler | no swap lowers the product; rounding favours the pool; the profit split leaves the baseline covered |
| **Pool ledger** (initialize2 834, deposit 1225, withdrawpnl 1596, withdraw 1850, swaps 2210 and 2620) | vault balances, `need_take_pnl_*`, `calc_pnl_x/y`, `lp_amount`, lp supply, status, open time, fees | one instruction each | token program; order book when the status permits | solvency, no frozen liquidity, no dilution, holders can always leave |
| **Order book funds** (`calc_exact_vault_in_serum`, `math.rs:244`; cancel and settle calls in the handlers) | open-orders account, orders on the book, events not yet consumed | cancel, settle, place through the market program | market program | the pool counts exactly the funds it owns, wherever they are |
| **Crank** (`process_monitor_step` 5424 and the `do_*` functions 4259-5140) | `amm.state`, `reset_flag`, target orders, cursors, `placed_x/y` | idle, plan, place, purge, cancel, cancel all | ledger (reserves, profit), market | no order from a stale plan, orders funded, progress after every reset |
| **Administration** (set_params 5142, admin_cancel_orders 5760, migrate_to_openbook 3034, withdraw_srm 3295) | all parameters of the pool | one instruction each | ledger, crank (sets `reset_flag`), market | a change never loses funds or freezes the pool |
| **Config accounts** (create_config 5914, update_config 5976) | pnl owner, creation fee | two instructions | initialize2, withdrawpnl | |
| **Simulation** (3373-4258) | none | read-only instructions | repeats the handlers' formulas; keepers ask it whether the crank is due | agrees with the handlers, advises the calls the crank needs |
| Encoding (`instruction.rs`), account checks, cross-program calls (`invokers.rs`), layouts (`state.rs`), logs, errors | none of their own | | | |

Hard behaviours: interleaved instructions of different senders; rounding in
three units at once (native amounts, normalized amounts in units of
1/`sys_decimal_value`, lp tokens); values read before a cross-program call and
used after it; orders filled in parts between two instructions; fills that wait in
the event queue; a crank whose work is spread
over many instructions.  Nothing is lost or duplicated in transit (a transaction
runs once or not at all), so there is no message loss to model; a *retry* is just
another instruction.  The complete list, each entry at its line, is `hazards` in
`PROJECT.json`.


## 2. Plan

Modules, in the order they were written; each is built to be checked and to be
proved about (constants with named assumptions, one action per operation, no
`RECURSIVE`).

| Step | Module | Models | Status |
|---|---|---|---|
| 1 | `AmmMath`, `AmmStatus` | the arithmetic that every handler shares; what a status permits | done |
| 2 | `AmmPool` | the ledger while the market is out of use; extends 1 | done |
| 3 | `PoolPromise` | what a pool promises its holders, in the abstract; `MCPoolPromise` maps the ledger to it | done, checked and proved |
| 4 | `AmmMathLemmas`, `AmmQuoteProofs`, `AmmPoolProofs`, `AmmPoolPnlProofs` | proofs about 1 and 2 | done |
| 5 | `AmmGrid`, `AmmGridProofs` | the order grid, one plan per behaviour | done |
| 6 | `Market`, `MarketLemmas`, `AmmCrank`, `AmmCrankProofs` | the market as the program sees it; the crank, the administrator, swaps and traders around it; its safety proved | done |
| 7 | `AmmBook`, `AmmBookProofs` | the order-book branches of every ledger instruction, with vaults, open orders and orders at prices as separate state; composes the ledger's arithmetic with `Market`; its safety proved | done |
| 8 | simulation and administration | price impact (`AmmMath`), `simulate_run_crank` (`AmmCrank`), the simulated reserves, UpdateOpenOrder and migrate_to_openbook (`AmmBook`) | done |

What the handlers share is written once: `AmmPool` and `AmmBook` use the quotes,
`TakeOutcomes` (calc_take_pnl) and the permissions of `AmmMath` and `AmmStatus`;
`AmmCrank` and `AmmBook` use the standings of `Market`.

Every safety property that a passing run checks has a theorem.  That of `FloorNeverFalls`
has a hypothesis on the behaviour; the others hold of every behaviour, some of them under
named assumptions on the decimals and the fees (section 6).

## 3. Modules and code

**`AmmMath`** - `math.rs` and the quote formulas of `processor.rs`.  The two tokens
are the members of `Side`; an amount of each is a function on `Side`.  `x` in the
code is the pc side, `y` the coin side.  `CeilDiv` is `checked_ceil_div` with its
odd rounding of quotients below one.

**`AmmPool`** - one action per instruction.  `vault`, `needTakePnl`, `calcPnl`,
`lpAmount`, `lpSupply`, `status`, `openTime` and `fees` are the fields and balances
of the same names.  A handler is a single action: its error returns and the
failures of its checked arithmetic are guards.  `CalcTakePnl` is the set of results
of `calc_take_pnl`, empty when the call fails.  `Donate` and `BurnOwnLp` are the two
things a holder can do to the pool's accounts with the token program alone.

**`PoolPromise`** - the abstract pool: first deposit (`Open`), trades and gifts (`Trade`),
deposits and withdrawals (`Join`, `Leave`), payment of the protocol (`Collect`).
`MCPoolPromise` maps `reserve` to `x1` and `y1` (the vaults less the profit owed, in
normalized units), `owed` to the profit owed in the same units, `shares` to `lp_amount` and
`mark` to the baseline `calc_pnl_x/y`; every step of the ledger is a step of the promise or a
stutter.  Those who leave may cost those who stay `Dust`, which `AmmPool` defines.

**`AmmGrid`** - the loop of `do_plan_orderbook`.  A behaviour is one plan; a step is
one iteration, with the prices and sizes of both sides.  `bids`, `asks`, `buy` and
`sell` are `target.buy_orders`, `sell_orders`, `plan_*_buy` and `plan_*_sell`.
`BidLock` and `AskLock` are what `do_place_orders` then makes of an order.

**`Market`** - the market program as far as the handlers rely on it; its source is
not in this repository, so it is written from the calls in `invokers.rs` and from
the account fields the handlers read.  `free`, `total`, `orders` and `queue` are the
open-orders account, the slab entries the pool owns and the events that concern it.
A cancelled order frees its tokens at once and its slot only when its event is
consumed; a trade against a resting order reaches the open-orders account only
then.

**`AmmCrank`** - `process_monitor_step` and the steps it dispatches to; `state`,
`resetFlag`, `orderNum`, `placeCur`, `target`, `placed` and `valid` are the fields.
`MonitorStep` is one call of a keeper.  `Round` is the loop of `do_place_orders`, level by
level, with the reload after each; its `outcome` tells an early return from a
failure, which undoes the call.  Around it: `Swap` (swap_base_in with its order-book
branch), `SetParams`, `AdminCancelOrders`, `TakeOrder` (a trader), `ConsumeEvents`.
`RunCrank` is the answer of `simulate_run_crank`, which the fairness of the keeper and
`AdviceKeepsBookCurrent` are about.

**`AmmBook`** - the ledger of a pool whose status has the order book.  `vault`,
`needTakePnl`, `calcPnl`, `lpAmount`, `sys` and `status` are the fields; `market` is a standing
of `Market`; `stranded` is what the pool owns in an open-orders account that
UpdateOpenOrder gave up, a ghost that no handler reads.  Each instruction is one
action with its order-book branch: `Deposit` leaves the book alone, `Withdraw` clears it
and compares with the vaults as they were before (`PayableWhen`), swaps cancel the side
they pay out (`CancelledFor`) and settle when the vault is short (`NeedsSettling`), `SetStatus`
and `Migrate` are refused while anything is left on the market (`AllIsBack`).  A round of
the crank is `TakeProfit`, `PlaceOrder` or `CancelAll`; `Planned` is the size rule of
`get_max_buy_size_at_price` and `get_max_sell_size_at_price`.  Traders take orders in parts.

The operators named under "Plausible mistakes" in the modules are not part of the
models: each is a wrong version of one definition, and `mutants` in `PROJECT.json`
records which property notices it.

## 4. Runs

| Run | Shows | Bounds, and why they are enough |
|---|---|---|
| `quotes` | no swap lowers the product, the two swap instructions agree, the simulations answer, a round trip never profits, the protocol's share comes out of growth | all reserves to 12, amounts to 14, lp to 10, baselines to 24, four fees, three shares, a coin of one more decimal: quotients above, at and below one, exact and inexact |
| `ledger` | solvency, covered baseline, `calc_take_pnl` never fails and exits do not but for dust, shares never diluted, and `PoolPromise` is implemented | one user with 9 coin and 8 pc, the administrator, a clock of two instants, units of 2 and 1 for decimals that differ: several trades until a profit is worth a native unit, and its payment; one pc is two normalized units, so that both the exact side and the one with dust occur |
| `tick` | *violation*: section 7 | a tick of 13 against units of 10 |
| `grid` | plans complete, are funded, never cross, keep the product | all reserves to 80, four levels (the first four distances of `fibonacci`, the last of them by its rule), a last order moved by 3/2, lots of 2 |
| `crank` | exact totals, slots, nothing left behind, plans placed within bounds, bids funded; resets are served, the book settles, matches the reserves, and does so for a keeper who follows the simulation (section 5 says when) | two levels, calls of one or two levels, so that the reload between two levels of one call and a plan placed over two calls both occur; 3 slots for the code's 100; two moves of swapper, administrator or trader at any point; 4 coin and 3 pc, one pc of them owed; levels of an order a side or of one order |
| `livelock` | *violation*: section 7 | two levels in one call, 4 coin and 2 pc, nobody else acts, one plan: the same reserves give the same plan in the code |
| `reload` | *violation*: section 7 | as `crank`, with coin and pc owed |
| `book` | swaps paid, the book can always be cleared, simulations see the same pool, no sequence lowers the worst case behind a lp token, an open-orders account given up costs no more than the trades pending in it | five moves: an order, a partial fill, an instruction, the rest of the fill and one instruction more; reserves of 6 and 12, prices of 1, 3 and 5 around theirs, orders of 1 and 3 coin, events consumed at any time, three statuses: with the book, before its switch time, without it |
| `exit`, `settle`, `frozen`, `migrate` | *violations*: section 7 | four moves each |

The slot limit is scaled with the number of levels: in the code 100 used slots stop
the crank and a call adds at most 20 (ten levels, two sides), in the runs 3 and 4.
`MaxMoves` bounds everyone but the keeper and the consumer; in the crank two moves
suffice for a trade or a parameter to fall between any two calls and a second one
between any two that follow.  `CHECK_DEADLOCK FALSE` is set for the crank and the
book because everything stops once the moves are used up, and for the grid because
a complete plan ends.

That both reserves stay positive is a property of `AmmPool` and not of `AmmBook`: a profit set
aside between two partial fills of an order priced far from the pool leaves the rest of the
fill to take what is left, and longer runs than these find it.

`FloorNeverFalls` is the deepest property of `AmmBook`.  The product of the reserves is no
invariant while orders stand: a fill raises it and then lowers it again.  What never
falls per lp token is its value in the worst case over the fills still possible
(`Worst`), except when profit is set aside or an open-orders account given up, which
the property says.  The `frozen` run shows what follows from the program measuring the
baseline by the product of the moment instead.

## 5. Fairness

The ledger, the grid and the book have none and need none.  The crank's progress
assumes two things about the world and nothing about the program: a keeper calls
`MonitorStep` at least when `simulate_run_crank` answers that a call is due, and somebody
goes on consuming events.  Both are weak fairness: anyone may send these instructions
at any time, nothing takes the possibility away for ever but the program itself, and
asking the simulation first is what it is for.  `KeeperCalls` writes weak fairness of
`MonitorStep` with its enabling condition `CrankCanMove` (TLC evaluates that faster than
`ENABLED`; the two agree in every reachable state of the `crank` run with one move) and
`RunCrank`.  A keeper who calls more often than advised is a behaviour of the model too, which is
why `BookMatchesReserves` is stated for behaviours in which the crank comes to rest, and
`AdviceKeepsBookCurrent` for all but those named below, with the price in range: out of it the simulation never
advises the call that would cancel the orders.  No fairness is asked of users, traders
or the administrator.

The crank does not settle for every keeper.  After each level of a call line 4948 takes the
pc vault's balance for the coin's, so that from the second level on an ask above that
balance is judged short (4862): all orders are cancelled, and if the reserves have not
changed the next calls plan and place the same orders and give up at the same ask.
Nothing has to be owed for it, nobody else has to act; it takes a pc vault whose balance is
below an ask's coin in native units.  The `livelock` run is this.  A keeper who asks for
one level a call escapes, because a call starts from the true balance (4739).  So
`BookSettles` and `AdviceKeepsBookCurrent` say what remains: a crank that never rests is one
that gives up an ask it could have placed again and again (`GivesUpFundedAsk`), or one that
finds too many slots used again and again - with a consumer as slow as weak fairness
allows, what one plan cancels may leave the next none.  `KeepsStarting` is these two, and
in the `crank` run neither can be left out.

Two more things are assumed of the runs.  Where a call of several levels fails whole, because
the market refuses an order that line 4948 let pass, the keeper tries one level: `CrankCanMove`
asks for some limit that succeeds.  And no coin is owed in `crank`: with
`need_take_pnl_coin` above the pc vault's balance the reload panics (4959) in every placing call
until the reserves change.  One pc is owed, which is subtracted from the right balance.

`BookMatchesReserves` speaks of a crank that has come to rest for good.  It rests on orders
placed for the present reserves and on no older ones, whatever was given up half way, but for what
`do_purge_orders` does: it keeps as many orders as were placed, counted from the best price,
and may keep an old one in the place of a new one (4999).  `LastPurgeCountsOld` is that
case, in the last purge before the rest; it does occur in the run.  A pool that has lost all of
one token is left out (`NotEmpty`): every step refuses it, and its last orders stay until a
reset, which `ResetServed` says is served even then.

## 6. Proofs

All proofs are checked by TLAPS for every value of the constants that the named
assumptions admit.

*`AmmQuoteProofs`.*  Proves of `MCAmmMath` what the `quotes` run checks on small inputs.  The
bounds of that module are constants, any naturals by `ProbeAssumption`, and its
behaviours never change their probe (`ProbeStays`), so that an invariant of it is a
fact about all reserves, amounts and fees below one.  The argument is about rounding:
`CeilDivTight` and `CeilDivAbove` put `checked_ceil_div` within one unit of the exact quotient
even where it rounds down, and the divisions truncate in the pool's favour
(`DivAtMost`, `DivAtLeast`).  Theorems: `SwapInNeverLowersProduct`,
`SwapOutNeverLowersProduct`, `SwapInServesSwapOut`, `SwapOutServesSwapIn`,
`DepositThenWithdrawNeverProfits`, `SimulationServesSwaps`; where units are whole (`WholeUnits`)
`BaselineWithinReserves`; and where besides the shares of a profit are below one half
(`MinorShares`) `ShareComesOutOfProfit`.  The root that `calc_take_pnl` measures the
profit from is truncated twice; what a share below one half leaves of either side's
growth exceeds what the truncations lost (`CutKeepsProduct`).

*`AmmPoolProofs`.*  The inductive invariant is `LedgerInv == TypeOK /\ LockedLiquidity /\
ReservesStayPositive`.  The parts need each other: a withdrawal keeps the vaults
positive only because the lp burnt is below `lp_amount` (locked liquidity), and
subtractions stay natural only because the vaults exceed the profit owed.  One lemma
per instruction.  Theorems: `TypeCorrect`, `LiquidityStaysLocked`, `ReservesNeverEmpty`.

*`AmmPoolPnlProofs`.*  For an *aligned* pool (`sys_decimal_value` a multiple of both
units; always so unless the price tick is the finer one) normalization multiplies
by a whole number and restoring undoes it, so that the native test and the
normalized subtraction of `calc_take_pnl` agree.  `BaselineCovered` is then inductive
relative to `LedgerInv`, and implies that the integer root exists and is at most
`x1`.  Theorems: `BaselineStaysCovered`, `LiquidityNeverFreezes`.  The `tick` run shows that the
assumption is needed.

The rest of the module is about the holders.  `FairlyTaken` says what `calc_take_pnl` takes
(it covers what it pays, exceeds it by dust at most, and leaves the baseline covered),
`Resized` what `process_deposit` and `process_withdraw` then do to the reserves, the shares and
the baseline, side by side and cross-multiplied; `ShareForShare` turns the two sides into
products.  `HoldersCanExit` needs that the holders' lp tokens add up to the supply
(`AllHeld`, inductive together with `Unborn`) besides `LockedLiquidity`.  Theorems:
`HoldersCanExit` (aligned pools), `SharesAreNeverDiluted` and `PoolKeepsPromise` (aligned pools whose
shares of a profit are below one half, `MinorShares`, over the fees set at the start and
all that the administrator may choose; the default is 12 in 100).  `PoolKeepsPromise` is
the refinement: initial states map to initial states (`InitKeepsPromise`) and every
instruction to its action of `PoolPromise` or to a stutter (`StepKeepsPromise`).

These proofs corrected the model's properties.  Exits without an exception, and a baseline
per share that never falls at all, hold on the instance of the `ledger` run, whose native
units are one and two normalized ones, and fail where a native unit is many: `calc_take_pnl` truncates the profit
to native units on one way and the baseline's loss only at the end, and the two may
differ by nearly two native units.  With coin of 0 and pc of 3 decimals, 18 coin
in the reserves, 31 lp of which one holder has 30, a share of 12/100 and a root of 1001,
the coin paid is 1 and the normalized loss 2039: redeeming 30 makes the unwrapped
subtraction panic, redeeming 29 does not.  `Dust` is that difference at most
(`ShareSlack`, `DeltaNearPnl`).

*`AmmGridProofs`.*  `GridInv == TypeOK /\ Base /\ AroundPrice /\ BidsKeepProduct`: the reserves a
plan is made from are positive, every bid so far is at or below the pool's price and
every ask above it, and the bids stay on the pool's curve.  Theorems: `GridTypeOK`,
`GridBidsKeepProduct`, `GridNeverCrosses`, `GridPlanNeverFails`.  `Funded` and `AsksKeepProduct` are sums
and products in native units over plans in normalized ones: what the plan so far has
locked plus what its planned reserves still hold is at most what it started from,
order by order.  `GridFunded` needs that a native unit of pc is a whole number of
normalized ones (`PcAligned`), `GridAsksKeepProduct` also that the tick, computed by a truncating division, lost nothing
to it (`WholeTick`).

*`MarketLemmas`*.  Sums over orders and events are `Weight`s of a function on records; the
induction over sequences that they need is done inside the logic, by least
counterexample over sets of lengths (`LeastNatural`, `NatSetInduction`, `SequenceInduction` in
`AmmMathLemmas`).  The invariant of a standing is `Sound`: what the open-orders account says it
has is what is free, plus what the orders lock, plus what unconsumed trades have taken
out of them.  One lemma per call of the market.

*`AmmBookProofs`*.  `BookInv == TypeOK /\ market \in Sound /\ OffTheBook`.  Natural vaults need
`Sound` (a settlement pays what is free), and `OffTheBook` - no status without the order
book leaves anything on the market - is what makes the two ways of counting the
reserves agree.  Theorems: `TypeCorrect`, `SimulationIsFaithful`, `BookCanBeCleared`,
`OnlyTradesAreGivenUp`, `SwapsFindTheirTokens`, `FloorHolds`.

`FloorHolds` is `FloorNeverFalls` for every wealth, fee, price and size.  `Worst` is the
least product over four `Corners`, none, one or both of the two sides filled, and
`FloorInv` adds to `BookInv` that a side holds one order at most, a bid's lock a whole number of
its price (`Single`).  There is one lemma per instruction, each showing that every corner after it lies
above a corner before it (`NoWorse`): a new order's corner does because its size was
planned on the pool's curve (`SwapKeeps`); a partial fill moves along the straight
line between two corners, on which a product is nowhere less than at both ends; a swap
cancels the side it takes from, so that only corners without it remain; a deposit adds
to every corner, in proportion to the lp minted at least; a withdrawal clears the book
first.  All of this needs that no corner is negative: the hypothesis `[]OrdersCovered`,
that the reserves can pay for every order standing.  It is no invariant of the program.
A profit is set aside out of the reserves whatever the orders lock, and nothing
cancels them; `DebtOffTheBook` shows that it does hold as long as the profit owed does
not exceed what lies in the vaults or can be settled into them, in particular while none is owed.
It is true of every state of the `book` run.

*`AmmCrankProofs`*.  `CrankInv == TypeOK /\ market \in Standings /\ OffTheBook /\ SlotsBounded /\
PlacesWithinPlan /\ PlanFits`.  `PlanFits` bounds a saved plan by the `order_num` in force when
it is used; `PlacesWithinPlan` follows only with it.  The loop of `do_place_orders` has its own
invariant, level by level (`RoundFacts`): slots grow by two a level at most, and the pc
counted as available is what the vault and the market have free, less what is owed
(`PcCounted`).  `Standings` are the sound standings whose trades all brought the pool
something (`Gainful`).  Theorems:
`TypeCorrect`, `TotalsAreExact`, `SlotsSuffice`, `MarketIsLeftEmpty`, `PlacingFollowsPlan`, `BidsFindFunds`.

*`AmmMathLemmas`* holds the facts about quotes, rounding, the profit split and sums
that these rest on; among them that a swap quote never lowers the product.

Only model-checked is what TLAPS cannot do: the liveness of the crank
under fairness (`ResetServed`, `BookSettles`, `BookMatchesReserves`, `AdviceKeepsBookCurrent`) and
`ENABLED`.  The violations of section 7 are TLC's.

## 7. Where the code disagrees with itself

1. **Tick-sized `sys_decimal_value`** (376, run `tick`).  `calc_take_pnl` tests native products and
   then subtracts normalized ones.  When `sys_decimal_value` is the price tick and no
   multiple of 10^decimals, truncation lets the test pass while `x1 - x2` is negative:
   deposits, withdrawals and pnl payments panic until the product grows.
2. **Coin reload** (4948, runs `reload` and `livelock`).  Both balances are reloaded from the pc
   vault, so that from the second level of a call on asks are checked against the wrong
   amount.  Too high, and the market refuses an ask that passed the check, which fails the
   call (`reload`).  Too low, and the orders are cancelled as unfunded (4863) although the coin is
   there, and planned and placed and cancelled again for ever (`livelock`).
3. **Withdrawals and settled funds** (2147, run `exit`).  `process_withdraw` settles the orders
   and then compares the payment with the vaults it read before: a holder of a large
   part of the pool is refused while orders stand.
4. **swap_base_out towards coin** (2979, run `settle`).  The asks account is passed where the
   market's coin vault belongs, so that the settlement is refused and the swap with it.
5. **Baseline between two fills** (440, run `frozen`).  A deposit that falls between two
   partial fills of an order stores a product that the rest of the fill takes back;
   until swaps raise it again, deposits, withdrawals and pnl payments fail.  In a pool
   without orders this cannot happen (`LiquidityNeverFreezes`).
6. **Profit owed at a migration** (3261, run `migrate`).  `amm.initialize` clears it unpaid.  It
   also resets fees and order parameters, which are constants of `AmmBook`.

Two comments that the code does not keep, without a run: the one of
`checked_ceil_div` says that a divisor above the dividend fails (`math.rs:586`), the code
rounds to 0 or 1, as `CeilDiv` does; the one on the last bid (4492) speaks of falling back
to the tick if the last price is valid, the code looks two orders back, panics when
there are only two (`PlanFails`), and falls back to the grid.

## 8. Abstractions and what is left out

- The ledger's amounts are unbounded naturals: the code computes in 128 and 256 bits
  and converts to 64 with a check, and no token supply exceeds 64 bits.
- Statistics of `state_data` that no instruction reads, account keys and signatures,
  compute limits and the market's fees and referrals are left out.
- In `AmmCrank` an order is what it locks and a level one of `LevelLocks`; prices and
  sizes are `AmmGrid`'s, and the plans of two rounds may differ at the same reserves.  A new
  order never meets an older order of the pool, prices move by less than a grid
  step between two plans, at most one new order per call crosses the market and
  then it is taken whole.  The profit owed is constant, as with a pnl fraction of
  zero; `AmmPool` and `AmmBook` model its growth.  Swaps are swap_base_in.
- In `AmmBook` a round of the crank places one order a side and each order trades whole
  coins.  The users' balances and limits, gifts, burnt lp tokens and time are
  `AmmPool`'s: whoever asks for an exchange can pay for it, and a status that waits for
  its time may find it has come.
- `CancelOrderState` is unreachable: `process_set_params` overwrites the state it was
  given (5415).
- `ShareLeavesBaseline` is stated for shares below one half: with larger ones the
  truncation of both sides can cost the baseline its last unit.
- A holder who leaves no more than `Dust` of a token behind may be refused (2186), and
  takes up to as much from the baseline of those who stay: `HolderCanExit`,
  `BaselinePerShareNeverFalls` and `PoolPromise` say so.  It is less than two native units.
- `SimulationAnswers` is stated for pools whose whole price is not zero and, for the size
  of the loss, for sales of coin: the simulations divide by a price in whole native
  units, which is zero whenever a pc unit is worth more than a coin unit.
- Not modelled: encoding, layouts, account validation, logs (pure reads or formats);
  withdraw_srm (one transfer of a token that is not the pool's); the config accounts
  (two fields that no property relates to anything); the parameters that only
  shape the grid, which `AmmGrid` has as constants.  Hazards without a property are
  listed with the reason in `PROJECT.json`.
