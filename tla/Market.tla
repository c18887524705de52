-------------------------------- MODULE Market --------------------------------
(***************************************************************************)
(* The pool's standing on the order book market (Serum, OpenBook), as far  *)
(* as src/program/src uses it.  The market is a program of its own: what   *)
(* follows is the behaviour the calls of invokers.rs and the accounts      *)
(* that processor.rs and math.rs read rely on.                             *)
(*                                                                         *)
(* A standing is a record                                                  *)
(*   free    native_coin_free and native_pc_free of the open orders account *)
(*   total   native_coin_total and native_pc_total, locked amounts included *)
(*   orders  the pool's orders by the token they lock, best price first:   *)
(*           asks lock coin, bids lock pc                                  *)
(*   queue   the events that concern the pool and nobody has consumed yet  *)
(*                                                                         *)
(* A cancelled order returns its tokens to free at once, but it occupies   *)
(* its slot of the open orders account until its event is consumed.  The   *)
(* open orders account learns of a trade against a resting order only when *)
(* the event of the trade is consumed.                                     *)
(***************************************************************************)
EXTENDS AmmMath, SequencesExt

(* An order: the amount of its token that is still locked, the level of    *)
(* the grid that fixed its price, and whether its client order id is one   *)
(* of target.replace_buy_client_id and replace_sell_client_id.             *)
Order == [lock : Nat \ {0}, level : Nat \ {0}, listed : BOOLEAN]

(* An event: maker and frees tell a trade against a resting order and an   *)
(* event that frees a slot.  side is the token paid.                       *)
Event == [maker : BOOLEAN, side : Side, paid : Nat, got : Nat, frees : BOOLEAN]

Standing == [free : Amount, total : Amount, orders : [Side -> Seq(Order)], queue : Seq(Event)]

NoOrders == [s \in Side |-> <<>>]

NoStanding == [free |-> Zero, total |-> Zero, orders |-> NoOrders, queue |-> <<>>]

OutEvent == [maker |-> FALSE, side |-> "coin", paid |-> 0, got |-> 0, frees |-> TRUE]

Locked(orders) == SumBy(LAMBDA o : o.lock, orders)

(* free_slot_bits.count_zeros() of the open orders account. *)
SlotsUsed(m) ==
  Len(m.orders["coin"]) + Len(m.orders["pc"]) + SumBy(LAMBDA e : IF e.frees THEN 1 ELSE 0, m.queue)

(* Plausible mistakes, each of which breaks a property.                    *)
FlowOfTakersToo(e, s) == IF s = e.side THEN -e.paid ELSE e.got

(* calc_exact_vault_in_serum: the pool's tokens on the market, with the    *)
(* trades that the open orders account does not know of yet.               *)
Flow(e, s) ==
  CASE ~e.maker -> 0
    [] e.maker /\ s = e.side -> -e.paid
    [] e.maker /\ s # e.side -> e.got

CalcExact(m) == [s \in Side |-> m.total[s] + SumBy(LAMBDA e : Flow(e, s), m.queue)]

-----------------------------------------------------------------------------
(* invoke_dex_cancel_orders_by_client_order_ids. *)

CancelAfter(m, s, n) ==
  LET kept == Min({n, Len(m.orders[s])})
      gone == SubSeq(m.orders[s], kept + 1, Len(m.orders[s]))
  IN
  [m EXCEPT !.orders[s] = SubSeq(@, 1, kept),
            !.free[s] = @ + Locked(gone),
            !.queue = @ \o [i \in 1 .. Len(gone) |-> OutEvent]]

CancelAt(m, s, i) ==
  [m EXCEPT !.orders[s] = RemoveAt(@, i),
            !.free[s] = @ + m.orders[s][i].lock,
            !.queue = Append(@, OutEvent)]

CancelBoth(m) == CancelAfter(CancelAfter(m, "coin", 0), "pc", 0)

(* invoke_dex_settle_funds: what is left on the market; free goes to the   *)
(* vaults.                                                                 *)
Settle(m) == [m EXCEPT !.total = Minus(@, m.free), !.free = Zero]

-----------------------------------------------------------------------------
(* invoke_dex_new_order_v3.  The market takes what the order locks from    *)
(* free, and the rest from the vault that the caller passes as payer.      *)

FromVault(m, s, lock) == IF lock > m.free[s] THEN lock - m.free[s] ELSE 0

Funded(m, s, lock) ==
  LET paid == FromVault(m, s, lock) IN
  [m EXCEPT !.free[s] = @ + paid - lock, !.total[s] = @ + paid]

(* The order rests on the book, behind the orders of better levels.  Of    *)
(* two orders of one level the newer is the better one when the price has  *)
(* moved towards it.                                                       *)
Rest(m, s, order, towards) ==
  LET ahead == {i \in DOMAIN m.orders[s] :
                  LET level == m.orders[s][i].level
                  IN level < order.level \/ (level = order.level /\ ~towards)}
  IN [m EXCEPT !.orders[s] = InsertAt(@, Cardinality(ahead) + 1, order)]

(* What a trade makes of the totals: paid of token s for got of the other. *)
Traded(total, s, paid, got) ==
  [t \in Side |-> IF t = s THEN total[t] - paid ELSE total[t] + got]

(* The order trades at once, as a taker: the open orders account knows it  *)
(* immediately, and an event tells the market's other accounts.            *)
Trade(m, s, lock, got) ==
  [m EXCEPT !.total = Traded(@, s, lock, got),
            !.free[Other(s)] = @ + got,
            !.queue = Append(@, [maker |-> FALSE, side |-> s, paid |-> lock, got |-> got, frees |-> FALSE])]

-----------------------------------------------------------------------------
(* What other senders do: take the best order, whole or in part ...        *)
Take(m, s, paid, got) ==
  LET best == m.orders[s][1]
      done == paid = best.lock
      left == [best EXCEPT !.lock = @ - paid]
  IN [m EXCEPT !.orders[s] = IF done THEN Tail(@) ELSE [@ EXCEPT ![1] = left],
               !.queue = Append(@, [maker |-> TRUE, side |-> s, paid |-> paid, got |-> got, frees |-> done])]

(* ... and consume the event at the head of the queue.                     *)
ConsumeHead(m) ==
  LET e == Head(m.queue)
      rest == [m EXCEPT !.queue = Tail(@)]
  IN IF e.maker
     THEN [rest EXCEPT !.total = Traded(@, e.side, e.paid, e.got),
                       !.free[Other(e.side)] = @ + e.got]
     ELSE rest
=============================================================================
