---------------------------- MODULE AmmCrankProofs ----------------------------
(***************************************************************************)
(* Theorems about AmmCrank, for every number of levels, limits of a call,  *)
(* locks, gains, slots and moves, and any number of events that nobody has *)
(* consumed.                                                               *)
(***************************************************************************)
EXTENDS AmmCrank, MarketLemmas

(* What the proofs use of the constants. *)
LEMMA ConstantFacts ==
  /\ Unit \in [Side -> Positive] /\ Sys \in Positive
  /\ Owed \in Amount /\ SwapFee \in Fraction /\ Zero \in Amount
  /\ MaxOrderNum \in Nat /\ MaxMoves \in Nat /\ SlotLimit \in Nat
BY CrankAssumption DEF Positive, Zero, Amount

-----------------------------------------------------------------------------
(* Standings whose trades all brought the pool something. *)
Standings == {m \in Sound : Gainful(m.queue)}

(* What cancelling, settling and clearing make of a standing. *)
LEMMA CancelledFacts ==
  ASSUME NEW m \in Standings, NEW s \in Side, NEW n \in Nat
  PROVE  LET c == CancelAfter(m, s, n) IN
           /\ c \in Standings /\ c.free \in Amount
           /\ CalcExact(c) = CalcExact(m) /\ SlotsUsed(c) = SlotsUsed(m)
<1> DEFINE c == CancelAfter(m, s, n)
<1>1. m \in Sound /\ Gainful(m.queue)
  BY DEF Standings
<1>2. OnlyUnlocks(m, c, s) /\ Gainful(c.queue)
  BY <1>1, CancelAfterUnlocks, CancellingIsGainful
<1> HIDE DEF c
<1>3. c \in Sound /\ CalcExact(c) = CalcExact(m) /\ SlotsUsed(c) = SlotsUsed(m)
  BY <1>2 DEF OnlyUnlocks
<1>4. c \in Standings /\ c.free \in Amount
  BY <1>2, <1>3 DEF Standings, Sound, Standing
<1> QED
  BY <1>3, <1>4 DEF c

LEMMA ClearedFacts ==
  ASSUME NEW m \in Standings
  PROVE  LET c == CancelBoth(m) IN
           /\ c \in Standings /\ c.free \in Amount
           /\ CalcExact(c) = CalcExact(m) /\ SlotsUsed(c) = SlotsUsed(m)
<1> DEFINE c == CancelBoth(m)
<1>1. m \in Sound /\ Gainful(m.queue)
  BY DEF Standings
<1>2. c \in Sound /\ CalcExact(c) = CalcExact(m) /\ SlotsUsed(c) = SlotsUsed(m) /\ Gainful(c.queue)
  BY <1>1, CancelBothUnlocks, CancelBothIsGainful
<1> HIDE DEF c
<1>3. c \in Standings /\ c.free \in Amount
  BY <1>2 DEF Standings, Sound, Standing
<1> QED
  BY <1>2, <1>3 DEF c

LEMMA SettledFacts ==
  ASSUME NEW m \in Standings
  PROVE  LET c == Settle(m) IN
           /\ c \in Standings /\ SlotsUsed(c) = SlotsUsed(m)
           /\ CalcExact(m) = Zero => CalcExact(c) = Zero
<1> DEFINE c == Settle(m)
<1>1. m \in Sound /\ Gainful(m.queue)
  BY DEF Standings
<1>2. /\ c \in Sound /\ c.queue = m.queue /\ SlotsUsed(c) = SlotsUsed(m)
      /\ \A t \in Side : CalcExact(c)[t] = CalcExact(m)[t] - m.free[t]
  BY <1>1, SettleTakesFree
<1> HIDE DEF c
<1>3. ASSUME CalcExact(m) = Zero PROVE CalcExact(c) = Zero
  <2>1. m.free = Zero
    BY <1>1, <1>3, WorthlessIsEmpty
  <2>2. ASSUME NEW t \in Side PROVE CalcExact(c)[t] = 0
    BY <1>2, <1>3, <2>1 DEF Zero
  <2>3. CalcExact(c) = [t \in Side |-> CalcExact(c)[t]]
    BY DEF CalcExact
  <2> QED
    BY <2>2, <2>3 DEF Zero
<1>4. c \in Standings
  BY <1>1, <1>2 DEF Standings
<1> QED
  BY <1>2, <1>3, <1>4 DEF c

-----------------------------------------------------------------------------
(* The rounds of do_place_orders. *)

Outcomes == {"placing", "short", "unfunded", "panics"}

Rounds == [market : Standings, vault : Amount, valid : Amount, cur : Nat, available : [Side -> Int],
           outcome : Outcomes, short : Side]

(* The pc thought to be available is what the vault holds and what is free *)
(* on the market, without the profit owed.                                 *)
PcCounted(r) == r.available["pc"] = r.vault["pc"] + r.market.free["pc"] - Owed["pc"]

LEMMA GreatestOf ==
  ASSUME NEW n \in Nat, NEW S, S \subseteq 1 .. n, S # {}
  PROVE  Max(S) \in S /\ Min(S) \in S
<1> DEFINE above == {k \in Nat : \A x \in S : x <= k}
<1>1. PICK a \in S : \A x \in S : a <= x
  <2>1. S \subseteq Nat
    OBVIOUS
  <2> QED
    BY <2>1, LeastNatural
<1>2. n \in above /\ above \subseteq Nat
  OBVIOUS
<1>3. PICK b \in above : \A k \in above : b <= k
  <2> HIDE DEF above
  <2> QED
    BY <1>2, LeastNatural
<1>4. b \in S
  <2> SUFFICES ASSUME b \notin S PROVE FALSE
    OBVIOUS
  <2>1. b \in Nat /\ \A x \in S : x \in Nat /\ x >= 1 /\ x <= b /\ x # b
    BY <1>3
  <2>2. b >= 1
    BY <1>1, <2>1
  <2>3. b - 1 \in above
    BY <2>1, <2>2
  <2> HIDE DEF above
  <2> QED
    BY <1>3, <2>1, <2>3
<1>5. \A x \in S : b >= x
  BY <1>3
<1> QED
  BY <1>1, <1>4, <1>5 DEF Max, Min

(* Replacing an old order frees what it locks, and keeps its slot. *)
LEMMA ReplacedFacts ==
  ASSUME NEW r \in Rounds, NEW s \in Side
  PROVE  LET before == Replaced(r, s) IN
           /\ before \in Standings
           /\ r.market.free[s] <= before.free[s]
           /\ SlotsUsed(before) = SlotsUsed(r.market)
<1> DEFINE m == r.market
           old == Unlisted(s, m)
<1>1. m \in Standings /\ m \in Sound /\ Gainful(m.queue)
  BY DEF Rounds, Standings
<1>2. m.free[s] \in Nat /\ m.orders[s] \in Seq(Order) /\ Len(m.orders[s]) \in Nat
  BY <1>1, Parts, LenProperties
<1>3. CASE old = {}
  BY <1>1, <1>2, <1>3 DEF Replaced
<1>4. CASE old # {}
  <2>1. old \subseteq 1 .. Len(m.orders[s])
    BY <1>2, LenProperties DEF Unlisted
  <2>2. PICK i \in 1 .. Len(m.orders[s]) : Replaced(r, s) = CancelAt(m, s, i)
    <3>1. Max(old) \in old /\ Min(old) \in old
      <4> HIDE DEF old
      <4> QED
        BY <1>2, <1>4, <2>1, GreatestOf
    <3>2. Replaced(r, s) = CancelAt(m, s, IF r.valid[s] = 0 THEN Max(old) ELSE Min(old))
      BY <1>4 DEF Replaced
    <3> HIDE DEF old
    <3> QED
      BY <2>1, <3>1, <3>2
  <2>3. OnlyUnlocks(m, CancelAt(m, s, i), s) /\ Gainful(CancelAt(m, s, i).queue)
    BY <1>1, CancelAtUnlocks, CancellingIsGainful
  <2> QED
    BY <2>2, <2>3 DEF OnlyUnlocks, Standings
<1> QED
  BY <1>3, <1>4

(* What a new order makes of the standing, whether it rests or trades.     *)
LEMMA NewOrderFacts ==
  ASSUME NEW before \in Standings, NEW s \in Side, NEW lock \in Nat \ {0}, NEW level \in Nat \ {0},
         NEW meets \in Nat, NEW towards \in BOOLEAN
  PROVE  LET funded == Funded(before, s, lock)
             after == IF meets > 0 THEN Trade(funded, s, lock, meets)
                      ELSE Rest(funded, s, [lock |-> lock, level |-> level, listed |-> TRUE], towards)
         IN /\ after \in Standings
            /\ SlotsUsed(after) <= SlotsUsed(before) + 1
            /\ FromVault(before, s, lock) \in Nat
<1> DEFINE order == [lock |-> lock, level |-> level, listed |-> TRUE]
           trade == Trade(Funded(before, s, lock), s, lock, meets)
           rest == Rest(Funded(before, s, lock), s, order, towards)
<1>1. before \in Sound /\ Gainful(before.queue) /\ SlotsUsed(before) \in Nat
  BY SlotsAre DEF Standings
<1>2. order \in Order /\ order.lock = lock
  BY DEF Order
<1>3. trade \in Standings /\ SlotsUsed(trade) = SlotsUsed(before)
  BY <1>1, TradingOrder, TradingIsGainful DEF Standings
<1>4. rest \in Standings /\ SlotsUsed(rest) = SlotsUsed(before) + 1
  <2> HIDE DEF order
  <2>1. LET c == Rest(Funded(before, s, order.lock), s, order, towards)
        IN c \in Sound /\ c.queue = before.queue /\ SlotsUsed(c) = SlotsUsed(before) + 1
    BY <1>1, <1>2, RestingOrder
  <2> QED
    BY <1>1, <1>2, <2>1 DEF Standings
<1>5. FromVault(before, s, lock) \in Nat
  BY <1>1, Funding
<1> HIDE DEF trade, rest
<1>6. /\ (IF meets > 0 THEN trade ELSE rest) \in Standings
      /\ SlotsUsed(IF meets > 0 THEN trade ELSE rest) <= SlotsUsed(before) + 1
  BY <1>1, <1>3, <1>4
<1> QED
  BY <1>5, <1>6 DEF trade, rest, order
(* One order of a level: the round stays a round, at most one slot is      *)
(* taken, and an order that the counted pc covers is one the market can    *)
(* fund.                                                                   *)
LEMMA PlaceOrderFacts ==
  ASSUME NEW r \in Rounds, NEW s \in Side, NEW i \in 1 .. Len(planned), TypeOK,
         NEW meets \in Nat, NEW rising \in BOOLEAN
  PROVE  LET next == PlaceOrder(r, s, i, meets, rising) IN
           /\ next \in Rounds
           /\ next.cur = r.cur /\ next.available = r.available
           /\ SlotsUsed(next.market) <= SlotsUsed(r.market) + 1
           /\ \A t \in Side : next.valid[t] <= IF t = s THEN r.valid[t] + 1 ELSE r.valid[t]
           /\ r.outcome # "placing" => next = r
           /\ r.outcome = "placing" /\ next.outcome = "unfunded" =>
                next.short = s /\ (PcCounted(r) => s # "pc")
<1> DEFINE lock == planned[i][s]
           before == Replaced(r, s)
           funded == Funded(before, s, lock)
           paid == FromVault(before, s, lock)
           towards == rising = (s = "pc")
           after == IF meets > 0 THEN Trade(funded, s, lock, meets)
                    ELSE Rest(funded, s, [lock |-> lock, level |-> i, listed |-> TRUE], towards)
           next == PlaceOrder(r, s, i, meets, rising)
<1>1. lock \in Nat /\ i \in Nat \ {0} /\ towards \in BOOLEAN
  <2>1. planned \in Seq(LevelLocks) /\ Len(planned) \in Nat
    BY LenProperties DEF TypeOK
  <2>2. planned[i] \in LevelLocks
    BY <2>1, ElementOfSeq
  <2>3. lock \in Nat
    BY <2>2, CrankAssumption DEF Amount
  <2>4. i \in Nat \ {0}
    BY <2>1
  <2> HIDE DEF lock
  <2> QED
    BY <2>3, <2>4
<1>2. /\ r.market \in Standings /\ r.vault \in Amount /\ r.valid \in Amount /\ r.cur \in Nat
      /\ r.available \in [Side -> Int] /\ r.outcome \in Outcomes /\ r.short \in Side
  BY DEF Rounds
<1>3. /\ before \in Standings /\ r.market.free[s] <= before.free[s]
      /\ SlotsUsed(before) = SlotsUsed(r.market)
  BY ReplacedFacts
<1>4. SlotsUsed(r.market) \in Nat /\ r.market.free[s] \in Nat /\ before.free[s] \in Nat
  BY <1>2, <1>3, SlotsAre, Parts DEF Standings
<1>5. \A t \in Side : r.vault[t] \in Nat /\ r.valid[t] \in Nat /\ Owed[t] \in Nat
  BY <1>2, ConstantFacts DEF Amount
<1>6. CASE r.outcome # "placing"
  <2>1. next = r
    BY <1>6 DEF PlaceOrder
  <2> HIDE DEF next
  <2> QED
    BY <1>4, <1>5, <1>6, <2>1 DEF next
<1>7. CASE r.outcome = "placing" /\ lock > r.available[s]
  <2>1. next = [r EXCEPT !.outcome = "short", !.short = s]
    <3>1. ~(lock <= r.available[s])
      BY <1>1, <1>2, <1>7
    <3> HIDE DEF lock
    <3> QED
      BY <1>7, <3>1 DEF PlaceOrder, lock
  <2> HIDE DEF next
  <2>2. /\ next \in Rounds /\ next.cur = r.cur /\ next.available = r.available /\ next.market = r.market
        /\ next.valid = r.valid /\ next.outcome = "short"
    BY <2>1 DEF Rounds, Outcomes
  <2> QED
    BY <1>4, <1>5, <1>7, <2>2 DEF next
<1>8. CASE r.outcome = "placing" /\ lock <= r.available[s] /\ lock = 0
  <2>1. next = r
    <3>1. ~(lock > r.available[s])
      BY <1>1, <1>2, <1>8
    <3> HIDE DEF lock
    <3> QED
      BY <1>8, <3>1 DEF PlaceOrder, lock
  <2> HIDE DEF next
  <2> QED
    BY <1>4, <1>5, <1>8, <2>1 DEF next
<1>9. CASE r.outcome = "placing" /\ lock <= r.available[s] /\ lock # 0
  <2>1. next = IF paid > r.vault[s]
               THEN [r EXCEPT !.outcome = "unfunded", !.short = s]
               ELSE [r EXCEPT !.market = after, !.vault[s] = @ - paid, !.valid[s] = @ + 1]
    <3>1. ~(lock > r.available[s])
      BY <1>1, <1>2, <1>9
    <3> HIDE DEF lock
    <3> QED
      BY <1>9, <3>1 DEF PlaceOrder, lock
  <2>2. after \in Standings /\ SlotsUsed(after) <= SlotsUsed(before) + 1 /\ paid \in Nat
    <3> HIDE DEF before, lock, towards
    <3>1. lock \in Nat \ {0}
      BY <1>1, <1>9
    <3> QED
      BY <1>1, <1>3, <3>1, NewOrderFacts
  <2>3. PcCounted(r) /\ s = "pc" => paid <= r.vault[s]
    <3> SUFFICES ASSUME PcCounted(r), s = "pc" PROVE paid <= r.vault[s]
      OBVIOUS
    <3>1. lock <= r.vault[s] + r.market.free[s] - Owed[s]
      BY <1>9 DEF PcCounted
    <3>2. paid = IF lock > before.free[s] THEN lock - before.free[s] ELSE 0
      BY DEF FromVault
    <3> HIDE DEF lock, paid, before
    <3> QED
      BY <1>1, <1>3, <1>4, <1>5, <3>1, <3>2
  <2>4. CASE paid > r.vault[s]
    <3>1. next = [r EXCEPT !.outcome = "unfunded", !.short = s]
      BY <2>1, <2>4
    <3> HIDE DEF next, paid
    <3>2. /\ next \in Rounds /\ next.cur = r.cur /\ next.available = r.available /\ next.market = r.market
          /\ next.valid = r.valid /\ next.outcome = "unfunded" /\ next.short = s
      BY <3>1 DEF Rounds, Outcomes
    <3>3. PcCounted(r) => s # "pc"
      BY <1>5, <2>2, <2>3, <2>4
    <3> QED
      BY <1>4, <1>5, <1>9, <3>2, <3>3 DEF next
  <2>5. CASE ~(paid > r.vault[s])
    <3>1. next = [r EXCEPT !.market = after, !.vault[s] = @ - paid, !.valid[s] = @ + 1]
      BY <2>1, <2>5
    <3> HIDE DEF next, paid, after
    <3>2. /\ next = [r EXCEPT !.market = after, !.vault = next.vault, !.valid = next.valid]
          /\ next.vault = [r.vault EXCEPT ![s] = @ - paid] /\ next.valid = [r.valid EXCEPT ![s] = @ + 1]
      BY <3>1 DEF Rounds
    <3>3. next.vault \in Amount
      BY <1>2, <1>5, <2>2, <2>5, <3>2 DEF Amount
    <3>4. next.valid \in Amount
      BY <1>2, <1>5, <3>2 DEF Amount
    <3>5. /\ next \in Rounds /\ next.cur = r.cur /\ next.available = r.available /\ next.market = after
          /\ next.outcome = r.outcome
      BY <2>2, <3>2, <3>3, <3>4 DEF Rounds
    <3>6. SlotsUsed(next.market) <= SlotsUsed(r.market) + 1
      BY <1>3, <2>2, <3>5
    <3>7. ASSUME NEW t \in Side
          PROVE  next.valid[t] <= IF t = s THEN r.valid[t] + 1 ELSE r.valid[t]
      <4>1. next.valid[t] = IF t = s THEN r.valid[t] + 1 ELSE r.valid[t]
        BY <1>2, <3>2 DEF Amount
      <4> QED
        BY <1>5, <4>1
    <3> QED
      BY <1>9, <3>5, <3>6, <3>7 DEF next
  <2> QED
    BY <2>4, <2>5
<1> HIDE DEF next
<1>10. lock \in Int /\ r.available[s] \in Int
  BY <1>1, <1>2
<1> QED
  BY <1>6, <1>7, <1>8, <1>9, <1>10 DEF next

(* One level: an order for each token, then the amounts are reloaded. *)
LEMMA PlaceLevelFacts ==
  ASSUME NEW r \in Rounds, NEW i \in 1 .. Len(planned), TypeOK,
         NEW meets \in Amount, NEW rising \in BOOLEAN
  PROVE  LET next == PlaceLevel(r, i, meets, rising) IN
           /\ next \in Rounds
           /\ SlotsUsed(next.market) <= SlotsUsed(r.market) + 2
           /\ \A t \in Side : next.valid[t] <= r.valid[t] + 1
           /\ next.cur \in {r.cur, i}
           /\ next.outcome = "placing" => next.cur = i /\ PcCounted(next)
           /\ (r.outcome = "unfunded" => r.short = "coin") /\ (r.outcome = "placing" => PcCounted(r))
                => (next.outcome = "unfunded" => next.short = "coin")
<1> DEFINE first == PlaceOrder(r, "pc", i, meets["pc"], rising)
           both == PlaceOrder(first, "coin", i, meets["coin"], rising)
           after == [both EXCEPT !.cur = i, !.available = Reloaded(both)]
           next == PlaceLevel(r, i, meets, rising)
<1>1. "pc" \in Side /\ "coin" \in Side /\ meets["pc"] \in Nat /\ meets["coin"] \in Nat
  BY DEF Side, Amount
<1>2. /\ first \in Rounds /\ first.cur = r.cur
      /\ SlotsUsed(first.market) <= SlotsUsed(r.market) + 1
      /\ \A t \in Side : first.valid[t] <= IF t = "pc" THEN r.valid[t] + 1 ELSE r.valid[t]
      /\ r.outcome # "placing" => first = r
      /\ r.outcome = "placing" /\ first.outcome = "unfunded" => ~PcCounted(r)
  BY <1>1, PlaceOrderFacts
<1> HIDE DEF first
<1>3. /\ both \in Rounds /\ both.cur = first.cur
      /\ SlotsUsed(both.market) <= SlotsUsed(first.market) + 1
      /\ \A t \in Side : both.valid[t] <= IF t = "coin" THEN first.valid[t] + 1 ELSE first.valid[t]
      /\ first.outcome # "placing" => both = first
      /\ first.outcome = "placing" /\ both.outcome = "unfunded" => both.short = "coin"
  BY <1>1, <1>2, PlaceOrderFacts
<1> HIDE DEF both
<1>4. both.cur = r.cur /\ SlotsUsed(both.market) <= SlotsUsed(r.market) + 2
  <2>1. SlotsUsed(r.market) \in Nat /\ SlotsUsed(first.market) \in Nat /\ SlotsUsed(both.market) \in Nat
    BY <1>1, <1>2, <1>3, SlotsAre DEF Rounds, Standings
  <2> QED
    BY <1>2, <1>3, <2>1, SMTT(30)
<1>5. ASSUME NEW t \in Side PROVE both.valid[t] <= r.valid[t] + 1
  <2>1. r.valid[t] \in Nat /\ first.valid[t] \in Nat /\ both.valid[t] \in Nat
    BY <1>2, <1>3 DEF Rounds, Amount
  <2>2. /\ first.valid[t] <= IF t = "pc" THEN r.valid[t] + 1 ELSE r.valid[t]
        /\ both.valid[t] <= IF t = "coin" THEN first.valid[t] + 1 ELSE first.valid[t]
    BY <1>2, <1>3
  <2> QED
    BY <2>1, <2>2
<1>6. ASSUME r.outcome = "unfunded" => r.short = "coin", r.outcome = "placing" => PcCounted(r),
             both.outcome = "unfunded"
      PROVE  both.short = "coin"
  BY <1>2, <1>3, <1>6
<1>7. Reloaded(both) \in [Side -> Int]
      /\ Reloaded(both)["pc"] = both.vault["pc"] + both.market.free["pc"] - Owed["pc"]
  <2>1. \A t \in Side : both.vault[t] \in Nat /\ both.market.free[t] \in Nat /\ Owed[t] \in Nat
    BY <1>3, ConstantFacts DEF Rounds, Standings, Sound, Standing, Amount
  <2>2. ASSUME NEW t \in Side
        PROVE  Available(both.market, both.vault)[t] = both.vault[t] + both.market.free[t] - Owed[t]
    <3>1. Available(both.market, both.vault)[t] = Plus(both.vault, both.market.free)[t] - Owed[t]
      BY DEF Available, Minus
    <3>2. Plus(both.vault, both.market.free)[t] = both.vault[t] + both.market.free[t]
      BY DEF Plus
    <3> QED
      BY <2>1, <3>1, <3>2
  <2>3. Available(both.market, both.vault) \in [Side -> Int]
    <3>1. Available(both.market, both.vault) = [t \in Side |-> Available(both.market, both.vault)[t]]
      BY DEF Available, Minus
    <3> QED
      BY <2>1, <2>2, <3>1
  <2> QED
    BY <1>1, <2>1, <2>2, <2>3 DEF Reloaded
<1>8. after = [both EXCEPT !.cur = i, !.available = Reloaded(both)]
  OBVIOUS
<1> HIDE DEF after
<1>9. /\ after \in Rounds /\ after.market = both.market /\ after.valid = both.valid /\ after.cur = i
      /\ after.vault = both.vault /\ after.outcome = both.outcome /\ after.available = Reloaded(both)
  <2>1. i \in Nat
    BY LenProperties DEF TypeOK
  <2>2. Reloaded(both) \in [Side -> Int]
    BY <1>7
  <2> QED
    BY <1>3, <1>8, <2>1, <2>2 DEF Rounds
<1>10. PcCounted(after)
  BY <1>7, <1>9 DEF PcCounted
<1>11. /\ both.outcome # "placing" => next = both
       /\ both.outcome = "placing" => next \in {after, [after EXCEPT !.outcome = "panics"]}
  BY DEF PlaceLevel, first, both, after
<1> HIDE DEF next
<1>12. CASE both.outcome # "placing"
  BY <1>3, <1>4, <1>5, <1>6, <1>11, <1>12 DEF next
<1>13. CASE both.outcome = "placing" /\ next = after
  BY <1>4, <1>5, <1>9, <1>10, <1>13 DEF next
<1>14. CASE both.outcome = "placing" /\ next = [after EXCEPT !.outcome = "panics"]
  <2>1. /\ next \in Rounds /\ next.market = after.market /\ next.valid = after.valid /\ next.cur = i
        /\ next.outcome = "panics"
    BY <1>9, <1>14 DEF Rounds, Outcomes
  <2> QED
    BY <1>4, <1>5, <1>9, <2>1 DEF next
<1> QED
  BY <1>11, <1>12, <1>13, <1>14
(* The levels of a call, one after the other. *)
FirstRound ==
  [market |-> market, vault |-> vault, valid |-> valid, cur |-> placeCur,
   available |-> Available(market, vault), outcome |-> "placing", short |-> "pc"]

Steps(meetings, rising, last, h) ==
  h = [i \in placeCur .. last |->
         IF i = placeCur THEN FirstRound ELSE PlaceLevel(h[i - 1], i, meetings[i], rising)]

LEMMA RoundUnrolls ==
  ASSUME NEW limit, NEW meetings, NEW rising
  PROVE  Round(limit, meetings, rising)
           = (CHOOSE h : Steps(meetings, rising, Upto(limit), h))[Upto(limit)]
BY DEF Round, Steps, FirstRound

(* The recursion over the levels has a solution. *)
LEMMA StepsExist ==
  ASSUME TypeOK, NEW meetings, NEW rising, NEW last \in Nat, placeCur <= last
  PROVE  \E h : Steps(meetings, rising, last, h)
<1> DEFINE good == {n \in Nat : \E h : Steps(meetings, rising, placeCur + n, h)}
<1>1. placeCur \in Nat
  BY ConstantFacts DEF TypeOK
<1>2. 0 \in good
  <2> DEFINE h == [i \in placeCur .. placeCur + 0 |-> FirstRound]
  <2>1. Steps(meetings, rising, placeCur + 0, h)
    BY <1>1 DEF Steps
  <2> QED
    BY <2>1
<1>3. ASSUME NEW n \in Nat, n \in good PROVE n + 1 \in good
  <2> PICK h : Steps(meetings, rising, placeCur + n, h)
    BY <1>3
  <2> DEFINE top == placeCur + (n + 1)
             Level(f, i) == IF i = placeCur THEN FirstRound ELSE PlaceLevel(f[i - 1], i, meetings[i], rising)
             k == [i \in placeCur .. top |-> Level(h, i)]
  <2>1. ASSUME NEW i \in placeCur .. placeCur + n PROVE k[i] = h[i]
    <3>1. h[i] = Level(h, i) /\ i \in placeCur .. top
      BY <1>1 DEF Steps
    <3> HIDE DEF Level
    <3> QED
      BY <3>1
  <2>2. ASSUME NEW i \in placeCur .. top PROVE Level(h, i) = Level(k, i)
    <3>1. CASE i = placeCur
      BY <3>1
    <3>2. CASE i # placeCur
      <4>1. i - 1 \in placeCur .. placeCur + n
        BY <1>1, <3>2
      <4>2. k[i - 1] = h[i - 1]
        BY <2>1, <4>1
      <4> HIDE DEF k
      <4> QED
        BY <4>2
    <3> QED
      BY <3>1, <3>2
  <2>3. k = [i \in placeCur .. top |-> Level(k, i)]
    <3>1. \A i \in placeCur .. top : Level(h, i) = Level(k, i)
      BY <2>2
    <3> DEFINE other == [i \in placeCur .. top |-> Level(k, i)]
    <3>2. k = other
      <4> HIDE DEF Level
      <4> QED
        BY <3>1
    <3> QED
      BY <3>2
  <2>4. Steps(meetings, rising, top, k)
    <3> HIDE DEF k
    <3> QED
      BY <2>3 DEF Steps
  <2> HIDE DEF k
  <2> QED
    BY <2>4
<1>4. last - placeCur \in Nat
  BY <1>1
<1>5. last - placeCur \in good
  <2> HIDE DEF good
  <2>1. Nat \subseteq good
    BY <1>2, <1>3, NatSetInduction
  <2> QED
    BY <1>4, <2>1
<1>6. placeCur + (last - placeCur) = last
  BY <1>1
<1> QED
  BY <1>5, <1>6

(* What a call does to the standing, the vaults and the counts. *)
LEMMA RoundFacts ==
  ASSUME TypeOK, market \in Standings, state = "Place", PlacesWithinPlan,
         NEW limit \in Limits, NEW meetings \in [1 .. orderNum -> Amount], NEW rising \in BOOLEAN
  PROVE  LET round == Round(limit, meetings, rising) IN
           /\ Upto(limit) \in placeCur .. orderNum
           /\ round \in Rounds
           /\ SlotsUsed(round.market) <= SlotsUsed(market) + 2 * MaxOrderNum
           /\ round.cur \in placeCur .. orderNum
           /\ round.outcome = "placing" => \A t \in Side : round.valid[t] <= round.cur
           /\ round.outcome = "unfunded" => round.short = "coin"
<1> DEFINE last == Upto(limit)
           Slots(n) == SlotsUsed(market) + 2 * n
           Good(r, n) ==
             /\ r \in Rounds
             /\ SlotsUsed(r.market) <= Slots(n)
             /\ r.cur \in placeCur .. placeCur + n
             /\ \A t \in Side : r.valid[t] <= placeCur + n
             /\ r.outcome = "placing" => r.cur = placeCur + n /\ PcCounted(r)
             /\ r.outcome = "unfunded" => r.short = "coin"
<1>1. /\ placeCur \in Nat /\ orderNum \in Nat /\ orderNum <= MaxOrderNum /\ MaxOrderNum \in Nat
      /\ Len(planned) = orderNum /\ placeCur < orderNum
      /\ \A t \in Side : valid[t] <= placeCur
      /\ vault \in Amount /\ valid \in Amount /\ SlotsUsed(market) \in Nat
  <2>1. SlotsUsed(market) \in Nat
    BY SlotsAre DEF Standings, Side
  <2> QED
    BY <2>1, ConstantFacts DEF TypeOK, PlacesWithinPlan
<1>2. last \in Nat /\ placeCur <= last /\ last <= orderNum
  <2>1. limit \in Nat \ {0}
    BY CrankAssumption
  <2> QED
    BY <1>1, <2>1 DEF Upto
<1> HIDE DEF last
<1>3. PICK h : Steps(meetings, rising, last, h) /\ Round(limit, meetings, rising) = h[last]
  <2> DEFINE c == CHOOSE h : Steps(meetings, rising, last, h)
  <2>1. Steps(meetings, rising, last, c)
    BY <1>2, StepsExist
  <2>2. Round(limit, meetings, rising) = c[last]
    BY RoundUnrolls DEF last
  <2> HIDE DEF c
  <2> QED
    BY <2>1, <2>2
<1> DEFINE good == {n \in Nat : placeCur + n <= last => Good(h[placeCur + n], n)}
<1>4. 0 \in good
  <2>1. h[placeCur] = FirstRound
    BY <1>1, <1>2, <1>3 DEF Steps
  <2>2. \A t \in Side : vault[t] \in Nat /\ market.free[t] \in Nat /\ Owed[t] \in Nat
    BY <1>1, ConstantFacts DEF Standings, Sound, Standing, Amount
  <2>3. ASSUME NEW t \in Side
        PROVE  Available(market, vault)[t] = vault[t] + market.free[t] - Owed[t]
    <3>1. Available(market, vault)[t] = Plus(vault, market.free)[t] - Owed[t]
      BY DEF Available, Minus
    <3>2. Plus(vault, market.free)[t] = vault[t] + market.free[t]
      BY DEF Plus
    <3> QED
      BY <2>2, <3>1, <3>2
  <2>4. Available(market, vault) \in [Side -> Int]
    <3>1. Available(market, vault) = [t \in Side |-> Available(market, vault)[t]]
      BY DEF Available, Minus
    <3> QED
      BY <2>2, <2>3, <3>1
  <2>5. "pc" \in Side
    BY DEF Side
  <2>6. FirstRound \in Rounds
    BY <1>1, <2>4, <2>5 DEF FirstRound, Rounds, Outcomes
  <2>7. PcCounted(FirstRound)
    BY <2>3, <2>5 DEF PcCounted, FirstRound
  <2>8. /\ FirstRound.market = market /\ FirstRound.cur = placeCur /\ FirstRound.valid = valid
        /\ FirstRound.outcome = "placing"
    BY DEF FirstRound
  <2>9. Good(FirstRound, 0)
    BY <1>1, <2>6, <2>7, <2>8
  <2>10. placeCur + 0 = placeCur
    BY <1>1
  <2> HIDE DEF Good
  <2> QED
    BY <2>1, <2>9, <2>10
<1>5. ASSUME NEW n \in Nat, n \in good PROVE n + 1 \in good
  <2> SUFFICES ASSUME placeCur + (n + 1) <= last PROVE Good(h[placeCur + (n + 1)], n + 1)
    OBVIOUS
  <2> DEFINE i == placeCur + (n + 1)
             r == h[placeCur + n]
             next == PlaceLevel(r, i, meetings[i], rising)
  <2>1. placeCur + n <= last /\ i - 1 = placeCur + n /\ i # placeCur /\ i \in placeCur .. last
        /\ i \in 1 .. Len(planned) /\ i \in 1 .. orderNum
    BY <1>1, <1>2
  <2>2. Good(r, n)
    BY <1>5, <2>1
  <2>3. h[i] = next
    <3> HIDE DEF i
    <3>1. h[i] = PlaceLevel(h[i - 1], i, meetings[i], rising)
      BY <1>3, <2>1 DEF Steps
    <3> QED
      BY <2>1, <3>1
  <2> HIDE DEF r
  <2>4. /\ next \in Rounds
        /\ SlotsUsed(next.market) <= SlotsUsed(r.market) + 2
        /\ \A t \in Side : next.valid[t] <= r.valid[t] + 1
        /\ next.cur \in {r.cur, i}
        /\ next.outcome = "placing" => next.cur = i /\ PcCounted(next)
        /\ next.outcome = "unfunded" => next.short = "coin"
    <3>1. meetings[i] \in Amount
      BY <2>1
    <3> HIDE DEF i
    <3> QED
      BY <2>1, <2>2, <3>1, PlaceLevelFacts
  <2> HIDE DEF next
  <2>5. SlotsUsed(next.market) <= Slots(n + 1)
    <3>1. SlotsUsed(r.market) \in Nat /\ SlotsUsed(next.market) \in Nat
      BY <2>2, <2>4, SlotsAre DEF Rounds, Standings, Side
    <3> QED
      BY <1>1, <2>2, <2>4, <3>1
  <2>6. ASSUME NEW t \in Side PROVE next.valid[t] <= i
    <3>1. next.valid[t] \in Nat /\ r.valid[t] \in Nat
      BY <2>2, <2>4 DEF Rounds, Amount
    <3>2. r.valid[t] <= placeCur + n /\ next.valid[t] <= r.valid[t] + 1
      BY <2>2, <2>4
    <3> QED
      BY <1>1, <3>1, <3>2
  <2>7. next.cur \in placeCur .. i
    BY <1>1, <2>2, <2>4
  <2> QED
    BY <2>3, <2>4, <2>5, <2>6, <2>7
<1>6. last - placeCur \in Nat /\ placeCur + (last - placeCur) = last
  BY <1>1, <1>2
<1>7. Good(h[last], last - placeCur)
  <2>1. Nat \subseteq good
    <3> HIDE DEF good
    <3> QED
      BY <1>4, <1>5, NatSetInduction
  <2>2. last - placeCur \in good
    <3> HIDE DEF good
    <3> QED
      BY <1>6, <2>1
  <2> HIDE DEF Good
  <2>3. placeCur + (last - placeCur) <= last => Good(h[placeCur + (last - placeCur)], last - placeCur)
    BY <2>2
  <2>4. last <= last
    BY <1>2
  <2> QED
    BY <1>6, <2>3, <2>4
<1>8. SlotsUsed(h[last].market) <= SlotsUsed(market) + 2 * MaxOrderNum
  <2>1. SlotsUsed(h[last].market) \in Nat
    BY <1>7, SlotsAre DEF Rounds, Standings, Side
  <2> QED
    BY <1>1, <1>2, <1>6, <1>7, <2>1
<1>9. h[last].cur \in placeCur .. orderNum
  BY <1>1, <1>2, <1>6, <1>7
<1>10. ASSUME h[last].outcome = "placing", NEW t \in Side PROVE h[last].valid[t] <= h[last].cur
  <2>1. h[last].valid[t] <= placeCur + (last - placeCur)
    BY <1>7
  <2>2. h[last].cur = placeCur + (last - placeCur)
    BY <1>7, <1>10
  <2> QED
    BY <2>1, <2>2
<1> QED
  BY <1>1, <1>2, <1>3, <1>7, <1>8, <1>9, <1>10 DEF last
-----------------------------------------------------------------------------
(* The inductive invariant.  The standing is sound, so that no call finds  *)
(* less on the market than it takes; without the order book the pool owns  *)
(* nothing there; and a plan in the making fits order_num and has its      *)
(* counts of placed orders at zero, which is what makes a plan that is     *)
(* complete one that do_place_orders may start on.                         *)
OffTheBook == ~enabled => CalcExact(market) = Zero

PlanFits ==
  state = "Plan" => Len(planned) <= orderNum /\ (planned # <<>> => valid = Zero)

CrankInv ==
  /\ TypeOK
  /\ market \in Standings
  /\ OffTheBook
  /\ SlotsBounded
  /\ PlacesWithinPlan
  /\ PlanFits

LEMMA TotalFacts ==
  ASSUME CrankInv
  PROVE  /\ market \in Sound
         /\ \A s \in Side :
              /\ vault[s] \in Nat /\ Owed[s] \in Nat /\ CalcExact(market)[s] \in Nat
              /\ Total[s] = vault[s] + CalcExact(market)[s] - Owed[s]
         /\ NotEmpty => Total \in Amount /\ Reserves \in Amount
<1>1. market \in Sound
  BY DEF CrankInv, Standings
<1>2. ASSUME NEW s \in Side
      PROVE  /\ vault[s] \in Nat /\ Owed[s] \in Nat /\ CalcExact(market)[s] \in Nat
             /\ Total[s] = vault[s] + CalcExact(market)[s] - Owed[s]
  BY <1>1, ConstantFacts, ExactIsOwned DEF CrankInv, TypeOK, Amount, Total
<1>3. ASSUME NotEmpty PROVE Total \in Amount /\ Reserves \in Amount
  <2>1. ASSUME NEW s \in Side PROVE Total[s] \in Nat
    <3>1. Total[s] > 0
      BY <1>3 DEF NotEmpty
    <3> QED
      BY <1>2, <3>1
  <2>2. Total = [s \in Side |-> Total[s]]
    BY DEF Total
  <2>3. Total \in Amount
    BY <2>1, <2>2 DEF Amount
  <2> QED
    BY <2>3, ConstantFacts, NormalizeType DEF Reserves
<1> QED
  BY <1>1, <1>2, <1>3

(* What a step that does not plan or place has to keep.                    *)
LEMMA StandingKept ==
  ASSUME CrankInv, TypeOK', market' \in Standings, SlotsUsed(market') <= SlotsUsed(market),
         ~enabled' => CalcExact(market') = Zero,
         PlacesWithinPlan', PlanFits'
  PROVE  CrankInv'
<1>1. SlotsUsed(market) \in Nat /\ SlotsUsed(market') \in Nat
  BY SlotsAre DEF CrankInv, Standings, Side
<1>2. SlotsUsed(market) <= SlotLimit + 2 * MaxOrderNum
  BY DEF CrankInv, SlotsBounded
<1>3. SlotsUsed(market') <= SlotLimit + 2 * MaxOrderNum
  BY <1>1, <1>2, ConstantFacts
<1> QED
  BY <1>3 DEF CrankInv, OffTheBook, SlotsBounded

(* A step that leaves the crank's own state alone keeps what concerns it.  *)
LEMMA TargetsKept ==
  ASSUME CrankInv, UNCHANGED <<state, orderNum, targetVars>>
  PROVE  PlacesWithinPlan' /\ PlanFits'
BY DEF CrankInv, PlacesWithinPlan, PlanFits, targetVars

LEMMA OnlyStanding ==
  ASSUME CrankInv, UNCHANGED <<enabled, state, resetFlag, orderNum, targetVars>>,
         market' \in Standings, SlotsUsed(market') <= SlotsUsed(market),
         ~enabled => CalcExact(market') = Zero,
         vault' \in Amount, moves' \in 0 .. MaxMoves
  PROVE  CrankInv'
<1>1. TypeOK'
  BY DEF CrankInv, TypeOK, targetVars, Standings, Sound
<1>2. ~enabled' => CalcExact(market') = Zero
  OBVIOUS
<1> QED
  BY <1>1, <1>2, StandingKept, TargetsKept

-----------------------------------------------------------------------------
(* Every step keeps the invariant, one lemma for each. *)

LEMMA InitKeeps == Init => CrankInv
<1> SUFFICES ASSUME Init PROVE CrankInv
  OBVIOUS
<1>1. NoStanding \in Sound /\ SlotsUsed(NoStanding) = 0 /\ NoStanding \in Standing
  BY NoStandingIsSound DEF Sound
<1>2. NoStanding \in Standings
  <2>1. NoStanding.queue = <<>>
    BY DEF NoStanding
  <2>2. Gainful(<<>>)
    BY DEF Gainful
  <2> QED
    BY <1>1, <2>1, <2>2 DEF Standings
<1>3. TypeOK
  <2>1. <<>> \in Seq(LevelLocks) /\ Len(<<>>) = 0
    OBVIOUS
  <2>2. MaxOrderNum \in 0 .. MaxOrderNum /\ 0 \in 0 .. MaxOrderNum /\ 0 \in 0 .. MaxMoves /\ 0 <= MaxOrderNum
    BY ConstantFacts
  <2>3. InitVault \in Amount
    BY CrankAssumption
  <2> QED
    BY <1>1, <2>1, <2>2, <2>3, ConstantFacts DEF Init, TypeOK, State
<1>4. SlotsBounded
  BY <1>1, ConstantFacts DEF Init, SlotsBounded
<1> QED
  BY <1>2, <1>3, <1>4 DEF Init, CrankInv, OffTheBook, PlacesWithinPlan, PlanFits
(* do_idle_state starts a plan from nothing. *)
LEMMA IdleKeeps ==
  ASSUME CrankInv, IdleStep
  PROVE  CrankInv'
<1>1. /\ planned' = IF Quiet THEN planned ELSE <<>>
      /\ state' \in {"Idle", "CancelAll", "Plan"}
      /\ state' = "Plan" => ~Quiet
      /\ UNCHANGED <<enabled, resetFlag, orderNum, vault, market, placeCur, target, placed, valid, moves>>
  BY DEF IdleStep
<1>2. planned' = planned \/ planned' = <<>>
  BY <1>1
<1>3. <<>> \in Seq(LevelLocks) /\ Len(<<>>) = 0 /\ 0 <= MaxOrderNum
  BY ConstantFacts
<1>4. TypeOK'
  BY <1>1, <1>2, <1>3 DEF CrankInv, TypeOK, State
<1>5. PlacesWithinPlan' /\ PlanFits'
  <2>1. state' # "Place"
    BY <1>1
  <2>2. state' = "Plan" => planned' = <<>>
    BY <1>1
  <2>3. orderNum' \in Nat
    BY <1>4, ConstantFacts DEF TypeOK
  <2> QED
    BY <1>3, <2>1, <2>2, <2>3 DEF PlacesWithinPlan, PlanFits
<1>6. market' \in Standings /\ SlotsUsed(market') <= SlotsUsed(market)
  <2>1. SlotsUsed(market) \in Nat
    BY SlotsAre DEF CrankInv, Standings, Side
  <2> QED
    BY <1>1, <2>1 DEF CrankInv
<1>7. ~enabled' => CalcExact(market') = Zero
  BY <1>1 DEF CrankInv, OffTheBook
<1> QED
  BY <1>4, <1>5, <1>6, <1>7, StandingKept

(* do_purge_orders. *)
LEMMA PurgeKeeps ==
  ASSUME CrankInv, PurgeStep
  PROVE  CrankInv'
<1> DEFINE bids == CancelAfter(market, "pc", valid["pc"])
           both == CancelAfter(bids, "coin", valid["coin"])
<1>1. /\ state = "Purge" /\ state' \in {"Idle", "Purge"} /\ (market' = market \/ market' = both)
      /\ UNCHANGED <<enabled, resetFlag, orderNum, vault, targetVars, moves>>
  BY DEF PurgeStep
<1>2. /\ "pc" \in Side /\ "coin" \in Side /\ valid["pc"] \in Nat /\ valid["coin"] \in Nat
      /\ market \in Standings
  BY DEF CrankInv, TypeOK, Amount, Side
<1>3. bids \in Standings /\ CalcExact(bids) = CalcExact(market) /\ SlotsUsed(bids) = SlotsUsed(market)
  BY <1>2, CancelledFacts
<1>4. both \in Standings /\ CalcExact(both) = CalcExact(market) /\ SlotsUsed(both) = SlotsUsed(market)
  <2> HIDE DEF bids
  <2> QED
    BY <1>2, <1>3, CancelledFacts
<1> HIDE DEF both
<1>5. /\ market' \in Standings /\ CalcExact(market') = CalcExact(market)
      /\ SlotsUsed(market') <= SlotsUsed(market)
  <2>1. SlotsUsed(market) \in Nat
    BY SlotsAre DEF CrankInv, Standings, Side
  <2>2. SlotsUsed(market') = SlotsUsed(market) /\ CalcExact(market') = CalcExact(market)
    BY <1>1, <1>4
  <2> QED
    BY <1>1, <1>2, <1>4, <2>1, <2>2
<1>6. TypeOK'
  BY <1>1, <1>5 DEF CrankInv, TypeOK, targetVars, State, Standings, Sound
<1>7. PlacesWithinPlan' /\ PlanFits'
  BY <1>1 DEF PlacesWithinPlan, PlanFits
<1>8. ~enabled' => CalcExact(market') = Zero
  BY <1>1, <1>5 DEF CrankInv, OffTheBook
<1> QED
  BY <1>5, <1>6, <1>7, <1>8, StandingKept

(* Clearing the book and settling what that frees. *)
LEMMA ClearFacts ==
  ASSUME CrankInv
  PROVE  LET cancelled == CancelBoth(market) IN
           /\ \A m \in {cancelled, Settle(cancelled)} :
                /\ m \in Standings /\ SlotsUsed(m) <= SlotsUsed(market)
                /\ CalcExact(market) = Zero => CalcExact(m) = Zero
           /\ Plus(vault, cancelled.free) \in Amount
<1> DEFINE cancelled == CancelBoth(market)
           settled == Settle(cancelled)
<1>1. /\ cancelled \in Standings /\ cancelled.free \in Amount
      /\ CalcExact(cancelled) = CalcExact(market) /\ SlotsUsed(cancelled) = SlotsUsed(market)
  BY ClearedFacts DEF CrankInv
<1> HIDE DEF cancelled
<1>2. /\ settled \in Standings /\ SlotsUsed(settled) = SlotsUsed(cancelled)
      /\ CalcExact(cancelled) = Zero => CalcExact(settled) = Zero
  BY <1>1, SettledFacts
<1>3. SlotsUsed(market) \in Nat
  BY SlotsAre DEF CrankInv, Standings, Side
<1>4. Plus(vault, cancelled.free) \in Amount
  BY <1>1, ArithmeticType DEF CrankInv, TypeOK
<1> HIDE DEF settled
<1>5. ASSUME NEW m \in {cancelled, settled}
      PROVE  /\ m \in Standings /\ SlotsUsed(m) <= SlotsUsed(market)
             /\ CalcExact(market) = Zero => CalcExact(m) = Zero
  <2>1. m \in Standings /\ SlotsUsed(m) = SlotsUsed(market)
    BY <1>1, <1>2
  <2>2. CalcExact(market) = Zero => CalcExact(m) = Zero
    BY <1>1, <1>2
  <2> QED
    BY <1>3, <2>1, <2>2
<1> QED
  BY <1>4, <1>5 DEF cancelled, settled

(* do_cancel_all_orders_state. *)
LEMMA CancelAllKeeps ==
  ASSUME CrankInv, CancelAllStep
  PROVE  CrankInv'
<1> DEFINE cancelled == CancelBoth(market)
<1>1. /\ market' \in {cancelled, Settle(cancelled)}
      /\ vault' \in {vault, Plus(vault, cancelled.free)}
      /\ resetFlag' = FALSE /\ state' = "Idle" /\ planned' = <<>> /\ placeCur' = 0
      /\ UNCHANGED <<enabled, orderNum, target, placed, valid, moves>>
  BY DEF CancelAllStep
<1>2. /\ market' \in Standings /\ SlotsUsed(market') <= SlotsUsed(market)
      /\ CalcExact(market) = Zero => CalcExact(market') = Zero
      /\ vault' \in Amount
  BY <1>1, ClearFacts DEF CrankInv, TypeOK
<1>3. <<>> \in Seq(LevelLocks) /\ Len(<<>>) = 0 /\ 0 \in 0 .. MaxOrderNum /\ 0 <= MaxOrderNum
  BY ConstantFacts
<1> HIDE DEF cancelled
<1>4. TypeOK'
  BY <1>1, <1>2, <1>3 DEF CrankInv, TypeOK, State, Standings, Sound
<1>5. PlacesWithinPlan' /\ PlanFits'
  BY <1>1 DEF PlacesWithinPlan, PlanFits
<1>6. ~enabled' => CalcExact(market') = Zero
  BY <1>1, <1>2 DEF CrankInv, OffTheBook
<1> QED
  BY <1>2, <1>4, <1>5, <1>6, StandingKept

LEMMA AdminCancelKeeps ==
  ASSUME CrankInv, AdminCancelOrders
  PROVE  CrankInv'
<1> DEFINE cancelled == CancelBoth(market)
<1>1. /\ market' \in {cancelled, Settle(cancelled)}
      /\ vault' \in {vault, Plus(vault, cancelled.free)}
      /\ moves < MaxMoves /\ moves' = moves + 1
      /\ UNCHANGED <<enabled, state, resetFlag, orderNum, targetVars>>
  BY DEF AdminCancelOrders
<1>2. /\ market' \in Standings /\ SlotsUsed(market') <= SlotsUsed(market)
      /\ CalcExact(market) = Zero => CalcExact(market') = Zero
      /\ vault' \in Amount
  BY <1>1, ClearFacts DEF CrankInv, TypeOK
<1> HIDE DEF cancelled
<1>3. moves' \in 0 .. MaxMoves
  BY <1>1, ConstantFacts DEF CrankInv, TypeOK
<1>4. ~enabled => CalcExact(market') = Zero
  BY <1>2 DEF CrankInv, OffTheBook
<1> QED
  BY <1>1, <1>2, <1>3, <1>4, OnlyStanding

(* process_set_params: the pool leaves the statuses with the order book    *)
(* only when it has nothing left on the market.                            *)
LEMMA SetParamsKeeps ==
  ASSUME CrankInv, SetParams
  PROVE  CrankInv'
<1> DEFINE cancelled == CancelBoth(market)
<1>1. /\ market' = Settle(cancelled)
      /\ vault' = Plus(vault, cancelled.free)
      /\ \/ StatusAllowed(market') /\ enabled' \in BOOLEAN /\ UNCHANGED orderNum
         \/ orderNum' \in 0 .. MaxOrderNum /\ UNCHANGED enabled
      /\ state' = "CancelAll" /\ resetFlag' = TRUE
      /\ moves < MaxMoves /\ moves' = moves + 1
      /\ UNCHANGED targetVars
  BY DEF SetParams
<1>2. /\ market' \in Standings /\ SlotsUsed(market') <= SlotsUsed(market)
      /\ CalcExact(market) = Zero => CalcExact(market') = Zero
      /\ vault' \in Amount
  BY <1>1, ClearFacts
<1> HIDE DEF cancelled
<1>3. moves' \in 0 .. MaxMoves
  BY <1>1, ConstantFacts DEF CrankInv, TypeOK
<1>4. TypeOK'
  BY <1>1, <1>2, <1>3 DEF CrankInv, TypeOK, targetVars, State, Standings, Sound
<1>5. PlacesWithinPlan' /\ PlanFits'
  BY <1>1 DEF PlacesWithinPlan, PlanFits
<1>6. ~enabled' => CalcExact(market') = Zero
  BY <1>1, <1>2 DEF CrankInv, OffTheBook, StatusAllowed
<1> QED
  BY <1>2, <1>4, <1>5, <1>6, StandingKept
(* process_swap_base_in pays from the vault, and where that is short from  *)
(* what the cancelled orders had locked.                                   *)
LEMMA SwapKeeps ==
  ASSUME CrankInv, NEW amount \in SwapAmounts, NEW src \in Side, Swap(amount, src)
  PROVE  CrankInv'
<1> DEFINE to == Other(src)
           total == IF enabled THEN Total ELSE Minus(vault, Owed)
           out == QuoteBaseIn(amount, total, src, SwapFee)
           paid == amount - SwapFeeIn(amount, SwapFee)
           cancelled == CancelAfter(market, to, 0)
           settles == enabled /\ out > vault[to]
           ready == IF settles THEN Plus(vault, cancelled.free) ELSE vault
<1>1. /\ AtMost(Zero, total) /\ total[src] + amount - SwapFeeIn(amount, SwapFee) # 0
      /\ out <= ready[to]
      /\ vault' = [ready EXCEPT ![src] = @ + amount, ![to] = @ - out]
      /\ market' = IF settles THEN Settle(cancelled) ELSE IF enabled THEN cancelled ELSE market
      /\ moves < MaxMoves /\ moves' = moves + 1
      /\ UNCHANGED <<enabled, state, resetFlag, orderNum, targetVars>>
  BY DEF Swap
<1>2. to \in Side /\ to # src /\ amount \in Nat /\ vault \in Amount /\ market \in Standings
  BY OtherSide, CrankAssumption DEF CrankInv, TypeOK
<1>3. /\ cancelled \in Standings /\ cancelled.free \in Amount
      /\ CalcExact(cancelled) = CalcExact(market) /\ SlotsUsed(cancelled) = SlotsUsed(market)
  <2> HIDE DEF to
  <2> QED
    BY <1>2, CancelledFacts
<1>4. ASSUME NEW s \in Side PROVE total[s] \in Nat
  <2>1. 0 <= total[s]
    BY <1>1 DEF AtMost, Zero
  <2>2. total[s] \in Int
    <3>1. /\ vault[s] \in Nat /\ Owed[s] \in Nat /\ CalcExact(market)[s] \in Nat
          /\ Total[s] = vault[s] + CalcExact(market)[s] - Owed[s]
      BY TotalFacts
    <3>2. Minus(vault, Owed)[s] = vault[s] - Owed[s]
      BY DEF Minus
    <3> QED
      BY <3>1, <3>2
  <2> HIDE DEF total
  <2> QED
    BY <2>1, <2>2
<1>5. out \in Nat
  <2> HIDE DEF total
  <2>1. total[src] \in Nat /\ total[to] \in Nat
    BY <1>2, <1>4
  <2>2. SwapFeeIn(amount, SwapFee) \in 0 .. amount
    BY <1>2, ConstantFacts, SwapFeeBelow
  <2>3. paid \in Nat /\ total[src] + paid \in Positive
    BY <1>1, <1>2, <2>1, <2>2 DEF Positive
  <2>4. total[to] * paid \in Nat
    <3> HIDE DEF paid, to
    <3> QED
      BY <2>1, <2>3
  <2> QED
    BY <2>3, <2>4, DivFloor DEF QuoteBaseIn, SwapTokenAmountBaseIn
<1>6. ready \in Amount
  <2> HIDE DEF cancelled
  <2>1. Plus(vault, cancelled.free) \in Amount
    BY <1>2, <1>3, ArithmeticType
  <2> QED
    BY <1>2, <2>1
<1>7. vault' \in Amount
  <2>1. out <= ready[to] /\ vault' = [ready EXCEPT ![src] = @ + amount, ![to] = @ - out]
    BY <1>1
  <2> HIDE DEF ready, out, to
  <2>2. ready[src] \in Nat /\ ready[to] \in Nat
    BY <1>2, <1>6 DEF Amount
  <2>3. ready[src] + amount \in Nat /\ ready[to] - out \in Nat
    BY <1>2, <1>5, <2>1, <2>2
  <2>4. vault' = [s \in Side |-> IF s = to THEN ready[to] - out
                                 ELSE IF s = src THEN ready[src] + amount ELSE ready[s]]
    BY <1>2, <1>6, <2>1 DEF Amount
  <2> QED
    BY <1>6, <2>3, <2>4 DEF Amount
<1>8. /\ market' \in Standings /\ SlotsUsed(market') <= SlotsUsed(market)
      /\ ~enabled => market' = market
  <2> HIDE DEF cancelled
  <2>1. Settle(cancelled) \in Standings /\ SlotsUsed(Settle(cancelled)) = SlotsUsed(market)
    BY <1>3, SettledFacts
  <2>2. SlotsUsed(market) \in Nat
    BY SlotsAre DEF CrankInv, Standings, Side
  <2>3. market' \in {Settle(cancelled), cancelled, market} /\ (~enabled => market' = market)
    BY <1>1
  <2>4. SlotsUsed(market') = SlotsUsed(market)
    BY <1>3, <2>1, <2>3
  <2> QED
    BY <1>2, <1>3, <2>1, <2>2, <2>3, <2>4
<1>9. moves' \in 0 .. MaxMoves
  BY <1>1, ConstantFacts DEF CrankInv, TypeOK
<1>10. ~enabled => CalcExact(market') = Zero
  BY <1>8 DEF CrankInv, OffTheBook
<1>11. UNCHANGED <<enabled, state, resetFlag, orderNum, targetVars>>
  BY <1>1
<1> QED
  BY <1>7, <1>8, <1>9, <1>10, <1>11, OnlyStanding

(* A trade leaves its event in the queue; there is an order to take only   *)
(* where the order book is on.                                             *)
LEMMA TakeOrderKeeps ==
  ASSUME CrankInv, TakeOrder
  PROVE  CrankInv'
<1>1. PICK s \in Side, got \in Gains :
        /\ Book[s] # <<>>
        /\ \E paid \in 1 .. Head(Book[s]).lock : market' = Take(market, s, paid, got)
  BY DEF TakeOrder
<1>2. PICK paid \in 1 .. Head(Book[s]).lock : market' = Take(market, s, paid, got)
  BY <1>1
<1>3. /\ moves < MaxMoves /\ moves' = moves + 1
      /\ UNCHANGED <<enabled, state, resetFlag, orderNum, vault, targetVars>>
  BY DEF TakeOrder
<1>4. /\ market \in Sound /\ Gainful(market.queue) /\ market.orders[s] # <<>>
      /\ got \in Nat \ {0} /\ got \in Nat
      /\ paid \in 1 .. Head(market.orders[s]).lock
  BY <1>1, CrankAssumption DEF CrankInv, Standings, Book
<1>5. paid \in Nat
  BY <1>4
<1>6. /\ Take(market, s, paid, got) \in Sound
      /\ SlotsUsed(Take(market, s, paid, got)) = SlotsUsed(market)
  BY <1>4, TakingIsSound
<1>7. Gainful(Take(market, s, paid, got).queue)
  BY <1>4, <1>5, TakingIsGainful
<1>8. market' \in Standings /\ SlotsUsed(market') <= SlotsUsed(market)
  <2>1. SlotsUsed(market) \in Nat
    BY SlotsAre DEF CrankInv, Standings, Side
  <2> QED
    BY <1>2, <1>6, <1>7, <2>1 DEF Standings
<1>9. enabled
  <2> SUFFICES ASSUME ~enabled PROVE FALSE
    BY DEF CrankInv, TypeOK
  <2>1. CalcExact(market) = Zero
    BY DEF CrankInv, OffTheBook
  <2>2. market.orders = NoOrders
    BY <1>4, <2>1, WorthlessIsEmpty
  <2> QED
    BY <1>4, <2>2 DEF NoOrders
<1>10. vault' \in Amount /\ moves' \in 0 .. MaxMoves
  BY <1>3, ConstantFacts DEF CrankInv, TypeOK
<1>11. UNCHANGED <<enabled, state, resetFlag, orderNum, targetVars>>
  BY <1>3
<1> QED
  BY <1>8, <1>9, <1>10, <1>11, OnlyStanding

LEMMA ConsumeEventsKeeps ==
  ASSUME CrankInv, ConsumeEvents
  PROVE  CrankInv'
<1>1. /\ market.queue # <<>> /\ market' = ConsumeHead(market)
      /\ UNCHANGED <<enabled, state, resetFlag, orderNum, vault, targetVars, moves>>
  BY DEF ConsumeEvents
<1>2. market \in Sound /\ Gainful(market.queue)
  BY DEF CrankInv, Standings
<1>3. /\ market' \in Standings /\ SlotsUsed(market') <= SlotsUsed(market)
      /\ CalcExact(market') = CalcExact(market)
  BY <1>1, <1>2, ConsumingIsSound, ConsumingIsGainful DEF Standings
<1>4. vault' \in Amount /\ moves' \in 0 .. MaxMoves /\ (~enabled => CalcExact(market') = Zero)
  BY <1>1, <1>3 DEF CrankInv, TypeOK, OffTheBook
<1>5. UNCHANGED <<enabled, state, resetFlag, orderNum, targetVars>>
  BY <1>1
<1> QED
  BY <1>3, <1>4, <1>5, OnlyStanding
(* do_plan_orderbook never plans beyond order_num, and what it hands over  *)
(* to do_place_orders is complete, with nothing placed yet.                *)
LEMMA PlanKeeps ==
  ASSUME CrankInv, enabled, orderNum # 0, NEW limit \in Limits, PlanStep(limit)
  PROVE  CrankInv'
<1> DEFINE first == planned = <<>>
           saved == IF first THEN Reserves ELSE target
           unlisted == [market EXCEPT !.orders =
                          [s \in Side |-> [i \in DOMAIN @[s] |-> [@[s][i] EXCEPT !.listed = FALSE]]]]
<1>1. /\ state = "Plan" /\ NotEmpty /\ target' = saved
      /\ valid' = IF first THEN Zero ELSE valid
      /\ UNCHANGED <<enabled, resetFlag, orderNum, vault, moves>>
  BY DEF PlanStep, ValidAtPlan
<1>2. /\ planned \in Seq(LevelLocks) /\ Len(planned) \in Nat /\ Len(planned) <= orderNum /\ orderNum \in Nat \ {0}
      /\ orderNum <= MaxOrderNum /\ MaxOrderNum \in Nat /\ limit \in Nat
  <2>1. planned \in Seq(LevelLocks) /\ Len(planned) <= orderNum /\ orderNum \in 0 .. MaxOrderNum
    BY <1>1 DEF CrankInv, TypeOK, PlanFits
  <2> QED
    BY <2>1, ConstantFacts, CrankAssumption, LenProperties
<1>3. valid' = Zero
  BY <1>1 DEF CrankInv, PlanFits
<1>4. target' \in Amount /\ valid' \in Amount
  BY <1>1, <1>3, TotalFacts, ConstantFacts DEF CrankInv, TypeOK
<1>5. CASE state' = "Idle" /\ UNCHANGED <<planned, placeCur, placed, market>>
  <2>1. TypeOK'
    BY <1>1, <1>4, <1>5 DEF CrankInv, TypeOK, State
  <2>2. PlacesWithinPlan' /\ PlanFits'
    BY <1>5 DEF PlacesWithinPlan, PlanFits
  <2>3. SlotsUsed(market') <= SlotsUsed(market)
    <3>1. SlotsUsed(market) \in Nat
      BY SlotsAre DEF CrankInv, Standings, Side
    <3> QED
      BY <1>5, <3>1
  <2>4. market' \in Standings /\ (~enabled' => CalcExact(market') = Zero)
    BY <1>1, <1>5 DEF CrankInv
  <2> QED
    BY <2>1, <2>2, <2>3, <2>4, StandingKept
<1>6. CASE \E levels \in [1 .. Levels(limit) -> LevelLocks] :
             /\ planned' = planned \o levels
             /\ IF Len(planned') = orderNum
                THEN /\ state' = "Place" /\ placeCur' = 0 /\ placed' = Zero /\ market' = unlisted
                ELSE UNCHANGED <<state, placeCur, placed, market>>
  <2> HIDE DEF unlisted
  <2>1. PICK levels \in [1 .. Levels(limit) -> LevelLocks] :
          /\ planned' = planned \o levels
          /\ IF Len(planned') = orderNum
             THEN /\ state' = "Place" /\ placeCur' = 0 /\ placed' = Zero /\ market' = unlisted
             ELSE UNCHANGED <<state, placeCur, placed, market>>
    BY <1>6
  <2>2. Levels(limit) \in Nat /\ Len(planned) + Levels(limit) <= orderNum
    BY <1>2 DEF Levels
  <2>3. levels \in Seq(LevelLocks) /\ Len(levels) = Levels(limit)
    <3>1. levels = [i \in 1 .. Levels(limit) |-> levels[i]] /\ \A i \in 1 .. Levels(limit) : levels[i] \in LevelLocks
      OBVIOUS
    <3>2. [i \in 1 .. Levels(limit) |-> levels[i]] \in Seq(LevelLocks)
      BY <2>2, <3>1, IsASeq
    <3> QED
      BY <2>2, <3>1, <3>2, LenProperties
  <2>4. planned' \in Seq(LevelLocks) /\ Len(planned') \in Nat /\ Len(planned') <= orderNum
    BY <1>2, <2>1, <2>2, <2>3, ConcatProperties
  <2>5. /\ unlisted \in Standings /\ SlotsUsed(unlisted) = SlotsUsed(market)
    BY UnlistingIsSound DEF CrankInv, Standings, unlisted
  <2>6. /\ market' \in Standings /\ SlotsUsed(market') = SlotsUsed(market)
        /\ placeCur' \in 0 .. MaxOrderNum /\ placed' \in Amount
        /\ state' \in State
    BY <1>2, <2>1, <2>5, ConstantFacts DEF CrankInv, TypeOK, State
  <2>7. TypeOK'
    <3>1. Len(planned') <= MaxOrderNum
      BY <1>2, <2>4
    <3> QED
      BY <1>1, <1>4, <2>4, <2>6, <3>1 DEF CrankInv, TypeOK, Standings, Sound
  <2>8. PlacesWithinPlan'
    <3>1. CASE Len(planned') = orderNum
      <4>1. placeCur' = 0 /\ orderNum' = orderNum
        BY <1>1, <2>1, <3>1
      <4>2. \A s \in Side : valid'[s] <= placeCur'
        BY <1>3, <4>1 DEF Zero
      <4> QED
        BY <1>2, <3>1, <4>1, <4>2 DEF PlacesWithinPlan
    <3>2. CASE Len(planned') # orderNum
      BY <1>1, <2>1, <3>2 DEF PlacesWithinPlan
    <3> QED
      BY <3>1, <3>2
  <2>9. PlanFits'
    BY <1>1, <1>3, <2>4 DEF PlanFits
  <2>10. SlotsUsed(market') <= SlotsUsed(market)
    <3>1. SlotsUsed(market) \in Nat
      BY SlotsAre DEF CrankInv, Standings, Side
    <3> QED
      BY <2>6, <3>1
  <2> QED
    BY <1>1, <2>6, <2>7, <2>8, <2>9, <2>10, StandingKept
<1> QED
  BY <1>5, <1>6 DEF PlanStep

(* A call of do_place_orders adds at most two orders a level, and looked   *)
(* at the slots before.                                                    *)
LEMMA RunRoundKeeps ==
  ASSUME CrankInv, enabled, state = "Place", ~TooManySlots, NotEmpty,
         NEW limit \in Limits, NEW meetings \in [1 .. orderNum -> Amount], NEW rising \in BOOLEAN,
         RunRound(limit, meetings, rising),
         UNCHANGED <<enabled, resetFlag, orderNum, planned, target>>, moves' \in 0 .. MaxMoves
  PROVE  CrankInv'
<1> DEFINE round == Round(limit, meetings, rising)
           done == round.outcome = "placing" /\ round.cur = orderNum
<1>1. /\ market' = round.market /\ vault' = round.vault /\ valid' = round.valid /\ placeCur' = round.cur
      /\ placed' = IF done THEN Reserves ELSE placed
      /\ state' = CASE round.outcome = "short" -> "CancelAll" [] done -> "Purge" [] OTHER -> "Place"
      /\ round.outcome \in {"placing", "short"}
  BY DEF RunRound, PlacedAfter
<1>2. TypeOK /\ market \in Standings /\ PlacesWithinPlan
  BY DEF CrankInv
<1>3. /\ round \in Rounds
      /\ SlotsUsed(round.market) <= SlotsUsed(market) + 2 * MaxOrderNum
      /\ round.cur \in placeCur .. orderNum
      /\ round.outcome = "placing" => \A t \in Side : round.valid[t] <= round.cur
  BY <1>2, RoundFacts
<1> HIDE DEF round
<1>4. round.market \in Standings /\ round.vault \in Amount /\ round.valid \in Amount
  BY <1>3 DEF Rounds
<1>5. /\ placeCur \in Nat /\ orderNum \in Nat /\ orderNum <= MaxOrderNum /\ MaxOrderNum \in Nat
      /\ SlotLimit \in Nat
  BY <1>2, ConstantFacts DEF TypeOK
<1>6. round.cur \in 0 .. MaxOrderNum /\ round.cur <= orderNum /\ round.cur \in Nat
  BY <1>3, <1>5
<1>7. placed' \in Amount /\ state' \in State /\ state' # "Plan"
  BY <1>1, <1>2, TotalFacts DEF TypeOK, State
<1>8. TypeOK'
  BY <1>1, <1>2, <1>4, <1>6, <1>7 DEF TypeOK, Standings, Sound
<1>9. SlotsBounded'
  <2>1. SlotsUsed(market) \in Nat /\ SlotsUsed(market') \in Nat
    BY <1>1, <1>2, <1>4, SlotsAre DEF Standings, Side
  <2>2. SlotsUsed(market) <= SlotLimit
    BY <1>5, <2>1 DEF TooManySlots
  <2> QED
    BY <1>1, <1>3, <1>5, <2>1, <2>2 DEF SlotsBounded
<1>10. PlacesWithinPlan'
  <2> SUFFICES ASSUME state' = "Place" PROVE PlacesWithinPlan'
    BY DEF PlacesWithinPlan
  <2>1. round.outcome = "placing" /\ round.cur # orderNum
    BY <1>1
  <2>2. Len(planned') = orderNum'
    BY <1>2 DEF PlacesWithinPlan
  <2>3. placeCur' < orderNum'
    BY <1>1, <1>5, <1>6, <2>1
  <2>4. \A s \in Side : valid'[s] <= placeCur'
    BY <1>1, <1>3, <2>1
  <2> QED
    BY <2>2, <2>3, <2>4 DEF PlacesWithinPlan
<1>11. PlanFits'
  BY <1>7 DEF PlanFits
<1>12. OffTheBook'
  BY DEF OffTheBook
<1> QED
  BY <1>1, <1>4, <1>8, <1>9, <1>10, <1>11, <1>12 DEF CrankInv

LEMMA PlaceKeeps ==
  ASSUME CrankInv, enabled, NEW limit \in Limits, PlaceStep(limit)
  PROVE  CrankInv'
<1>1. state = "Place" /\ UNCHANGED <<enabled, resetFlag, orderNum, planned, target>>
  BY DEF PlaceStep
<1>2. moves \in 0 .. MaxMoves /\ MaxMoves \in Nat
  BY ConstantFacts DEF CrankInv, TypeOK
<1>3. NoMeeting \in [1 .. orderNum -> Amount]
  BY ConstantFacts DEF NoMeeting
<1>4. CASE /\ state' \in {"CancelAll", "Idle"}
           /\ UNCHANGED <<market, vault, valid, placeCur, placed, moves>>
  <2>1. TypeOK'
    BY <1>1, <1>4 DEF CrankInv, TypeOK, State
  <2>2. PlacesWithinPlan' /\ PlanFits'
    BY <1>4 DEF PlacesWithinPlan, PlanFits
  <2>3. SlotsUsed(market') <= SlotsUsed(market)
    <3>1. SlotsUsed(market) \in Nat
      BY SlotsAre DEF CrankInv, Standings, Side
    <3> QED
      BY <1>4, <3>1
  <2>4. market' \in Standings /\ (~enabled' => CalcExact(market') = Zero)
    BY <1>1, <1>4 DEF CrankInv
  <2> QED
    BY <2>1, <2>2, <2>3, <2>4, StandingKept
<1>5. CASE /\ ~TooManySlots /\ NotEmpty
           /\ \E rising \in BOOLEAN : RunRound(limit, NoMeeting, rising)
           /\ UNCHANGED moves
  BY <1>1, <1>2, <1>3, <1>5, RunRoundKeeps
<1>6. CASE /\ ~TooManySlots /\ NotEmpty
           /\ moves < MaxMoves
           /\ moves' = moves + 1
           /\ \E i \in placeCur + 1 .. Upto(limit), s \in Side, got \in Gains :
                RunRound(limit, [NoMeeting EXCEPT ![i][s] = got], TRUE)
  <2> PICK i \in placeCur + 1 .. Upto(limit), s \in Side, got \in Gains :
        RunRound(limit, [NoMeeting EXCEPT ![i][s] = got], TRUE)
    BY <1>6
  <2> DEFINE meetings == [NoMeeting EXCEPT ![i][s] = got]
  <2>1. meetings \in [1 .. orderNum -> Amount]
    <3>1. got \in Nat
      BY CrankAssumption
    <3>2. [Zero EXCEPT ![s] = got] \in Amount
      BY <3>1, ConstantFacts DEF Amount
    <3>3. meetings = [j \in 1 .. orderNum |-> IF j = i THEN [Zero EXCEPT ![s] = got] ELSE Zero]
      BY DEF NoMeeting
    <3> QED
      BY <3>2, <3>3, ConstantFacts
  <2>2. moves' \in 0 .. MaxMoves
    BY <1>2, <1>6
  <2>3. RunRound(limit, meetings, TRUE) /\ TRUE \in BOOLEAN
    OBVIOUS
  <2> HIDE DEF meetings
  <2> QED
    BY <1>1, <1>6, <2>1, <2>2, <2>3, RunRoundKeeps
<1>7. \/ /\ state' \in {"CancelAll", "Idle"}
         /\ UNCHANGED <<market, vault, valid, placeCur, placed, moves>>
      \/ /\ ~TooManySlots /\ NotEmpty
         /\ \E rising \in BOOLEAN : RunRound(limit, NoMeeting, rising)
         /\ UNCHANGED moves
      \/ /\ ~TooManySlots /\ NotEmpty
         /\ moves < MaxMoves
         /\ moves' = moves + 1
         /\ \E i \in placeCur + 1 .. Upto(limit), s \in Side, got \in Gains :
              RunRound(limit, [NoMeeting EXCEPT ![i][s] = got], TRUE)
  BY DEF PlaceStep
<1> QED
  BY <1>4, <1>5, <1>6, <1>7
-----------------------------------------------------------------------------
LEMMA NextKeeps ==
  ASSUME CrankInv, [Next]_vars
  PROVE  CrankInv'
<1>1. CASE UNCHANGED vars
  <2>1. TypeOK'
    BY <1>1 DEF vars, targetVars, CrankInv, TypeOK
  <2>2. SlotsUsed(market') <= SlotsUsed(market)
    <3>1. SlotsUsed(market) \in Nat
      BY SlotsAre DEF CrankInv, Standings, Side
    <3> QED
      BY <1>1, <3>1 DEF vars
  <2>3. vault' \in Amount /\ moves' \in 0 .. MaxMoves
    BY <2>1 DEF TypeOK
  <2> QED
    BY <1>1, <2>2, <2>3, OnlyStanding DEF vars, CrankInv, OffTheBook
<1>2. CASE MonitorStep
  <2>1. CASE CancelAllStep
    BY <2>1, CancelAllKeeps
  <2>2. CASE orderNum # 0 /\ enabled /\ IdleStep
    BY <2>2, IdleKeeps
  <2>3. CASE orderNum # 0 /\ enabled /\ \E limit \in Limits : PlanStep(limit) \/ PlaceStep(limit)
    BY <2>3, PlanKeeps, PlaceKeeps
  <2>4. CASE orderNum # 0 /\ enabled /\ PurgeStep
    BY <2>4, PurgeKeeps
  <2> QED
    BY <1>2, <2>1, <2>2, <2>3, <2>4 DEF MonitorStep
<1>3. CASE \E amount \in SwapAmounts, src \in Side : Swap(amount, src)
  BY <1>3, SwapKeeps
<1>4. CASE SetParams
  BY <1>4, SetParamsKeeps
<1>5. CASE AdminCancelOrders
  BY <1>5, AdminCancelKeeps
<1>6. CASE TakeOrder
  BY <1>6, TakeOrderKeeps
<1>7. CASE ConsumeEvents
  BY <1>7, ConsumeEventsKeeps
<1> QED
  BY <1>1, <1>2, <1>3, <1>4, <1>5, <1>6, <1>7 DEF Next

LEMMA CrankInvariant == Spec => []CrankInv
BY InitKeeps, NextKeeps, PTL DEF Spec

-----------------------------------------------------------------------------
(* The theorems. *)

(* Every field keeps its type: no step of the crank, no swap and no trade  *)
(* takes more from a vault or from the open orders account than is there.  *)
THEOREM TypeCorrect == Spec => []TypeOK
<1>1. CrankInv => TypeOK
  BY DEF CrankInv
<1> QED
  BY <1>1, CrankInvariant, PTL

(* calc_exact_vault_in_serum misses no trade of the event queue and counts *)
(* none twice, however many are waiting and in whatever order orders are   *)
(* placed, taken, cancelled, settled and their events consumed: the total  *)
(* is what the pool owns, less the profit it owes.                         *)
THEOREM TotalsAreExact == Spec => []ExactTotals
<1>1. ASSUME CrankInv PROVE ExactTotals
  <2>1. ASSUME NEW s \in Side
        PROVE  SumFunction([i \in DOMAIN market.queue |->
                              IF market.queue[i].maker /\ market.queue[i].side # s THEN market.queue[i].got ELSE 0])
                 = Unseen(market.queue, s)
    <3>1. market.queue \in Seq(Event)
      BY <1>1, TotalFacts, Parts
    <3>2. \A i \in DOMAIN market.queue : market.queue[i] \in Event
      BY <3>1, ElementOfSeq, LenProperties
    <3>3. \A i \in DOMAIN market.queue :
            GotOf(s)[market.queue[i]]
              = IF market.queue[i].maker /\ market.queue[i].side # s THEN market.queue[i].got ELSE 0
      BY <3>2 DEF GotOf
    <3>4. [i \in DOMAIN market.queue |-> GotOf(s)[market.queue[i]]]
            = [i \in DOMAIN market.queue |->
                 IF market.queue[i].maker /\ market.queue[i].side # s THEN market.queue[i].got ELSE 0]
      BY <3>3
    <3> QED
      BY <3>4 DEF Unseen, Weight
  <2>2. ASSUME NEW s \in Side
        PROVE  Plus(Total, Owed)[s]
                 = vault[s] + market.free[s] + Locked(Book[s]) + Unseen(market.queue, s)
    <3>1. Plus(Total, Owed)[s] = Total[s] + Owed[s]
      BY DEF Plus
    <3>2. /\ vault[s] \in Nat /\ Owed[s] \in Nat /\ CalcExact(market)[s] \in Nat
          /\ Total[s] = vault[s] + CalcExact(market)[s] - Owed[s]
          /\ market \in Sound
      BY <1>1, TotalFacts
    <3>3. /\ CalcExact(market)[s] = market.free[s] + Locked(Book[s]) + Unseen(market.queue, s)
          /\ market.free[s] \in Nat /\ Locked(Book[s]) \in Nat /\ Unseen(market.queue, s) \in Nat
      BY <3>2, ExactIsOwned, Parts DEF Book
    <3> QED
      BY <3>1, <3>2, <3>3
  <2>3. Plus(Total, Owed) = [s \in Side |-> Plus(Total, Owed)[s]]
    BY DEF Plus
  <2>4. Holdings = [s \in Side |-> vault[s] + market.free[s] + Locked(Book[s]) + Unseen(market.queue, s)]
    BY <2>1 DEF Holdings, SumBy
  <2> QED
    BY <2>2, <2>3, <2>4 DEF ExactTotals
<1> QED
  BY <1>1, CrankInvariant, PTL

(* The open orders account always has a slot for the next order, however   *)
(* slowly the events of cancelled orders are consumed: SlotLimit is 100    *)
(* and MaxOrderNum at most 10 in the code, and the account has 128 slots.  *)
THEOREM SlotsSuffice == Spec => []SlotsBounded
<1>1. CrankInv => SlotsBounded
  BY DEF CrankInv
<1> QED
  BY <1>1, CrankInvariant, PTL

(* The statuses without an order book are reached only with nothing left   *)
(* on the market, and nothing comes back while they last.                  *)
THEOREM MarketIsLeftEmpty == Spec => []NothingLeftBehind
<1>1. ASSUME CrankInv PROVE NothingLeftBehind
  <2> SUFFICES ASSUME ~enabled
               PROVE  market.total = Zero /\ Book = NoOrders /\ CalcExact(market) = Zero
    BY DEF NothingLeftBehind
  <2>1. CalcExact(market) = Zero
    BY <1>1 DEF CrankInv, OffTheBook
  <2>2. market \in Sound /\ Gainful(market.queue)
    BY <1>1 DEF CrankInv, Standings
  <2> QED
    BY <2>1, <2>2, WorthlessIsEmpty DEF Book
<1> QED
  BY <1>1, CrankInvariant, PTL

(* do_place_orders never reads a level beyond the plan, nor counts more    *)
(* orders than levels, although order_num is set in between.               *)
THEOREM PlacingFollowsPlan == Spec => []PlacesWithinPlan
<1>1. CrankInv => PlacesWithinPlan
  BY DEF CrankInv
<1> QED
  BY <1>1, CrankInvariant, PTL

(* A bid that passes the check of the reloaded pc is one that the market   *)
(* can take from the pc vault.  (It is not so for asks.)                   *)
THEOREM BidsFindFunds == Spec => []BidsAreFunded
<1>1. ASSUME CrankInv PROVE BidsAreFunded
  <2> SUFFICES ASSUME state = "Place", NEW limit \in Limits, NEW rising \in BOOLEAN,
                      Round(limit, NoMeeting, rising).outcome = "unfunded"
               PROVE  Round(limit, NoMeeting, rising).short # "pc"
    BY DEF BidsAreFunded, ChecksFunds
  <2>1. NoMeeting \in [1 .. orderNum -> Amount]
    BY ConstantFacts DEF NoMeeting
  <2>2. Round(limit, NoMeeting, rising).short = "coin"
    BY <1>1, <2>1, RoundFacts DEF CrankInv
  <2> QED
    BY <2>2
<1> QED
  BY <1>1, CrankInvariant, PTL
=============================================================================
