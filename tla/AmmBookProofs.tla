---------------------------- MODULE AmmBookProofs ----------------------------
(***************************************************************************)
(* Theorems about AmmBook, for every vault, fee, price and size, for any   *)
(* number of orders on the book, of events that nobody has consumed and of *)
(* moves.                                                                  *)
(***************************************************************************)
EXTENDS AmmBook, MarketLemmas

(* What the proofs use of the constants. *)
LEMMA ConstantFacts ==
  /\ Unit \in [Side -> Positive] /\ Unit["coin"] \in Nat
  /\ SysChoices \subseteq Positive
  /\ PnlShare \in Fraction /\ SwapFee \in Fraction
  /\ Zero \in Amount
<1>1. Unit \in [Side -> Positive]
  BY BookAssumption DEF Positive
<1>2. "coin" \in Side
  BY DEF Side
<1>3. Unit["coin"] \in Positive /\ Unit["coin"] \in Nat
  BY <1>1, <1>2 DEF Positive
<1>4. ASSUME NEW value \in SysChoices PROVE value \in Positive
  <2>1. value \in Nat /\ Unit["coin"] <= value
    BY <1>2, BookAssumption
  <2> QED
    BY <1>3, <2>1 DEF Positive
<1> QED
  BY <1>1, <1>3, <1>4, BookAssumption DEF Zero, Amount

-----------------------------------------------------------------------------
(* The inductive invariant.  The standing is sound: the open orders        *)
(* account's totals cover what is free, what orders lock and what trades   *)
(* that nobody has consumed have taken.  Without the order book the pool   *)
(* owns nothing on the market, which is why the handlers may then count    *)
(* the vaults alone.                                                       *)
OffTheBook == ~OrderBookOn => CalcExact(market) = Zero

BookInv == TypeOK /\ market \in Sound /\ OffTheBook

(* The reserves count the market in every status. *)
LEMMA TotalFacts ==
  ASSUME BookInv
  PROVE  /\ \A s \in Side :
              /\ vault[s] \in Nat /\ needTakePnl[s] \in Nat /\ CalcExact(market)[s] \in Nat
              /\ Total[s] = vault[s] + CalcExact(market)[s] - needTakePnl[s]
         /\ AtMost(Zero, Total) => Total \in Amount /\ Normalized \in Amount
<1>1. \A s \in Side : vault[s] \in Nat /\ needTakePnl[s] \in Nat /\ CalcExact(market)[s] \in Nat
  BY ExactIsOwned DEF BookInv, TypeOK, Amount
<1>2. ASSUME NEW s \in Side
      PROVE  Total[s] = vault[s] + CalcExact(market)[s] - needTakePnl[s]
  <2>1. CASE OrderBookOn
    <3>1. Total[s] = Plus(vault, CalcExact(market))[s] - needTakePnl[s]
      BY <2>1 DEF Total, Minus
    <3>2. Plus(vault, CalcExact(market))[s] = vault[s] + CalcExact(market)[s]
      BY DEF Plus
    <3> QED
      BY <1>1, <3>1, <3>2
  <2>2. CASE ~OrderBookOn
    <3>1. CalcExact(market)[s] = 0
      BY <2>2 DEF BookInv, OffTheBook, Zero
    <3>2. Total[s] = vault[s] - needTakePnl[s]
      BY <2>2 DEF Total, Minus
    <3> QED
      BY <1>1, <3>1, <3>2
  <2> QED
    BY <2>1, <2>2
<1>3. ASSUME AtMost(Zero, Total) PROVE Total \in Amount /\ Normalized \in Amount
  <2>2. ASSUME NEW s \in Side PROVE Total[s] \in Nat
    <3>1. 0 <= Total[s]
      BY <1>3 DEF AtMost, Zero
    <3>2. Total[s] = vault[s] + CalcExact(market)[s] - needTakePnl[s]
      BY <1>2
    <3> QED
      BY <1>1, <3>1, <3>2
  <2>3. Total = [s \in Side |-> Total[s]]
    BY DEF Total, Minus
  <2>4. Total \in Amount
    BY <2>2, <2>3 DEF Amount
  <2>5. sys \in Positive
    BY ConstantFacts DEF BookInv, TypeOK
  <2> QED
    BY <2>4, <2>5, ConstantFacts, NormalizeType DEF Normalized
<1> QED
  BY <1>1, <1>2, <1>3

(* What calc_take_pnl returns leaves the reserves and the baseline natural. *)
LEMMA TakenFacts ==
  ASSUME BookInv, NEW taken \in CalcTakePnl
  PROVE  /\ Total \in Amount /\ Normalized \in Amount
         /\ taken.pnl \in Amount /\ AtMost(taken.pnl, Total)
         /\ taken.delta \in Amount /\ AtMost(taken.delta, Normalized)
<1>1. AtMost(Zero, Total) /\ taken \in TakeOutcomes(Total, calcPnl, PnlShare, Unit, sys)
  BY DEF CalcTakePnl
<1>2. Total \in Amount /\ Normalized \in Amount
  BY <1>1, TotalFacts
<1>3. PICK x2 \in 0 .. Normalized["pc"] :
        /\ \A s \in Side : Normalized[s] # 0
        /\ taken.pnl = TakePnl(Normalized, x2, PnlShare, Unit, sys)
        /\ taken.delta = TakeDelta(Normalized, x2, PnlShare, Unit, sys)
        /\ AtMost(taken.pnl, Total)
  BY <1>1 DEF TakeOutcomes, Normalized
<1>4. sys \in Positive
  BY ConstantFacts DEF BookInv, TypeOK
<1> QED
  BY <1>2, <1>3, <1>4, ConstantFacts, PnlBounds DEF Normalized

(* Cancelling all orders and settling leaves on the market only what       *)
(* trades owe the pool that nobody has consumed.                           *)
LEMMA ClearedFacts ==
  ASSUME BookInv
  PROVE  /\ Cleared \in Sound
         /\ CalcExact(Cleared) \in Amount
         /\ Settled(CancelBoth(market)) \in Amount
         /\ \A s \in Side :
              /\ CalcExact(Cleared)[s] = Unseen(market.queue, s)
              /\ Settled(CancelBoth(market))[s] = vault[s] + market.free[s] + Locked(market.orders[s])
              /\ vault[s] <= Settled(CancelBoth(market))[s]
         /\ CalcExact(market) = Zero => CalcExact(Cleared) = Zero
<1> DEFINE both == CancelBoth(market)
<1>1. market \in Sound /\ \A s \in Side : vault[s] \in Nat
  BY DEF BookInv, TypeOK, Amount
<1>2. /\ both \in Sound /\ CalcExact(both) = CalcExact(market)
      /\ \A s \in Side : both.free[s] = market.free[s] + Locked(market.orders[s])
  BY <1>1, CancelBothUnlocks
<1>3. /\ Cleared \in Sound
      /\ \A s \in Side : CalcExact(Cleared)[s] = CalcExact(market)[s] - both.free[s]
  BY <1>2, SettleTakesFree DEF Cleared
<1>4. \A s \in Side :
        /\ CalcExact(market)[s] = market.free[s] + Locked(market.orders[s]) + Unseen(market.queue, s)
        /\ market.free[s] \in Nat /\ Locked(market.orders[s]) \in Nat /\ Unseen(market.queue, s) \in Nat
  BY <1>1, ExactIsOwned, Parts
<1>5. ASSUME NEW s \in Side PROVE CalcExact(Cleared)[s] = Unseen(market.queue, s)
  <2>1. CalcExact(Cleared)[s] = CalcExact(market)[s] - (market.free[s] + Locked(market.orders[s]))
    BY <1>2, <1>3
  <2> QED
    BY <1>4, <2>1
<1>6. ASSUME NEW s \in Side
      PROVE  /\ Settled(both)[s] = vault[s] + market.free[s] + Locked(market.orders[s])
             /\ Settled(both)[s] \in Nat /\ vault[s] <= Settled(both)[s]
  <2>1. Settled(both)[s] = vault[s] + (market.free[s] + Locked(market.orders[s]))
    BY <1>2 DEF Settled, Plus
  <2> QED
    BY <1>1, <1>4, <2>1
<1>7. Settled(both) \in Amount
  <2>1. Settled(both) = [s \in Side |-> Settled(both)[s]]
    BY DEF Settled, Plus
  <2> QED
    BY <1>6, <2>1 DEF Amount
<1>8. CalcExact(Cleared) \in Amount
  <2>1. CalcExact(Cleared) = [s \in Side |-> CalcExact(Cleared)[s]]
    BY DEF CalcExact
  <2> QED
    BY <1>4, <1>5, <2>1 DEF Amount
<1>9. ASSUME CalcExact(market) = Zero PROVE CalcExact(Cleared) = Zero
  <2>2. ASSUME NEW s \in Side PROVE CalcExact(Cleared)[s] = 0
    <3>1. CalcExact(market)[s] = 0
      BY <1>9 DEF Zero
    <3> QED
      BY <1>4, <1>5, <3>1
  <2>3. CalcExact(Cleared) = [s \in Side |-> CalcExact(Cleared)[s]]
    BY DEF CalcExact
  <2> QED
    BY <2>2, <2>3 DEF Zero
<1> QED
  BY <1>3, <1>5, <1>6, <1>7, <1>8, <1>9

(* Without a trade pending nothing is owed to the pool.                    *)
LEMMA NothingUnseen ==
  ASSUME BookInv, NoTradePending, NEW s \in Side
  PROVE  Unseen(market.queue, s) = 0
<1>1. market.queue \in Seq(Event) /\ GotOf(s) \in [Event -> Int]
  BY Parts, WeightTypes DEF BookInv
<1>2. ASSUME NEW i \in 1 .. Len(market.queue) PROVE GotOf(s)[market.queue[i]] = 0
  <2>1. market.queue[i] \in Event
    BY <1>1, ElementOfSeq
  <2>2. ~market.queue[i].maker
    BY <1>1, LenProperties DEF NoTradePending
  <2> QED
    BY <2>1, <2>2 DEF GotOf
<1>3. Weight(GotOf(s), market.queue) = 0 * Len(market.queue)
  BY <1>1, <1>2, WeightConstant
<1> QED
  BY <1>1, <1>3, LenProperties DEF Unseen

-----------------------------------------------------------------------------
(* Every step keeps the invariant, one lemma for each. *)

LEMMA InitKeeps == Init => BookInv
<1> SUFFICES ASSUME Init PROVE BookInv
  OBVIOUS
<1>1. sys \in SysChoices /\ sys \in Positive
  BY ConstantFacts DEF Init
<1>2. Normalize(InitVault, Unit, sys) \in Amount
  BY <1>1, BookAssumption, ConstantFacts, NormalizeType
<1>3. status \in ValidStatus /\ OrderBookOn
  BY DEF Init, OrderBookOn, OrderbookPermission, ValidStatus, WithdrawPermission, DepositPermission
<1>4. InitLp \in Nat /\ 0 \in 0 .. MaxMoves
  BY BookAssumption
<1>5. NoStanding \in Standing /\ NoStanding \in Sound
  BY NoStandingIsSound DEF Sound
<1>6. TypeOK
  BY <1>1, <1>2, <1>3, <1>4, <1>5, BookAssumption, ConstantFacts DEF Init, TypeOK
<1> QED
  BY <1>3, <1>5, <1>6 DEF Init, BookInv, OffTheBook

(* What leaves the status and the standing alone keeps what concerns them. *)
LEMMA SameStanding ==
  ASSUME BookInv, UNCHANGED <<status, market>>, TypeOK'
  PROVE  BookInv'
BY DEF BookInv, OffTheBook, OrderBookOn

LEMMA DepositKeeps ==
  ASSUME BookInv, NEW base \in Side, NEW amount \in Nat, Deposit(base, amount), moves' \in 0 .. MaxMoves
  PROVE  BookInv'
<1> PICK taken \in CalcTakePnl :
       LET total  == Minus(Total, taken.pnl)
           deduct == DepositDeduct(base, amount, total)
           mint   == DepositMint(base, amount, total, lpAmount)
       IN /\ total[base] # 0
          /\ vault' = Plus(vault, deduct)
          /\ lpAmount' = lpAmount + mint
          /\ needTakePnl' = Plus(needTakePnl, taken.pnl)
          /\ calcPnl' = Minus(Plus(Normalized, Normalize(deduct, Unit, sys)), taken.delta)
  BY DEF Deposit
<1> DEFINE total  == Minus(Total, taken.pnl)
           deduct == DepositDeduct(base, amount, total)
           mint   == DepositMint(base, amount, total, lpAmount)
           added  == Normalize(deduct, Unit, sys)
<1>1. /\ Total \in Amount /\ Normalized \in Amount
      /\ taken.pnl \in Amount /\ AtMost(taken.pnl, Total)
      /\ taken.delta \in Amount /\ AtMost(taken.delta, Normalized)
  BY TakenFacts
<1>2. total \in Amount /\ total[base] # 0
  BY <1>1, ArithmeticType
<1>3. lpAmount \in Nat /\ vault \in Amount /\ needTakePnl \in Amount /\ sys \in Positive
  BY ConstantFacts DEF BookInv, TypeOK
<1>4. deduct \in Amount /\ mint \in Nat
  <2> HIDE DEF total
  <2> QED
    BY <1>2, <1>3, DepositType
<1>5. added \in Amount
  <2> HIDE DEF deduct
  <2> QED
    BY <1>3, <1>4, ConstantFacts, NormalizeType
<1>6. Minus(Plus(Normalized, added), taken.delta) \in Amount
  <2> HIDE DEF added
  <2>1. Plus(Normalized, added) \in Amount /\ AtMost(taken.delta, Plus(Normalized, added))
    <3>1. Plus(Normalized, added) \in Amount
      BY <1>1, <1>5, ArithmeticType
    <3>2. ASSUME NEW s \in Side PROVE taken.delta[s] <= Plus(Normalized, added)[s]
      <4>1. Normalized[s] \in Nat /\ added[s] \in Nat /\ taken.delta[s] \in Nat /\ taken.delta[s] <= Normalized[s]
        BY <1>1, <1>5 DEF Amount, AtMost
      <4>2. Plus(Normalized, added)[s] = Normalized[s] + added[s]
        BY DEF Plus
      <4> QED
        BY <4>1, <4>2
    <3> QED
      BY <3>1, <3>2 DEF AtMost
  <2> QED
    BY <1>1, <2>1, ArithmeticType
<1>7. vault' \in Amount /\ needTakePnl' \in Amount /\ lpAmount' \in Nat /\ calcPnl' \in Amount
  <2>1. Plus(vault, deduct) \in Amount /\ Plus(needTakePnl, taken.pnl) \in Amount
    <3> HIDE DEF deduct
    <3> QED
      BY <1>1, <1>3, <1>4, ArithmeticType
  <2>2. lpAmount + mint \in Nat
    BY <1>3, <1>4
  <2> QED
    BY <1>6, <2>1, <2>2
<1>8. UNCHANGED <<status, market, sys, pnlPaid, stranded>>
  BY DEF Deposit
<1>9. TypeOK'
  BY <1>7, <1>8 DEF BookInv, TypeOK
<1> QED
  BY <1>8, <1>9, SameStanding

(* A book that is cleared in a status without it stays cleared. *)
LEMMA ClearingKeeps ==
  ASSUME BookInv, UNCHANGED status, market' = Cleared, TypeOK'
  PROVE  BookInv'
<1>1. Cleared \in Sound /\ (CalcExact(market) = Zero => CalcExact(Cleared) = Zero)
  BY ClearedFacts
<1> QED
  BY <1>1 DEF BookInv, OffTheBook, OrderBookOn

LEMMA WithdrawKeeps ==
  ASSUME BookInv, NEW lp \in Nat, Withdraw(lp), moves' \in 0 .. MaxMoves
  PROVE  BookInv'
<1> PICK taken \in IF status = "WithdrawOnly" THEN {NoSkim} ELSE CalcTakePnl :
       LET out  == WithdrawOut(lp, Minus(Total, taken.pnl), lpAmount)
           next == Minus(Minus(Normalized, Normalize(out, Unit, sys)), taken.delta)
       IN /\ PayableWhen(out)
          /\ AtMost(Zero, next)
          /\ vault' = Minus(IF OrderBookOn THEN Settled(CancelBoth(market)) ELSE vault, out)
          /\ market' = IF OrderBookOn THEN Cleared ELSE market
          /\ lpAmount' = lpAmount - lp
          /\ needTakePnl' = Plus(needTakePnl, taken.pnl)
          /\ calcPnl' = next
  BY DEF Withdraw
<1> DEFINE total == Minus(Total, taken.pnl)
           out  == WithdrawOut(lp, total, lpAmount)
           less == Normalize(out, Unit, sys)
           next == Minus(Minus(Normalized, less), taken.delta)
           full == IF OrderBookOn THEN Settled(CancelBoth(market)) ELSE vault
<1>1. /\ lp < lpAmount /\ AtMost(Zero, Total)
      /\ UNCHANGED <<status, sys, pnlPaid, stranded>>
  BY DEF Withdraw
<1>2. /\ lpAmount \in Nat /\ vault \in Amount /\ needTakePnl \in Amount /\ sys \in Positive
      /\ market \in Standing
  BY ConstantFacts DEF BookInv, TypeOK
<1>3. Total \in Amount /\ Normalized \in Amount
  BY <1>1, TotalFacts
<1>4. taken.pnl \in Amount /\ AtMost(taken.pnl, Total) /\ taken.delta \in Amount
  <2>1. CASE status = "WithdrawOnly"
    <3>1. taken.pnl = Zero /\ taken.delta = Zero
      BY <2>1 DEF NoSkim
    <3> QED
      BY <1>1, <3>1, ConstantFacts
  <2>2. CASE status # "WithdrawOnly"
    BY <2>2, TakenFacts
  <2> QED
    BY <2>1, <2>2
<1>5. total \in Amount
  BY <1>3, <1>4, ArithmeticType
<1>6. out \in Amount
  <2> HIDE DEF total
  <2>1. [num |-> lp, den |-> lpAmount] \in Fraction
    BY <1>1, <1>2 DEF Fraction, ValidFraction
  <2>2. \A s \in Side : (total[s] * lp) \div lpAmount \in Nat
    BY <1>5, <2>1, FractionBelow DEF Amount
  <2> QED
    BY <2>2 DEF WithdrawOut, ExchangePoolToToken, Amount
<1>7. next \in Amount
  <2> HIDE DEF out
  <2>1. less \in Amount
    BY <1>2, <1>6, ConstantFacts, NormalizeType
  <2> HIDE DEF less
  <2>2. ASSUME NEW s \in Side PROVE next[s] \in Nat
    <3>1. Normalized[s] \in Nat /\ less[s] \in Nat /\ taken.delta[s] \in Nat
      BY <1>3, <1>4, <2>1 DEF Amount
    <3>2. next[s] = Normalized[s] - less[s] - taken.delta[s]
      BY DEF Minus
    <3>3. 0 <= next[s]
      BY DEF AtMost, Zero, less, out
    <3> QED
      BY <3>1, <3>2, <3>3
  <2>3. next = [s \in Side |-> next[s]]
    BY DEF Minus
  <2> HIDE DEF next
  <2> QED
    BY <2>2, <2>3 DEF Amount
<1>8. /\ full \in Amount /\ \A s \in Side : vault[s] <= full[s]
  <2>1. CASE OrderBookOn
    BY <2>1, ClearedFacts
  <2>2. CASE ~OrderBookOn
    BY <1>2, <2>2 DEF Amount
  <2> QED
    BY <2>1, <2>2
<1>9. Minus(full, out) \in Amount
  <2> HIDE DEF full, out
  <2>1. ASSUME NEW s \in Side PROVE out[s] <= full[s]
    <3>1. out[s] < vault[s] /\ vault[s] <= full[s]
      BY <1>8 DEF PayableWhen, out
    <3> QED
      BY <1>2, <1>6, <1>8, <3>1 DEF Amount
  <2>2. AtMost(out, full)
    BY <2>1 DEF AtMost
  <2> QED
    BY <1>6, <1>8, <2>2, ArithmeticType
<1>10. Plus(needTakePnl, taken.pnl) \in Amount /\ lpAmount - lp \in Nat
  BY <1>1, <1>2, <1>4, ArithmeticType
<1>11. market' \in Standing
  BY <1>2, ClearedFacts DEF Sound
<1>12. vault' = Minus(full, out) /\ calcPnl' = next
  OBVIOUS
<1>13. TypeOK'
  <2> HIDE DEF full, out, next
  <2> QED
    BY <1>1, <1>7, <1>9, <1>10, <1>11, <1>12 DEF BookInv, TypeOK
<1> QED
  BY <1>1, <1>13, ClearingKeeps, SameStanding

LEMMA WithdrawPnlKeeps ==
  ASSUME BookInv, WithdrawPnl, moves' \in 0 .. MaxMoves
  PROVE  BookInv'
<1> PICK taken \in CalcTakePnl :
       LET owed == Plus(needTakePnl, taken.pnl) IN
         /\ AtMost(owed, vault)
         /\ vault' = Minus(vault, owed)
         /\ pnlPaid' = Plus(pnlPaid, owed)
         /\ needTakePnl' = Zero
         /\ calcPnl' = Minus(Normalized, taken.delta)
  BY DEF WithdrawPnl
<1> DEFINE owed == Plus(needTakePnl, taken.pnl)
<1>1. /\ Normalized \in Amount /\ taken.pnl \in Amount
      /\ taken.delta \in Amount /\ AtMost(taken.delta, Normalized)
  BY TakenFacts
<1>2. vault \in Amount /\ needTakePnl \in Amount /\ pnlPaid \in Amount
  BY DEF BookInv, TypeOK
<1>3. owed \in Amount
  BY <1>1, <1>2, ArithmeticType
<1>4. vault' \in Amount /\ pnlPaid' \in Amount /\ calcPnl' \in Amount /\ needTakePnl' \in Amount
  <2>1. AtMost(owed, vault) /\ vault' = Minus(vault, owed) /\ pnlPaid' = Plus(pnlPaid, owed)
    OBVIOUS
  <2> HIDE DEF owed
  <2>2. Minus(vault, owed) \in Amount /\ Plus(pnlPaid, owed) \in Amount
    BY <1>2, <1>3, <2>1, ArithmeticType
  <2>3. Minus(Normalized, taken.delta) \in Amount
    BY <1>1, ArithmeticType
  <2> QED
    BY <2>1, <2>2, <2>3, ConstantFacts
<1>5. UNCHANGED <<status, market, lpAmount, sys, stranded>>
  BY DEF WithdrawPnl
<1>6. TypeOK'
  BY <1>4, <1>5 DEF BookInv, TypeOK
<1> QED
  BY <1>5, <1>6, SameStanding

-----------------------------------------------------------------------------
(* A swap cancels the orders of the side it pays, if any, and settles if   *)
(* it has to.                                                              *)
LEMMA ReadyFacts ==
  ASSUME BookInv, NEW s \in Side, NEW out
  PROVE  LET c == CancelledFor(s)
             after == IF NeedsSettling(out, s) THEN Settle(c) ELSE c
         IN /\ after \in Sound
            /\ ReadyFor(out, s) \in Amount
            /\ ~OrderBookOn => after = market
            /\ NeedsSettling(out, s) =>
                 ReadyFor(out, s)[s] = vault[s] + market.free[s] + Locked(market.orders[s])
            /\ ~NeedsSettling(out, s) => ReadyFor(out, s) = vault
<1> DEFINE c == CancelledFor(s)
           after == IF NeedsSettling(out, s) THEN Settle(c) ELSE c
<1>1. market \in Sound /\ vault \in Amount
  BY DEF BookInv, TypeOK
<1>2. c \in Sound /\ (OrderBookOn => c.free[s] = market.free[s] + Locked(market.orders[s]))
  <2>1. CASE OrderBookOn
    <3>1. c = CancelAfter(market, s, 0)
      BY <2>1 DEF CancelledFor
    <3>2. OnlyUnlocks(market, c, s) /\ c.free[s] = market.free[s] + Locked(market.orders[s])
      BY <1>1, <3>1, CancelAfterUnlocks
    <3> QED
      BY <3>2 DEF OnlyUnlocks
  <2>2. CASE ~OrderBookOn
    BY <1>1, <2>2 DEF CancelledFor
  <2> QED
    BY <2>1, <2>2
<1> HIDE DEF c
<1>3. after \in Sound
  <2>1. Settle(c) \in Sound
    BY <1>2, SettleTakesFree
  <2> QED
    BY <1>2, <2>1
<1>4. Settled(c) \in Amount /\ \A r \in Side : Settled(c)[r] = vault[r] + c.free[r]
  <2>1. c.free \in Amount
    BY <1>2 DEF Sound, Standing
  <2> QED
    BY <1>1, <2>1, ArithmeticType DEF Settled, Plus
<1>5. ReadyFor(out, s) = IF NeedsSettling(out, s) THEN Settled(c) ELSE vault
  BY DEF ReadyFor, c
<1>6. ~OrderBookOn => after = market
  BY DEF NeedsSettling, CancelledFor, c
<1>7. ASSUME NeedsSettling(out, s)
      PROVE  ReadyFor(out, s)[s] = vault[s] + market.free[s] + Locked(market.orders[s])
  <2>1. ReadyFor(out, s)[s] = vault[s] + (market.free[s] + Locked(market.orders[s]))
    BY <1>2, <1>4, <1>5, <1>7 DEF NeedsSettling
  <2>2. vault[s] \in Nat /\ market.free[s] \in Nat /\ Locked(market.orders[s]) \in Nat
    BY <1>1, Parts DEF Amount
  <2> QED
    BY <2>1, <2>2
<1>8. ReadyFor(out, s) \in Amount /\ (~NeedsSettling(out, s) => ReadyFor(out, s) = vault)
  BY <1>1, <1>4, <1>5
<1> QED
  BY <1>3, <1>6, <1>7, <1>8 DEF c

LEMMA OpenForSwapFacts ==
  ASSUME BookInv, OpenForSwap
  PROVE  status' \in ValidStatus /\ OrderBookOn' = OrderBookOn
BY DEF OpenForSwap, OrderBookOn, BookInv, TypeOK, ValidStatus, WithdrawPermission, DepositPermission,
       OrderbookPermission, SwapPermission

LEMMA ExchangeKeeps ==
  ASSUME BookInv, NEW src \in Side, NEW in \in Nat, NEW out \in Nat,
         Exchange(src, in, out), OpenForSwap, moves' \in 0 .. MaxMoves
  PROVE  BookInv'
<1> DEFINE to == Other(src)
           ready == ReadyFor(out, to)
           after == IF NeedsSettling(out, to) THEN Settle(CancelledFor(to)) ELSE CancelledFor(to)
<1>1. to \in Side
  BY OtherSide
<1>2. /\ out <= ready[to]
      /\ vault' = [ready EXCEPT ![src] = @ + in, ![to] = @ - out]
      /\ market' = after
      /\ UNCHANGED <<needTakePnl, calcPnl, lpAmount, sys, pnlPaid, stranded>>
  BY DEF Exchange
<1>3. ready \in Amount /\ after \in Sound /\ (~OrderBookOn => after = market)
  <2> HIDE DEF to
  <2> QED
    BY <1>1, ReadyFacts
<1>4. vault' \in Amount
  <2> HIDE DEF ready
  <2>1. ready[src] \in Nat /\ ready[to] \in Nat /\ to # src
    BY <1>1, <1>3, OtherSide DEF Amount
  <2>2. ready[src] + in \in Nat /\ ready[to] - out \in Nat
    BY <1>2, <2>1
  <2>3. vault' = [s \in Side |-> IF s = to THEN ready[to] - out ELSE IF s = src THEN ready[src] + in ELSE ready[s]]
    BY <1>2, <1>3, <2>1 DEF Amount
  <2> QED
    BY <1>3, <2>2, <2>3 DEF Amount
<1>5. market' \in Sound /\ (~OrderBookOn => market' = market)
  <2> HIDE DEF after
  <2> QED
    BY <1>2, <1>3
<1>6. status' \in ValidStatus /\ OrderBookOn' = OrderBookOn
  BY OpenForSwapFacts
<1>7. OffTheBook'
  BY <1>5, <1>6 DEF BookInv, OffTheBook
<1>8. TypeOK'
  BY <1>2, <1>4, <1>5, <1>6 DEF BookInv, TypeOK, Sound
<1> QED
  BY <1>5, <1>7, <1>8 DEF BookInv

(* An exchange out of a reserve of zero. *)
LEMMA FromNothing ==
  ASSUME NEW x \in Nat, NEW y \in Nat, NEW in \in Nat, NEW out \in Nat, out < y, x = 0
  PROVE  x * y <= (x + in) * (y - out)
<1>1. x * y = 0 /\ x + in \in Nat /\ y - out \in Nat
  OBVIOUS
<1> QED
  BY <1>1

(* A swap exchanges natural amounts and keeps the product of the reserves. *)
(* What is paid for it is natural also when the reserves of the token paid *)
(* in are zero, where the division fails only if nothing is paid.          *)
KeepsProduct(src, in, out) ==
  /\ Exchange(src, in, out)
  /\ Total[src] * Total[Other(src)] <= (Total[src] + in) * (Total[Other(src)] - out)

LEMMA SwapBaseInExchanges ==
  ASSUME BookInv, NEW src \in Side, NEW amount \in Nat, SwapBaseIn(src, amount)
  PROVE  \E out \in Nat : KeepsProduct(src, amount, out)
<1> DEFINE to == Other(src)
           out == QuoteBaseIn(amount, Total, src, SwapFee)
           paid == amount - SwapFeeIn(amount, SwapFee)
<1>1. /\ AtMost(Zero, Total) /\ Total[src] + amount - SwapFeeIn(amount, SwapFee) # 0
      /\ Exchange(src, amount, out) /\ out < Total[to]
  BY DEF SwapBaseIn, Exchange
<1>2. Total \in Amount /\ Total[src] \in Nat /\ Total[to] \in Nat
  BY <1>1, TotalFacts, OtherSide DEF Amount
<1>3. SwapFeeIn(amount, SwapFee) \in 0 .. amount
  BY ConstantFacts, SwapFeeBelow
<1>4. paid \in Nat /\ Total[src] + paid \in Positive
  BY <1>1, <1>2, <1>3 DEF Positive
<1>5. Total[to] * paid \in Nat
  <2> HIDE DEF paid, to
  <2> QED
    BY <1>2, <1>4
<1>6. out \in Nat
  BY <1>4, <1>5, DivFloor DEF QuoteBaseIn, SwapTokenAmountBaseIn
<1> HIDE DEF out
<1>7. Total[src] * Total[to] <= (Total[src] + amount) * (Total[to] - out)
  <2>1. CASE Total[src] = 0
    BY <1>1, <1>2, <1>6, <2>1, FromNothing
  <2>2. CASE Total[src] # 0
    <3>1. Total[to] # 0
      BY <1>1, <1>2, <1>6
    <3>2. \A s \in Side : Total[s] # 0
      BY <2>2, <3>1 DEF Side, Other
    <3> QED
      BY <1>1, <1>2, <3>2, ConstantFacts, SwapInKeepsProduct DEF out
  <2> QED
    BY <2>1, <2>2
<1> QED
  BY <1>1, <1>6, <1>7 DEF KeepsProduct

LEMMA SwapBaseOutExchanges ==
  ASSUME BookInv, NEW src \in Side, NEW amount \in Nat, SwapBaseOut(src, amount)
  PROVE  \E in \in Nat : KeepsProduct(src, in, amount)
<1> DEFINE to == Other(src)
           in == QuoteBaseOut(amount, Total, src, SwapFee)
           left == Total[to] - amount
           bare == CeilDiv(Total[src] * amount, left)
<1>1. /\ AtMost(Zero, Total) /\ amount < Total[to]
      /\ Exchange(src, in, amount) /\ in # 0
  BY DEF SwapBaseOut, Exchange
<1>2. Total \in Amount /\ Total[src] \in Nat /\ Total[to] \in Nat
  BY <1>1, TotalFacts, OtherSide DEF Amount
<1>3. Total[src] * amount \in Nat /\ left \in Positive
  BY <1>1, <1>2 DEF Positive
<1>4. bare \in Nat
  <2> HIDE DEF left
  <2> QED
    BY <1>3, CeilDivAbove
<1>5. SwapFee.den \in Nat /\ SwapFee.den - SwapFee.num \in Positive
  BY ConstantFacts DEF Fraction, ValidFraction, Positive
<1>6. bare * SwapFee.den \in Nat
  <2> HIDE DEF bare
  <2> QED
    BY <1>4, <1>5
<1>7. CeilDiv(bare * SwapFee.den, SwapFee.den - SwapFee.num) \in Nat
  <2> HIDE DEF bare
  <2> QED
    BY <1>5, <1>6, CeilDivAbove
<1>8. in \in Nat
  BY <1>7 DEF QuoteBaseOut, SwapTokenAmountBaseOut
<1> HIDE DEF in
<1>9. Total[src] * Total[to] <= (Total[src] + in) * (Total[to] - amount)
  <2>1. CASE Total[src] = 0
    BY <1>1, <1>2, <1>8, <2>1, FromNothing
  <2>2. CASE Total[src] # 0
    <3>1. Total[to] # 0
      BY <1>1, <1>2
    <3>2. \A s \in Side : Total[s] # 0
      BY <2>2, <3>1 DEF Side, Other
    <3> QED
      BY <1>1, <1>2, <3>2, ConstantFacts, SwapOutKeepsProduct DEF in
  <2> QED
    BY <2>1, <2>2
<1> QED
  BY <1>1, <1>8, <1>9 DEF KeepsProduct

LEMMA SwapKeeps ==
  ASSUME BookInv, NEW src \in Side, NEW amount \in Nat, SwapBaseIn(src, amount) \/ SwapBaseOut(src, amount),
         moves' \in 0 .. MaxMoves
  PROVE  BookInv'
<1>1. CASE SwapBaseIn(src, amount)
  <2>1. OpenForSwap
    BY <1>1 DEF SwapBaseIn
  <2> QED
    BY <1>1, <2>1, SwapBaseInExchanges, ExchangeKeeps DEF KeepsProduct
<1>2. CASE SwapBaseOut(src, amount)
  <2>1. OpenForSwap
    BY <1>2 DEF SwapBaseOut
  <2> QED
    BY <1>2, <2>1, SwapBaseOutExchanges, ExchangeKeeps DEF KeepsProduct
<1> QED
  BY <1>1, <1>2

-----------------------------------------------------------------------------
(* The administrator's steps. *)

(* What clearing the book leaves typed. *)
LEMMA ClearBookKeeps ==
  ASSUME BookInv, ClearBook, status' \in ValidStatus, moves' \in 0 .. MaxMoves
  PROVE  TypeOK' /\ market' = Cleared /\ market' \in Sound
<1>1. /\ vault' = Settled(CancelBoth(market)) /\ market' = Cleared
      /\ UNCHANGED <<needTakePnl, calcPnl, lpAmount, sys, pnlPaid, stranded>>
  BY DEF ClearBook
<1>2. vault' \in Amount /\ market' \in Sound /\ market' \in Standing
  BY <1>1, ClearedFacts DEF Sound
<1> QED
  BY <1>1, <1>2 DEF BookInv, TypeOK

LEMMA SetStatusKeeps ==
  ASSUME BookInv, NEW value \in StatusChoices, SetStatus(value), moves' \in 0 .. MaxMoves
  PROVE  BookInv'
<1>1. ClearBook /\ CalcExact(Cleared) = Zero /\ status' \in ValidStatus
  BY BookAssumption DEF SetStatus, AllIsBack
<1>2. TypeOK' /\ market' = Cleared /\ market' \in Sound
  BY <1>1, ClearBookKeeps
<1> QED
  BY <1>1, <1>2 DEF BookInv, OffTheBook

LEMMA CancelAllKeeps ==
  ASSUME BookInv, CancelAll, moves' \in 0 .. MaxMoves
  PROVE  BookInv'
<1>1. ClearBook /\ UNCHANGED status /\ status \in ValidStatus
  BY DEF CancelAll, BookInv, TypeOK
<1>2. TypeOK' /\ market' = Cleared
  BY <1>1, ClearBookKeeps
<1> QED
  BY <1>1, <1>2, ClearingKeeps

LEMMA UpdateOpenOrderKeeps ==
  ASSUME BookInv, UpdateOpenOrder, moves' \in 0 .. MaxMoves
  PROVE  BookInv'
<1>1. /\ vault' = Settled(CancelBoth(market)) /\ market' = NoStanding
      /\ stranded' = Plus(stranded, CalcExact(Cleared))
      /\ UNCHANGED <<status, needTakePnl, calcPnl, lpAmount, sys, pnlPaid>>
  BY DEF UpdateOpenOrder
<1>2. vault' \in Amount /\ CalcExact(Cleared) \in Amount
  BY <1>1, ClearedFacts
<1>3. stranded' \in Amount
  BY <1>1, <1>2, ArithmeticType DEF BookInv, TypeOK
<1>4. market' \in Sound /\ market' \in Standing /\ CalcExact(market') = Zero
  BY <1>1, NoStandingIsSound DEF Sound
<1>5. TypeOK'
  BY <1>1, <1>2, <1>3, <1>4 DEF BookInv, TypeOK
<1> QED
  BY <1>4, <1>5 DEF BookInv, OffTheBook

LEMMA MigrateKeeps ==
  ASSUME BookInv, NEW newSys \in SysChoices, Migrate(newSys), moves' \in 0 .. MaxMoves
  PROVE  BookInv'
<1>1. /\ vault' = Settled(CancelBoth(market)) /\ market' = NoStanding
      /\ status' = "WaitingTrade" /\ needTakePnl' = Zero /\ sys' = newSys
      /\ calcPnl' = Rebased(newSys) \/ calcPnl' = calcPnl
      /\ UNCHANGED <<lpAmount, pnlPaid, stranded>>
  BY DEF Migrate
<1>2. vault' \in Amount
  BY <1>1, ClearedFacts
<1>3. market' \in Sound /\ market' \in Standing /\ CalcExact(market') = Zero
  BY <1>1, NoStandingIsSound DEF Sound
<1>4. sys \in Positive /\ newSys \in Positive /\ calcPnl \in Amount
  BY ConstantFacts DEF BookInv, TypeOK
<1>5. Restore(calcPnl, Unit, sys) \in Amount
  BY <1>4, ConstantFacts, NormalizeType
<1>6. Rebased(newSys) \in Amount
  <2> DEFINE native == Restore(calcPnl, Unit, sys)
  <2> HIDE DEF native
  <2>1. native \in Amount
    BY <1>5 DEF native
  <2>2. Normalize(native, Unit, newSys) \in Amount
    BY <1>4, <2>1, ConstantFacts, NormalizeType
  <2> QED
    BY <2>2 DEF Rebased, native
<1>7. status' \in ValidStatus
  BY <1>1 DEF ValidStatus, WithdrawPermission, DepositPermission
<1>8. TypeOK'
  BY <1>1, <1>2, <1>3, <1>4, <1>6, <1>7, ConstantFacts DEF BookInv, TypeOK
<1> QED
  BY <1>3, <1>8 DEF BookInv, OffTheBook

-----------------------------------------------------------------------------
(* The steps of the crank and of the market. *)

LEMMA TakeProfitKeeps ==
  ASSUME BookInv, TakeProfit, moves' \in 0 .. MaxMoves
  PROVE  BookInv'
<1> PICK taken \in CalcTakePnl :
       /\ needTakePnl' = Plus(needTakePnl, taken.pnl)
       /\ calcPnl' = IF \A s \in Side : taken.delta[s] # 0
                     THEN Minus(Normalized, taken.delta) ELSE calcPnl
  BY DEF TakeProfit
<1>1. /\ Normalized \in Amount /\ taken.pnl \in Amount
      /\ taken.delta \in Amount /\ AtMost(taken.delta, Normalized)
      /\ needTakePnl \in Amount /\ calcPnl \in Amount
  BY TakenFacts DEF BookInv, TypeOK
<1>2. Plus(needTakePnl, taken.pnl) \in Amount /\ Minus(Normalized, taken.delta) \in Amount
  BY <1>1, ArithmeticType
<1>3. needTakePnl' \in Amount /\ calcPnl' \in Amount
  BY <1>1, <1>2
<1>4. UNCHANGED <<status, vault, market, lpAmount, sys, pnlPaid, stranded>>
  BY DEF TakeProfit
<1>5. TypeOK'
  BY <1>3, <1>4 DEF BookInv, TypeOK
<1> QED
  BY <1>4, <1>5, SameStanding

LEMMA PlaceOrderKeeps ==
  ASSUME BookInv, NEW s \in Side, NEW price \in Prices, NEW size \in Sizes,
         PlaceOrder(s, price, size), moves' \in 0 .. MaxMoves
  PROVE  BookInv'
<1> DEFINE lock == IF s = "pc" THEN price * size ELSE size
           before == CancelAfter(market, s, 0)
           order == [lock |-> lock, level |-> price, listed |-> TRUE]
           paid == FromVault(before, s, lock)
           after == Rest(Funded(before, s, lock), s, order, TRUE)
<1>1. /\ OrderBookOn /\ paid <= vault[s]
      /\ market' = after
      /\ vault' = [vault EXCEPT ![s] = @ - paid]
      /\ UNCHANGED <<status, needTakePnl, calcPnl, lpAmount, sys, pnlPaid, stranded>>
  BY DEF PlaceOrder
<1>2. market \in Sound /\ vault \in Amount /\ vault[s] \in Nat
  BY DEF BookInv, TypeOK, Amount
<1>3. before \in Sound
  BY <1>2, CancelAfterUnlocks DEF OnlyUnlocks
<1>4. lock \in Nat \ {0} /\ order \in Order
  <2>1. price \in Nat /\ price > 0 /\ size \in Nat /\ size > 0
    BY BookAssumption
  <2>2. price * size \in Nat /\ price * size > 0
    BY <2>1
  <2>3. lock \in Nat \ {0}
    BY <2>1, <2>2
  <2> HIDE DEF lock
  <2> QED
    BY <2>1, <2>3 DEF Order
<1>5. paid \in Nat /\ after \in Sound
  <2>1. order.lock = lock
    OBVIOUS
  <2> HIDE DEF before, order
  <2>2. paid \in Nat
    <3> HIDE DEF lock
    <3> QED
      BY <1>3, <1>4, Funding
  <2>3. Rest(Funded(before, s, order.lock), s, order, TRUE) \in Sound
    BY <1>3, <1>4, RestingOrder
  <2> QED
    BY <2>1, <2>2, <2>3
<1>6. vault' \in Amount
  <2> HIDE DEF paid
  <2> QED
    BY <1>1, <1>2, <1>5 DEF Amount
<1>7. market' \in Sound /\ market' \in Standing
  BY <1>1, <1>5 DEF Sound
<1>8. TypeOK'
  BY <1>1, <1>6, <1>7 DEF BookInv, TypeOK
<1> QED
  BY <1>1, <1>7, <1>8 DEF BookInv, OffTheBook, OrderBookOn

(* Without the order book there is no order to take: nothing is locked, so *)
(* that there is no order.                                                 *)
LEMMA OrdersNeedTheBook ==
  ASSUME BookInv, NEW s \in Side, market.orders[s] # <<>>
  PROVE  OrderBookOn
<1> SUFFICES ASSUME ~OrderBookOn PROVE FALSE
  OBVIOUS
<1> DEFINE orders == market.orders[s]
<1>1. /\ market \in Sound /\ orders \in Seq(Order) /\ LockOf \in [Order -> Nat]
      /\ market.free[s] \in Nat /\ Locked(orders) \in Nat /\ Unseen(market.queue, s) \in Nat
  BY Parts, WeightTypes DEF BookInv
<1>2. Head(orders) \in Order /\ 1 \in 1 .. Len(orders) /\ orders[1] = Head(orders)
  BY <1>1, HeadTailProperties, EmptySeq, LenProperties
<1>3. LockOf[orders[1]] <= Weight(LockOf, orders)
  BY <1>1, <1>2, WeightNat
<1>4. LockOf[orders[1]] \in Nat /\ LockOf[orders[1]] # 0
  BY <1>2 DEF LockOf, Order
<1>5. Locked(orders) # 0
  BY <1>1, <1>3, <1>4, LockedIsWeight
<1>6. CalcExact(market)[s] = 0
  BY DEF BookInv, OffTheBook, Zero
<1>7. CalcExact(market)[s] = market.free[s] + Locked(orders) + Unseen(market.queue, s)
  BY <1>1, ExactIsOwned
<1> HIDE DEF orders
<1> QED
  BY <1>1, <1>5, <1>6, <1>7

LEMMA TakeOrderKeeps ==
  ASSUME BookInv, NEW s \in Side, TakeOrder(s), moves' \in 0 .. MaxMoves
  PROVE  BookInv'
<1> DEFINE order == Head(market.orders[s])
<1>1. /\ market \in Sound /\ market.orders[s] # <<>>
      /\ UNCHANGED <<status, vault, needTakePnl, calcPnl, lpAmount, sys, pnlPaid, stranded>>
  BY DEF TakeOrder, BookInv
<1>2. order \in Order
  BY <1>1, Parts, HeadTailProperties
<1>3. order.lock \in Nat /\ order.level \in Positive
  BY <1>2 DEF Order, Positive
<1>4. \E paid \in 1 .. order.lock, got \in Nat : market' = Take(market, s, paid, got)
  <2> HIDE DEF order
  <2>1. CASE s = "pc"
    <3> PICK lots \in 1 .. order.lock \div order.level : market' = Take(market, s, lots * order.level, lots)
      BY <2>1 DEF TakeOrder, order
    <3>1. /\ order.lock \div order.level \in Nat
          /\ order.level * (order.lock \div order.level) <= order.lock
      BY <1>3, DivFloor
    <3>2. lots \in Nat /\ lots >= 1 /\ lots <= order.lock \div order.level
      BY <3>1
    <3>3. order.level \in Nat /\ order.level >= 1
      BY <1>3 DEF Positive
    <3>4. lots * order.level \in Nat /\ lots * order.level >= 1
          /\ lots * order.level <= order.level * (order.lock \div order.level)
      BY <3>1, <3>2, <3>3
    <3>5. lots * order.level \in 1 .. order.lock
      <4> DEFINE most == order.level * (order.lock \div order.level)
      <4>1. most \in Nat
        BY <3>1, <3>3
      <4> HIDE DEF most
      <4>2. lots * order.level <= most /\ most <= order.lock
        BY <3>1, <3>4 DEF most
      <4> QED
        BY <1>3, <3>4, <4>1, <4>2
    <3> QED
      BY <3>2, <3>5
  <2>2. CASE s # "pc"
    <3> PICK lots \in 1 .. order.lock : market' = Take(market, s, lots, lots * order.level)
      BY <2>2 DEF TakeOrder, order
    <3>1. lots * order.level \in Nat
      BY <1>3 DEF Positive
    <3> QED
      BY <3>1
  <2> QED
    BY <2>1, <2>2
<1>5. PICK paid \in 1 .. order.lock, got \in Nat : market' = Take(market, s, paid, got)
  BY <1>4
<1>6. market' \in Sound /\ market' \in Standing
  BY <1>1, <1>5, TakingIsSound DEF Sound
<1>7. OrderBookOn /\ OrderBookOn'
  BY <1>1, OrdersNeedTheBook DEF OrderBookOn
<1>8. TypeOK'
  BY <1>1, <1>6 DEF BookInv, TypeOK
<1> QED
  BY <1>6, <1>7, <1>8 DEF BookInv, OffTheBook

LEMMA ConsumeEventsKeeps ==
  ASSUME BookInv, ConsumeEvents
  PROVE  BookInv'
<1>1. /\ market.queue # <<>> /\ market' = ConsumeHead(market)
      /\ UNCHANGED <<status, vault, needTakePnl, calcPnl, lpAmount, sys, pnlPaid, stranded, moves>>
  BY DEF ConsumeEvents
<1>2. market' \in Sound /\ market' \in Standing /\ CalcExact(market') = CalcExact(market)
  BY <1>1, ConsumingIsSound DEF BookInv, Sound
<1>3. TypeOK'
  BY <1>1, <1>2 DEF BookInv, TypeOK
<1> QED
  BY <1>1, <1>2, <1>3 DEF BookInv, OffTheBook, OrderBookOn

-----------------------------------------------------------------------------
LEMMA NextKeeps ==
  ASSUME BookInv, [Next]_vars
  PROVE  BookInv'
<1>1. CASE UNCHANGED vars
  BY <1>1, SameStanding DEF vars, BookInv, TypeOK
<1>2. CASE ConsumeEvents
  BY <1>2, ConsumeEventsKeeps
<1>3. CASE Move /\ (UserStep \/ OwnerStep \/ BookStep)
  <2>1. moves' \in 0 .. MaxMoves
    BY <1>3, BookAssumption DEF Move, BookInv, TypeOK
  <2>2. Amounts \subseteq Nat /\ Shares \subseteq Nat
    BY BookAssumption
  <2>3. CASE UserStep
    BY <2>1, <2>2, <2>3, DepositKeeps, WithdrawKeeps, SwapKeeps DEF UserStep
  <2>4. CASE OwnerStep
    BY <2>1, <2>4, WithdrawPnlKeeps, CancelAllKeeps, UpdateOpenOrderKeeps, SetStatusKeeps, MigrateKeeps
       DEF OwnerStep
  <2>5. CASE BookStep
    BY <2>1, <2>5, TakeProfitKeeps, PlaceOrderKeeps, TakeOrderKeeps DEF BookStep
  <2> QED
    BY <1>3, <2>3, <2>4, <2>5
<1> QED
  BY <1>1, <1>2, <1>3 DEF Next

LEMMA BookInvariant == Spec => []BookInv
BY InitKeeps, NextKeeps, PTL DEF Spec

-----------------------------------------------------------------------------
(* The theorems. *)

(* No step makes an amount negative: every subtraction that the code makes *)
(* with checked_sub succeeds where its guards let it through, and neither  *)
(* orders that lock what the vaults gave for them nor trades that nobody   *)
(* has consumed take more from the open orders account than it has.        *)
THEOREM TypeCorrect == Spec => []TypeOK
<1>1. BookInv => TypeOK
  BY DEF BookInv
<1> QED
  BY <1>1, BookInvariant, PTL

(* simulate_pool_info counts the market in every status, the handlers only *)
(* where the order book is on; they find the same reserves, because        *)
(* process_set_params and the migration refuse to leave anything behind.   *)
THEOREM SimulationIsFaithful == Spec => []SimulationSeesPool
<1>1. ASSUME BookInv PROVE SimulationSeesPool
  <2>1. ASSUME NEW s \in Side PROVE SimulatedTotal[s] = Total[s]
    <3>1. SimulatedTotal[s] = Plus(vault, CalcExact(market))[s] - needTakePnl[s]
      BY DEF SimulatedTotal, Minus
    <3>2. Plus(vault, CalcExact(market))[s] = vault[s] + CalcExact(market)[s]
      BY DEF Plus
    <3>3. /\ Total[s] = vault[s] + CalcExact(market)[s] - needTakePnl[s]
          /\ vault[s] \in Nat /\ needTakePnl[s] \in Nat /\ CalcExact(market)[s] \in Nat
      BY <1>1, TotalFacts
    <3> QED
      BY <3>1, <3>2, <3>3
  <2>2. SimulatedTotal = [s \in Side |-> SimulatedTotal[s]] /\ Total = [s \in Side |-> Total[s]]
    BY DEF SimulatedTotal, Total, Minus
  <2> QED
    BY <2>1, <2>2 DEF SimulationSeesPool
<1> QED
  BY <1>1, BookInvariant, PTL

(* Once no trade is pending, cancelling all orders and settling empties    *)
(* the open orders account, so that process_set_params and the migration   *)
(* are never refused for good.                                             *)
THEOREM BookCanBeCleared == Spec => []ClearingBringsAllBack
<1>1. ASSUME BookInv, NoTradePending PROVE AllIsBack
  <2>1. ASSUME NEW s \in Side PROVE CalcExact(Cleared)[s] = 0
    BY <1>1, ClearedFacts, NothingUnseen
  <2>2. CalcExact(Cleared) = [s \in Side |-> CalcExact(Cleared)[s]]
    BY DEF CalcExact
  <2> QED
    BY <2>1, <2>2 DEF AllIsBack, Zero
<1>2. BookInv => ClearingBringsAllBack
  BY <1>1 DEF ClearingBringsAllBack
<1> QED
  BY <1>2, BookInvariant, PTL

(* Giving up the open orders account costs the pool what trades owe it     *)
(* that nobody has consumed, and nothing else.                             *)
THEOREM OnlyTradesAreGivenUp == Spec => GivesUpOnlyTrades
<1>1. ASSUME BookInv, UpdateOpenOrder, NEW s \in Side
      PROVE  vault'[s] + CalcExact(market')[s] = vault[s] + CalcExact(market)[s] - Pending(s)
  <2>1. Pending(s) = Unseen(market.queue, s)
    <3>1. \A i \in DOMAIN market.queue : market.queue[i] \in Event
      BY <1>1, Parts, ElementOfSeq, LenProperties DEF BookInv
    <3>2. [i \in DOMAIN market.queue |-> GotOf(s)[market.queue[i]]]
            = [i \in DOMAIN market.queue |->
                 IF market.queue[i].maker /\ market.queue[i].side # s THEN market.queue[i].got ELSE 0]
      BY <3>1 DEF GotOf
    <3>3. SumFunction([i \in DOMAIN market.queue |-> GotOf(s)[market.queue[i]]]) = Unseen(market.queue, s)
      BY DEF Unseen, Weight
    <3> QED
      BY <3>2, <3>3 DEF Pending, SumBy
  <2>2. /\ vault'[s] = vault[s] + market.free[s] + Locked(market.orders[s])
        /\ CalcExact(market')[s] = 0
    <3>1. CalcExact(NoStanding)[s] = 0
      BY NoStandingIsSound DEF Zero
    <3>2. market' = NoStanding /\ vault' = Settled(CancelBoth(market))
      BY <1>1 DEF UpdateOpenOrder
    <3>3. CalcExact(market')[s] = 0
      BY <3>1, <3>2
    <3> QED
      BY <1>1, <3>2, <3>3, ClearedFacts
  <2>3. /\ CalcExact(market)[s] = market.free[s] + Locked(market.orders[s]) + Unseen(market.queue, s)
        /\ market.free[s] \in Nat /\ Locked(market.orders[s]) \in Nat /\ Unseen(market.queue, s) \in Nat
        /\ vault[s] \in Nat
    BY <1>1, ExactIsOwned, Parts DEF BookInv, TypeOK, Amount
  <2> QED
    BY <2>1, <2>2, <2>3
<1>2. BookInv => [UpdateOpenOrder =>
       \A s \in Side :
         vault'[s] + CalcExact(market')[s] = vault[s] + CalcExact(market)[s] - Pending(s)]_vars
  BY <1>1
<1> QED
  BY <1>2, BookInvariant, PTL DEF GivesUpOnlyTrades

(* A swap is paid whatever part of the reserves stands on the book: what   *)
(* the vault holds, or what cancelling and settling add to it, covers the  *)
(* output and, where it had to be added, the profit owed as well.          *)
THEOREM SwapsFindTheirTokens == Spec => []SwapsArePaid
<1>1. ASSUME BookInv, NoTradePending, NEW s \in Side, NEW out \in 1 .. Total[s] - 1
      PROVE  /\ out <= ReadyFor(out, s)[s]
             /\ NeedsSettling(out, s) => out + needTakePnl[s] < ReadyFor(out, s)[s]
  <2> DEFINE exact == CalcExact(market)[s]
             ready == ReadyFor(out, s)[s]
  <2>1. /\ vault[s] \in Nat /\ needTakePnl[s] \in Nat /\ exact \in Nat
        /\ Total[s] = vault[s] + exact - needTakePnl[s]
    BY <1>1, TotalFacts
  <2>2. out \in Nat /\ out < Total[s]
    BY <2>1
  <2>3. /\ exact = market.free[s] + Locked(market.orders[s]) + Unseen(market.queue, s)
        /\ market.free[s] \in Nat /\ Locked(market.orders[s]) \in Nat /\ Unseen(market.queue, s) = 0
    BY <1>1, ExactIsOwned, Parts, NothingUnseen DEF BookInv
  <2>4. CASE NeedsSettling(out, s)
    <3>1. ready = vault[s] + market.free[s] + Locked(market.orders[s])
      BY <1>1, <2>4, ReadyFacts
    <3> HIDE DEF exact, ready
    <3>2. ready = vault[s] + exact
      BY <2>1, <2>3, <3>1
    <3> QED
      BY <2>1, <2>2, <3>2 DEF exact, ready
  <2>5. CASE ~NeedsSettling(out, s)
    <3>1. ready = vault[s]
      BY <1>1, <2>5, ReadyFacts
    <3>2. out <= vault[s]
      <4>1. CASE OrderBookOn
        BY <2>1, <2>2, <2>5, <4>1 DEF NeedsSettling
      <4>2. CASE ~OrderBookOn
        <5>1. exact = 0
          BY <1>1, <4>2 DEF BookInv, OffTheBook, Zero
        <5> QED
          BY <2>1, <2>2, <5>1
      <4> QED
        BY <4>1, <4>2
    <3> QED
      BY <2>5, <3>1, <3>2
  <2> QED
    BY <2>4, <2>5
<1>2. BookInv => SwapsArePaid
  BY <1>1 DEF SwapsArePaid
<1> QED
  BY <1>2, BookInvariant, PTL

-----------------------------------------------------------------------------
(* The floor under the reserves.  First in numbers: x and y are the        *)
(* reserves, w what their product is at worst.                             *)

(* A product that grew by d * g, where d and g have one sign. *)
LEMMA Grown ==
  ASSUME NEW n \in Nat, NEW d \in Nat, NEW w \in Int, NEW from \in Int, NEW to \in Int,
         w <= from, to = from + n * d
  PROVE  w <= to
<1>1. n * d \in Nat
  OBVIOUS
<1> QED
  BY <1>1

(* Between the ends of the fill of an ask, price v, the product is at no   *)
(* point below both ends.                                                  *)
LEMMA AskBetween ==
  ASSUME NEW x \in Int, NEW y \in Int, NEW l \in Nat, NEW k \in Nat, NEW v \in Nat, NEW w \in Int,
         k <= l, w <= x * y, w <= (x - l) * (y + l * v)
  PROVE  w <= (x - k) * (y + k * v)
<1> DEFINE z == v * x - y
           p == (x - k) * (y + k * v)
<1>1. z \in Int /\ k * v \in Nat /\ l * v \in Nat /\ l - k \in Nat /\ p \in Int
  OBVIOUS
<1>2. CASE k * v <= z
  <2>1. p = x * y + k * (z - k * v)
    OBVIOUS
  <2>2. z - k * v \in Nat /\ x * y \in Int
    BY <1>1, <1>2
  <2> HIDE DEF z, p
  <2> QED
    BY <1>1, <2>1, <2>2, Grown
<1>3. CASE z < k * v
  <2>1. p = (x - l) * (y + l * v) + (l - k) * (l * v + k * v - z)
    OBVIOUS
  <2>2. l * v + k * v - z \in Nat /\ (x - l) * (y + l * v) \in Int
    BY <1>1, <1>3
  <2> HIDE DEF z, p
  <2> QED
    BY <1>1, <2>1, <2>2, Grown
<1> QED
  BY <1>1, <1>2, <1>3

(* So it is with a bid, which pays v for each coin. *)
LEMMA BidBetween ==
  ASSUME NEW x \in Int, NEW y \in Int, NEW l \in Nat, NEW k \in Nat, NEW v \in Nat, NEW w \in Int,
         k <= l, w <= x * y, w <= (x - l * v) * (y + l)
  PROVE  w <= (x - k * v) * (y + k)
<1> DEFINE z == x - v * y
           p == (x - k * v) * (y + k)
<1>1. z \in Int /\ k * v \in Nat /\ l * v \in Nat /\ l - k \in Nat /\ p \in Int
  OBVIOUS
<1>2. CASE k * v <= z
  <2>1. p = x * y + k * (z - k * v)
    OBVIOUS
  <2>2. z - k * v \in Nat /\ x * y \in Int
    BY <1>1, <1>2
  <2> HIDE DEF z, p
  <2> QED
    BY <1>1, <2>1, <2>2, Grown
<1>3. CASE z < k * v
  <2>1. p = (x - l * v) * (y + l) + (l - k) * (l * v + k * v - z)
    OBVIOUS
  <2>2. l * v + k * v - z \in Nat /\ (x - l * v) * (y + l) \in Int
    BY <1>1, <1>3
  <2> HIDE DEF z, p
  <2> QED
    BY <1>1, <2>1, <2>2, Grown
<1> QED
  BY <1>1, <1>2, <1>3

(* An ask that ends no higher than its price improves on where it starts,  *)
(* also when a bid below has been filled before.                           *)
LEMMA AskImproves ==
  ASSUME NEW x \in Int, NEW y \in Int, NEW n \in Nat, NEW v \in Nat, NEW h \in Nat, NEW m \in Nat, NEW w \in Int,
         y <= v * (x - n), w <= (x + h) * (y - m)
  PROVE  w <= (x + h - n) * (y - m + n * v)
<1> DEFINE d == v * (x - n) - y + v * h + m
<1>1. v * (x - n) - y \in Nat /\ v * h \in Nat
  OBVIOUS
<1>2. d \in Nat
  BY <1>1
<1>3. (x + h - n) * (y - m + n * v) = (x + h) * (y - m) + n * d
  OBVIOUS
<1>4. (x + h) * (y - m) \in Int /\ (x + h - n) * (y - m + n * v) \in Int
  OBVIOUS
<1> HIDE DEF d
<1> QED
  BY <1>2, <1>3, <1>4, Grown

LEMMA BidImproves ==
  ASSUME NEW x \in Int, NEW y \in Int, NEW n \in Nat, NEW v \in Nat, NEW h \in Nat, NEW m \in Nat, NEW w \in Int,
         v * (y + n) <= x, w <= (x + h) * (y - m)
  PROVE  w <= (x + h - n * v) * (y - m + n)
<1> DEFINE d == x - v * (y + n) + v * m + h
<1>1. x - v * (y + n) \in Nat /\ v * m \in Nat
  OBVIOUS
<1>2. d \in Nat
  BY <1>1
<1>3. (x + h - n * v) * (y - m + n) = (x + h) * (y - m) + n * d
  OBVIOUS
<1>4. (x + h) * (y - m) \in Int /\ (x + h - n * v) * (y - m + n) \in Int
  OBVIOUS
<1> HIDE DEF d
<1> QED
  BY <1>2, <1>3, <1>4, Grown

(* A swap that pays in what an order locks leaves the order no worse.      *)
LEMMA SwapImproves ==
  ASSUME NEW x \in Int, NEW y \in Int, NEW l \in Nat, NEW g \in Nat, NEW in \in Nat, NEW out \in Nat, NEW w \in Int,
         x * y <= (x + in) * (y - out), w <= (x - l) * (y + g)
  PROVE  w <= (x + in - l) * (y - out + g)
<1>1. (x + in - l) * (y - out + g)
        = (x - l) * (y + g) + ((x + in) * (y - out) - x * y) + g * in + l * out
  OBVIOUS
<1>2. g * in \in Nat /\ l * out \in Nat /\ (x + in) * (y - out) - x * y \in Nat /\ (x - l) * (y + g) \in Int
  OBVIOUS
<1> DEFINE a == (x - l) * (y + g)
           b == (x + in) * (y - out) - x * y
           c == g * in
           d == l * out
           e == (x + in - l) * (y - out + g)
<1>3. e = a + b + c + d /\ a \in Int /\ b \in Nat /\ c \in Nat /\ d \in Nat /\ w <= a
  BY <1>1, <1>2
<1> HIDE DEF a, b, c, d, e
<1>4. w <= e
  BY <1>3
<1> QED
  BY <1>4 DEF e

(* What is deposited in proportion to the reserves a and b is worth its    *)
(* shares also beside what orders may have made of them, x and y.          *)
LEMMA ProductsAdd ==
  ASSUME NEW x \in Nat, NEW y \in Nat, NEW a \in Nat, NEW b \in Nat, NEW w \in Nat,
         w <= x * y, w <= a * b
  PROVE  2 * w <= x * b + y * a
<1> DEFINE p == x * b
           q == y * a
<1>1. p \in Nat /\ q \in Nat
  OBVIOUS
<1>2. w * w <= p * q
  <2> DEFINE u == x * y
             v == a * b
  <2>1. u \in Nat /\ v \in Nat /\ w <= u /\ w <= v
    OBVIOUS
  <2> HIDE DEF u, v
  <2>2. w * w <= u * v
    <3>1. w * w <= u * w /\ u * w <= u * v
      BY <2>1
    <3>2. w * w \in Nat /\ u * w \in Nat /\ u * v \in Nat
      BY <2>1
    <3> QED
      BY <3>1, <3>2
  <2>3. p * q = u * v
    BY DEF u, v
  <2> QED
    BY <2>2, <2>3
<1> HIDE DEF p, q
<1>3. p + q < 2 * w => (p + q) * (p + q) < (2 * w) * (2 * w)
  <2> HAVE p + q < 2 * w
  <2> DEFINE s == p + q
             d == 2 * w
  <2>1. s \in Nat /\ d \in Nat /\ s < d
    BY <1>1
  <2> HIDE DEF s, d
  <2>2. s * s <= s * d /\ s * d < d * d
    BY <2>1
  <2>3. s * s \in Nat /\ s * d \in Nat /\ d * d \in Nat
    BY <2>1
  <2>4. s * s < d * d
    BY <2>2, <2>3
  <2> QED
    BY <2>4 DEF s, d
<1>4. (p + q) * (p + q) = 4 * (p * q) + (p - q) * (p - q) /\ (2 * w) * (2 * w) = 4 * (w * w)
  BY <1>1
<1>5. (p - q) * (p - q) >= 0
  BY <1>1
<1>6. p * q \in Nat /\ w * w \in Nat /\ (p - q) * (p - q) \in Int
  BY <1>1
<1>7. (p + q) * (p + q) >= (2 * w) * (2 * w)
  BY <1>2, <1>4, <1>5, <1>6
<1>8. 2 * w <= p + q
  BY <1>1, <1>3, <1>7
<1> QED
  BY <1>8 DEF p, q

LEMMA DepositImproves ==
  ASSUME NEW x \in Nat, NEW y \in Nat, NEW a \in Nat, NEW b \in Nat, NEW w \in Nat,
         NEW d \in Nat, NEW e \in Nat, NEW lp \in Nat, NEW mint \in Nat,
         w <= x * y, w <= a * b, a * mint <= d * lp, b * mint <= e * lp
  PROVE  w * (lp + mint) * (lp + mint) <= (x + d) * (y + e) * lp * lp
<1> DEFINE p == x * lp + a * mint
           q == y * lp + b * mint
           pp == (x + d) * lp
           qq == (y + e) * lp
<1>1. /\ p \in Nat /\ q \in Nat /\ pp \in Nat /\ qq \in Nat
      /\ p <= pp /\ q <= qq
  <2>1. x * lp \in Nat /\ y * lp \in Nat /\ a * mint \in Nat /\ b * mint \in Nat /\ d * lp \in Nat /\ e * lp \in Nat
    OBVIOUS
  <2>2. pp = x * lp + d * lp /\ qq = y * lp + e * lp
    OBVIOUS
  <2> QED
    BY <2>1, <2>2
<1>2. p * q <= pp * qq
  <2> HIDE DEF p, q, pp, qq
  <2>1. p * q <= pp * q /\ pp * q <= pp * qq
    BY <1>1
  <2>2. p * q \in Nat /\ pp * q \in Nat /\ pp * qq \in Nat
    BY <1>1
  <2> QED
    BY <2>1, <2>2
<1>3. pp * qq = (x + d) * (y + e) * lp * lp
  OBVIOUS
<1>4. p * q = (x * y) * (lp * lp) + (x * b + y * a) * (lp * mint) + (a * b) * (mint * mint)
  OBVIOUS
<1>5. w * (lp + mint) * (lp + mint) = w * (lp * lp) + (2 * w) * (lp * mint) + w * (mint * mint)
  OBVIOUS
<1>6. w * (lp * lp) <= (x * y) * (lp * lp)
  <2> DEFINE s == lp * lp
             t == x * y
  <2>1. s \in Nat /\ t \in Nat /\ w <= t
    OBVIOUS
  <2> HIDE DEF s, t
  <2>2. w * s <= t * s
    BY <2>1
  <2> QED
    BY <2>2 DEF s, t
<1>7. (2 * w) * (lp * mint) <= (x * b + y * a) * (lp * mint)
  <2> DEFINE s == lp * mint
             t == x * b + y * a
             u == 2 * w
  <2>1. s \in Nat /\ t \in Nat /\ u \in Nat /\ u <= t
    <3>1. x * b \in Nat /\ y * a \in Nat
      OBVIOUS
    <3> QED
      BY <3>1, ProductsAdd
  <2> HIDE DEF s, t, u
  <2>2. u * s <= t * s
    BY <2>1
  <2> QED
    BY <2>2 DEF s, t, u
<1>8. w * (mint * mint) <= (a * b) * (mint * mint)
  <2> DEFINE s == mint * mint
             t == a * b
  <2>1. s \in Nat /\ t \in Nat /\ w <= t
    OBVIOUS
  <2> HIDE DEF s, t
  <2>2. w * s <= t * s
    BY <2>1
  <2> QED
    BY <2>2 DEF s, t
<1>9. /\ w * (lp * lp) \in Nat /\ (x * y) * (lp * lp) \in Nat /\ (2 * w) * (lp * mint) \in Nat
      /\ (x * b + y * a) * (lp * mint) \in Nat /\ w * (mint * mint) \in Nat /\ (a * b) * (mint * mint) \in Nat
  <2>1. lp * lp \in Nat /\ lp * mint \in Nat /\ mint * mint \in Nat /\ x * y \in Nat /\ a * b \in Nat
        /\ x * b \in Nat /\ y * a \in Nat
    OBVIOUS
  <2>2. x * b + y * a \in Nat /\ 2 * w \in Nat
    BY <2>1
  <2> DEFINE s == x * b + y * a
             t == lp * mint
             u == x * y
             v == lp * lp
             z == a * b
             r == mint * mint
             k == 2 * w
  <2> HIDE DEF s, t, u, v, z, r, k
  <2>3. s * t \in Nat /\ u * v \in Nat /\ z * r \in Nat /\ k * t \in Nat /\ w * v \in Nat /\ w * r \in Nat
    BY <2>1, <2>2 DEF s, t, u, v, z, r, k
  <2> QED
    BY <2>3 DEF s, t, u, v, z, r, k
<1>10. w * (lp + mint) * (lp + mint) <= p * q
  <2> DEFINE s1 == w * (lp * lp)
             s2 == (2 * w) * (lp * mint)
             s3 == w * (mint * mint)
             t1 == (x * y) * (lp * lp)
             t2 == (x * b + y * a) * (lp * mint)
             t3 == (a * b) * (mint * mint)
             left == w * (lp + mint) * (lp + mint)
             right == p * q
  <2>1. left = s1 + s2 + s3 /\ right = t1 + t2 + t3 /\ s1 <= t1 /\ s2 <= t2 /\ s3 <= t3
        /\ s1 \in Nat /\ s2 \in Nat /\ s3 \in Nat /\ t1 \in Nat /\ t2 \in Nat /\ t3 \in Nat
    BY <1>4, <1>5, <1>6, <1>7, <1>8, <1>9
  <2> HIDE DEF s1, s2, s3, t1, t2, t3, left, right
  <2>2. left <= right
    BY <2>1
  <2> QED
    BY <2>2 DEF left, right
<1>11. w * (lp + mint) * (lp + mint) \in Nat /\ p * q \in Nat /\ pp * qq \in Nat
  <2>1. p * q \in Nat /\ pp * qq \in Nat
    <3> HIDE DEF p, q, pp, qq
    <3> QED
      BY <1>1
  <2>2. w * (lp + mint) * (lp + mint) \in Nat
    <3> DEFINE s == lp + mint
    <3>1. s \in Nat
      OBVIOUS
    <3> HIDE DEF s
    <3>2. w * s \in Nat
      BY <3>1
    <3>3. w * s * s \in Nat
      BY <3>1, <3>2
    <3> QED
      BY <3>3 DEF s
  <2> QED
    BY <2>1, <2>2
<1>12. w * (lp + mint) * (lp + mint) <= pp * qq
  <2> DEFINE left == w * (lp + mint) * (lp + mint)
             mid == p * q
             right == pp * qq
  <2>1. left <= mid /\ mid <= right /\ left \in Nat /\ mid \in Nat /\ right \in Nat
    BY <1>2, <1>10, <1>11
  <2> HIDE DEF left, mid, right
  <2>2. left <= right
    BY <2>1
  <2> QED
    BY <2>2 DEF left, right
<1> QED
  BY <1>3, <1>12

(* What holders leave behind is worth its shares. *)
LEMMA WithdrawalImproves ==
  ASSUME NEW x \in Nat, NEW y \in Nat, NEW w \in Int, NEW a \in Nat, NEW b \in Nat,
         NEW lp \in Nat, NEW left \in Nat,
         w <= x * y, x * left <= a * lp, y * left <= b * lp
  PROVE  w * left * left <= (a * b) * lp * lp
<1> DEFINE p == x * left
           q == y * left
           pp == a * lp
           qq == b * lp
<1>1. p \in Nat /\ q \in Nat /\ pp \in Nat /\ qq \in Nat /\ p <= pp /\ q <= qq
  OBVIOUS
<1>2. p * q <= pp * qq /\ p * q \in Nat /\ pp * qq \in Nat
  <2> HIDE DEF p, q, pp, qq
  <2>1. p * q <= pp * q /\ pp * q <= pp * qq
    BY <1>1
  <2>2. p * q \in Nat /\ pp * q \in Nat /\ pp * qq \in Nat
    BY <1>1
  <2> QED
    BY <2>1, <2>2
<1>3. w * (left * left) <= (x * y) * (left * left)
  <2> DEFINE s == left * left
             t == x * y
  <2>1. s \in Nat /\ t \in Nat /\ w <= t
    OBVIOUS
  <2> HIDE DEF s, t
  <2>2. w * s <= t * s
    BY <2>1
  <2> QED
    BY <2>2 DEF s, t
<1>4. p * q = (x * y) * (left * left) /\ pp * qq = (a * b) * lp * lp /\ w * left * left = w * (left * left)
  OBVIOUS
<1>5. w * left * left \in Int
  OBVIOUS
<1>6. w * left * left <= pp * qq
  <2> DEFINE u == w * left * left
             v == p * q
             z == pp * qq
  <2>1. u <= v /\ v <= z /\ u \in Int /\ v \in Nat /\ z \in Nat
    BY <1>2, <1>3, <1>4, <1>5
  <2> HIDE DEF u, v, z
  <2>2. u <= z
    BY <2>1
  <2> QED
    BY <2>2 DEF u, z
<1> QED
  BY <1>4, <1>6
-----------------------------------------------------------------------------
(* What the pool's orders make of its reserves.                            *)

BringsOf(s) == [o \in Order |-> Brings(s, o)]

Won(s, orders) == SumBy(LAMBDA o : Brings(s, o), orders)

LEMMA BringsType ==
  ASSUME NEW s \in Side
  PROVE  BringsOf(s) \in [Order -> Nat] /\ BringsOf(s) \in [Order -> Int]
<1>1. ASSUME NEW o \in Order PROVE Brings(s, o) \in Nat
  <2>1. o.lock \in Nat /\ o.level \in Positive
    BY DEF Order, Positive
  <2>2. o.lock * o.level \in Nat
    BY <2>1 DEF Positive
  <2> QED
    BY <2>1, <2>2, DivFloor DEF Brings
<1>2. BringsOf(s) \in [Order -> Nat]
  BY <1>1 DEF BringsOf
<1>3. \A S : [S -> Nat] \subseteq [S -> Int]
  OBVIOUS
<1> QED
  BY <1>2, <1>3

LEMMA WonIsWeight ==
  ASSUME NEW s \in Side, NEW orders \in Seq(Order)
  PROVE  Won(s, orders) = Weight(BringsOf(s), orders) /\ Won(s, orders) \in Nat
<1>1. \A i \in DOMAIN orders : orders[i] \in Order
  BY LenProperties, ElementOfSeq
<1>2. [i \in DOMAIN orders |-> Brings(s, orders[i])] = [i \in DOMAIN orders |-> BringsOf(s)[orders[i]]]
  BY <1>1 DEF BringsOf
<1>3. Won(s, orders) = Weight(BringsOf(s), orders)
  BY <1>2 DEF Won, SumBy, Weight
<1> QED
  BY <1>3, BringsType, WeightNat

LEMMA NoOrder ==
  ASSUME NEW s \in Side
  PROVE  Locked(<<>>) = 0 /\ Won(s, <<>>) = 0
<1>1. <<>> \in Seq(Order)
  OBVIOUS
<1> QED
  BY <1>1, LockedIsWeight, WonIsWeight, WeightEmpty

LEMMA OneOrder ==
  ASSUME NEW s \in Side, NEW o \in Order
  PROVE  <<o>> \in Seq(Order) /\ Locked(<<o>>) = o.lock /\ Won(s, <<o>>) = Brings(s, o)
<1>1. LockOf \in [Order -> Int] /\ BringsOf(s) \in [Order -> Int]
  BY WeightTypes, BringsType
<1>2. /\ <<o>> \in Seq(Order) /\ Weight(LockOf, <<o>>) = LockOf[o]
      /\ Weight(BringsOf(s), <<o>>) = BringsOf(s)[o]
  BY <1>1, WeightOne
<1>3. LockOf[o] = o.lock /\ BringsOf(s)[o] = Brings(s, o)
  BY DEF LockOf, BringsOf
<1> QED
  BY <1>2, <1>3, LockedIsWeight, WonIsWeight

(* The reserves when none, one or both sides are filled, seen from side s. *)
LEMMA FilledAre ==
  ASSUME NEW t \in [Side -> Int], NEW orders \in [Side -> Seq(Order)], NEW s \in Side
  PROVE  LET r == Other(s)
             l == Locked(orders[s])
             g == Won(s, orders[s])
             m == Locked(orders[r])
             h == Won(r, orders[r])
             at(sides) == WhenFilled(t, orders, sides)
         IN /\ l \in Nat /\ g \in Nat /\ m \in Nat /\ h \in Nat
            /\ at({})[s] = t[s]         /\ at({})[r] = t[r]
            /\ at({s})[s] = t[s] - l    /\ at({s})[r] = t[r] + g
            /\ at({r})[s] = t[s] + h    /\ at({r})[r] = t[r] - m
            /\ at(Side)[s] = t[s] - l + h /\ at(Side)[r] = t[r] - m + g
<1> DEFINE r == Other(s)
           l == Locked(orders[s])
           g == Won(s, orders[s])
           m == Locked(orders[r])
           h == Won(r, orders[r])
<1>1. r \in Side /\ r # s /\ Other(r) = s
  BY OtherSide
<1>2. orders[s] \in Seq(Order) /\ orders[r] \in Seq(Order)
  BY <1>1
<1>3. l \in Nat /\ g \in Nat /\ m \in Nat /\ h \in Nat
  <2> HIDE DEF r
  <2> QED
    BY <1>1, <1>2, LockedType, WonIsWeight
<1>4. t[s] \in Int /\ t[r] \in Int
  BY <1>1
<1>5. ASSUME NEW sides
      PROVE  /\ WhenFilled(t, orders, sides)[s] = t[s] - (IF s \in sides THEN l ELSE 0) + (IF r \in sides THEN h ELSE 0)
             /\ WhenFilled(t, orders, sides)[r] = t[r] - (IF r \in sides THEN m ELSE 0) + (IF s \in sides THEN g ELSE 0)
  <2>1. WhenFilled(t, orders, sides)[s] = t[s] - (IF s \in sides THEN l ELSE 0) + (IF r \in sides THEN h ELSE 0)
    BY DEF WhenFilled, Won
  <2>2. WhenFilled(t, orders, sides)[r] = t[r] - (IF r \in sides THEN m ELSE 0) + (IF Other(r) \in sides THEN Won(Other(r), orders[Other(r)]) ELSE 0)
    BY <1>1 DEF WhenFilled, Won
  <2> QED
    BY <1>1, <2>1, <2>2
<1>6. /\ s \notin {} /\ r \notin {} /\ s \in {s} /\ r \notin {s} /\ s \notin {r} /\ r \in {r}
  BY <1>1
<1> HIDE DEF r, l, g, m, h
<1>7. /\ WhenFilled(t, orders, {})[s] = t[s] /\ WhenFilled(t, orders, {})[r] = t[r]
      /\ WhenFilled(t, orders, {s})[s] = t[s] - l /\ WhenFilled(t, orders, {s})[r] = t[r] + g
      /\ WhenFilled(t, orders, {r})[s] = t[s] + h /\ WhenFilled(t, orders, {r})[r] = t[r] - m
      /\ WhenFilled(t, orders, Side)[s] = t[s] - l + h /\ WhenFilled(t, orders, Side)[r] = t[r] - m + g
  BY <1>1, <1>3, <1>4, <1>5, <1>6
<1> QED
  BY <1>3, <1>7 DEF r, l, g, m, h

LEMMA ProductFrom ==
  ASSUME NEW t, NEW s \in Side, t[s] \in Int, t[Other(s)] \in Int
  PROVE  Product(t) = t[s] * t[Other(s)]
BY DEF Product, Side, Other

(* The corners are four products. *)
Above(w, x, y, l, g, m, h) ==
  /\ w <= x * y
  /\ w <= (x - l) * (y + g)
  /\ w <= (x + h) * (y - m)
  /\ w <= (x - l + h) * (y - m + g)

AllAbove(w, t, orders, s) ==
  Above(w, t[s], t[Other(s)], Locked(orders[s]), Won(s, orders[s]),
        Locked(orders[Other(s)]), Won(Other(s), orders[Other(s)]))

LEMMA SidesAre == ASSUME NEW s \in Side PROVE SUBSET Side = {{}, {s}, {Other(s)}, Side}
BY DEF Side, Other

LEMMA CornersAre ==
  ASSUME NEW t \in [Side -> Int], NEW orders \in [Side -> Seq(Order)], NEW s \in Side
  PROVE  LET r == Other(s)
             l == Locked(orders[s])
             g == Won(s, orders[s])
             m == Locked(orders[r])
             h == Won(r, orders[r])
         IN Corners(t, orders) = {t[s] * t[r], (t[s] - l) * (t[r] + g), (t[s] + h) * (t[r] - m),
                                  (t[s] - l + h) * (t[r] - m + g)}
<1> DEFINE r == Other(s)
           l == Locked(orders[s])
           g == Won(s, orders[s])
           m == Locked(orders[r])
           h == Won(r, orders[r])
           at(sides) == WhenFilled(t, orders, sides)
<1>1. r \in Side /\ t[s] \in Int /\ t[r] \in Int
  BY OtherSide
<1>2. /\ l \in Nat /\ g \in Nat /\ m \in Nat /\ h \in Nat
      /\ at({})[s] = t[s]         /\ at({})[r] = t[r]
      /\ at({s})[s] = t[s] - l    /\ at({s})[r] = t[r] + g
      /\ at({r})[s] = t[s] + h    /\ at({r})[r] = t[r] - m
      /\ at(Side)[s] = t[s] - l + h /\ at(Side)[r] = t[r] - m + g
  BY FilledAre
<1> HIDE DEF l, g, m, h, at
<1>3. /\ Product(at({})) = t[s] * t[r]
      /\ Product(at({s})) = (t[s] - l) * (t[r] + g)
      /\ Product(at({r})) = (t[s] + h) * (t[r] - m)
      /\ Product(at(Side)) = (t[s] - l + h) * (t[r] - m + g)
  <2>1. ASSUME NEW sides, NEW x \in Int, NEW y \in Int, at(sides)[s] = x, at(sides)[r] = y
        PROVE  Product(at(sides)) = x * y
    BY <2>1, ProductFrom
  <2> HIDE DEF r
  <2>2. Product(at({})) = t[s] * t[r]
    BY <1>1, <1>2, <2>1
  <2>3. Product(at({s})) = (t[s] - l) * (t[r] + g)
    <3>1. t[s] - l \in Int /\ t[r] + g \in Int
      BY <1>1, <1>2
    <3> QED
      BY <1>2, <2>1, <3>1
  <2>4. Product(at({r})) = (t[s] + h) * (t[r] - m)
    <3>1. t[s] + h \in Int /\ t[r] - m \in Int
      BY <1>1, <1>2
    <3> QED
      BY <1>2, <2>1, <3>1
  <2>5. Product(at(Side)) = (t[s] - l + h) * (t[r] - m + g)
    <3>1. t[s] - l + h \in Int /\ t[r] - m + g \in Int
      BY <1>1, <1>2
    <3> QED
      BY <1>2, <2>1, <3>1
  <2> QED
    BY <2>2, <2>3, <2>4, <2>5
<1>4. Corners(t, orders) = {Product(at(sides)) : sides \in SUBSET Side}
  BY DEF Corners, at
<1>5. {Product(at(sides)) : sides \in SUBSET Side} = {Product(at({})), Product(at({s})), Product(at({r})), Product(at(Side))}
  <2> HIDE DEF r
  <2>1. SUBSET Side = {{}, {s}, {r}, Side}
    BY SidesAre DEF r
  <2> HIDE DEF at
  <2> DEFINE P(sides) == Product(at(sides))
  <2> HIDE DEF P
  <2>2. {P(sides) : sides \in {{}, {s}, {r}, Side}} = {P({}), P({s}), P({r}), P(Side)}
    OBVIOUS
  <2> QED
    BY <2>1, <2>2 DEF P
<1> QED
  BY <1>3, <1>4, <1>5 DEF l, g, m, h

(* The worst corner is one of them. *)
LEMMA WorstIs ==
  ASSUME NEW t \in [Side -> Int], NEW orders \in [Side -> Seq(Order)]
  PROVE  /\ Corners(t, orders) \subseteq Int
         /\ Min(Corners(t, orders)) \in Corners(t, orders)
         /\ \A c \in Corners(t, orders) : Min(Corners(t, orders)) <= c
<1> DEFINE S == Corners(t, orders)
<1>1. "coin" \in Side /\ Other("coin") \in Side
  BY DEF Side, Other
<1>2. PICK a \in Int, b \in Int, c \in Int, d \in Int : S = {a, b, c, d}
  <2> DEFINE s == "coin"
             r == Other(s)
             l == Locked(orders[s])
             g == Won(s, orders[s])
             m == Locked(orders[r])
             h == Won(r, orders[r])
             x == t[s]
             y == t[r]
  <2>1. S = {x * y, (x - l) * (y + g), (x + h) * (y - m), (x - l + h) * (y - m + g)}
    BY <1>1, CornersAre
  <2>2. l \in Nat /\ g \in Nat /\ m \in Nat /\ h \in Nat /\ x \in Int /\ y \in Int
    BY <1>1, FilledAre
  <2> HIDE DEF l, g, m, h, S, s, r, x, y
  <2>3. x * y \in Int /\ (x - l) * (y + g) \in Int /\ (x + h) * (y - m) \in Int /\ (x - l + h) * (y - m + g) \in Int
    BY <2>2
  <2> QED
    BY <2>1, <2>3
<1> HIDE DEF S
<1>3. S \subseteq Int
  BY <1>2
<1>4. \E x \in S : \A y \in S : x <= y
  <2>1. \A x \in Int, y \in Int : x <= y \/ y <= x
    OBVIOUS
  <2>2. PICK e \in {a, b} : e <= a /\ e <= b
    BY <2>1
  <2>3. PICK f \in {c, d} : f <= c /\ f <= d
    BY <2>1
  <2>4. e \in Int /\ f \in Int
    OBVIOUS
  <2>5. CASE e <= f
    <3>1. e <= a /\ e <= b /\ e <= c /\ e <= d
      BY <2>2, <2>3, <2>4, <2>5
    <3> QED
      BY <1>2, <3>1
  <2>6. CASE f <= e
    <3>1. f <= a /\ f <= b /\ f <= c /\ f <= d
      BY <2>2, <2>3, <2>4, <2>6
    <3> QED
      BY <1>2, <3>1
  <2> QED
    BY <2>1, <2>4, <2>5, <2>6
<1>5. Min(S) \in S /\ \A c1 \in S : Min(S) <= c1
  BY <1>4 DEF Min
<1> QED
  BY <1>3, <1>5 DEF S

(* The standing of a pool that places one order a side: at most one order  *)
(* locks each token, a bid a whole number of lots.                         *)
Single(s, orders) ==
  \/ orders = <<>>
  \/ \E o \in Order : orders = <<o>> /\ (s = "pc" => \E n \in Nat : o.lock = n * o.level)

FloorInv == BookInv /\ \A s \in Side : Single(s, market.orders[s])

(* The reserves pay for each order on the book.  A placed order locks less *)
(* than the reserves, and what a swap or a withdrawal pays comes from what *)
(* is not locked; only profit that is set aside afterwards could take from *)
(* what the orders lock.                                                   *)
OrdersCovered == \A s \in Side : Locked(market.orders[s]) <= Total[s]

(* No way to fill the orders leaves less behind each lp token than the     *)
(* worst way did before.                                                   *)
NoWorse ==
  \A c \in Corners(Total', market'.orders) : Worst * lpAmount' * lpAmount' <= c * lpAmount * lpAmount

LEMMA BookTypes ==
  ASSUME BookInv
  PROVE  /\ Total \in [Side -> Int] /\ market.orders \in [Side -> Seq(Order)] /\ lpAmount \in Nat
         /\ Worst \in Int /\ \A c \in Corners(Total, market.orders) : Worst <= c
<1>1. \A s \in Side : Total[s] \in Int
  BY TotalFacts
<1>2. Total = [s \in Side |-> Total[s]]
  BY DEF Total, Minus
<1>3. Total \in [Side -> Int]
  BY <1>1, <1>2
<1>4. market.orders \in [Side -> Seq(Order)] /\ lpAmount \in Nat
  BY DEF BookInv, TypeOK, Standing
<1> QED
  BY <1>3, <1>4, WorstIs DEF Worst

LEMMA TotalNext ==
  ASSUME BookInv'
  PROVE  /\ Total' \in [Side -> Int] /\ market'.orders \in [Side -> Seq(Order)] /\ lpAmount' \in Nat
         /\ \A s \in Side :
              /\ vault'[s] \in Nat /\ needTakePnl'[s] \in Nat /\ CalcExact(market')[s] \in Nat
              /\ Total'[s] = vault'[s] + CalcExact(market')[s] - needTakePnl'[s]
         /\ Worst' \in Corners(Total', market'.orders)
<1>1. \A s \in Side : vault'[s] \in Nat /\ needTakePnl'[s] \in Nat /\ CalcExact(market')[s] \in Nat
  BY ExactIsOwned DEF BookInv, TypeOK, Amount
<1>2. ASSUME NEW s \in Side
      PROVE  Total'[s] = vault'[s] + CalcExact(market')[s] - needTakePnl'[s]
  <2>1. CASE OrderBookOn'
    <3>1. Total'[s] = Plus(vault', CalcExact(market'))[s] - needTakePnl'[s]
      BY <2>1 DEF Total, Minus
    <3>2. Plus(vault', CalcExact(market'))[s] = vault'[s] + CalcExact(market')[s]
      BY DEF Plus
    <3> QED
      BY <1>1, <3>1, <3>2
  <2>2. CASE ~OrderBookOn'
    <3>1. CalcExact(market')[s] = 0
      BY <2>2 DEF BookInv, OffTheBook, Zero
    <3>2. Total'[s] = vault'[s] - needTakePnl'[s]
      BY <2>2 DEF Total, Minus
    <3> QED
      BY <1>1, <3>1, <3>2
  <2> QED
    BY <2>1, <2>2
<1>3. Total' = [s \in Side |-> Total'[s]]
  BY DEF Total, Minus
<1>4. Total' \in [Side -> Int]
  BY <1>1, <1>2, <1>3
<1>5. market'.orders \in [Side -> Seq(Order)] /\ lpAmount' \in Nat
  BY DEF BookInv, TypeOK, Standing
<1>6. Worst' = Min(Corners(Total', market'.orders))
  BY DEF Worst
<1> QED
  BY <1>1, <1>2, <1>4, <1>5, <1>6, WorstIs

(* It is enough to look at the four corners from any side. *)
LEMMA SameShares ==
  ASSUME BookInv, BookInv', lpAmount' = lpAmount, \A c \in Corners(Total', market'.orders) : Worst <= c
  PROVE  NoWorse
<1>1. lpAmount \in Nat /\ Worst \in Int /\ Corners(Total', market'.orders) \subseteq Int
  BY BookTypes, TotalNext, WorstIs
<1>2. ASSUME NEW c \in Corners(Total', market'.orders)
      PROVE  Worst * lpAmount * lpAmount <= c * lpAmount * lpAmount
  <2>1. c \in Int /\ Worst <= c
    BY <1>1, <1>2
  <2> DEFINE w == Worst
             n == lpAmount
  <2>2. n \in Nat /\ w \in Int /\ w <= c
    BY <1>1, <2>1
  <2> HIDE DEF w, n
  <2>3. w * n <= c * n /\ w * n \in Int /\ c * n \in Int
    BY <2>1, <2>2
  <2> DEFINE u == w * n
             v == c * n
  <2>4. u <= v /\ u \in Int /\ v \in Int
    BY <2>3
  <2> HIDE DEF u, v
  <2>5. u * n <= v * n
    BY <2>2, <2>4
  <2> QED
    BY <2>5 DEF u, v, w, n
<1> QED
  BY <1>2 DEF NoWorse

(* What the numbers are before a step, seen from side s: every corner is   *)
(* at least the worst. *)
LEMMA BeforeFrom ==
  ASSUME BookInv, NEW s \in Side
  PROVE  LET r == Other(s)
             l == Locked(market.orders[s])
             g == Won(s, market.orders[s])
             m == Locked(market.orders[r])
             h == Won(r, market.orders[r])
         IN /\ Total[s] \in Int /\ Total[r] \in Int /\ Worst \in Int
            /\ l \in Nat /\ g \in Nat /\ m \in Nat /\ h \in Nat
            /\ Above(Worst, Total[s], Total[r], l, g, m, h)
<1>1. /\ Total \in [Side -> Int] /\ market.orders \in [Side -> Seq(Order)]
      /\ Worst \in Int /\ \A c \in Corners(Total, market.orders) : Worst <= c
  BY BookTypes
<1>2. Other(s) \in Side
  BY OtherSide
<1> DEFINE r == Other(s)
           l == Locked(market.orders[s])
           g == Won(s, market.orders[s])
           m == Locked(market.orders[r])
           h == Won(r, market.orders[r])
           x == Total[s]
           y == Total[r]
<1>3. l \in Nat /\ g \in Nat /\ m \in Nat /\ h \in Nat
  BY <1>1, FilledAre
<1>4. Corners(Total, market.orders)
        = {x * y, (x - l) * (y + g), (x + h) * (y - m), (x - l + h) * (y - m + g)}
  BY <1>1, CornersAre
<1>5. x \in Int /\ y \in Int
  BY <1>1, <1>2
<1> HIDE DEF l, g, m, h, x, y
<1>6. Above(Worst, x, y, l, g, m, h)
  BY <1>1, <1>4 DEF Above
<1> QED
  BY <1>1, <1>3, <1>5, <1>6 DEF l, g, m, h, x, y

LEMMA AfterFrom ==
  ASSUME BookInv, BookInv', lpAmount' = lpAmount, NEW s \in Side,
         AllAbove(Worst, Total', market'.orders, s)
  PROVE  NoWorse
<1>1. Total' \in [Side -> Int] /\ market'.orders \in [Side -> Seq(Order)]
  BY TotalNext
<1>2. \A c \in Corners(Total', market'.orders) : Worst <= c
  BY <1>1, CornersAre DEF AllAbove, Above
<1> QED
  BY <1>2, SameShares

(* When nothing of the reserves and of the orders changes. *)
LEMMA SameFloor ==
  ASSUME BookInv, BookInv', lpAmount' = lpAmount, market'.orders = market.orders,
         \A s \in Side : Total'[s] = Total[s]
  PROVE  NoWorse
<1>1. Total' = Total
  <2>1. Total' = [s \in Side |-> Total'[s]] /\ Total = [s \in Side |-> Total[s]]
    BY BookTypes, TotalNext
  <2> QED
    BY <2>1
<1> QED
  BY <1>1, BookTypes, SameShares

(* When the orders are gone and what they locked is counted as before.     *)
LEMMA ClearedFloor ==
  ASSUME BookInv, BookInv', lpAmount' = lpAmount, \A s \in Side : market'.orders[s] = <<>>,
         \A s \in Side : Total'[s] = Total[s]
  PROVE  NoWorse
<1>1. "coin" \in Side /\ Other("coin") \in Side
  BY DEF Side, Other
<1> DEFINE s == "coin"
           r == Other(s)
<1> HIDE DEF s
<1>2. s \in Side /\ r \in Side
  BY <1>1 DEF s
<1>3. /\ Locked(market'.orders[s]) = 0 /\ Won(s, market'.orders[s]) = 0
      /\ Locked(market'.orders[r]) = 0 /\ Won(r, market'.orders[r]) = 0
  BY <1>2, NoOrder
<1>4. Total[s] \in Int /\ Total[r] \in Int /\ Worst \in Int /\ Worst <= Total[s] * Total[r]
  BY <1>2, BeforeFrom DEF Above
<1>5. Total'[s] = Total[s] /\ Total'[r] = Total[r]
  BY <1>2
<1>6. Above(Worst, Total[s], Total[r], 0, 0, 0, 0)
  BY <1>4 DEF Above
<1> QED
  BY <1>2, <1>3, <1>5, <1>6, AfterFrom DEF AllAbove
-----------------------------------------------------------------------------
(* Step by step.  The steps that take profit or give up an open orders     *)
(* account are none of the floor's.                                        *)
Quiet == UNCHANGED <<needTakePnl, pnlPaid, stranded>>

(* Clearing the book counts the same tokens in the vaults and on the       *)
(* market.                                                                 *)
LEMMA ClearedCounts ==
  ASSUME BookInv, NEW s \in Side
  PROVE  /\ Cleared.orders[s] = <<>>
         /\ Settled(CancelBoth(market))[s] + CalcExact(Cleared)[s] = vault[s] + CalcExact(market)[s]
<1>1. market \in Sound /\ vault[s] \in Nat
  BY DEF BookInv, TypeOK, Amount
<1>2. CancelBoth(market) \in Sound /\ CancelBoth(market).orders[s] = <<>>
  BY <1>1, CancelBothUnlocks
<1>3. Cleared.orders[s] = <<>>
  BY <1>2, SettleTakesFree DEF Cleared
<1>4. /\ CalcExact(market)[s] = market.free[s] + Locked(market.orders[s]) + Unseen(market.queue, s)
      /\ market.free[s] \in Nat /\ Locked(market.orders[s]) \in Nat /\ Unseen(market.queue, s) \in Nat
  BY <1>1, ExactIsOwned, Parts
<1>5. /\ CalcExact(Cleared)[s] = Unseen(market.queue, s)
      /\ Settled(CancelBoth(market))[s] = vault[s] + market.free[s] + Locked(market.orders[s])
  BY ClearedFacts
<1> QED
  BY <1>1, <1>3, <1>4, <1>5

LEMMA TotalKept ==
  ASSUME BookInv, BookInv', needTakePnl' = needTakePnl, NEW s \in Side,
         vault'[s] + CalcExact(market')[s] = vault[s] + CalcExact(market)[s]
  PROVE  Total'[s] = Total[s]
<1> DEFINE v == vault[s]
           e == CalcExact(market)[s]
           n == needTakePnl[s]
<1>1. /\ Total'[s] = v' + e' - n'
      /\ v' \in Nat /\ n' \in Nat /\ e' \in Nat
  BY TotalNext
<1>2. Total[s] = v + e - n /\ v \in Nat /\ n \in Nat /\ e \in Nat
  BY TotalFacts
<1>3. n' = n /\ v' + e' = v + e
  OBVIOUS
<1> HIDE DEF v, e, n
<1>4. v' + e' - n' = v + e - n
  BY <1>1, <1>2, <1>3
<1> QED
  BY <1>1, <1>2, <1>4

LEMMA ClearingFloor ==
  ASSUME BookInv, BookInv', lpAmount' = lpAmount, needTakePnl' = needTakePnl,
         vault' = Settled(CancelBoth(market)),
         \A s \in Side : market'.orders[s] = <<>> /\ CalcExact(market')[s] = CalcExact(Cleared)[s]
  PROVE  NoWorse
<1>1. ASSUME NEW s \in Side PROVE Total'[s] = Total[s]
  <2>1. vault'[s] + CalcExact(market')[s] = vault[s] + CalcExact(market)[s]
    BY ClearedCounts
  <2> QED
    BY <2>1, TotalKept
<1> QED
  BY <1>1, ClearedFloor

LEMMA CancelAllFloor ==
  ASSUME BookInv, BookInv', CancelAll \/ \E value \in StatusChoices : SetStatus(value)
  PROVE  NoWorse
<1>1. /\ vault' = Settled(CancelBoth(market)) /\ market' = Cleared
      /\ needTakePnl' = needTakePnl /\ lpAmount' = lpAmount
  BY DEF CancelAll, SetStatus, ClearBook
<1>2. \A s \in Side : market'.orders[s] = <<>> /\ CalcExact(market')[s] = CalcExact(Cleared)[s]
  BY <1>1, ClearedCounts
<1> QED
  BY <1>1, <1>2, ClearingFloor

LEMMA NoStandingFloor ==
  ASSUME BookInv, BookInv', lpAmount' = lpAmount, needTakePnl' = needTakePnl,
         vault' = Settled(CancelBoth(market)), market' = NoStanding,
         \A s \in Side : CalcExact(Cleared)[s] = 0
  PROVE  NoWorse
<1>1. ASSUME NEW s \in Side PROVE market'.orders[s] = <<>> /\ CalcExact(market')[s] = CalcExact(Cleared)[s]
  <2>1. market'.orders[s] = <<>>
    BY DEF NoStanding, NoOrders
  <2>2. CalcExact(market')[s] = 0
    BY NoStandingIsSound DEF Zero
  <2> QED
    BY <2>1, <2>2
<1> QED
  BY <1>1, ClearingFloor

(* An open orders account that is given up without a loss was empty.       *)
LEMMA UpdateOpenOrderFloor ==
  ASSUME BookInv, BookInv', Quiet, UpdateOpenOrder
  PROVE  NoWorse
<1>1. /\ vault' = Settled(CancelBoth(market)) /\ market' = NoStanding
      /\ needTakePnl' = needTakePnl /\ lpAmount' = lpAmount
      /\ stranded' = Plus(stranded, CalcExact(Cleared))
  BY DEF UpdateOpenOrder
<1>2. stranded' = stranded
  BY DEF Quiet
<1>3. ASSUME NEW s \in Side PROVE CalcExact(Cleared)[s] = 0
  <2>1. stranded[s] \in Nat /\ CalcExact(Cleared)[s] \in Nat
    BY ClearedFacts DEF BookInv, TypeOK, Amount
  <2>2. Plus(stranded, CalcExact(Cleared))[s] = stranded[s] + CalcExact(Cleared)[s]
    BY DEF Plus
  <2>3. stranded[s] + CalcExact(Cleared)[s] = stranded[s]
    BY <1>1, <1>2, <2>2
  <2> QED
    BY <2>1, <2>3
<1> QED
  BY <1>1, <1>3, NoStandingFloor

LEMMA MigrateFloor ==
  ASSUME BookInv, BookInv', Quiet, NEW newSys \in SysChoices, Migrate(newSys)
  PROVE  NoWorse
<1>1. /\ vault' = Settled(CancelBoth(market)) /\ market' = NoStanding
      /\ needTakePnl' = needTakePnl /\ lpAmount' = lpAmount
      /\ CalcExact(Cleared) = Zero
  BY DEF Migrate, Quiet, AllIsBack
<1>2. \A s \in Side : CalcExact(Cleared)[s] = 0
  BY <1>1 DEF Zero
<1> QED
  BY <1>1, <1>2, NoStandingFloor

(* Steps that move nothing of the reserves and of the orders. *)
LEMMA IdleFloor ==
  ASSUME BookInv, BookInv', lpAmount' = lpAmount, needTakePnl' = needTakePnl, vault' = vault,
         market'.orders = market.orders, \A s \in Side : CalcExact(market')[s] = CalcExact(market)[s]
  PROVE  NoWorse
<1>1. ASSUME NEW s \in Side PROVE Total'[s] = Total[s]
  <2>1. Total'[s] = vault'[s] + CalcExact(market')[s] - needTakePnl'[s]
    BY TotalNext
  <2>2. Total[s] = vault[s] + CalcExact(market)[s] - needTakePnl[s]
    BY TotalFacts
  <2> QED
    BY <2>1, <2>2
<1> QED
  BY <1>1, SameFloor

LEMMA ConsumeEventsFloor ==
  ASSUME BookInv, BookInv', ConsumeEvents
  PROVE  NoWorse
<1>1. /\ market.queue # <<>> /\ market' = ConsumeHead(market)
      /\ UNCHANGED <<vault, needTakePnl, lpAmount>>
  BY DEF ConsumeEvents
<1>2. market'.orders = market.orders /\ CalcExact(market') = CalcExact(market)
  BY <1>1, ConsumingIsSound DEF BookInv
<1> QED
  BY <1>1, <1>2, IdleFloor

LEMMA TakeProfitFloor ==
  ASSUME BookInv, BookInv', Quiet, TakeProfit
  PROVE  NoWorse
<1>1. UNCHANGED <<vault, market, needTakePnl, lpAmount>>
  BY DEF TakeProfit, Quiet
<1> QED
  BY <1>1, IdleFloor

(* Withdrawing the profit owed when there is none. *)
LEMMA WithdrawPnlFloor ==
  ASSUME BookInv, BookInv', Quiet, WithdrawPnl
  PROVE  NoWorse
<1> PICK taken \in CalcTakePnl :
       LET owed == Plus(needTakePnl, taken.pnl) IN
         /\ vault' = Minus(vault, owed)
         /\ pnlPaid' = Plus(pnlPaid, owed)
  BY DEF WithdrawPnl
<1> DEFINE owed == Plus(needTakePnl, taken.pnl)
<1>1. /\ vault' = Minus(vault, owed) /\ pnlPaid' = Plus(pnlPaid, owed)
      /\ UNCHANGED <<needTakePnl, pnlPaid, market, lpAmount>>
  BY DEF Quiet, WithdrawPnl
<1>2. owed \in Amount /\ vault \in Amount /\ pnlPaid \in Amount
  BY TakenFacts, ArithmeticType DEF BookInv, TypeOK
<1> HIDE DEF owed
<1>3. ASSUME NEW s \in Side PROVE vault'[s] = vault[s]
  <2>1. owed[s] \in Nat /\ vault[s] \in Nat /\ pnlPaid[s] \in Nat
    BY <1>2 DEF Amount
  <2>2. pnlPaid'[s] = pnlPaid[s] + owed[s]
    BY <1>1 DEF Plus
  <2>3. vault'[s] = vault[s] - owed[s]
    BY <1>1 DEF Minus
  <2> QED
    BY <1>1, <2>1, <2>2, <2>3
<1>4. vault' = vault
  <2>1. vault' \in Amount
    BY DEF BookInv, TypeOK
  <2> QED
    BY <1>2, <1>3, <2>1 DEF Amount
<1> QED
  BY <1>1, <1>4, IdleFloor

(* What a swap does to the reserves and to the orders: those that lock the *)
(* token it pays are gone.                                                 *)
LEMMA ExchangeCounts ==
  ASSUME BookInv, BookInv', NEW src \in Side, NEW in \in Nat, NEW out \in Nat, Exchange(src, in, out)
  PROVE  /\ market'.orders[Other(src)] = <<>> /\ market'.orders[src] = market.orders[src]
         /\ Total'[src] = Total[src] + in /\ Total'[Other(src)] = Total[Other(src)] - out
         /\ lpAmount' = lpAmount
<1> DEFINE to == Other(src)
           c == CancelledFor(to)
           ready == ReadyFor(out, to)
           after == IF NeedsSettling(out, to) THEN Settle(c) ELSE c
<1>1. to \in Side /\ to # src /\ Other(to) = src
  BY OtherSide
<1>2. /\ vault' = [ready EXCEPT ![src] = @ + in, ![to] = @ - out]
      /\ market' = after
      /\ UNCHANGED <<needTakePnl, calcPnl, lpAmount, sys, pnlPaid, stranded>>
  BY DEF Exchange
<1>3. market \in Sound /\ vault \in Amount
  BY DEF BookInv, TypeOK
<1>4. /\ c \in Sound /\ c.orders[to] = <<>> /\ c.orders[src] = market.orders[src]
      /\ \A s \in Side : CalcExact(c)[s] = CalcExact(market)[s]
  <2> HIDE DEF to
  <2>1. CASE OrderBookOn
    <3> DEFINE b == CancelAfter(market, to, 0)
    <3>1. c = b
      BY <2>1 DEF CancelledFor
    <3>2. OnlyUnlocks(market, b, to) /\ b.orders[to] = <<>>
      BY <1>1, <1>3, CancelAfterUnlocks
    <3> HIDE DEF b
    <3>3. b \in Sound /\ b.orders[src] = market.orders[src] /\ CalcExact(b) = CalcExact(market)
      BY <1>1, <3>2 DEF OnlyUnlocks
    <3> QED
      BY <3>1, <3>2, <3>3
  <2>2. CASE ~OrderBookOn
    <3>1. c = market
      BY <2>2 DEF CancelledFor
    <3>2. market.orders[to] = <<>>
      BY <1>1, <2>2, OrdersNeedTheBook
    <3> QED
      BY <1>3, <3>1, <3>2
  <2> QED
    BY <2>1, <2>2
<1> HIDE DEF c
<1>5. /\ after.orders = c.orders
      /\ ready \in Amount
      /\ \A s \in Side : ready[s] + CalcExact(after)[s] = vault[s] + CalcExact(market)[s]
  <2>1. CASE NeedsSettling(out, to)
    <3>1. ready = Settled(c) /\ after = Settle(c)
      BY <2>1 DEF ReadyFor, c
    <3>2. after.orders = c.orders /\ \A s \in Side : CalcExact(after)[s] = CalcExact(c)[s] - c.free[s]
      BY <1>4, <3>1, SettleTakesFree
    <3>3. c.free \in Amount
      BY <1>4 DEF Sound, Standing
    <3>4. ready \in Amount
      BY <1>3, <3>1, <3>3, ArithmeticType DEF Settled
    <3>5. ASSUME NEW s \in Side PROVE ready[s] + CalcExact(after)[s] = vault[s] + CalcExact(market)[s]
      <4> DEFINE e == CalcExact(market)[s]
                 f == c.free[s]
                 v == vault[s]
      <4>1. e \in Nat /\ f \in Nat /\ v \in Nat
        BY <1>3, <3>3, ExactIsOwned DEF Amount
      <4>2. ready[s] = v + f
        BY <3>1 DEF Settled, Plus
      <4>3. CalcExact(after)[s] = e - f
        BY <1>4, <3>2
      <4> HIDE DEF e, f, v, ready, after
      <4>4. ready[s] + CalcExact(after)[s] = v + e
        BY <4>1, <4>2, <4>3
      <4> QED
        BY <4>4 DEF v, e
    <3> QED
      BY <3>2, <3>4, <3>5
  <2>2. CASE ~NeedsSettling(out, to)
    <3>1. ready = vault /\ after = c
      BY <2>2 DEF ReadyFor
    <3> QED
      BY <1>3, <1>4, <3>1
  <2> QED
    BY <2>1, <2>2
<1>6. market'.orders[to] = <<>> /\ market'.orders[src] = market.orders[src]
  BY <1>2, <1>4, <1>5
<1> HIDE DEF ready, after
<1>7. ASSUME NEW s \in Side, NEW d \in Int, vault'[s] = ready[s] + d PROVE Total'[s] = Total[s] + d
  <2> DEFINE v == vault[s]
             e == CalcExact(market)[s]
             n == needTakePnl[s]
             a == CalcExact(after)[s]
             r == ready[s]
  <2>1. /\ Total'[s] = vault'[s] + CalcExact(market')[s] - needTakePnl'[s]
        /\ CalcExact(market')[s] \in Nat
    BY TotalNext
  <2>2. Total[s] = v + e - n /\ v \in Nat /\ n \in Nat /\ e \in Nat
    BY TotalFacts
  <2>3. needTakePnl'[s] = n /\ CalcExact(market')[s] = a
    BY <1>2
  <2>4. r + a = v + e /\ r \in Nat /\ a \in Nat
    BY <1>5, <2>1, <2>3 DEF Amount
  <2>5. Total'[s] = r + d + a - n
    BY <1>7, <2>1, <2>3
  <2> HIDE DEF v, e, n, a, r
  <2>6. r + d + a - n = v + e - n + d
    BY <1>7, <2>2, <2>4
  <2> QED
    BY <1>7, <2>2, <2>5, <2>6
<1>8. Total'[src] = Total[src] + in
  <2>1. vault'[src] = ready[src] + in
    BY <1>1, <1>2, <1>5 DEF Amount
  <2> QED
    BY <1>7, <2>1
<1>9. Total'[to] = Total[to] - out
  <2> HIDE DEF to
  <2>1. vault'[to] = ready[to] - out
    BY <1>1, <1>2, <1>5 DEF Amount
  <2>2. -out \in Int /\ vault'[to] = ready[to] + (-out)
    BY <1>1, <1>5, <2>1 DEF Amount
  <2>3. Total'[to] = Total[to] + (-out)
    BY <1>1, <1>7, <2>2
  <2>4. Total[to] \in Int
    BY <1>1, BookTypes
  <2> QED
    BY <2>3, <2>4
<1> QED
  BY <1>2, <1>6, <1>8, <1>9

LEMMA ExchangeFloor ==
  ASSUME BookInv, BookInv', NEW src \in Side, NEW in \in Nat, NEW out \in Nat, KeepsProduct(src, in, out)
  PROVE  NoWorse
<1> DEFINE to == Other(src)
           l == Locked(market.orders[src])
           g == Won(src, market.orders[src])
           m == Locked(market.orders[to])
           h == Won(to, market.orders[to])
           x == Total[src]
           y == Total[to]
           w == Worst
<1>1. /\ market'.orders[to] = <<>> /\ market'.orders[src] = market.orders[src]
      /\ Total'[src] = x + in /\ Total'[to] = y - out /\ lpAmount' = lpAmount
  BY ExchangeCounts DEF KeepsProduct
<1>2. /\ x \in Int /\ y \in Int /\ w \in Int /\ l \in Nat /\ g \in Nat
      /\ Above(w, x, y, l, g, m, h)
  BY BeforeFrom
<1>3. Locked(market'.orders[to]) = 0 /\ Won(to, market'.orders[to]) = 0
  BY <1>1, OtherSide, NoOrder
<1>4. x * y <= (x + in) * (y - out)
  BY DEF KeepsProduct
<1> HIDE DEF l, g, m, h, x, y, w
<1>5. w <= x * y /\ w <= (x - l) * (y + g)
  BY <1>2 DEF Above
<1>6. w <= (x + in - l) * (y - out + g)
  BY <1>2, <1>4, <1>5, SwapImproves
<1>7. w <= (x + in) * (y - out)
  <2> DEFINE u == x * y
             v == (x + in) * (y - out)
  <2>1. u \in Int /\ v \in Int /\ w <= u /\ u <= v
    BY <1>2, <1>4, <1>5
  <2> HIDE DEF u, v
  <2>2. w <= v
    BY <1>2, <2>1
  <2> QED
    BY <2>2 DEF v
<1>8. Above(w, x + in, y - out, l, g, 0, 0)
  <2> DEFINE p == x + in
             q == y - out
  <2>1. p \in Int /\ q \in Int /\ w <= p * q /\ w <= (p - l) * (q + g)
    BY <1>2, <1>6, <1>7
  <2> HIDE DEF p, q
  <2>2. p + 0 = p /\ q - 0 = q /\ p - l + 0 = p - l /\ q - 0 + g = q + g
    BY <1>2, <2>1
  <2>3. Above(w, p, q, l, g, 0, 0)
    BY <2>1, <2>2 DEF Above
  <2> QED
    BY <2>3 DEF p, q
<1>9. AllAbove(Worst, Total', market'.orders, src)
  BY <1>1, <1>3, <1>8 DEF AllAbove, l, g, w
<1> QED
  BY <1>1, <1>9, AfterFrom

(* An order that is placed: it stands alone on its side, and what the      *)
(* vault pays for it is counted on the market.                             *)
LEMMA PlacingFacts ==
  ASSUME BookInv, NEW s \in Side, NEW price \in Prices, NEW size \in Sizes, PlaceOrder(s, price, size)
  PROVE  LET lock == IF s = "pc" THEN price * size ELSE size
             order == [lock |-> lock, level |-> price, listed |-> TRUE]
         IN /\ price \in Nat \ {0} /\ size \in Nat \ {0} /\ order \in Order
            /\ market'.orders[s] = <<order>>
            /\ market'.orders[Other(s)] = market.orders[Other(s)]
            /\ Planned(s, price, size)
            /\ UNCHANGED <<needTakePnl, lpAmount, pnlPaid, stranded>>
            /\ \A t \in Side : vault'[t] + CalcExact(market')[t] = vault[t] + CalcExact(market)[t]
<1> DEFINE lock == IF s = "pc" THEN price * size ELSE size
           before == CancelAfter(market, s, 0)
           order == [lock |-> lock, level |-> price, listed |-> TRUE]
           paid == FromVault(before, s, lock)
           after == Rest(Funded(before, s, lock), s, order, TRUE)
           r == Other(s)
<1>1. /\ Planned(s, price, size)
      /\ market' = after
      /\ vault' = [vault EXCEPT ![s] = @ - paid]
      /\ UNCHANGED <<needTakePnl, lpAmount, pnlPaid, stranded>>
  BY DEF PlaceOrder
<1>2. market \in Sound /\ vault \in Amount
  BY DEF BookInv, TypeOK
<1>3. OnlyUnlocks(market, before, s) /\ before.orders[s] = <<>>
  BY <1>2, CancelAfterUnlocks
<1>4. price \in Nat \ {0} /\ size \in Nat \ {0}
  BY BookAssumption
<1>5. lock \in Nat \ {0} /\ order \in Order
  <2>1. price * size \in Nat /\ price * size > 0
    BY <1>4
  <2>2. lock \in Nat \ {0}
    BY <1>4, <2>1
  <2> HIDE DEF lock
  <2> QED
    BY <1>4, <2>2 DEF Order
<1>6. before \in Sound /\ CalcExact(before) = CalcExact(market) /\ before.orders[r] = market.orders[r]
  <2> HIDE DEF before
  <2> QED
    BY <1>3 DEF OnlyUnlocks
<1>7. r \in Side /\ r # s
  BY OtherSide
<1>8. /\ paid \in Nat /\ after.orders[s] = <<order>> /\ after.orders[r] = before.orders[r]
      /\ CalcExact(after)[s] = CalcExact(before)[s] + paid /\ CalcExact(after)[r] = CalcExact(before)[r]
  <2>1. order.lock = lock
    OBVIOUS
  <2> DEFINE funded == Funded(before, s, lock)
  <2> HIDE DEF before, order
  <2>2. paid \in Nat /\ funded.orders = before.orders /\ funded \in Standing
    <3> HIDE DEF lock
    <3> QED
      BY <1>5, <1>6, Funding
  <2>3. /\ after.orders[r] = before.orders[r]
        /\ CalcExact(after)[s] = CalcExact(before)[s] + paid /\ CalcExact(after)[r] = CalcExact(before)[r]
    <3> HIDE DEF lock, r
    <3> QED
      BY <1>5, <1>6, <2>1, RestingOrder DEF r
  <2>4. after.orders[s] = <<order>>
    <3> HIDE DEF funded, lock
    <3>1. funded.orders[s] = <<>>
      BY <1>3, <2>2
    <3>2. after = Rest(funded, s, order, TRUE)
      BY DEF funded
    <3> HIDE DEF after
    <3> DEFINE ahead == {i \in DOMAIN funded.orders[s] :
                  LET level == funded.orders[s][i].level
                  IN level < order.level \/ (level = order.level /\ ~TRUE)}
    <3>3. ahead = {}
      BY <3>1, EmptySeq
    <3>4. after = [funded EXCEPT !.orders[s] = InsertAt(@, Cardinality(ahead) + 1, order)]
      BY <3>2 DEF Rest
    <3>5. Cardinality(ahead) + 1 = 1
      BY <3>3, FS_EmptySet
    <3> HIDE DEF ahead
    <3>6. after.orders[s] = InsertAt(funded.orders[s], 1, order)
      BY <2>2, <3>4, <3>5 DEF Standing
    <3>7. InsertAt(<<>>, 1, order) = <<order>>
      <4>1. InsertAt(<<>>, 1, order) = SubSeq(<<>>, 1, 0) \o <<order>> \o SubSeq(<<>>, 1, 0)
        BY DEF InsertAt
      <4>2. SubSeq(<<>>, 1, 0) = <<>>
        OBVIOUS
      <4> QED
        BY <4>1, <4>2
    <3> QED
      BY <3>1, <3>6, <3>7
  <2> QED
    BY <2>2, <2>3, <2>4
<1>9. ASSUME NEW t \in Side
      PROVE  vault'[t] + CalcExact(market')[t] = vault[t] + CalcExact(market)[t]
  <2> DEFINE v == vault[t]
             e == CalcExact(market)[t]
  <2>1. v \in Nat /\ e \in Nat /\ paid \in Nat /\ CalcExact(before)[t] = e
    BY <1>2, <1>6, <1>8, ExactIsOwned DEF Amount
  <2>2. CASE t = s
    <3>1. vault'[t] = v - paid /\ CalcExact(market')[t] = e + paid
      BY <1>1, <1>2, <1>6, <1>8, <2>2 DEF Amount
    <3> HIDE DEF v, e, paid
    <3> QED
      BY <2>1, <3>1 DEF v, e
  <2>3. CASE t # s
    <3>1. t = r
      BY <1>7, <2>3 DEF Side
    <3>2. vault'[t] = v /\ CalcExact(market')[t] = e
      BY <1>1, <1>2, <1>6, <1>8, <2>3, <3>1 DEF Amount
    <3> QED
      BY <3>2
  <2> QED
    BY <2>2, <2>3
<1> QED
  BY <1>1, <1>4, <1>5, <1>6, <1>8, <1>9

(* The fee on top of a price that is not above another. *)
LEMMA FeeOnTop ==
  ASSUME NEW a \in Nat, NEW b \in Nat, NEW f \in Fraction, a * (f.den + f.num) <= b * f.den
  PROVE  a <= b
<1> DEFINE d == f.den
           n == f.num
<1>1. d \in Positive /\ d \in Nat /\ n \in Nat
  BY DEF Fraction, ValidFraction, Positive
<1>2. a * (d + n) <= b * d
  OBVIOUS
<1> HIDE DEF d, n
<1>3. d * a <= a * (d + n)
  <2>1. a * (d + n) = d * a + a * n /\ a * n \in Nat /\ d * a \in Nat
    BY <1>1
  <2> QED
    BY <2>1
<1>4. b * d = d * b /\ d * a \in Nat /\ d * b \in Nat /\ a * (d + n) \in Nat
  BY <1>1
<1>5. d * a <= d * b
  BY <1>2, <1>3, <1>4
<1> QED
  BY <1>1, <1>5, CancelFactor

(* The reserves pay for the orders. *)
LEMMA CoveredFacts ==
  ASSUME BookInv, OrdersCovered, NEW s \in Side
  PROVE  LET r == Other(s)
             l == Locked(market.orders[s])
             g == Won(s, market.orders[s])
             m == Locked(market.orders[r])
             h == Won(r, market.orders[r])
         IN /\ Total[s] \in Nat /\ Total[r] \in Nat
            /\ Total[s] - l \in Nat /\ Total[r] - m \in Nat
            /\ l \in Nat /\ g \in Nat /\ m \in Nat /\ h \in Nat
<1> DEFINE r == Other(s)
           l == Locked(market.orders[s])
           g == Won(s, market.orders[s])
           m == Locked(market.orders[r])
           h == Won(r, market.orders[r])
<1>1. Total \in [Side -> Int] /\ market.orders \in [Side -> Seq(Order)] /\ r \in Side
  BY BookTypes, OtherSide
<1>2. l \in Nat /\ g \in Nat /\ m \in Nat /\ h \in Nat
  BY <1>1, FilledAre
<1>3. l <= Total[s] /\ m <= Total[r]
  BY <1>1 DEF OrdersCovered
<1>4. Total[s] \in Int /\ Total[r] \in Int
  BY <1>1
<1> HIDE DEF l, g, m, h
<1>5. Total[s] \in Nat /\ Total[r] \in Nat /\ Total[s] - l \in Nat /\ Total[r] - m \in Nat
  BY <1>2, <1>3, <1>4
<1> QED
  BY <1>2, <1>5 DEF l, g, m, h

LEMMA PlaceOrderFloor ==
  ASSUME BookInv, BookInv', OrdersCovered, NEW s \in Side, NEW price \in Prices, NEW size \in Sizes,
         PlaceOrder(s, price, size)
  PROVE  NoWorse
<1> DEFINE r == Other(s)
           m == Locked(market.orders[r])
           h == Won(r, market.orders[r])
           x == Total[s]
           y == Total[r]
           w == Worst
           lock == IF s = "pc" THEN price * size ELSE size
           brings == IF s = "pc" THEN size ELSE size * price
           order == [lock |-> lock, level |-> price, listed |-> TRUE]
<1>1. /\ price \in Nat \ {0} /\ size \in Nat \ {0} /\ order \in Order
      /\ market'.orders[s] = <<order>> /\ market'.orders[r] = market.orders[r]
      /\ Planned(s, price, size) /\ UNCHANGED <<needTakePnl, lpAmount, pnlPaid, stranded>>
      /\ \A t \in Side : vault'[t] + CalcExact(market')[t] = vault[t] + CalcExact(market)[t]
  BY PlacingFacts
<1>2. r \in Side
  BY OtherSide
<1>3. Total'[s] = x /\ Total'[r] = y
  <2>1. ASSUME NEW t \in Side PROVE Total'[t] = Total[t]
    BY <1>1, TotalKept
  <2> QED
    BY <1>2, <2>1
<1>4. Locked(market'.orders[s]) = lock /\ Won(s, market'.orders[s]) = brings
  <2>1. order.lock = lock /\ order.level = price
    OBVIOUS
  <2>2. Locked(<<order>>) = order.lock /\ Won(s, <<order>>) = Brings(s, order)
    <3> HIDE DEF order
    <3> QED
      BY <1>1, OneOrder
  <2>3. Brings(s, order) = brings
    <3>1. CASE s = "pc"
      <4>1. price * size \in Nat /\ price \in Positive
        BY <1>1 DEF Positive
      <4>2. price * size <= price * size /\ price * size < price * size + price
        BY <1>1
      <4>3. (price * size) \div price = size
        BY <1>1, <4>1, <4>2, DivUnique
      <4> QED
        BY <2>1, <3>1, <4>3 DEF Brings
    <3>2. CASE s # "pc"
      BY <2>1, <3>2 DEF Brings
    <3> QED
      BY <3>1, <3>2
  <2> QED
    BY <1>1, <2>1, <2>2, <2>3
<1>5. /\ x \in Nat /\ y \in Nat /\ m \in Nat /\ h \in Nat
  BY CoveredFacts
<1>6. w \in Int /\ w <= x * y /\ w <= (x + h) * (y - m)
  BY BeforeFrom DEF Above
<1>7. ASSUME NEW k \in Nat, NEW n \in Nat, w <= (x + n) * (y - k)
      PROVE  w <= (x + n - lock) * (y - k + brings)
  <2>1. CASE s = "pc"
    <3>1. price * (Total["coin"] + size) * (OrderFee.den + OrderFee.num) <= Total["pc"] * OrderFee.den
      BY <1>1, <2>1 DEF Planned
    <3>2. x = Total["pc"] /\ y = Total["coin"]
      BY <2>1 DEF Other
    <3> HIDE DEF x, y, w
    <3>3. price * (y + size) \in Nat
      BY <1>1, <1>5
    <3>4. price * (y + size) <= x
      <4> DEFINE a == price * (y + size)
      <4>1. a \in Nat /\ a * (OrderFee.den + OrderFee.num) <= x * OrderFee.den
        BY <3>1, <3>2, <3>3
      <4> HIDE DEF a
      <4>2. a <= x
        BY <1>5, <4>1, BookAssumption, FeeOnTop
      <4> QED
        BY <4>2 DEF a
    <3>5. w <= (x + n - size * price) * (y - k + size)
      BY <1>1, <1>5, <1>6, <1>7, <3>4, BidImproves
    <3>6. size * price = lock /\ size = brings
      BY <1>1, <2>1
    <3> QED
      BY <3>5, <3>6
  <2>2. CASE s # "pc"
    <3>1. /\ size < Total["coin"]
          /\ price * (Total["coin"] - size) * OrderFee.den >= Total["pc"] * (OrderFee.den + OrderFee.num)
      BY <1>1, <2>2 DEF Planned
    <3>2. x = Total["coin"] /\ y = Total["pc"]
      BY <2>2 DEF Other, Side
    <3> HIDE DEF x, y, w
    <3>3. x - size \in Nat
      BY <1>1, <1>5, <3>1, <3>2
    <3>4. price * (x - size) \in Nat
      BY <1>1, <3>3
    <3>5. y <= price * (x - size)
      <4> DEFINE a == price * (x - size)
                 p == y * (OrderFee.den + OrderFee.num)
                 q == a * OrderFee.den
      <4>1. a \in Nat
        BY <3>4
      <4>2. q >= p
        BY <3>1, <3>2
      <4>3. OrderFee \in Fraction /\ OrderFee.den \in Nat /\ OrderFee.num \in Nat
        BY BookAssumption DEF Fraction
      <4> HIDE DEF a
      <4>4. p \in Nat /\ q \in Nat
        BY <1>5, <4>1, <4>3
      <4>5. p <= q
        <5> HIDE DEF p, q
        <5> QED
          BY <4>2, <4>4
      <4>6. y <= a
        BY <1>5, <4>1, <4>3, <4>5, FeeOnTop
      <4> QED
        BY <4>6 DEF a
    <3>6. w <= (x + n - size) * (y - k + size * price)
      BY <1>1, <1>5, <1>6, <1>7, <3>5, AskImproves
    <3>7. size = lock /\ size * price = brings
      BY <2>2
    <3> QED
      BY <3>6, <3>7
  <2> QED
    BY <2>1, <2>2
<1>8. lock \in Nat /\ brings \in Nat
  <2>1. size * price \in Nat /\ price * size \in Nat
    BY <1>1
  <2> QED
    BY <1>1, <2>1
<1> HIDE DEF x, y, m, h, w, lock, brings
<1>9. w <= (x + h - lock) * (y - m + brings)
  BY <1>5, <1>6, <1>7
<1>10. w <= (x - lock) * (y + brings)
  <2>1. x + 0 = x /\ y - 0 = y
    BY <1>5
  <2>2. w <= (x + 0) * (y - 0)
    BY <1>6, <2>1
  <2>3. w <= (x + 0 - lock) * (y - 0 + brings)
    BY <1>7, <2>2
  <2>4. x + 0 - lock = x - lock /\ y - 0 + brings = y + brings
    BY <1>5, <1>8
  <2> DEFINE p == x + 0 - lock
             q == y - 0 + brings
  <2>5. w <= p * q /\ p = x - lock /\ q = y + brings
    BY <2>3, <2>4
  <2> HIDE DEF p, q
  <2> QED
    BY <2>5
<1>11. x - lock + h = x + h - lock
  BY <1>5, <1>8
<1>12. Above(w, x, y, lock, brings, m, h)
  BY <1>6, <1>9, <1>10, <1>11 DEF Above
<1>13. AllAbove(Worst, Total', market'.orders, s)
  BY <1>1, <1>3, <1>4, <1>12 DEF AllAbove, m, h, w
<1> QED
  BY <1>1, <1>13, AfterFrom

(* n lots of a coin at the price v: what they lock of token s and bring of *)
(* the other.                                                              *)
LotsLock(s, n, v) == IF s = "pc" THEN n * v ELSE n

LotsBring(s, n, v) == IF s = "pc" THEN n ELSE n * v

LEMMA LotTypes ==
  ASSUME NEW s \in Side, NEW n \in Nat, NEW v \in Nat
  PROVE  LotsLock(s, n, v) \in Nat /\ LotsBring(s, n, v) \in Nat
<1>1. n * v \in Nat
  OBVIOUS
<1> QED
  BY <1>1 DEF LotsLock, LotsBring

(* An order of whole lots. *)
LEMMA LotOrder ==
  ASSUME NEW s \in Side, NEW n \in Nat, NEW o \in Order, o.lock = LotsLock(s, n, o.level)
  PROVE  /\ Locked(<<o>>) = LotsLock(s, n, o.level) /\ Won(s, <<o>>) = LotsBring(s, n, o.level)
         /\ Single(s, <<o>>)
<1> DEFINE v == o.level
<1>1. v \in Positive /\ v \in Nat /\ o.lock \in Nat
  BY DEF Order, Positive
<1>2. Locked(<<o>>) = o.lock /\ Won(s, <<o>>) = Brings(s, o)
  BY OneOrder
<1>3. Brings(s, o) = LotsBring(s, n, v)
  <2>1. CASE s = "pc"
    <3>1. o.lock = n * v
      BY <2>1 DEF LotsLock
    <3>2. v * n <= o.lock /\ o.lock < v * n + v
      <4> HIDE DEF v
      <4>1. v * n = n * v /\ n * v \in Nat
        BY <1>1
      <4>2. v * n + v > n * v
        BY <1>1, <4>1 DEF Positive
      <4> QED
        BY <3>1, <4>1, <4>2 DEF v
    <3>3. o.lock \div v = n
      BY <1>1, <3>2, DivUnique
    <3> QED
      BY <2>1, <3>3 DEF Brings, LotsBring
  <2>2. CASE s # "pc"
    BY <2>2 DEF Brings, LotsBring, LotsLock
  <2> QED
    BY <2>1, <2>2
<1>4. Single(s, <<o>>)
  BY DEF Single, LotsLock
<1> QED
  BY <1>2, <1>3, <1>4

(* Between the ends of the fill of an order of whole lots, from either     *)
(* side.                                                                   *)
LEMMA LotsBetween ==
  ASSUME NEW s \in Side, NEW x \in Int, NEW y \in Int, NEW n \in Nat, NEW k \in Nat, NEW v \in Nat, NEW w \in Int,
         k <= n, w <= x * y, w <= (x - LotsLock(s, n, v)) * (y + LotsBring(s, n, v))
  PROVE  w <= (x - LotsLock(s, k, v)) * (y + LotsBring(s, k, v))
<1>1. CASE s = "pc"
  <2>1. /\ LotsLock(s, n, v) = n * v /\ LotsBring(s, n, v) = n
        /\ LotsLock(s, k, v) = k * v /\ LotsBring(s, k, v) = k
    BY <1>1 DEF LotsLock, LotsBring
  <2>2. w <= (x - n * v) * (y + n)
    BY <2>1
  <2>3. w <= (x - k * v) * (y + k)
    BY <2>2, BidBetween
  <2> QED
    BY <2>1, <2>3
<1>2. CASE s # "pc"
  <2>1. /\ LotsLock(s, n, v) = n /\ LotsBring(s, n, v) = n * v
        /\ LotsLock(s, k, v) = k /\ LotsBring(s, k, v) = k * v
    BY <1>2 DEF LotsLock, LotsBring
  <2>2. w <= (x - n) * (y + n * v)
    BY <2>1
  <2>3. w <= (x - k) * (y + k * v)
    BY <2>2, AskBetween
  <2> QED
    BY <2>1, <2>3
<1> QED
  BY <1>1, <1>2

(* The lots that are left. *)
LEMMA LotsLeft ==
  ASSUME NEW s \in Side, NEW n \in Nat, NEW k \in 0 .. n, NEW v \in Nat
  PROVE  /\ LotsLock(s, n - k, v) = LotsLock(s, n, v) - LotsLock(s, k, v)
         /\ LotsBring(s, n - k, v) = LotsBring(s, n, v) - LotsBring(s, k, v)
<1>1. (n - k) * v = n * v - k * v
  OBVIOUS
<1> QED
  BY <1>1 DEF LotsLock, LotsBring

(* What a trader who takes the pool's order finds, and what is left of it. *)
LEMMA TakingFacts ==
  ASSUME FloorInv, BookInv', NEW s \in Side, TakeOrder(s)
  PROVE  \E v \in Nat, n \in Nat : \E k \in 0 .. n :
           /\ Locked(market.orders[s]) = LotsLock(s, n, v) /\ Won(s, market.orders[s]) = LotsBring(s, n, v)
           /\ Locked(market'.orders[s]) = LotsLock(s, n - k, v)
           /\ Won(s, market'.orders[s]) = LotsBring(s, n - k, v)
           /\ market'.orders[Other(s)] = market.orders[Other(s)]
           /\ Single(s, market'.orders[s])
           /\ Total'[s] = Total[s] - LotsLock(s, k, v)
           /\ Total'[Other(s)] = Total[Other(s)] + LotsBring(s, k, v)
<1>1. /\ market \in Sound /\ market.orders[s] # <<>> /\ BookInv
      /\ UNCHANGED <<status, vault, needTakePnl, calcPnl, lpAmount, sys, pnlPaid, stranded>>
  BY DEF TakeOrder, FloorInv, BookInv
<1>2. PICK o \in Order : market.orders[s] = <<o>> /\ (s = "pc" => \E i \in Nat : o.lock = i * o.level)
  BY <1>1 DEF FloorInv, Single
<1> DEFINE v == o.level
           r == Other(s)
<1>3. v \in Positive /\ v \in Nat /\ o.lock \in Nat /\ o.lock # 0
  BY DEF Order, Positive
<1>4. PICK n \in Nat : o.lock = LotsLock(s, n, v)
  <2>1. CASE s = "pc"
    BY <1>2, <2>1 DEF LotsLock
  <2>2. CASE s # "pc"
    BY <1>3, <2>2 DEF LotsLock
  <2> QED
    BY <2>1, <2>2
<1>5. Locked(<<o>>) = LotsLock(s, n, v) /\ Won(s, <<o>>) = LotsBring(s, n, v)
  BY <1>4, LotOrder
<1>6. Head(market.orders[s]) = o
  BY <1>2
<1>7. PICK k \in 1 .. n : market' = Take(market, s, LotsLock(s, k, v), LotsBring(s, k, v))
  <2>1. CASE s = "pc"
    <3>1. o.lock \div v = n
      <4>1. o.lock = n * v
        BY <1>4, <2>1 DEF LotsLock
      <4>2. v * n <= o.lock /\ o.lock < v * n + v
        <5> HIDE DEF v
        <5>1. v * n = n * v /\ n * v \in Nat
          BY <1>3
        <5>2. v * n + v > n * v
          BY <1>3, <5>1 DEF Positive
        <5> QED
          BY <4>1, <5>1, <5>2 DEF v
      <4> QED
        BY <1>3, <4>2, DivUnique
    <3>2. \E lots \in 1 .. o.lock \div v : market' = Take(market, s, lots * v, lots)
      BY <1>6, <2>1 DEF TakeOrder
    <3> QED
      BY <2>1, <3>1, <3>2 DEF LotsLock, LotsBring
  <2>2. CASE s # "pc"
    <3>1. \E lots \in 1 .. o.lock : market' = Take(market, s, lots, lots * v)
      BY <1>6, <2>2 DEF TakeOrder
    <3> QED
      BY <1>4, <2>2, <3>1 DEF LotsLock, LotsBring
  <2> QED
    BY <2>1, <2>2
<1>8. k \in 0 .. n /\ k \in Nat /\ n - k \in Nat
  OBVIOUS
<1> DEFINE paid == LotsLock(s, k, v)
           got == LotsBring(s, k, v)
           left == [o EXCEPT !.lock = @ - paid]
<1>9. /\ paid \in Nat /\ got \in Nat
      /\ LotsLock(s, n - k, v) = o.lock - paid
  <2>1. paid \in Nat /\ got \in Nat
    BY <1>3, <1>8, LotTypes
  <2>2. LotsLock(s, n - k, v) = LotsLock(s, n, v) - LotsLock(s, k, v)
    BY <1>3, <1>8, LotsLeft
  <2> QED
    BY <1>4, <2>1, <2>2
<1>10. paid \in 1 .. o.lock
  <2>1. o.lock - paid \in Nat
    <3>1. LotsLock(s, n - k, v) \in Nat
      BY <1>3, <1>8, LotTypes
    <3> QED
      BY <1>9, <3>1
  <2>2. paid # 0
    <3>1. k * v # 0
      BY <1>3, <1>8 DEF Positive
    <3> QED
      BY <1>8, <3>1 DEF LotsLock
  <2> HIDE DEF paid
  <2> QED
    BY <1>3, <1>9, <2>1, <2>2
<1>11. market' = Take(market, s, paid, got)
  BY <1>7
<1> HIDE DEF paid, got, left
<1>12. market'.orders[s] = IF paid = o.lock THEN <<>> ELSE <<left>>
  <2>1. market.orders \in [Side -> Seq(Order)] /\ market \in Standing
    BY <1>1 DEF Sound, Standing
  <2>2. market'.orders[s] = IF paid = o.lock THEN Tail(<<o>>) ELSE [<<o>> EXCEPT ![1] = left]
    BY <1>2, <1>11, <2>1 DEF Take, left, Standing
  <2>3. Tail(<<o>>) = <<>> /\ [<<o>> EXCEPT ![1] = left] = <<left>>
    OBVIOUS
  <2> QED
    BY <2>2, <2>3
<1>13. market'.orders[r] = market.orders[r]
  <2>1. r # s /\ r \in Side
    BY OtherSide
  <2>2. market \in Standing
    BY <1>1 DEF Sound
  <2> QED
    BY <1>11, <2>1, <2>2 DEF Take, Standing
<1>14. /\ Locked(market'.orders[s]) = LotsLock(s, n - k, v)
       /\ Won(s, market'.orders[s]) = LotsBring(s, n - k, v)
       /\ Single(s, market'.orders[s])
  <2>1. CASE paid = o.lock
    <3>1. market'.orders[s] = <<>>
      BY <1>12, <2>1
    <3>2. LotsLock(s, n - k, v) = 0
      BY <1>3, <1>9, <2>1
    <3>3. LotsBring(s, n - k, v) = 0
      <4>1. n - k = 0 => (n - k) * v = 0
        BY <1>3, <1>8
      <4>2. (n - k) * v = 0 => n - k = 0
        BY <1>3, <1>8 DEF Positive
      <4> QED
        BY <3>2, <4>1, <4>2 DEF LotsLock, LotsBring
    <3>4. Single(s, <<>>)
      BY DEF Single
    <3> QED
      BY <3>1, <3>2, <3>3, <3>4, NoOrder
  <2>2. CASE paid # o.lock
    <3>1. o.lock - paid \in Nat \ {0}
      BY <1>3, <1>10, <2>2
    <3>2. left \in Order /\ left.lock = o.lock - paid /\ left.level = v
      BY <3>1 DEF left, Order
    <3>3. left.lock = LotsLock(s, n - k, left.level)
      BY <1>9, <3>2
    <3> HIDE DEF v
    <3> QED
      BY <1>8, <1>12, <2>2, <3>2, <3>3, LotOrder
  <2> QED
    BY <2>1, <2>2
<1>15. CalcExact(market')[s] = CalcExact(market)[s] - paid /\ CalcExact(market')[r] = CalcExact(market)[r] + got
  BY <1>1, <1>6, <1>9, <1>10, <1>11, TakingIsSound
<1>16. ASSUME NEW t \in Side, NEW d \in Int, CalcExact(market')[t] = CalcExact(market)[t] + d
       PROVE  Total'[t] = Total[t] + d
  <2> DEFINE p == vault[t]
             e == CalcExact(market)[t]
             q == needTakePnl[t]
  <2>1. Total'[t] = vault'[t] + CalcExact(market')[t] - needTakePnl'[t]
    BY TotalNext
  <2>2. Total[t] = p + e - q /\ p \in Nat /\ q \in Nat /\ e \in Nat
    BY <1>1, TotalFacts
  <2>3. Total'[t] = p + (e + d) - q
    BY <1>1, <1>16, <2>1
  <2> HIDE DEF p, e, q
  <2>4. p + (e + d) - q = p + e - q + d
    BY <1>16, <2>2
  <2> QED
    BY <2>2, <2>3, <2>4
<1>17. Total'[r] = Total[r] + got
  BY <1>9, <1>15, <1>16, OtherSide
<1>18. Total'[s] = Total[s] - paid
  <2>1. -paid \in Int /\ CalcExact(market)[s] \in Int /\ Total[s] \in Int
    BY <1>1, <1>9, TotalFacts
  <2>2. CalcExact(market')[s] = CalcExact(market)[s] + (-paid)
    BY <1>9, <1>15, <2>1
  <2>3. Total'[s] = Total[s] + (-paid)
    BY <1>16, <2>1, <2>2
  <2> QED
    BY <1>9, <2>1, <2>3
<1> QED
  BY <1>2, <1>3, <1>5, <1>8, <1>13, <1>14, <1>17, <1>18 DEF paid, got

LEMMA TakeOrderFloor ==
  ASSUME FloorInv, BookInv', NEW s \in Side, TakeOrder(s)
  PROVE  NoWorse
<1> DEFINE r == Other(s)
           m == Locked(market.orders[r])
           h == Won(r, market.orders[r])
           x == Total[s]
           y == Total[r]
           w == Worst
<1>1. BookInv /\ lpAmount' = lpAmount
  BY DEF FloorInv, TakeOrder
<1>2. PICK v \in Nat, n \in Nat : \E k \in 0 .. n :
           /\ Locked(market.orders[s]) = LotsLock(s, n, v) /\ Won(s, market.orders[s]) = LotsBring(s, n, v)
           /\ Locked(market'.orders[s]) = LotsLock(s, n - k, v)
           /\ Won(s, market'.orders[s]) = LotsBring(s, n - k, v)
           /\ market'.orders[r] = market.orders[r]
           /\ Total'[s] = Total[s] - LotsLock(s, k, v)
           /\ Total'[r] = Total[r] + LotsBring(s, k, v)
  BY TakingFacts
<1>3. PICK k \in 0 .. n :
           /\ Locked(market.orders[s]) = LotsLock(s, n, v) /\ Won(s, market.orders[s]) = LotsBring(s, n, v)
           /\ Locked(market'.orders[s]) = LotsLock(s, n - k, v)
           /\ Won(s, market'.orders[s]) = LotsBring(s, n - k, v)
           /\ market'.orders[r] = market.orders[r]
           /\ Total'[s] = Total[s] - LotsLock(s, k, v)
           /\ Total'[r] = Total[r] + LotsBring(s, k, v)
  BY <1>2
<1> DEFINE l == LotsLock(s, n, v)
           g == LotsBring(s, n, v)
           paid == LotsLock(s, k, v)
           got == LotsBring(s, k, v)
           l2 == LotsLock(s, n - k, v)
           g2 == LotsBring(s, n - k, v)
<1>4. /\ x \in Int /\ y \in Int /\ w \in Int /\ m \in Nat /\ h \in Nat
      /\ Above(w, x, y, l, g, m, h)
  BY <1>1, <1>3, BeforeFrom
<1>5. l2 = l - paid /\ g2 = g - got
  BY LotsLeft
<1>6. l \in Nat /\ g \in Nat /\ paid \in Nat /\ got \in Nat
  <2>1. l \in Nat /\ g \in Nat
    BY LotTypes
  <2>2. k \in Nat
    OBVIOUS
  <2>3. paid \in Nat /\ got \in Nat
    BY <2>2, LotTypes
  <2> QED
    BY <2>1, <2>3
<1> HIDE DEF x, y, m, h, w
<1>7. w <= x * y /\ w <= (x - l) * (y + g) /\ w <= (x + h) * (y - m) /\ w <= (x - l + h) * (y - m + g)
  BY <1>4 DEF Above
<1>8. w <= (x - paid) * (y + got)
  BY <1>4, <1>7, LotsBetween
<1>9. w <= (x + h - paid) * (y - m + got)
  <2> DEFINE p == x + h
             q == y - m
  <2>1. p \in Int /\ q \in Int /\ x - l + h = p - l /\ x + h - paid = p - paid /\ y - m + got = q + got
    <3> HIDE DEF l, paid, got
    <3> QED
      BY <1>4, <1>6
  <2>2. w <= p * q /\ w <= (p - l) * (q + g)
    BY <1>7, <2>1
  <2> HIDE DEF p, q
  <2>3. w <= (p - paid) * (q + got)
    BY <1>4, <2>1, <2>2, LotsBetween
  <2> HIDE DEF paid, got
  <2> QED
    BY <2>1, <2>3
<1> HIDE DEF l, g, paid, got, l2, g2
<1>10. Above(w, x - paid, y + got, l2, g2, m, h)
  <2> DEFINE p == x - paid
             q == y + got
  <2>1. p \in Int /\ q \in Int /\ l2 \in Int /\ g2 \in Int
    BY <1>4, <1>5, <1>6
  <2>2. /\ p - l2 = x - l /\ q + g2 = y + g /\ p + h = x + h - paid /\ q - m = y - m + got
        /\ p - l2 + h = x - l + h /\ q - m + g2 = y - m + g
    BY <1>4, <1>5, <1>6
  <2>3. w <= p * q
    BY <1>8
  <2> HIDE DEF p, q
  <2>4. w <= (p - l2) * (q + g2) /\ w <= (p + h) * (q - m) /\ w <= (p - l2 + h) * (q - m + g2)
    BY <1>7, <1>9, <2>2
  <2>5. Above(w, p, q, l2, g2, m, h)
    BY <2>3, <2>4 DEF Above
  <2> QED
    BY <2>5 DEF p, q
<1>11. AllAbove(Worst, Total', market'.orders, s)
  BY <1>3, <1>10 DEF AllAbove, x, y, m, h, w, paid, got, l2, g2
<1> QED
  BY <1>1, <1>11, AfterFrom

(* A deposit, which the orders survive: it adds to every way of filling    *)
(* them.                                                                   *)
LEMMA DepositFloor ==
  ASSUME BookInv, BookInv', OrdersCovered, Quiet, NEW base \in Side, NEW amount \in Nat, Deposit(base, amount)
  PROVE  NoWorse
<1> PICK taken \in CalcTakePnl :
       LET total  == Minus(Total, taken.pnl)
           deduct == DepositDeduct(base, amount, total)
           mint   == DepositMint(base, amount, total, lpAmount)
       IN /\ total[base] # 0
          /\ \A s \in Side : deduct[s] # 0
          /\ vault' = Plus(vault, deduct)
          /\ lpAmount' = lpAmount + mint
          /\ needTakePnl' = Plus(needTakePnl, taken.pnl)
  BY DEF Deposit
<1> DEFINE total  == Minus(Total, taken.pnl)
           deduct == DepositDeduct(base, amount, total)
           mint   == DepositMint(base, amount, total, lpAmount)
           r      == Other(base)
<1>1. /\ total[base] # 0 /\ \A s \in Side : deduct[s] # 0
      /\ vault' = Plus(vault, deduct) /\ lpAmount' = lpAmount + mint
      /\ UNCHANGED market
  BY DEF Deposit
<1>2. Total \in Amount /\ taken.pnl \in Amount /\ needTakePnl \in Amount /\ vault \in Amount /\ lpAmount \in Nat
  BY TakenFacts DEF BookInv, TypeOK
<1>3. ASSUME NEW s \in Side PROVE total[s] = Total[s] /\ total[s] \in Nat
  <2>1. needTakePnl'[s] = needTakePnl[s] + taken.pnl[s] /\ needTakePnl'[s] = needTakePnl[s]
    BY DEF Plus, Quiet
  <2>2. needTakePnl[s] \in Nat /\ taken.pnl[s] \in Nat /\ Total[s] \in Nat
    BY <1>2 DEF Amount
  <2>3. taken.pnl[s] = 0
    BY <2>1, <2>2
  <2>4. total[s] = Total[s] - taken.pnl[s]
    BY DEF Minus
  <2> QED
    BY <2>2, <2>3, <2>4
<1>4. total \in Amount
  <2>1. total = [s \in Side |-> total[s]]
    BY DEF Minus
  <2> QED
    BY <1>3, <2>1 DEF Amount
<1> HIDE DEF total
<1>5. deduct \in Amount /\ mint \in Nat
  BY <1>1, <1>2, <1>4, DepositType
<1>6. r \in Side /\ r # base
  BY OtherSide
<1>7. total[r] # 0
  <2> SUFFICES ASSUME total[r] = 0 PROVE FALSE
    OBVIOUS
  <2>1. deduct[r] = CeilDiv(amount * total[r], total[base])
    BY <1>6 DEF DepositDeduct, ExchangeToken
  <2>2. amount * total[r] = 0 /\ total[base] \in Positive
    BY <1>1, <1>3 DEF Positive
  <2>3. CeilDiv(0, total[base]) = 0
    BY <2>2, CeilDivBelow
  <2>4. deduct[r] # 0
    BY <1>1, <1>6
  <2> QED
    BY <2>1, <2>2, <2>3, <2>4
<1>8. \A s \in Side : total[s] # 0
  BY <1>1, <1>7 DEF Side, Other
<1>9. \A s \in Side : total[s] * mint <= deduct[s] * lpAmount
  BY <1>1, <1>2, <1>4, <1>8, MintNotGenerous
<1> HIDE DEF deduct, mint
<1> DEFINE l == Locked(market.orders[base])
           g == Won(base, market.orders[base])
           m == Locked(market.orders[r])
           h == Won(r, market.orders[r])
           x == Total[base]
           y == Total[r]
           d == deduct[base]
           e == deduct[r]
           w == Worst
           lp == lpAmount
<1>10. /\ x \in Nat /\ y \in Nat /\ x - l \in Nat /\ y - m \in Nat
       /\ l \in Nat /\ g \in Nat /\ m \in Nat /\ h \in Nat
  BY CoveredFacts
<1>11. /\ d \in Nat /\ e \in Nat /\ lp \in Nat
       /\ x * mint <= d * lp /\ y * mint <= e * lp
  <2>1. d \in Nat /\ e \in Nat /\ lp \in Nat
    BY <1>2, <1>5, <1>6 DEF Amount
  <2>2. x * mint <= d * lp
    BY <1>3, <1>9
  <2>3. y * mint <= e * lp
    BY <1>3, <1>6, <1>9
  <2> QED
    BY <2>1, <2>2, <2>3
<1>12. Total'[base] = x + d /\ Total'[r] = y + e
  <2>1. ASSUME NEW s \in Side PROVE Total'[s] = Total[s] + deduct[s]
    <3> DEFINE v == vault[s]
               f == CalcExact(market)[s]
               q == needTakePnl[s]
               a == deduct[s]
    <3>1. Total'[s] = vault'[s] + CalcExact(market')[s] - needTakePnl'[s]
      BY TotalNext
    <3>2. Total[s] = v + f - q /\ v \in Nat /\ f \in Nat /\ q \in Nat
      BY TotalFacts
    <3>3. vault'[s] = v + a /\ CalcExact(market')[s] = f /\ needTakePnl'[s] = q
      BY <1>1 DEF Plus, Quiet
    <3>4. a \in Nat
      BY <1>5 DEF Amount
    <3>5. Total'[s] = v + a + f - q
      BY <3>1, <3>3
    <3> HIDE DEF v, f, q, a
    <3>6. v + a + f - q = v + f - q + a
      BY <3>2, <3>4
    <3> QED
      BY <3>2, <3>5, <3>6 DEF a
  <2> QED
    BY <1>6, <2>1
<1>13. w \in Int /\ Above(w, x, y, l, g, m, h)
  BY BeforeFrom
<1>14. Corners(Total, market.orders) = {x * y, (x - l) * (y + g), (x + h) * (y - m), (x - l + h) * (y - m + g)}
  BY BookTypes, CornersAre
<1>15. Corners(Total', market'.orders)
        = {(x + d) * (y + e), (x + d - l) * (y + e + g), (x + d + h) * (y + e - m), (x + d - l + h) * (y + e - m + g)}
  <2>1. /\ Total' \in [Side -> Int] /\ market.orders \in [Side -> Seq(Order)] /\ market'.orders = market.orders
    BY <1>1, BookTypes, TotalNext
  <2> DEFINE t == Total'
  <2>2. t \in [Side -> Int] /\ t[base] = x + d /\ t[r] = y + e
    BY <1>12, <2>1
  <2> HIDE DEF t
  <2>3. Corners(t, market.orders)
        = {t[base] * t[r], (t[base] - l) * (t[r] + g), (t[base] + h) * (t[r] - m), (t[base] - l + h) * (t[r] - m + g)}
    BY <2>1, <2>2, CornersAre
  <2> HIDE DEF x, y, d, e, l, g, m, h
  <2>4. Corners(t, market.orders)
        = {(x + d) * (y + e), ((x + d) - l) * ((y + e) + g), ((x + d) + h) * ((y + e) - m),
           ((x + d) - l + h) * ((y + e) - m + g)}
    BY <2>2, <2>3
  <2>5. /\ x + d - l = (x + d) - l /\ y + e - m = (y + e) - m
    BY <1>10, <1>11
  <2> QED
    BY <2>1, <2>4, <2>5 DEF t
<1>16. w \in Corners(Total, market.orders)
  BY BookTypes, WorstIs DEF Worst
<1> HIDE DEF l, g, m, h, x, y, d, e, w, lp, r
<1> DEFINE xl == x - l
           ym == y - m
<1>17. /\ xl \in Nat /\ ym \in Nat /\ xl + h \in Nat /\ ym + g \in Nat /\ y + g \in Nat /\ x + h \in Nat
  BY <1>10
<1>18. w \in Nat
  <2>1. x * y \in Nat /\ xl * (y + g) \in Nat /\ (x + h) * ym \in Nat /\ (xl + h) * (ym + g) \in Nat
    <3> DEFINE yg == y + g
               xh == x + h
               xlh == xl + h
               ymg == ym + g
    <3>1. yg \in Nat /\ xh \in Nat /\ xlh \in Nat /\ ymg \in Nat
      BY <1>17
    <3> HIDE DEF xl, ym, yg, xh, xlh, ymg
    <3>2. x * y \in Nat /\ xl * yg \in Nat /\ xh * ym \in Nat /\ xlh * ymg \in Nat
      BY <1>10, <1>17, <3>1
    <3> QED
      BY <3>2 DEF yg, xh, xlh, ymg
  <2> QED
    BY <1>14, <1>16, <2>1
<1>19. w <= x * y /\ w <= xl * (y + g) /\ w <= (x + h) * ym /\ w <= (xl + h) * (ym + g)
  BY <1>13 DEF Above
<1>20. ASSUME NEW p \in Nat, NEW q \in Nat, w <= p * q
       PROVE  w * (lp + mint) * (lp + mint) <= (p + d) * (q + e) * lp * lp
  BY <1>5, <1>10, <1>11, <1>18, <1>19, <1>20, DepositImproves
<1>21. /\ x + d - l = xl + d /\ y + e + g = (y + g) + e /\ x + d + h = (x + h) + d /\ y + e - m = ym + e
       /\ x + d - l + h = (xl + h) + d /\ y + e - m + g = (ym + g) + e
  BY <1>10, <1>11
<1>22. Corners(Total', market'.orders)
        = {(x + d) * (y + e), (xl + d) * ((y + g) + e), ((x + h) + d) * (ym + e), ((xl + h) + d) * ((ym + g) + e)}
  <2> HIDE DEF xl, ym
  <2> QED
    BY <1>15, <1>21
<1>23. ASSUME NEW c \in Corners(Total', market'.orders)
       PROVE  w * (lp + mint) * (lp + mint) <= c * lp * lp
  <2> HIDE DEF xl, ym
  <2>1. CASE c = (x + d) * (y + e)
    BY <1>10, <1>19, <1>20, <2>1
  <2>2. CASE c = (xl + d) * ((y + g) + e)
    BY <1>17, <1>19, <1>20, <2>2
  <2>3. CASE c = ((x + h) + d) * (ym + e)
    BY <1>17, <1>19, <1>20, <2>3
  <2>4. CASE c = ((xl + h) + d) * ((ym + g) + e)
    BY <1>17, <1>19, <1>20, <2>4
  <2> QED
    BY <1>22, <1>23, <2>1, <2>2, <2>3, <2>4
<1> QED
  BY <1>1, <1>23 DEF NoWorse, w, lp

(* A withdrawal clears the book, where there is one, and leaves behind     *)
(* what the remaining lp tokens are worth.                                 *)
LEMMA WithdrawFloor ==
  ASSUME BookInv, BookInv', Quiet, NEW lp \in Nat, Withdraw(lp)
  PROVE  NoWorse
<1> PICK taken \in IF status = "WithdrawOnly" THEN {NoSkim} ELSE CalcTakePnl :
       LET out  == WithdrawOut(lp, Minus(Total, taken.pnl), lpAmount)
       IN /\ vault' = Minus(IF OrderBookOn THEN Settled(CancelBoth(market)) ELSE vault, out)
          /\ market' = IF OrderBookOn THEN Cleared ELSE market
          /\ lpAmount' = lpAmount - lp
          /\ needTakePnl' = Plus(needTakePnl, taken.pnl)
  BY DEF Withdraw
<1> DEFINE total == Minus(Total, taken.pnl)
           out  == WithdrawOut(lp, total, lpAmount)
           full == IF OrderBookOn THEN Settled(CancelBoth(market)) ELSE vault
<1>1. /\ lp < lpAmount /\ AtMost(Zero, Total)
      /\ vault' = Minus(full, out) /\ lpAmount' = lpAmount - lp
      /\ market' = IF OrderBookOn THEN Cleared ELSE market
  BY DEF Withdraw
<1>2. Total \in Amount /\ needTakePnl \in Amount /\ vault \in Amount /\ lpAmount \in Nat
  BY <1>1, TotalFacts DEF BookInv, TypeOK
<1>3. taken.pnl \in Amount
  <2>1. CASE status = "WithdrawOnly"
    BY <2>1, ConstantFacts DEF NoSkim
  <2>2. CASE status # "WithdrawOnly"
    BY <2>2, TakenFacts
  <2> QED
    BY <2>1, <2>2
<1>4. ASSUME NEW s \in Side PROVE total[s] = Total[s] /\ total[s] \in Nat
  <2>1. needTakePnl'[s] = needTakePnl[s] + taken.pnl[s] /\ needTakePnl'[s] = needTakePnl[s]
    BY DEF Plus, Quiet
  <2>2. needTakePnl[s] \in Nat /\ taken.pnl[s] \in Nat /\ Total[s] \in Nat
    BY <1>2, <1>3 DEF Amount
  <2>3. taken.pnl[s] = 0
    BY <2>1, <2>2
  <2>4. total[s] = Total[s] - taken.pnl[s]
    BY DEF Minus
  <2> QED
    BY <2>2, <2>3, <2>4
<1>5. total \in Amount
  <2>1. total = [s \in Side |-> total[s]]
    BY DEF Minus
  <2> QED
    BY <1>4, <2>1 DEF Amount
<1> HIDE DEF total
<1>6. ASSUME NEW s \in Side
      PROVE  /\ out[s] \in Nat /\ out[s] <= total[s]
             /\ total[s] * (lpAmount - lp) <= (total[s] - out[s]) * lpAmount
  <2>1. [num |-> lp, den |-> lpAmount] \in Fraction
    BY <1>1, <1>2 DEF Fraction, ValidFraction
  <2>2. (total[s] * lp) \div lpAmount \in Nat /\ (total[s] * lp) \div lpAmount <= total[s]
    BY <1>5, <2>1, FractionBelow DEF Amount
  <2>3. out[s] = (total[s] * lp) \div lpAmount
    BY DEF WithdrawOut, ExchangePoolToToken
  <2>4. total[s] * (lpAmount - lp) <= (total[s] - out[s]) * lpAmount
    BY <1>1, <1>2, <1>5, WithdrawNotGenerous
  <2> QED
    BY <2>2, <2>3, <2>4
<1> HIDE DEF out
<1>7. ASSUME NEW s \in Side
      PROVE  /\ market'.orders[s] = <<>>
             /\ full[s] \in Nat /\ CalcExact(market')[s] \in Nat
             /\ full[s] + CalcExact(market')[s] = vault[s] + CalcExact(market)[s]
  <2>1. CalcExact(market')[s] \in Nat
    BY TotalNext
  <2>2. CASE OrderBookOn
    <3>1. full = Settled(CancelBoth(market)) /\ market' = Cleared
      BY <1>1, <2>2
    <3>2. full[s] \in Nat
      BY <3>1, ClearedFacts DEF Amount
    <3> QED
      BY <2>1, <3>1, <3>2, ClearedCounts
  <2>3. CASE ~OrderBookOn
    <3>1. full = vault /\ market' = market
      BY <1>1, <2>3
    <3>2. market.orders[s] = <<>>
      BY <2>3, OrdersNeedTheBook
    <3> QED
      BY <1>2, <2>1, <3>1, <3>2 DEF Amount
  <2> QED
    BY <2>2, <2>3
<1> HIDE DEF full
<1>8. ASSUME NEW s \in Side PROVE Total'[s] = total[s] - out[s]
  <2> DEFINE v == vault[s]
             e == CalcExact(market)[s]
             q == needTakePnl[s]
             a == out[s]
             f == full[s]
             c == CalcExact(market')[s]
             t == Total[s]
  <2>1. Total'[s] = vault'[s] + CalcExact(market')[s] - needTakePnl'[s]
    BY TotalNext
  <2>2. t = v + e - q /\ v \in Nat /\ e \in Nat /\ q \in Nat
    BY TotalFacts
  <2>3. vault'[s] = f - a /\ needTakePnl'[s] = q
    BY <1>1 DEF Minus, Quiet
  <2>4. f + c = v + e /\ f \in Nat /\ c \in Nat /\ a \in Nat
    BY <1>6, <1>7
  <2>5. Total'[s] = (f - a) + c - q /\ total[s] = t
    BY <1>4, <2>1, <2>3
  <2> HIDE DEF v, e, q, a, f, c, t
  <2>6. (f - a) + c - q = t - a
    BY <2>2, <2>4
  <2> QED
    BY <2>5, <2>6 DEF a
<1> DEFINE s == "coin"
           r == Other(s)
<1> HIDE DEF s
<1>9. s \in Side /\ r \in Side
  BY OtherSide DEF s, Side
<1> DEFINE x == total[s]
           y == total[r]
           a == total[s] - out[s]
           b == total[r] - out[r]
           w == Worst
           n == lpAmount
           left == lpAmount - lp
<1>10. /\ x \in Nat /\ y \in Nat /\ a \in Nat /\ b \in Nat /\ n \in Nat /\ left \in Nat
       /\ x * left <= a * n /\ y * left <= b * n
  <2>1. x \in Nat /\ a \in Nat
    BY <1>4, <1>6, <1>9
  <2>2. y \in Nat /\ b \in Nat
    BY <1>4, <1>6, <1>9
  <2>3. x * left <= a * n
    BY <1>6, <1>9
  <2>4. y * left <= b * n
    BY <1>6, <1>9
  <2> QED
    BY <1>1, <1>2, <2>1, <2>2, <2>3, <2>4
<1>11. w \in Int /\ w <= x * y
  <2>1. w \in Int /\ w <= Total[s] * Total[r]
    BY <1>9, BeforeFrom DEF Above
  <2>2. Total[s] = x /\ Total[r] = y
    BY <1>4, <1>9
  <2> HIDE DEF w, x, y, r
  <2> QED
    BY <2>1, <2>2
<1>12. Corners(Total', market'.orders) = {a * b}
  <2> DEFINE t == Total'
             orders == market'.orders
  <2>1. t \in [Side -> Int] /\ orders \in [Side -> Seq(Order)]
    BY TotalNext
  <2>2. t[s] = a /\ t[r] = b
    BY <1>8, <1>9
  <2>3. /\ Locked(orders[s]) = 0 /\ Won(s, orders[s]) = 0
        /\ Locked(orders[r]) = 0 /\ Won(r, orders[r]) = 0
    BY <1>7, <1>9, NoOrder
  <2> HIDE DEF t, orders
  <2>4. Corners(t, orders)
          = {t[s] * t[r], (t[s] - Locked(orders[s])) * (t[r] + Won(s, orders[s])),
             (t[s] + Won(r, orders[r])) * (t[r] - Locked(orders[r])),
             (t[s] - Locked(orders[s]) + Won(r, orders[r])) * (t[r] - Locked(orders[r]) + Won(s, orders[s]))}
    BY <1>9, <2>1, CornersAre
  <2> HIDE DEF a, b, r
  <2>5. Corners(t, orders) = {a * b, (a - 0) * (b + 0), (a + 0) * (b - 0), (a - 0 + 0) * (b - 0 + 0)}
    BY <2>2, <2>3, <2>4
  <2>6. a - 0 = a /\ b + 0 = b /\ a + 0 = a /\ b - 0 = b
    BY <1>10
  <2> QED
    BY <2>5, <2>6 DEF t, orders
<1> HIDE DEF x, y, a, b, w, n, left
<1>13. w * left * left <= (a * b) * n * n
  BY <1>10, <1>11, WithdrawalImproves
<1> QED
  BY <1>1, <1>12, <1>13 DEF NoWorse, w, n, left
-----------------------------------------------------------------------------
(* At most one order a side, whatever the step. *)

LEMMA SingleKept ==
  ASSUME FloorInv, NEW s \in Side, market'.orders[s] \in {<<>>, market.orders[s]}
  PROVE  Single(s, market'.orders[s])
<1>1. Single(s, market.orders[s]) /\ Single(s, <<>>)
  BY DEF FloorInv, Single
<1> QED
  BY <1>1

LEMMA SingleUser ==
  ASSUME FloorInv, BookInv', UserStep, NEW s \in Side
  PROVE  Single(s, market'.orders[s])
<1>1. BookInv /\ Amounts \subseteq Nat /\ Shares \subseteq Nat
  BY BookAssumption DEF FloorInv
<1>2. CASE \E base \in Side, amount \in Amounts : Deposit(base, amount)
  <2>1. market' = market
    BY <1>2 DEF Deposit
  <2> QED
    BY <2>1, SingleKept
<1>3. CASE \E lp \in Shares : Withdraw(lp)
  <2>1. market' = IF OrderBookOn THEN Cleared ELSE market
    BY <1>3 DEF Withdraw
  <2>2. market'.orders[s] \in {<<>>, market.orders[s]}
    BY <1>1, <2>1, ClearedCounts
  <2> QED
    BY <2>2, SingleKept
<1>4. ASSUME NEW src \in Side, NEW amount \in Amounts, SwapBaseIn(src, amount) \/ SwapBaseOut(src, amount)
      PROVE  Single(s, market'.orders[s])
  <2>1. PICK in \in Nat, out \in Nat : Exchange(src, in, out)
    BY <1>1, <1>4, SwapBaseInExchanges, SwapBaseOutExchanges DEF KeepsProduct
  <2>2. market'.orders[Other(src)] = <<>> /\ market'.orders[src] = market.orders[src]
    BY <1>1, <2>1, ExchangeCounts
  <2>3. s = src \/ s = Other(src)
    BY DEF Side, Other
  <2>4. market'.orders[s] \in {<<>>, market.orders[s]}
    BY <2>2, <2>3
  <2> QED
    BY <2>4, SingleKept
<1> QED
  BY <1>2, <1>3, <1>4 DEF UserStep

LEMMA SingleOwner ==
  ASSUME FloorInv, OwnerStep, NEW s \in Side
  PROVE  Single(s, market'.orders[s])
<1>1. market' = market \/ market' = Cleared \/ market' = NoStanding
  BY DEF OwnerStep, WithdrawPnl, CancelAll, UpdateOpenOrder, SetStatus, Migrate, ClearBook
<1>2. Cleared.orders[s] = <<>> /\ NoStanding.orders[s] = <<>>
  BY ClearedCounts DEF FloorInv, NoStanding, NoOrders
<1>3. market'.orders[s] \in {<<>>, market.orders[s]}
  BY <1>1, <1>2
<1> QED
  BY <1>3, SingleKept

(* A bid that is placed locks size lots at its price. *)
LEMMA SinglePlaced ==
  ASSUME FloorInv, NEW side \in Side, NEW price \in Prices, NEW size \in Sizes,
         PlaceOrder(side, price, size), NEW s \in Side
  PROVE  Single(s, market'.orders[s])
<1> DEFINE lock == IF side = "pc" THEN price * size ELSE size
           order == [lock |-> lock, level |-> price, listed |-> TRUE]
<1>1. /\ price \in Nat \ {0} /\ size \in Nat \ {0} /\ order \in Order
      /\ market'.orders[side] = <<order>>
      /\ market'.orders[Other(side)] = market.orders[Other(side)]
  BY PlacingFacts DEF FloorInv
<1>2. CASE s = side
  <2>1. order.lock = LotsLock(side, size, order.level)
    <3>1. price * size = size * price
      BY <1>1
    <3> QED
      BY <3>1 DEF LotsLock
  <2> HIDE DEF order
  <2> QED
    BY <1>1, <1>2, <2>1, LotOrder
<1>3. CASE s # side
  <2>1. s = Other(side)
    BY <1>3 DEF Side, Other
  <2> QED
    BY <1>1, <2>1, SingleKept
<1> QED
  BY <1>2, <1>3

LEMMA SingleBook ==
  ASSUME FloorInv, BookInv', BookStep, NEW s \in Side
  PROVE  Single(s, market'.orders[s])
<1>1. CASE TakeProfit
  <2>1. market' = market
    BY <1>1 DEF TakeProfit
  <2> QED
    BY <2>1, SingleKept
<1>2. CASE \E side \in Side, price \in Prices, size \in Sizes : PlaceOrder(side, price, size)
  BY <1>2, SinglePlaced
<1>3. ASSUME NEW side \in Side, TakeOrder(side) PROVE Single(s, market'.orders[s])
  <2>1. Single(side, market'.orders[side]) /\ market'.orders[Other(side)] = market.orders[Other(side)]
    BY <1>3, TakingFacts
  <2>2. s = side \/ s = Other(side)
    BY DEF Side, Other
  <2> QED
    BY <2>1, <2>2, SingleKept
<1> QED
  BY <1>1, <1>2, <1>3 DEF BookStep

LEMMA FloorInvariant == Spec => []FloorInv
<1>1. ASSUME Init PROVE FloorInv
  <2>1. \A s \in Side : market.orders[s] = <<>>
    BY <1>1 DEF Init, NoStanding, NoOrders
  <2> QED
    BY <1>1, <2>1, InitKeeps DEF FloorInv, Single
<1>2. ASSUME FloorInv, [Next]_vars PROVE FloorInv'
  <2>1. BookInv /\ BookInv'
    BY <1>2, NextKeeps DEF FloorInv
  <2>2. ASSUME NEW s \in Side PROVE Single(s, market'.orders[s])
    <3>1. CASE UNCHANGED vars
      <4>1. market' = market
        BY <3>1 DEF vars
      <4> QED
        BY <1>2, <4>1, SingleKept
    <3>2. CASE ConsumeEvents
      <4>1. market'.orders = market.orders
        BY <2>1, <3>2, ConsumingIsSound DEF ConsumeEvents, BookInv
      <4> QED
        BY <1>2, <4>1, SingleKept
    <3>3. CASE UserStep \/ OwnerStep \/ BookStep
      BY <1>2, <2>1, <3>3, SingleUser, SingleOwner, SingleBook
    <3> QED
      BY <1>2, <3>1, <3>2, <3>3 DEF Next
  <2> QED
    BY <2>1, <2>2 DEF FloorInv
<1> QED
  BY <1>1, <1>2, PTL DEF Spec

-----------------------------------------------------------------------------
LEMMA StepsKeepFloor ==
  ASSUME FloorInv, BookInv', OrdersCovered, Quiet, [Next]_vars
  PROVE  NoWorse
<1>1. BookInv /\ Amounts \subseteq Nat /\ Shares \subseteq Nat
  BY BookAssumption DEF FloorInv
<1>2. CASE UNCHANGED vars
  <2>1. UNCHANGED <<vault, market, needTakePnl, lpAmount>>
    BY <1>2 DEF vars
  <2> QED
    BY <1>1, <2>1, IdleFloor
<1>3. CASE ConsumeEvents
  BY <1>1, <1>3, ConsumeEventsFloor
<1>4. CASE UserStep
  <2>1. ASSUME NEW src \in Side, NEW amount \in Amounts, SwapBaseIn(src, amount) \/ SwapBaseOut(src, amount)
        PROVE  NoWorse
    <3>1. PICK in \in Nat, out \in Nat : KeepsProduct(src, in, out)
      BY <1>1, <2>1, SwapBaseInExchanges, SwapBaseOutExchanges
    <3> QED
      BY <1>1, <3>1, ExchangeFloor
  <2> QED
    BY <1>1, <1>4, <2>1, DepositFloor, WithdrawFloor DEF UserStep
<1>5. CASE OwnerStep
  BY <1>1, <1>5, WithdrawPnlFloor, CancelAllFloor, UpdateOpenOrderFloor, MigrateFloor DEF OwnerStep
<1>6. CASE BookStep
  BY <1>1, <1>6, TakeProfitFloor, PlaceOrderFloor, TakeOrderFloor DEF BookStep
<1> QED
  BY <1>2, <1>3, <1>4, <1>5, <1>6 DEF Next

(* The reserves pay for the orders as long as the profit that is owed lies *)
(* in the vaults or is free to settle; in particular when none is owed.    *)
LEMMA DebtOffTheBook ==
  ASSUME BookInv, AtMost(needTakePnl, Settled(market))
  PROVE  OrdersCovered
<1>1. ASSUME NEW s \in Side PROVE Locked(market.orders[s]) <= Total[s]
  <2> DEFINE v == vault[s]
             f == market.free[s]
             l == Locked(market.orders[s])
             u == Unseen(market.queue, s)
             n == needTakePnl[s]
  <2>1. f \in Nat /\ l \in Nat /\ u \in Nat /\ CalcExact(market)[s] = f + l + u
    BY Parts, ExactIsOwned DEF BookInv
  <2>2. v \in Nat /\ n \in Nat /\ Total[s] = v + CalcExact(market)[s] - n
    BY TotalFacts
  <2>3. n <= v + f
    BY DEF AtMost, Settled, Plus
  <2>4. Total[s] = v + (f + l + u) - n
    BY <2>1, <2>2
  <2> HIDE DEF v, f, l, u, n
  <2>5. l <= v + (f + l + u) - n
    BY <2>1, <2>2, <2>3
  <2> QED
    BY <2>4, <2>5 DEF l
<1> QED
  BY <1>1 DEF OrdersCovered

(* While the reserves can pay for every order that stands on the book, the *)
(* worst that traders may make of the reserves behind each lp token never  *)
(* gets worse, whoever acts in whatever order: the sizes that              *)
(* do_plan_orderbook gives the orders keep their fills, whole or partial,  *)
(* from costing the holders, and so do swaps that cancel one side only,    *)
(* deposits that leave the book alone and withdrawals that clear it.       *)
THEOREM FloorHolds == Spec /\ []OrdersCovered => FloorNeverFalls
<1>1. ASSUME FloorInv, FloorInv', OrdersCovered, [Next]_vars
      PROVE  [UNCHANGED <<needTakePnl, pnlPaid, stranded>>
                => Worst' * lpAmount * lpAmount >= Worst * lpAmount' * lpAmount']_vars
  <2>1. BookInv /\ BookInv'
    BY <1>1 DEF FloorInv
  <2>2. ASSUME UNCHANGED <<needTakePnl, pnlPaid, stranded>>
        PROVE  Worst' * lpAmount * lpAmount >= Worst * lpAmount' * lpAmount'
    <3>1. NoWorse
      BY <1>1, <2>1, <2>2, StepsKeepFloor DEF Quiet
    <3>2. Worst' \in Corners(Total', market'.orders) /\ Worst' \in Int /\ lpAmount' \in Nat
      BY <2>1, TotalNext, WorstIs
    <3>3. Worst \in Int /\ lpAmount \in Nat
      BY <2>1, BookTypes
    <3>4. Worst * lpAmount' * lpAmount' <= Worst' * lpAmount * lpAmount
      BY <3>1, <3>2 DEF NoWorse
    <3> DEFINE a == Worst * lpAmount' * lpAmount'
               b == Worst' * lpAmount * lpAmount
    <3>5. a \in Int /\ b \in Int
      <4> DEFINE w == Worst
                 n == lpAmount
      <4>1. w \in Int /\ w' \in Int /\ n \in Nat /\ n' \in Nat
        BY <3>2, <3>3
      <4> HIDE DEF w, n
      <4>2. w * n' \in Int /\ w' * n \in Int
        BY <4>1
      <4>3. w * n' * n' \in Int /\ w' * n * n \in Int
        BY <4>1, <4>2
      <4> QED
        BY <4>3 DEF w, n
    <3>6. a <= b
      BY <3>4
    <3> HIDE DEF a, b
    <3>7. b >= a
      BY <3>5, <3>6
    <3> QED
      BY <3>7 DEF a, b
  <2> QED
    BY <2>2
<1> QED
  BY <1>1, FloorInvariant, PTL DEF Spec, FloorNeverFalls
=============================================================================
