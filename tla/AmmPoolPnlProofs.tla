-------------------------- MODULE AmmPoolPnlProofs --------------------------
(***************************************************************************)
(* What the holders of lp tokens can rely on, in a pool whose              *)
(* sys_decimal_value is a multiple of both tokens' units: calc_take_pnl,   *)
(* which every deposit, withdrawal and pnl payment starts with, cannot     *)
(* fail; no share is diluted; a holder can leave; and the pool implements  *)
(* PoolPromise.                                                            *)
(***************************************************************************)
EXTENDS AmmPoolProofs, MCPoolPromise

(* sys units per native unit of each token. *)
Scale == ScaleOf(Unit, Sys)

(* Aligned says that a native unit is a whole number of sys units.         *)
LEMMA AlignedUnits == Aligned => WholeUnits(Unit, Sys)
BY ConstantFacts DEF Aligned, WholeUnits

LEMMA ScaleFacts ==
  ASSUME Aligned
  PROVE  \A s \in Side : Scale[s] \in Positive /\ Unit[s] \in Positive /\ Sys = Scale[s] * Unit[s]
BY AlignedUnits, WholeScale DEF Scale

(* Conversions are exact one way and truncate the other. *)
LEMMA ScaledAmounts ==
  ASSUME Aligned, NEW t \in Amount
  PROVE  /\ \A s \in Side : Normalize(t, Unit, Sys)[s] = Scale[s] * t[s]
         /\ \A s \in Side : Restore(t, Unit, Sys)[s] = t[s] \div Scale[s]
BY AlignedUnits, WholeAmounts DEF Scale

(* The products before and after a conversion. *)
LEMMA ScaledProduct ==
  ASSUME Aligned, NEW t \in Amount
  PROVE  LET scale == Scale["pc"] * Scale["coin"] IN
           /\ scale \in Positive
           /\ Product(Normalize(t, Unit, Sys)) = scale * Product(t)
           /\ scale * Product(Restore(t, Unit, Sys)) <= Product(t)
BY AlignedUnits, WholeProduct DEF Scale

(* What the baseline gives up covers what the protocol is given, and       *)
(* exceeds it by dust at most.                                             *)
LEMMA DeltaNearPnl ==
  ASSUME Aligned, LedgerInv, Live, NEW taken \in CalcTakePnl, NEW s \in Side
  PROVE  /\ taken.pnl[s] \in Nat /\ taken.delta[s] \in Nat
         /\ Scale[s] * taken.pnl[s] <= taken.delta[s]
         /\ taken.delta[s] <= Scale[s] * taken.pnl[s] + Dust[s]
<1>1. PICK x2 \in 0 .. Normalized["pc"] :
        /\ \A t \in Side : Normalized[t] # 0
        /\ taken.pnl = TakePnl(Normalized, x2, fees.pnl, Unit, Sys)
        /\ taken.delta = TakeDelta(Normalized, x2, fees.pnl, Unit, Sys)
  BY DEF CalcTakePnl, TakeOutcomes, Normalized
<1>2. Normalized \in Amount /\ fees.pnl \in Fraction /\ WholeUnits(Unit, Sys)
  BY TotalFacts, AlignedUnits DEF LedgerInv, TypeOK, FeeSet
<1>3. /\ taken.pnl[s] \in Nat /\ taken.delta[s] \in Nat
      /\ Scale[s] * taken.pnl[s] <= taken.delta[s]
      /\ taken.delta[s] <= Scale[s] * taken.pnl[s] + 2 * Scale[s] - 2
  BY <1>1, <1>2, TakeTogether DEF Scale
<1>4. Dust[s] = 2 * Scale[s] - 2 /\ Scale[s] \in Positive
  BY ScaleFacts DEF Dust, Scale, ScaleOf
<1>5. Scale[s] * taken.pnl[s] \in Nat
  BY <1>3, <1>4 DEF Positive
<1> QED
  BY <1>3, <1>4, <1>5 DEF Positive

LEMMA DeltaCoversPnl ==
  ASSUME Aligned, LedgerInv, Live, NEW taken \in CalcTakePnl
  PROVE  AtMost(Normalize(taken.pnl, Unit, Sys), taken.delta)
<1>1. taken.pnl \in Amount
  BY TotalFacts, TakenFacts
<1> QED
  BY <1>1, DeltaNearPnl, ScaledAmounts DEF AtMost

(* A baseline refreshed to the reserves plus what came in, minus what went *)
(* out and what it gives up to the protocol, is at most the new reserves.  *)
Moved(t, new, in, out, pnl) ==
  \A s \in Side : new[s] = t[s] + in[s] - out[s] - pnl[s]

Refreshed(t, calc, in, out, delta) ==
  \A s \in Side : calc[s] = Normalize(t, Unit, Sys)[s] + Normalize(in, Unit, Sys)[s]
                               - Normalize(out, Unit, Sys)[s] - delta[s]

(* The baseline that deposit, withdraw and withdrawpnl store is covered by *)
(* the reserves they leave.                                                *)
LEMMA RefreshCovered ==
  ASSUME Aligned, NEW t \in Amount, NEW new \in Amount, NEW in \in Amount, NEW out \in Amount,
         NEW pnl \in Amount, NEW delta \in Amount, NEW calc \in Amount,
         AtMost(Normalize(pnl, Unit, Sys), delta),
         Moved(t, new, in, out, pnl), Refreshed(t, calc, in, out, delta)
  PROVE  Product(calc) <= Product(Normalize(new, Unit, Sys))
<1>1. ASSUME NEW s \in Side
      PROVE  calc[s] <= Normalize(new, Unit, Sys)[s]
  <2>1. /\ t[s] \in Nat /\ new[s] \in Nat /\ in[s] \in Nat /\ out[s] \in Nat /\ pnl[s] \in Nat
        /\ delta[s] \in Nat /\ calc[s] \in Nat /\ Scale[s] \in Nat
    BY ScaleFacts DEF Amount, Positive
  <2>2. /\ Normalize(t, Unit, Sys)[s] = Scale[s] * t[s]
        /\ Normalize(in, Unit, Sys)[s] = Scale[s] * in[s]
        /\ Normalize(out, Unit, Sys)[s] = Scale[s] * out[s]
        /\ Normalize(pnl, Unit, Sys)[s] = Scale[s] * pnl[s]
        /\ Normalize(new, Unit, Sys)[s] = Scale[s] * new[s]
    BY ScaledAmounts
  <2>3. Scale[s] * pnl[s] <= delta[s]
    BY <2>2 DEF AtMost
  <2>4. calc[s] = Scale[s] * t[s] + Scale[s] * in[s] - Scale[s] * out[s] - delta[s]
    BY <2>2 DEF Refreshed
  <2>5. Scale[s] * new[s]
          = Scale[s] * t[s] + Scale[s] * in[s] - Scale[s] * out[s] - Scale[s] * pnl[s]
    BY <2>1 DEF Moved
  <2>6. /\ Scale[s] * t[s] \in Nat /\ Scale[s] * in[s] \in Nat /\ Scale[s] * out[s] \in Nat
        /\ Scale[s] * pnl[s] \in Nat /\ Scale[s] * new[s] \in Nat
    BY <2>1
  <2> QED
    BY <2>1, <2>2, <2>3, <2>4, <2>5, <2>6
<1>2. Normalize(new, Unit, Sys) \in Amount
  BY ConstantFacts, NormalizeType
<1> QED
  BY <1>1, <1>2, ProductMonotonic DEF AtMost

(* A step that does not lower the product of the reserves, and leaves the  *)
(* baseline alone, keeps it covered.                                       *)
LEMMA GrowthCovered ==
  ASSUME Aligned, NEW t \in Amount, NEW new \in Amount, NEW calc \in Amount,
         Product(t) <= Product(new), Product(calc) <= Product(Normalize(t, Unit, Sys))
  PROVE  Product(calc) <= Product(Normalize(new, Unit, Sys))
<1> DEFINE scale == Scale["pc"] * Scale["coin"]
<1>1. /\ scale \in Positive
      /\ Product(Normalize(t, Unit, Sys)) = scale * Product(t)
      /\ Product(Normalize(new, Unit, Sys)) = scale * Product(new)
  BY ScaledProduct
<1>2. Product(t) \in Nat /\ Product(new) \in Nat /\ Product(calc) \in Nat
  BY ArithmeticType
<1> HIDE DEF scale
<1>3. scale * Product(t) <= scale * Product(new)
  BY <1>1, <1>2 DEF Positive
<1>4. scale * Product(t) \in Nat /\ scale * Product(new) \in Nat
  BY <1>1, <1>2 DEF Positive
<1> QED
  BY <1>1, <1>2, <1>3, <1>4

(* While the baseline is covered, calc_take_pnl has its outcome.           *)
LEMMA CoveredNeverFails ==
  ASSUME Aligned, LedgerInv, Live, BaselineCovered
  PROVE  CalcTakePnl # {}
<1>1. /\ TotalDefined /\ Total \in Amount /\ Normalized \in Amount /\ calcPnl \in Amount
      /\ \A s \in Side : Total[s] # 0
  BY TotalFacts DEF LedgerInv, TypeOK
<1>2. \A s \in Side : Normalized[s] # 0
  <2> SUFFICES ASSUME NEW s \in Side
               PROVE  Normalized[s] # 0
    OBVIOUS
  <2>1. Normalized[s] = Scale[s] * Total[s] /\ Scale[s] \in Positive /\ Total[s] \in Positive
    BY <1>1, ScaledAmounts, ScaleFacts DEF Normalized, Amount, Positive
  <2> QED
    BY <2>1 DEF Positive
<1>3. Product(Total) >= Product(Restore(calcPnl, Unit, Sys))
  <2> DEFINE scale == Scale["pc"] * Scale["coin"]
             r     == Product(Restore(calcPnl, Unit, Sys))
  <2>1. /\ scale \in Positive
        /\ scale * r <= Product(calcPnl)
        /\ Product(Normalized) = scale * Product(Total)
    BY <1>1, ScaledProduct DEF Normalized
  <2>2. Product(Total) \in Nat /\ r \in Nat /\ Product(calcPnl) \in Nat
    BY <1>1, ConstantFacts, NormalizeType, ArithmeticType
  <2>3. Product(calcPnl) <= scale * Product(Total)
    BY <2>1 DEF BaselineCovered
  <2> HIDE DEF scale, r
  <2>4. scale * r \in Nat /\ scale * Product(Total) \in Nat
    BY <2>1, <2>2 DEF Positive
  <2>5. scale * r <= scale * Product(Total)
    BY <2>1, <2>2, <2>3, <2>4
  <2>6. r <= Product(Total)
    BY <2>1, <2>2, <2>5 DEF Positive
  <2> QED
    BY <2>2, <2>6 DEF r
<1>4. PICK x2 \in 0 .. Normalized["pc"] : IsIntegerSqrt(x2, CalcXPower(calcPnl, Normalized))
  BY <1>1, <1>2, RootFits DEF BaselineCovered
<1> DEFINE taken == [pnl   |-> TakePnl(Normalized, x2, fees.pnl, Unit, Sys),
                     delta |-> TakeDelta(Normalized, x2, fees.pnl, Unit, Sys)]
<1>5. AtMost(taken.pnl, Total)
  <2>1. /\ taken.pnl \in Amount
        /\ \A s \in Side : taken.pnl[s] < Total[s]
    BY <1>1, <1>2, ConstantFacts, PnlBounds DEF Normalized, LedgerInv, TypeOK, FeeSet
  <2> QED
    BY <1>1, <2>1 DEF AtMost, Amount, Side
<1>6. taken \in CalcTakePnl
  BY <1>1, <1>2, <1>3, <1>4, <1>5 DEF CalcTakePnl, TakeOutcomes, Normalized
<1> QED
  BY <1>6

-----------------------------------------------------------------------------
(* Every instruction keeps the baseline covered. *)

LEMMA NextTotal ==
  ASSUME LedgerInv', Live'
  PROVE  /\ Total' \in Amount
         /\ \A s \in Side : Total'[s] = vault'[s] - needTakePnl'[s]
         /\ Normalized' = Normalize(Total', Unit, Sys)
<1>1. \A s \in Side : /\ vault'[s] \in Nat /\ needTakePnl'[s] \in Nat
                      /\ needTakePnl'[s] < vault'[s]
  BY DEF LedgerInv, TypeOK, ReservesStayPositive, Amount
<1>2. Total' = [s \in Side |-> vault'[s] - needTakePnl'[s]]
  BY DEF Total, Minus
<1>3. \A s \in Side : vault'[s] - needTakePnl'[s] \in Nat
  BY <1>1 DEF Side
<1> QED
  BY <1>2, <1>3 DEF Amount, Normalized

(* Sums and differences side by side.                                      *)
LEMMA OnEachSide ==
  ASSUME NEW t, NEW u, NEW s \in Side
  PROVE  Plus(t, u)[s] = t[s] + u[s] /\ Minus(t, u)[s] = t[s] - u[s]
BY DEF Plus, Minus

(* Nothing is an amount.                                                   *)
LEMMA ZeroFacts == Zero \in Amount /\ \A s \in Side : Zero[s] = 0
BY DEF Zero, Amount

(* Nothing normalizes to nothing.                                          *)
LEMMA ZeroNormalized ==
  ASSUME Aligned
  PROVE  \A s \in Side : Normalize(Zero, Unit, Sys)[s] = 0
<1> SUFFICES ASSUME NEW s \in Side
             PROVE  Normalize(Zero, Unit, Sys)[s] = 0
  OBVIOUS
<1>1. Normalize(Zero, Unit, Sys)[s] = Scale[s] * 0 /\ Scale[s] \in Positive
  BY ZeroFacts, ScaledAmounts, ScaleFacts
<1> QED
  BY <1>1 DEF Positive

(* process_initialize2 stores the reserves themselves as the baseline.     *)
LEMMA Initialize2Marks ==
  ASSUME LedgerInv, LedgerInv', NEW u \in Users, NEW amount \in Amount, NEW open \in Nat,
         Initialize2(u, amount, open)
  PROVE  Live' /\ calcPnl' = Normalized'
<1> DEFINE funded == Plus(vault, amount)
<1>1. funded \in Amount /\ \A s \in Side : funded[s] = vault[s] + amount[s] /\ vault[s] \in Nat
      /\ amount[s] \in Nat
  BY ArithmeticType DEF Plus, LedgerInv, TypeOK, Amount
<1>2. Live'
  BY DEF Initialize2, Live
<1>3. Total' = funded
  <2>1. vault' = Minus(funded, Zero) /\ needTakePnl' = Zero
    BY DEF Initialize2, Transfer
  <2>2. Total' = Minus(Minus(funded, Zero), Zero)
    BY <2>1 DEF Total
  <2>3. \A s \in Side : Minus(Minus(funded, Zero), Zero)[s] = funded[s]
    <3> SUFFICES ASSUME NEW s \in Side
                 PROVE  Minus(Minus(funded, Zero), Zero)[s] = funded[s]
      OBVIOUS
    <3>1. Minus(Minus(funded, Zero), Zero)[s] = funded[s] - 0 - 0
      BY ZeroFacts DEF Minus
    <3>2. funded[s] \in Nat
      BY <1>1
    <3> HIDE DEF funded
    <3> QED
      BY <3>1, <3>2
  <2>4. Total' \in Amount
    BY <1>2, NextTotal
  <2> HIDE DEF funded
  <2>5. \A s \in Side : Total'[s] = funded[s]
    BY <2>2, <2>3
  <2> QED
    BY <1>1, <2>4, <2>5 DEF Amount
<1>4. calcPnl' = Normalize(funded, Unit, Sys)
  BY DEF Initialize2
<1>5. Normalized' = Normalize(funded, Unit, Sys)
  BY <1>2, <1>3, NextTotal
<1> QED
  BY <1>2, <1>4, <1>5

LEMMA Initialize2Covers ==
  ASSUME LedgerInv, LedgerInv', NEW u \in Users, NEW amount \in Amount, NEW open \in Nat,
         Initialize2(u, amount, open)
  PROVE  BaselineCovered'
<1>1. calcPnl' = Normalized' /\ Product(calcPnl') \in Nat
  BY Initialize2Marks, ArithmeticType DEF LedgerInv, TypeOK
<1> QED
  BY <1>1 DEF BaselineCovered, Product

(* process_deposit: the protocol takes its share, in comes in, and what is *)
(* minted for it does not exceed its part of the reserves.                 *)
Deposited(taken, in, mint) ==
  /\ lpAmount' = lpAmount + mint
  /\ needTakePnl' = Plus(needTakePnl, taken.pnl)
  /\ Moved(Total, Total', in, Zero, taken.pnl)
  /\ Refreshed(Total, calcPnl', in, Zero, taken.delta)
  /\ \A s \in Side : (Total[s] - taken.pnl[s]) * mint <= in[s] * lpAmount

LEMMA DepositUnpacked ==
  ASSUME Aligned, LedgerInv, LedgerInv', NEW u \in Users, NEW base \in Side,
         NEW max \in Amount, NEW otherMin \in Nat, Deposit(u, base, max, otherMin)
  PROVE  /\ Live /\ Live'
         /\ \E taken \in CalcTakePnl, in \in Amount, mint \in Positive : Deposited(taken, in, mint)
<1>1. Live /\ Live'
  BY StatusFacts DEF Deposit, Live, LedgerInv, TypeOK, params
<1>2. PICK taken \in CalcTakePnl :
        LET total  == Minus(Total, taken.pnl)
            deduct == DepositDeduct(base, max[base], total)
            mint   == DepositMint(base, max[base], total, lpAmount)
        IN /\ total[base] # 0
           /\ mint # 0 /\ (\A s \in Side : deduct[s] # 0)
           /\ MintLp(u, mint)
           /\ Transfer(u, deduct, Zero)
           /\ needTakePnl' = Plus(needTakePnl, taken.pnl)
           /\ calcPnl' = Minus(Plus(Normalized, Normalize(deduct, Unit, Sys)), taken.delta)
  BY DEF Deposit
<1> DEFINE total  == Minus(Total, taken.pnl)
           deduct == DepositDeduct(base, max[base], total)
           mint   == DepositMint(base, max[base], total, lpAmount)
<1>3. /\ taken.pnl \in Amount /\ taken.delta \in Amount
      /\ Total \in Amount /\ Normalized \in Amount
      /\ \A s \in Side : taken.pnl[s] < Total[s] /\ Total[s] = vault[s] - needTakePnl[s]
  BY <1>1, TotalFacts, TakenFacts
<1>4. total \in Amount /\ \A s \in Side : total[s] # 0 /\ total[s] = Total[s] - taken.pnl[s]
  <2>1. AtMost(taken.pnl, Total)
    BY <1>3 DEF AtMost, Amount, Side
  <2>2. \A s \in Side : total[s] = Total[s] - taken.pnl[s] /\ Total[s] - taken.pnl[s] # 0
    BY <1>3, OnEachSide DEF Amount, Side
  <2> QED
    BY <1>3, <2>1, <2>2, ArithmeticType
<1>5. deduct \in Amount /\ mint \in Nat
  BY <1>2, <1>4, DepositType DEF Amount, LedgerInv, TypeOK
<1>8. \A s \in Side : total[s] * mint <= deduct[s] * lpAmount
  BY <1>2, <1>4, MintNotGenerous DEF Amount, LedgerInv, TypeOK
<1>9. mint \in Positive /\ lpAmount' = lpAmount + mint
  BY <1>2, <1>5 DEF MintLp, Positive
<1> HIDE DEF deduct, total, mint
<1>6. Total' \in Amount /\ Moved(Total, Total', deduct, Zero, taken.pnl)
  <2>1. ASSUME NEW s \in Side
        PROVE  Total'[s] = Total[s] + deduct[s] - Zero[s] - taken.pnl[s]
    <3>1. Total'[s] = vault'[s] - needTakePnl'[s]
      BY <1>1, NextTotal
    <3>2. vault' = Minus(Plus(vault, deduct), Zero)
      BY <1>2 DEF Transfer, deduct, total
    <3>3. vault'[s] = Plus(vault, deduct)[s] - Zero[s] /\ Plus(vault, deduct)[s] = vault[s] + deduct[s]
      BY <3>2, OnEachSide
    <3>4. needTakePnl'[s] = needTakePnl[s] + taken.pnl[s]
      BY <1>2, OnEachSide
    <3>5. vault[s] \in Nat /\ needTakePnl[s] \in Nat /\ deduct[s] \in Nat /\ taken.pnl[s] \in Nat
      BY <1>3, <1>5 DEF LedgerInv, TypeOK, Amount
    <3>6. Total[s] = vault[s] - needTakePnl[s] /\ Zero[s] = 0
      BY <1>3, ZeroFacts
    <3> QED
      BY <3>1, <3>3, <3>4, <3>5, <3>6
  <2> QED
    BY <1>1, <2>1, NextTotal DEF Moved
<1>7. Refreshed(Total, calcPnl', deduct, Zero, taken.delta)
  <2> SUFFICES ASSUME NEW s \in Side
               PROVE  calcPnl'[s] = Normalize(Total, Unit, Sys)[s] + Normalize(deduct, Unit, Sys)[s]
                                      - Normalize(Zero, Unit, Sys)[s] - taken.delta[s]
    BY DEF Refreshed
  <2>1. /\ calcPnl'[s] = Plus(Normalized, Normalize(deduct, Unit, Sys))[s] - taken.delta[s]
        /\ Plus(Normalized, Normalize(deduct, Unit, Sys))[s]
             = Normalized[s] + Normalize(deduct, Unit, Sys)[s]
    <3>1. calcPnl' = Minus(Plus(Normalized, Normalize(deduct, Unit, Sys)), taken.delta)
      BY <1>2 DEF deduct, total
    <3> QED
      BY <3>1, OnEachSide
  <2>2. Normalize(deduct, Unit, Sys) \in Amount
    BY <1>5, ConstantFacts, NormalizeType
  <2>3. /\ Normalized[s] \in Nat /\ taken.delta[s] \in Nat /\ Normalize(deduct, Unit, Sys)[s] \in Nat
        /\ Normalize(Zero, Unit, Sys)[s] = 0
    BY <1>3, <2>2, ZeroNormalized DEF Amount
  <2> QED
    BY <2>1, <2>3 DEF Normalized
<1>10. Deposited(taken, deduct, mint)
  BY <1>2, <1>4, <1>6, <1>7, <1>8, <1>9 DEF Deposited
<1> QED
  BY <1>1, <1>5, <1>9, <1>10

(* process_deposit stores a baseline that its reserves cover.              *)
LEMMA DepositCovers ==
  ASSUME Aligned, LedgerInv, LedgerInv', NEW u \in Users, NEW base \in Side,
         NEW max \in Amount, NEW otherMin \in Nat, Deposit(u, base, max, otherMin)
  PROVE  BaselineCovered'
<1>1. PICK taken \in CalcTakePnl, in \in Amount, mint \in Positive : Deposited(taken, in, mint)
  BY DepositUnpacked
<1>2. Live /\ Live'
  BY DepositUnpacked
<1>3. taken.pnl \in Amount /\ taken.delta \in Amount /\ AtMost(Normalize(taken.pnl, Unit, Sys), taken.delta)
  BY <1>2, TakenFacts, DeltaCoversPnl
<1>4. Product(calcPnl') <= Product(Normalize(Total', Unit, Sys))
  <2>1. calcPnl' \in Amount /\ Total \in Amount /\ Total' \in Amount
    BY <1>2, TotalFacts, NextTotal DEF LedgerInv, TypeOK
  <2> QED
    BY <1>1, <1>3, <2>1, ZeroFacts, RefreshCovered DEF Deposited
<1> QED
  BY <1>2, <1>4, NextTotal DEF BaselineCovered, Product

(* process_withdraw: the protocol takes its share, or nothing, out goes    *)
(* out, and it is not more than the part of lp.                            *)
Withdrawn(taken, out, lp) ==
  /\ lpAmount' = lpAmount - lp
  /\ needTakePnl' = Plus(needTakePnl, taken.pnl)
  /\ Moved(Total, Total', Zero, out, taken.pnl)
  /\ Refreshed(Total, calcPnl', Zero, out, taken.delta)
  /\ \A s \in Side : (Total[s] - taken.pnl[s]) * (lpAmount - lp)
                       <= (Total[s] - taken.pnl[s] - out[s]) * lpAmount

LEMMA WithdrawUnpacked ==
  ASSUME Aligned, LedgerInv, LedgerInv', NEW u \in Users, NEW lp \in Nat,
         NEW min \in Amount, Withdraw(u, lp, min)
  PROVE  /\ Live /\ Live'
         /\ lp \in Positive /\ lp < lpAmount
         /\ \E taken \in CalcTakePnl \cup {[pnl |-> Zero, delta |-> Zero]}, out \in Amount :
              Withdrawn(taken, out, lp)
<1>1. Live /\ Live'
  BY StatusFacts DEF Withdraw, Live, LedgerInv, TypeOK, params
<1>2. PICK taken \in IF status = "WithdrawOnly" THEN {[pnl |-> Zero, delta |-> Zero]}
                    ELSE CalcTakePnl :
        LET out == WithdrawOut(lp, Minus(Total, taken.pnl), lpAmount) IN
          /\ Transfer(u, Zero, out)
          /\ BurnLp(u, lp)
          /\ needTakePnl' = Plus(needTakePnl, taken.pnl)
          /\ calcPnl' = Minus(Minus(Normalized, Normalize(out, Unit, Sys)), taken.delta)
  BY DEF Withdraw
<1> DEFINE total == Minus(Total, taken.pnl)
           out   == WithdrawOut(lp, total, lpAmount)
<1>3. Total \in Amount /\ Normalized \in Amount
      /\ \A s \in Side : Total[s] # 0 /\ Total[s] = vault[s] - needTakePnl[s]
  BY <1>1, TotalFacts
<1>4. /\ taken.pnl \in Amount /\ taken.delta \in Amount
      /\ \A s \in Side : taken.pnl[s] < Total[s]
      /\ AtMost(Normalize(taken.pnl, Unit, Sys), taken.delta)
  <2>1. CASE status = "WithdrawOnly"
    <3>1. taken.pnl = Zero /\ taken.delta = Zero
      BY <1>2, <2>1
    <3>2. \A s \in Side : 0 < Total[s]
      BY <1>3 DEF Amount, Side
    <3>3. AtMost(Normalize(Zero, Unit, Sys), Zero)
      BY ZeroFacts, ZeroNormalized DEF AtMost, Side
    <3> QED
      BY <3>1, <3>2, <3>3, ZeroFacts
  <2>2. CASE status # "WithdrawOnly"
    BY <1>1, <1>2, <2>2, TakenFacts, DeltaCoversPnl
  <2> QED
    BY <2>1, <2>2
<1>5. /\ out \in Amount
      /\ \A s \in Side : total[s] = Total[s] - taken.pnl[s]
                        /\ total[s] * (lpAmount - lp) <= (total[s] - out[s]) * lpAmount
  <2>1. \A s \in Side : Total[s] \in Nat /\ taken.pnl[s] \in Nat /\ taken.pnl[s] <= Total[s]
                       /\ Total[s] - taken.pnl[s] # 0
    BY <1>3, <1>4 DEF Amount, Side
  <2>2. total \in Amount
    BY <1>3, <1>4, <2>1, ArithmeticType DEF AtMost
  <2>3. \A s \in Side : total[s] # 0
    BY <2>1, OnEachSide
  <2>4. lpAmount \in Nat /\ lp < lpAmount
    BY DEF Withdraw, LedgerInv, TypeOK
  <2>5. out \in Amount
    BY <2>2, <2>3, <2>4, WithdrawLeaves
  <2>6. \A s \in Side : total[s] * (lpAmount - lp) <= (total[s] - out[s]) * lpAmount
    BY <2>2, <2>4, WithdrawNotGenerous
  <2> QED
    BY <2>5, <2>6, OnEachSide
<1>6. lp \in Positive /\ lp < lpAmount /\ lpAmount' = lpAmount - lp
  BY <1>2 DEF Withdraw, BurnLp, Positive
<1>7. taken \in CalcTakePnl \cup {[pnl |-> Zero, delta |-> Zero]}
  BY <1>2
<1>8. /\ vault' = Minus(Plus(vault, Zero), out)
      /\ needTakePnl' = Plus(needTakePnl, taken.pnl)
      /\ calcPnl' = Minus(Minus(Normalized, Normalize(out, Unit, Sys)), taken.delta)
  BY <1>2 DEF Transfer
<1> HIDE DEF out, total
<1>9. Total' \in Amount /\ Moved(Total, Total', Zero, out, taken.pnl)
  <2>1. ASSUME NEW s \in Side
        PROVE  Total'[s] = Total[s] + Zero[s] - out[s] - taken.pnl[s]
    <3>1. Total'[s] = vault'[s] - needTakePnl'[s]
      BY <1>1, NextTotal
    <3>2. /\ vault'[s] = Plus(vault, Zero)[s] - out[s] /\ Plus(vault, Zero)[s] = vault[s] + Zero[s]
          /\ needTakePnl'[s] = needTakePnl[s] + taken.pnl[s]
      BY <1>8, OnEachSide
    <3>3. vault[s] \in Nat /\ needTakePnl[s] \in Nat /\ out[s] \in Nat /\ taken.pnl[s] \in Nat
      BY <1>4, <1>5 DEF LedgerInv, TypeOK, Amount
    <3>4. Total[s] = vault[s] - needTakePnl[s] /\ Zero[s] = 0
      BY <1>3, ZeroFacts
    <3> QED
      BY <3>1, <3>2, <3>3, <3>4
  <2> QED
    BY <1>1, <2>1, NextTotal DEF Moved
<1>10. Refreshed(Total, calcPnl', Zero, out, taken.delta)
  <2> SUFFICES ASSUME NEW s \in Side
               PROVE  calcPnl'[s] = Normalize(Total, Unit, Sys)[s] + Normalize(Zero, Unit, Sys)[s]
                                      - Normalize(out, Unit, Sys)[s] - taken.delta[s]
    BY DEF Refreshed
  <2>1. /\ calcPnl'[s] = Minus(Normalized, Normalize(out, Unit, Sys))[s] - taken.delta[s]
        /\ Minus(Normalized, Normalize(out, Unit, Sys))[s]
             = Normalized[s] - Normalize(out, Unit, Sys)[s]
    BY <1>8, OnEachSide
  <2>2. Normalize(out, Unit, Sys) \in Amount
    BY <1>5, ConstantFacts, NormalizeType
  <2>3. /\ Normalized[s] \in Nat /\ taken.delta[s] \in Nat /\ Normalize(out, Unit, Sys)[s] \in Nat
        /\ Normalize(Zero, Unit, Sys)[s] = 0
    BY <1>3, <1>4, <2>2, ZeroNormalized DEF Amount
  <2> QED
    BY <2>1, <2>3 DEF Normalized
<1>11. Withdrawn(taken, out, lp)
  BY <1>5, <1>6, <1>8, <1>9, <1>10 DEF Withdrawn
<1> QED
  BY <1>1, <1>5, <1>6, <1>7, <1>11

(* Either way what the baseline gives up covers what the protocol is given. *)
LEMMA NothingOrTaken ==
  ASSUME Aligned, LedgerInv, Live, NEW taken \in CalcTakePnl \cup {[pnl |-> Zero, delta |-> Zero]}
  PROVE  taken.pnl \in Amount /\ taken.delta \in Amount /\ AtMost(Normalize(taken.pnl, Unit, Sys), taken.delta)
<1>1. AtMost(Normalize(Zero, Unit, Sys), Zero)
  BY ZeroFacts, ZeroNormalized DEF AtMost, Side
<1> QED
  BY <1>1, ZeroFacts, TakenFacts, DeltaCoversPnl

(* process_withdraw stores a baseline that its reserves cover.             *)
LEMMA WithdrawCovers ==
  ASSUME Aligned, LedgerInv, LedgerInv', NEW u \in Users, NEW lp \in Nat,
         NEW min \in Amount, Withdraw(u, lp, min)
  PROVE  BaselineCovered'
<1>1. PICK taken \in CalcTakePnl \cup {[pnl |-> Zero, delta |-> Zero]}, out \in Amount : Withdrawn(taken, out, lp)
  BY WithdrawUnpacked
<1>2. Live /\ Live'
  BY WithdrawUnpacked
<1>3. taken.pnl \in Amount /\ taken.delta \in Amount /\ AtMost(Normalize(taken.pnl, Unit, Sys), taken.delta)
  BY <1>2, NothingOrTaken
<1>4. Product(calcPnl') <= Product(Normalize(Total', Unit, Sys))
  <2>1. calcPnl' \in Amount /\ Total \in Amount /\ Total' \in Amount
    BY <1>2, TotalFacts, NextTotal DEF LedgerInv, TypeOK
  <2> QED
    BY <1>1, <1>3, <2>1, ZeroFacts, RefreshCovered DEF Withdrawn
<1> QED
  BY <1>2, <1>4, NextTotal DEF BaselineCovered, Product

(* process_withdrawpnl stores a baseline that its reserves cover.          *)
LEMMA WithdrawPnlCovers ==
  ASSUME Aligned, LedgerInv, LedgerInv', WithdrawPnl
  PROVE  BaselineCovered'
<1>1. Live /\ Live'
  BY DEF WithdrawPnl, params, Live
<1>2. PICK taken \in CalcTakePnl :
        /\ vault' = Minus(vault, Plus(needTakePnl, taken.pnl))
        /\ needTakePnl' = Zero
        /\ calcPnl' = Minus(Normalized, taken.delta)
  BY DEF WithdrawPnl
<1>3. /\ Total \in Amount /\ Normalized \in Amount
      /\ taken.pnl \in Amount /\ taken.delta \in Amount
      /\ AtMost(Normalize(taken.pnl, Unit, Sys), taken.delta)
      /\ \A s \in Side : Total[s] = vault[s] - needTakePnl[s]
  BY <1>1, TotalFacts, TakenFacts, DeltaCoversPnl
<1>4. Total' \in Amount /\ Moved(Total, Total', Zero, Zero, taken.pnl)
  <2>1. ASSUME NEW s \in Side
        PROVE  Total'[s] = Total[s] + Zero[s] - Zero[s] - taken.pnl[s]
    <3>1. Total'[s] = vault'[s] - Zero[s]
      BY <1>1, <1>2, NextTotal
    <3>2. /\ vault'[s] = vault[s] - Plus(needTakePnl, taken.pnl)[s]
          /\ Plus(needTakePnl, taken.pnl)[s] = needTakePnl[s] + taken.pnl[s]
      BY <1>2, OnEachSide
    <3>3. vault[s] \in Nat /\ needTakePnl[s] \in Nat /\ taken.pnl[s] \in Nat
      BY <1>3 DEF LedgerInv, TypeOK, Amount
    <3>4. Total[s] = vault[s] - needTakePnl[s] /\ Zero[s] = 0
      BY <1>3, ZeroFacts
    <3> QED
      BY <3>1, <3>2, <3>3, <3>4
  <2> QED
    BY <1>1, <2>1, NextTotal DEF Moved
<1>5. Refreshed(Total, calcPnl', Zero, Zero, taken.delta)
  <2> SUFFICES ASSUME NEW s \in Side
               PROVE  calcPnl'[s] = Normalize(Total, Unit, Sys)[s] + Normalize(Zero, Unit, Sys)[s]
                                      - Normalize(Zero, Unit, Sys)[s] - taken.delta[s]
    BY DEF Refreshed
  <2>1. calcPnl'[s] = Normalized[s] - taken.delta[s]
    BY <1>2, OnEachSide
  <2>2. Normalized[s] \in Nat /\ taken.delta[s] \in Nat /\ Normalize(Zero, Unit, Sys)[s] = 0
    BY <1>3, ZeroNormalized DEF Amount
  <2> QED
    BY <2>1, <2>2 DEF Normalized
<1>6. Product(calcPnl') <= Product(Normalize(Total', Unit, Sys))
  <2>1. calcPnl' \in Amount
    BY DEF LedgerInv, TypeOK
  <2> QED
    BY <1>3, <1>4, <1>5, <2>1, ZeroFacts, RefreshCovered
<1> QED
  BY <1>1, <1>6, NextTotal DEF BaselineCovered, Product

(* A step that only moves the reserves, and does not lower their product.  *)
Grows ==
  /\ Live /\ Live'
  /\ UNCHANGED <<needTakePnl, calcPnl, lpAmount>>
  /\ Product(Total) <= Product(Total')

(* An exchange whose amounts keep the product of the reserves.             *)
LEMMA ExchangeGrows ==
  ASSUME LedgerInv, LedgerInv', Live, Live',
         NEW u \in Users, NEW src \in Side, NEW in \in Nat, NEW out \in Nat,
         Exchange(u, src, in, out),
         Total[src] * Total[Other(src)] <= (Total[src] + in) * (Total[Other(src)] - out)
  PROVE  Grows
<1> DEFINE other == Other(src)
<1>1. other \in Side /\ other # src
  BY OtherSide
<1>2. /\ Total \in Amount /\ Total' \in Amount
      /\ \A s \in Side : Total[s] = vault[s] - needTakePnl[s]
      /\ \A s \in Side : Total'[s] = vault'[s] - needTakePnl'[s]
  BY TotalFacts, NextTotal
<1>3. /\ vault' = Minus(Plus(vault, Only(src, in)), Only(other, out))
      /\ needTakePnl' = needTakePnl /\ calcPnl' = calcPnl /\ lpAmount' = lpAmount
  BY DEF Exchange, Transfer
<1>4. Only(src, in)[src] = in /\ Only(src, in)[other] = 0
      /\ Only(other, out)[src] = 0 /\ Only(other, out)[other] = out
  BY <1>1, OnlyFacts
<1> HIDE DEF other
<1>5. Total'[src] = Total[src] + in
  <2>1. /\ vault'[src] = Plus(vault, Only(src, in))[src] - Only(other, out)[src]
        /\ Plus(vault, Only(src, in))[src] = vault[src] + Only(src, in)[src]
    BY <1>3, OnEachSide
  <2>2. vault[src] \in Nat /\ needTakePnl[src] \in Nat
    BY DEF LedgerInv, TypeOK, Amount
  <2> QED
    BY <1>2, <1>3, <1>4, <2>1, <2>2
<1>6. Total'[other] = Total[other] - out
  <2>1. /\ vault'[other] = Plus(vault, Only(src, in))[other] - Only(other, out)[other]
        /\ Plus(vault, Only(src, in))[other] = vault[other] + Only(src, in)[other]
    BY <1>1, <1>3, OnEachSide
  <2>2. vault[other] \in Nat /\ needTakePnl[other] \in Nat
    BY <1>1 DEF LedgerInv, TypeOK, Amount
  <2> QED
    BY <1>1, <1>2, <1>3, <1>4, <2>1, <2>2
<1>7. Product(Total) = Total[src] * Total[other] /\ Product(Total') = Total'[src] * Total'[other]
  <2>1. \A s \in Side : Total[s] \in Nat /\ Total'[s] \in Nat
    BY <1>2 DEF Amount
  <2>2. CASE src = "pc"
    BY <2>2 DEF Product, other, Other
  <2>3. CASE src = "coin"
    BY <2>1, <2>3 DEF Product, other, Other, Side
  <2> QED
    BY <2>2, <2>3 DEF Side
<1>8. Product(Total) <= Product(Total')
  BY <1>5, <1>6, <1>7 DEF other
<1> QED
  BY <1>3, <1>8 DEF Grows

(* A swap leaves the baseline alone and never lowers the product of the    *)
(* reserves.                                                               *)
LEMMA SwapGrows ==
  ASSUME LedgerInv, LedgerInv',
         NEW u \in Users, NEW src \in Side, NEW amount \in Nat, NEW limit \in Nat,
         SwapBaseIn(u, src, amount, limit) \/ SwapBaseOut(u, src, limit, amount)
  PROVE  Grows
<1>1. Live /\ status' \in LedgerStatus
  BY OpenForSwapFacts DEF SwapBaseIn, SwapBaseOut
<1>2. Live'
  BY <1>1, StatusFacts DEF Live, LedgerStatus
<1>3. Total \in Amount /\ \A s \in Side : Total[s] # 0
  BY <1>1, TotalFacts
<1>4. fees.swap \in Fraction
  BY DEF LedgerInv, TypeOK, FeeSet
<1>5. CASE SwapBaseIn(u, src, amount, limit)
  <2> DEFINE out == QuoteBaseIn(amount, Total, src, fees.swap)
  <2>1. out \in Nat
    BY <1>3, <1>4, SwapQuoteType
  <2>2. Exchange(u, src, amount, out) /\ out < Total[Other(src)]
    BY <1>5 DEF SwapBaseIn, Exchange
  <2>3. Total[src] * Total[Other(src)] <= (Total[src] + amount) * (Total[Other(src)] - out)
    BY <1>3, <1>4, <2>2, SwapInKeepsProduct
  <2> QED
    BY <1>1, <1>2, <2>1, <2>2, <2>3, ExchangeGrows
<1>6. CASE SwapBaseOut(u, src, limit, amount)
  <2> DEFINE in == QuoteBaseOut(amount, Total, src, fees.swap)
  <2>1. amount < Total[Other(src)] /\ Exchange(u, src, in, amount) /\ in # 0
    BY <1>6 DEF SwapBaseOut, Exchange
  <2>2. in \in Nat
    BY <1>3, <1>4, <2>1, SwapQuoteType
  <2>3. Total[src] * Total[Other(src)] <= (Total[src] + in) * (Total[Other(src)] - amount)
    BY <1>3, <1>4, <2>1, SwapOutKeepsProduct
  <2> QED
    BY <1>1, <1>2, <2>1, <2>2, <2>3, ExchangeGrows
<1> QED
  BY <1>5, <1>6

(* A gift leaves the baseline alone and raises the reserves.               *)
LEMMA DonateGrows ==
  ASSUME LedgerInv, LedgerInv', Live,
         NEW u \in Users, NEW side \in Side, Donate(u, side)
  PROVE  Grows
<1>1. /\ vault' = Minus(Plus(vault, Only(side, 1)), Zero)
      /\ status' = status /\ needTakePnl' = needTakePnl /\ calcPnl' = calcPnl
      /\ lpAmount' = lpAmount
  BY DEF Donate, Transfer, params
<1>2. Live'
  BY <1>1 DEF Live
<1>3. /\ Total \in Amount /\ Total' \in Amount
      /\ \A s \in Side : Total[s] = vault[s] - needTakePnl[s]
      /\ \A s \in Side : Total'[s] = vault'[s] - needTakePnl'[s]
  BY <1>2, TotalFacts, NextTotal
<1>4. ASSUME NEW s \in Side
      PROVE  Total[s] <= Total'[s]
  <2>1. /\ vault'[s] = Plus(vault, Only(side, 1))[s] - Zero[s]
        /\ Plus(vault, Only(side, 1))[s] = vault[s] + Only(side, 1)[s]
    BY <1>1, OnEachSide
  <2>2. /\ vault[s] \in Nat /\ needTakePnl[s] \in Nat /\ Only(side, 1)[s] \in Nat /\ Zero[s] = 0
    BY OnlyFacts, ZeroFacts DEF LedgerInv, TypeOK, Amount
  <2> QED
    BY <1>1, <1>3, <2>1, <2>2
<1>5. Product(Total) <= Product(Total')
  BY <1>3, <1>4, ProductMonotonic DEF AtMost
<1> QED
  BY <1>1, <1>2, <1>5 DEF Grows

(* Such a step keeps the baseline covered.                                 *)
LEMMA GrowsCovers ==
  ASSUME Aligned, LedgerInv, LedgerInv', BaselineCovered, Grows
  PROVE  BaselineCovered'
<1>1. Total \in Amount /\ Total' \in Amount /\ calcPnl \in Amount /\ calcPnl' = calcPnl
  BY TotalFacts, NextTotal DEF Grows, LedgerInv, TypeOK
<1>2. Product(Total) <= Product(Total') /\ Product(calcPnl) <= Product(Normalize(Total, Unit, Sys))
  BY DEF Grows, BaselineCovered, Normalized
<1>3. Product(calcPnl) <= Product(Normalize(Total', Unit, Sys))
  BY <1>1, <1>2, GrowthCovered
<1> QED
  BY <1>1, <1>3, NextTotal DEF BaselineCovered, Product, Grows

(* The other steps change neither the reserves nor the baseline.           *)
LEMMA StillCovered ==
  ASSUME BaselineCovered, Live' => Live,
         vault' = vault, needTakePnl' = needTakePnl, calcPnl' = calcPnl
  PROVE  BaselineCovered'
BY DEF BaselineCovered, Normalized, Total

(* Every step leaves the baseline covered.                                 *)
LEMMA StepCovers == Aligned /\ LedgerInv /\ LedgerInv' /\ BaselineCovered /\ [Next]_vars => BaselineCovered'
<1> SUFFICES ASSUME Aligned, LedgerInv, LedgerInv', BaselineCovered, [Next]_vars
             PROVE  BaselineCovered'
  OBVIOUS
<1>1. CASE UNCHANGED vars
  BY <1>1, StillCovered DEF vars, Live
<1> SUFFICES ASSUME Next PROVE BaselineCovered'
  BY <1>1
<1>2. ASSUME NEW u \in Users, NEW coin \in Nat, NEW pc \in Nat, NEW open \in Nat,
             Initialize2(u, Amounts(coin, pc), open)
      PROVE  BaselineCovered'
  <2>1. Amounts(coin, pc) \in Amount
    BY DEF Amounts, Amount
  <2> QED
    BY <1>2, <2>1, Initialize2Covers
<1>3. ASSUME NEW u \in Users, NEW base \in Side, NEW max \in Amount, NEW otherMin \in Nat,
             Deposit(u, base, max, otherMin)
      PROVE  BaselineCovered'
  BY <1>3, DepositCovers
<1>4. ASSUME NEW u \in Users, NEW lp \in Nat, NEW min \in Amount, Withdraw(u, lp, min)
      PROVE  BaselineCovered'
  BY <1>4, WithdrawCovers
<1>5. ASSUME NEW u \in Users, NEW src \in Side, NEW amount \in Nat, NEW limit \in Nat,
             SwapBaseIn(u, src, amount, limit) \/ SwapBaseOut(u, src, limit, amount)
      PROVE  BaselineCovered'
  BY <1>5, SwapGrows, GrowsCovers
<1>6. CASE WithdrawPnl
  BY <1>6, WithdrawPnlCovers
<1>7. CASE \/ \E value \in LedgerStatus : SetStatus(value)
           \/ \E value \in FeeSet : SetFees(value)
           \/ \E value \in Nat : SetOpenTime(value)
           \/ Tick
  BY <1>7, StillCovered DEF SetStatus, SetFees, SetOpenTime, Tick, params, ledger, Live
<1>8. ASSUME NEW u \in Users, NEW s \in Side, Donate(u, s)
      PROVE  BaselineCovered'
  <2>1. CASE Live
    BY <1>8, <2>1, DonateGrows, GrowsCovers
  <2>2. CASE ~Live
    BY <1>8, <2>2 DEF Donate, params, Live, BaselineCovered
  <2> QED
    BY <2>1, <2>2
<1>9. ASSUME NEW u \in Users, BurnOwnLp(u)
      PROVE  BaselineCovered'
  BY <1>9, StillCovered DEF BurnOwnLp, params, Live
<1> QED
  BY <1>2, <1>3, <1>4, <1>5, <1>6, <1>7, <1>8, <1>9, NextCases, FeesAssumption

(* No instruction leaves a baseline that the reserves do not cover, and no *)
(* swap lets them sink below it.                                           *)
THEOREM BaselineStaysCovered == Aligned => (Spec => []BaselineCovered)
<1> SUFFICES ASSUME Aligned PROVE Spec => []BaselineCovered
  OBVIOUS
<1>1. Init => BaselineCovered
  BY DEF Init, BaselineCovered, Live
<1>2. LedgerInv /\ LedgerInv' /\ BaselineCovered /\ [Next]_vars => BaselineCovered'
  BY StepCovers
<1> QED
  BY <1>1, <1>2, Invariance, PTL DEF Spec

(* calc_take_pnl never fails: no deposit, withdrawal or pnl payment is     *)
(* refused with CalcPnlError, on a division by zero or because x2 exceeds  *)
(* x1, whatever the users, the donors and the administrator did before.    *)
THEOREM LiquidityNeverFreezes == Aligned => (Spec => []CalcTakePnlNeverFails)
<1> SUFFICES ASSUME Aligned PROVE Spec => []CalcTakePnlNeverFails
  OBVIOUS
<1>1. LedgerInv /\ BaselineCovered => CalcTakePnlNeverFails
  BY CoveredNeverFails DEF CalcTakePnlNeverFails
<1> QED
  BY <1>1, Invariance, BaselineStaysCovered, PTL
-----------------------------------------------------------------------------
(* What deposits and withdrawals have in common: the protocol takes its    *)
(* share, and then the shares change with the reserves.                    *)

(* The shares that the protocol may take of a profit are below one half.   *)
MinorShares == \A f \in FeeChoices \cup {DefaultFees} : 2 * f.pnl.num < f.pnl.den

FeesChosen == fees \in FeeChoices \cup {DefaultFees}

(* The protocol takes pnl of the reserves and delta of what they are       *)
(* compared with, and what is left covers the baseline.                    *)
FairlyTaken(taken) ==
  /\ taken.pnl \in Amount /\ taken.delta \in Amount
  /\ \A s \in Side : taken.pnl[s] < Total[s]
  /\ \A s \in Side : Scale[s] * taken.pnl[s] <= taken.delta[s]
  /\ \A s \in Side : taken.delta[s] <= Scale[s] * taken.pnl[s] + Dust[s]
  /\ AtMost(taken.delta, Normalized)
  /\ Product(calcPnl) <= Product(Minus(Normalized, taken.delta))

(* What the new baseline is worth to those who stay.                       *)
Kept == IF lpAmount' < lpAmount THEN Plus(calcPnl', Dust) ELSE calcPnl'

(* The reserves follow the shares, the baseline follows the reserves.      *)
Resized(taken) ==
  /\ \A s \in Side : needTakePnl'[s] = needTakePnl[s] + taken.pnl[s]
  /\ \A s \in Side : (Total[s] - taken.pnl[s]) * lpAmount' <= Total'[s] * lpAmount
  /\ \A s \in Side : Minus(Normalized, taken.delta)[s] * lpAmount' <= Kept[s] * lpAmount

LEMMA DustFacts ==
  ASSUME Aligned
  PROVE  Dust \in Amount /\ \A s \in Side : Dust[s] = 2 * Scale[s] - 2
<1>1. \A s \in Side : Dust[s] = 2 * Scale[s] - 2 /\ Scale[s] \in Positive
  BY ScaleFacts DEF Dust, Scale, ScaleOf
<1>2. \A s \in Side : Dust[s] \in Nat
  BY <1>1 DEF Positive
<1> QED
  BY <1>1, <1>2 DEF Dust, Amount

(* calc_take_pnl takes fairly, and so does a withdrawal without it.        *)
LEMMA TakesFairly ==
  ASSUME Aligned, MinorShares, LedgerInv, Live, BaselineCovered, FeesChosen,
         NEW taken \in CalcTakePnl \cup {[pnl |-> Zero, delta |-> Zero]}
  PROVE  FairlyTaken(taken)
<1>1. /\ Total \in Amount /\ Normalized \in Amount /\ calcPnl \in Amount
      /\ \A s \in Side : Total[s] # 0
      /\ Product(calcPnl) <= Product(Normalized)
  BY TotalFacts DEF LedgerInv, TypeOK, BaselineCovered
<1>2. CASE taken \in CalcTakePnl
  <2>1. PICK x2 \in 0 .. Normalized["pc"] :
          /\ \A s \in Side : Normalized[s] # 0
          /\ IsIntegerSqrt(x2, CalcXPower(calcPnl, Normalized))
          /\ taken.delta = TakeDelta(Normalized, x2, fees.pnl, Unit, Sys)
    BY <1>2 DEF CalcTakePnl, TakeOutcomes, Normalized
  <2>2. fees.pnl \in Fraction /\ 2 * fees.pnl.num < fees.pnl.den
    BY DEF LedgerInv, TypeOK, FeeSet, FeesChosen, MinorShares
  <2>3. Product(calcPnl) <= Product(Minus(Normalized, taken.delta))
    BY <1>1, <2>1, <2>2, AlignedUnits, TakeLeavesBaseline
  <2> QED
    BY <1>2, <2>3, TakenFacts, DeltaNearPnl DEF FairlyTaken
<1>3. CASE taken = [pnl |-> Zero, delta |-> Zero]
  <2>1. Zero \in Amount /\ \A s \in Side : Zero[s] = 0
    BY ZeroFacts
  <2>2. taken.pnl = Zero /\ taken.delta = Zero
    BY <1>3
  <2>3. \A s \in Side : /\ Zero[s] < Total[s] /\ Scale[s] * Zero[s] <= Zero[s]
                        /\ Zero[s] <= Scale[s] * Zero[s] + Dust[s]
                        /\ Zero[s] <= Normalized[s]
    <3> SUFFICES ASSUME NEW s \in Side
                 PROVE  /\ 0 < Total[s] /\ Scale[s] * 0 <= 0 /\ 0 <= Scale[s] * 0 + Dust[s]
                        /\ 0 <= Normalized[s]
      BY <2>1
    <3>1. Scale[s] \in Nat /\ Dust[s] \in Nat /\ Total[s] \in Nat /\ Normalized[s] \in Nat /\ Total[s] # 0
      BY <1>1, ScaleFacts, DustFacts DEF Amount, Positive
    <3> QED
      BY <3>1
  <2>4. Product(Minus(Normalized, Zero)) = Product(Normalized)
    <3>1. Normalized["pc"] \in Nat /\ Normalized["coin"] \in Nat
      BY <1>1 DEF Amount, Side
    <3> QED
      BY <3>1, <2>1 DEF Product, Minus, Side
  <2> QED
    BY <1>1, <2>1, <2>2, <2>3, <2>4 DEF FairlyTaken, AtMost
<1> QED
  BY <1>2, <1>3
(* What is minted leaves every share of the baseline what it was worth.    *)
LEMMA JoinKeepsShare ==
  ASSUME NEW m \in Nat, NEW k \in Nat, NEW t \in Nat, NEW in \in Nat, NEW mint \in Nat, NEW lp \in Nat,
         m <= k * t, t * mint <= in * lp
  PROVE  m * (lp + mint) <= (m + k * in) * lp
<1>1. m * mint <= (k * t) * mint
  OBVIOUS
<1>2. k * (t * mint) <= k * (in * lp)
  <2> DEFINE v == t * mint
             w == in * lp
  <2>1. v \in Nat /\ w \in Nat /\ v <= w
    OBVIOUS
  <2> HIDE DEF v, w
  <2>2. k * v <= k * w
    BY <2>1
  <2> QED
    BY <2>2 DEF v, w
<1>3. (k * t) * mint = k * (t * mint) /\ k * (in * lp) = (k * in) * lp
  OBVIOUS
<1>4. m * (lp + mint) = m * lp + m * mint /\ (m + k * in) * lp = m * lp + (k * in) * lp
  OBVIOUS
<1>5. m * lp \in Nat /\ m * mint \in Nat /\ (k * t) * mint \in Nat /\ (k * in) * lp \in Nat
  OBVIOUS
<1> QED
  BY <1>1, <1>2, <1>3, <1>4, <1>5

(* So does what is burned, for those who stay.                             *)
LEMMA LeaveKeepsShare ==
  ASSUME NEW m \in Nat, NEW k \in Nat, NEW t \in Nat, NEW left \in Nat, NEW kept \in Nat,
         NEW lp \in Nat, NEW stay \in Nat,
         m <= k * t, t * stay <= left * lp, k * left <= kept
  PROVE  m * stay <= kept * lp
<1>1. m * stay <= (k * t) * stay
  OBVIOUS
<1>2. k * (t * stay) <= k * (left * lp)
  <2> DEFINE v == t * stay
             w == left * lp
  <2>1. v \in Nat /\ w \in Nat /\ v <= w
    OBVIOUS
  <2> HIDE DEF v, w
  <2>2. k * v <= k * w
    BY <2>1
  <2> QED
    BY <2>2 DEF v, w
<1>3. (k * left) * lp <= kept * lp
  <2> DEFINE v == k * left
  <2>1. v \in Nat /\ v <= kept
    OBVIOUS
  <2> HIDE DEF v
  <2>2. v * lp <= kept * lp
    BY <2>1
  <2> QED
    BY <2>2 DEF v
<1>4. (k * t) * stay = k * (t * stay) /\ k * (left * lp) = (k * left) * lp
  OBVIOUS
<1>5. m * stay \in Nat /\ (k * t) * stay \in Nat /\ (k * left) * lp \in Nat /\ kept * lp \in Nat
  OBVIOUS
<1> QED
  BY <1>1, <1>2, <1>3, <1>4, <1>5

(* process_deposit.                                                        *)
LEMMA DepositResizes ==
  ASSUME Aligned, MinorShares, LedgerInv, LedgerInv', BaselineCovered, FeesChosen,
         NEW u \in Users, NEW base \in Side, NEW max \in Amount, NEW otherMin \in Nat,
         Deposit(u, base, max, otherMin)
  PROVE  lpAmount' > lpAmount /\ \E taken : FairlyTaken(taken) /\ Resized(taken)
<1>1. PICK taken \in CalcTakePnl, in \in Amount, mint \in Positive : Deposited(taken, in, mint)
  BY DepositUnpacked
<1>2. Live /\ Live' /\ FairlyTaken(taken)
  BY DepositUnpacked, TakesFairly
<1>3. lpAmount \in Nat /\ mint \in Nat /\ lpAmount' = lpAmount + mint /\ lpAmount' > lpAmount
  BY <1>1 DEF Deposited, LedgerInv, TypeOK, Positive
<1>4. ASSUME NEW s \in Side
      PROVE  /\ needTakePnl'[s] = needTakePnl[s] + taken.pnl[s]
             /\ (Total[s] - taken.pnl[s]) * lpAmount' <= Total'[s] * lpAmount
             /\ Minus(Normalized, taken.delta)[s] * lpAmount' <= Kept[s] * lpAmount
  <2> DEFINE left == Total[s] - taken.pnl[s]
             m    == Minus(Normalized, taken.delta)[s]
  <2>1. /\ Total[s] \in Nat /\ taken.pnl[s] \in Nat /\ taken.delta[s] \in Nat /\ in[s] \in Nat
        /\ Scale[s] \in Nat /\ Normalized[s] \in Nat /\ Zero[s] = 0
    BY <1>2, TotalFacts, ScaleFacts, ZeroFacts DEF FairlyTaken, Amount, Positive
  <2>2. /\ taken.pnl[s] < Total[s] /\ Scale[s] * taken.pnl[s] <= taken.delta[s]
        /\ taken.delta[s] <= Normalized[s]
    BY <1>2 DEF FairlyTaken, AtMost
  <2>3. Normalized[s] = Scale[s] * Total[s]
    BY <1>2, TotalFacts, ScaledAmounts DEF Normalized
  <2>4. m = Normalized[s] - taken.delta[s]
    BY OnEachSide
  <2>5. left \in Nat /\ m \in Nat /\ m <= Scale[s] * left
    BY <2>1, <2>2, <2>3, <2>4
  <2>6. left * mint <= in[s] * lpAmount
    BY <1>1 DEF Deposited
  <2>7. Total'[s] = left + in[s]
    BY <1>1, <2>1 DEF Deposited, Moved
  <2>8. calcPnl'[s] = m + Scale[s] * in[s]
    <3>1. /\ Normalize(Total, Unit, Sys)[s] = Normalized[s]
          /\ Normalize(in, Unit, Sys)[s] = Scale[s] * in[s] /\ Normalize(Zero, Unit, Sys)[s] = 0
      BY ScaledAmounts, ZeroNormalized DEF Normalized
    <3>2. calcPnl'[s] = Normalized[s] + Scale[s] * in[s] - 0 - taken.delta[s]
      BY <1>1, <3>1 DEF Deposited, Refreshed
    <3>3. Scale[s] * in[s] \in Nat
      BY <2>1
    <3> QED
      BY <2>1, <2>4, <3>2, <3>3
  <2>9. Kept[s] = calcPnl'[s]
    BY <1>3 DEF Kept
  <2> HIDE DEF left, m
  <2>10. left * (lpAmount + mint) <= (left + in[s]) * lpAmount
    <3>1. left * (lpAmount + mint) <= (left + 1 * in[s]) * lpAmount
      <4>1. left <= 1 * left
        BY <2>5
      <4> QED
        BY <1>3, <2>1, <2>5, <2>6, <4>1, JoinKeepsShare
    <3> QED
      BY <2>1, <3>1
  <2>11. m * (lpAmount + mint) <= (m + Scale[s] * in[s]) * lpAmount
    BY <1>3, <2>1, <2>5, <2>6, JoinKeepsShare
  <2>12. needTakePnl'[s] = needTakePnl[s] + taken.pnl[s]
    BY <1>1, OnEachSide DEF Deposited
  <2> QED
    BY <1>3, <2>7, <2>8, <2>9, <2>10, <2>11, <2>12 DEF left, m
<1> QED
  BY <1>2, <1>3, <1>4 DEF Resized

(* process_withdraw.                                                       *)
LEMMA WithdrawResizes ==
  ASSUME Aligned, MinorShares, LedgerInv, LedgerInv', BaselineCovered, FeesChosen,
         NEW u \in Users, NEW lp \in Nat, NEW min \in Amount, Withdraw(u, lp, min)
  PROVE  lpAmount' < lpAmount /\ \E taken : FairlyTaken(taken) /\ Resized(taken)
<1>1. PICK taken \in CalcTakePnl \cup {[pnl |-> Zero, delta |-> Zero]}, out \in Amount : Withdrawn(taken, out, lp)
  BY WithdrawUnpacked
<1>2. Live /\ Live' /\ FairlyTaken(taken)
  BY WithdrawUnpacked, TakesFairly
<1>3. lpAmount \in Nat /\ lpAmount' \in Nat /\ lpAmount' = lpAmount - lp /\ lpAmount' < lpAmount
  BY <1>1, WithdrawUnpacked DEF Withdrawn, LedgerInv, TypeOK, Positive
<1>4. ASSUME NEW s \in Side
      PROVE  /\ needTakePnl'[s] = needTakePnl[s] + taken.pnl[s]
             /\ (Total[s] - taken.pnl[s]) * lpAmount' <= Total'[s] * lpAmount
             /\ Minus(Normalized, taken.delta)[s] * lpAmount' <= Kept[s] * lpAmount
  <2> DEFINE left == Total[s] - taken.pnl[s]
             m    == Minus(Normalized, taken.delta)[s]
  <2>1. /\ Total[s] \in Nat /\ taken.pnl[s] \in Nat /\ taken.delta[s] \in Nat /\ out[s] \in Nat
        /\ Scale[s] \in Nat /\ Normalized[s] \in Nat /\ Zero[s] = 0 /\ Dust[s] \in Nat
        /\ Total'[s] \in Nat /\ calcPnl'[s] \in Nat
    BY <1>2, TotalFacts, NextTotal, ScaleFacts, ZeroFacts, DustFacts
    DEF FairlyTaken, Amount, Positive, LedgerInv, TypeOK
  <2>2. /\ taken.pnl[s] < Total[s] /\ Scale[s] * taken.pnl[s] <= taken.delta[s]
        /\ taken.delta[s] <= Normalized[s] /\ taken.delta[s] <= Scale[s] * taken.pnl[s] + Dust[s]
    BY <1>2 DEF FairlyTaken, AtMost
  <2>3. Normalized[s] = Scale[s] * Total[s]
    BY <1>2, TotalFacts, ScaledAmounts DEF Normalized
  <2>4. m = Normalized[s] - taken.delta[s]
    BY OnEachSide
  <2>5. left \in Nat /\ m \in Nat /\ m <= Scale[s] * left
    BY <2>1, <2>2, <2>3, <2>4
  <2>6. left * lpAmount' <= (left - out[s]) * lpAmount
    BY <1>1, <1>3 DEF Withdrawn
  <2>7. Total'[s] = left - out[s]
    BY <1>1, <2>1 DEF Withdrawn, Moved
  <2>8. Kept[s] = calcPnl'[s] + Dust[s]
    BY <1>3, OnEachSide DEF Kept
  <2>9. Scale[s] * Total'[s] <= Kept[s]
    <3>1. /\ Normalize(Total, Unit, Sys)[s] = Scale[s] * Total[s]
          /\ Normalize(out, Unit, Sys)[s] = Scale[s] * out[s] /\ Normalize(Zero, Unit, Sys)[s] = 0
      BY <1>2, TotalFacts, ScaledAmounts, ZeroNormalized
    <3>2. calcPnl'[s] = Scale[s] * Total[s] + 0 - Scale[s] * out[s] - taken.delta[s]
      BY <1>1, <3>1 DEF Withdrawn, Refreshed
    <3>3. Scale[s] * Total'[s] = Scale[s] * Total[s] - Scale[s] * taken.pnl[s] - Scale[s] * out[s]
      BY <2>1, <2>7
    <3>4. /\ Scale[s] * Total[s] \in Nat /\ Scale[s] * taken.pnl[s] \in Nat
          /\ Scale[s] * out[s] \in Nat
      BY <2>1
    <3> QED
      BY <2>1, <2>2, <2>8, <3>2, <3>3, <3>4
  <2>10. needTakePnl'[s] = needTakePnl[s] + taken.pnl[s]
    BY <1>1, OnEachSide DEF Withdrawn
  <2>11. Kept[s] \in Nat
    BY <2>1, <2>8
  <2> HIDE DEF left, m
  <2>12. left * lpAmount' <= Total'[s] * lpAmount
    BY <2>6, <2>7
  <2>13. m * lpAmount' <= Kept[s] * lpAmount
    BY <1>3, <2>1, <2>5, <2>9, <2>11, <2>12, LeaveKeepsShare
  <2> QED
    BY <2>10, <2>12, <2>13 DEF left, m
<1> QED
  BY <1>2, <1>3, <1>4 DEF Resized
-----------------------------------------------------------------------------
(* The fees are always those that somebody chose. *)
LEMMA FeesStayChosen == Spec => []FeesChosen
<1>1. Init => FeesChosen
  BY DEF Init, FeesChosen
<1>2. FeesChosen /\ [Next]_vars => FeesChosen'
  <2> SUFFICES ASSUME FeesChosen, [Next]_vars PROVE FeesChosen'
    OBVIOUS
  <2>1. CASE UNCHANGED vars
    BY <2>1 DEF vars, FeesChosen
  <2>2. CASE Next
    <3>1. ASSUME NEW u \in Users, NEW amount, NEW open, Initialize2(u, amount, open)
          PROVE  FeesChosen'
      BY <3>1 DEF Initialize2, FeesChosen
    <3>2. ASSUME NEW u \in Users, NEW base, NEW max, NEW min, Deposit(u, base, max, min)
          PROVE  FeesChosen'
      BY <3>2 DEF Deposit, params, FeesChosen
    <3>3. ASSUME NEW u \in Users, NEW lp, NEW min, Withdraw(u, lp, min)
          PROVE  FeesChosen'
      BY <3>3 DEF Withdraw, params, FeesChosen
    <3>4. ASSUME NEW u \in Users, NEW src, NEW a, NEW b, SwapBaseIn(u, src, a, b) \/ SwapBaseOut(u, src, a, b)
          PROVE  FeesChosen'
      BY <3>4 DEF SwapBaseIn, SwapBaseOut, Exchange, FeesChosen
    <3>5. CASE WithdrawPnl \/ (\E u \in Users, s \in Side : Donate(u, s)) \/ \E u \in Users : BurnOwnLp(u)
      BY <3>5 DEF WithdrawPnl, Donate, BurnOwnLp, params, FeesChosen
    <3>6. CASE \/ \E value \in LedgerStatus : SetStatus(value)
               \/ \E value \in FeeChoices : SetFees(value)
               \/ \E value \in Nat : SetOpenTime(value)
               \/ Tick
      BY <3>6 DEF SetStatus, SetFees, SetOpenTime, Tick, params, FeesChosen
    <3> QED
      BY <2>2, <3>1, <3>2, <3>3, <3>4, <3>5, <3>6, NextCases
  <2> QED
    BY <2>1, <2>2
<1> QED
  BY <1>1, <1>2, PTL DEF Spec

(* A step that leaves the baseline and the shares alone.                   *)
Restful == calcPnl' = calcPnl /\ lpAmount' = lpAmount

LEMMA SwapRests ==
  ASSUME NEW u, NEW src, NEW a, NEW b, SwapBaseIn(u, src, a, b) \/ SwapBaseOut(u, src, b, a)
  PROVE  Restful
BY DEF SwapBaseIn, SwapBaseOut, Exchange, Restful

LEMMA OthersRest ==
  ASSUME \/ \E value : SetStatus(value) \/ SetFees(value) \/ SetOpenTime(value)
         \/ Tick
         \/ \E u, s : Donate(u, s)
         \/ \E u : BurnOwnLp(u)
         \/ UNCHANGED vars
  PROVE  Restful
BY DEF SetStatus, SetFees, SetOpenTime, Tick, Donate, BurnOwnLp, vars, ledger, Restful

(* What the baseline is worth per share.                                   *)
WorthKept == Product(calcPnl) * lpAmount' * lpAmount' <= Product(Kept) * lpAmount * lpAmount

LEMMA KeptType == ASSUME Aligned, LedgerInv' PROVE Kept \in Amount
<1>1. calcPnl' \in Amount
  BY DEF LedgerInv, TypeOK
<1> QED
  BY <1>1, DustFacts, ArithmeticType DEF Kept

LEMMA ResizeKeepsWorth ==
  ASSUME Aligned, LedgerInv, LedgerInv', Live, NEW taken, FairlyTaken(taken), Resized(taken)
  PROVE  WorthKept
<1> DEFINE t == Minus(Normalized, taken.delta)
           new == lpAmount'
<1>1. t \in Amount /\ Kept \in Amount /\ calcPnl \in Amount /\ lpAmount \in Nat /\ new \in Nat
  BY TotalFacts, KeptType, ArithmeticType DEF FairlyTaken, LedgerInv, TypeOK
<1>2. Product(calcPnl) <= Product(t) /\ \A s \in Side : t[s] * new <= Kept[s] * lpAmount
  BY DEF FairlyTaken, Resized
<1> HIDE DEF t, new
<1>3. Product(t) * new * new <= Product(Kept) * lpAmount * lpAmount
  BY <1>1, <1>2, ShareForShare
<1> DEFINE v == Product(calcPnl)
           w == Product(t)
           z == Product(Kept)
<1>4. v \in Nat /\ w \in Nat /\ z \in Nat /\ v <= w
  BY <1>1, <1>2, ArithmeticType
<1> HIDE DEF v, w, z
<1>5. v * new <= w * new /\ v * new \in Nat /\ w * new \in Nat
  BY <1>1, <1>4
<1>6. v * new * new <= w * new * new
  <2> DEFINE a == v * new
             b == w * new
  <2>1. a \in Nat /\ b \in Nat /\ a <= b
    BY <1>5
  <2> HIDE DEF a, b
  <2>2. a * new <= b * new
    BY <1>1, <2>1
  <2> QED
    BY <2>2 DEF a, b
<1>7. /\ v * new * new \in Nat /\ w * new * new \in Nat /\ z * lpAmount * lpAmount \in Nat
      /\ w * new * new <= z * lpAmount * lpAmount
  BY <1>1, <1>3, <1>4 DEF w, z
<1> QED
  BY <1>6, <1>7 DEF WorthKept, v, w, z, new

(* process_withdrawpnl takes from growth.                                  *)
LEMMA WithdrawPnlKeepsWorth ==
  ASSUME Aligned, MinorShares, LedgerInv, LedgerInv', BaselineCovered, FeesChosen, WithdrawPnl
  PROVE  lpAmount' = lpAmount /\ Product(calcPnl) <= Product(calcPnl')
<1>1. Live
  BY DEF WithdrawPnl
<1>2. PICK taken \in CalcTakePnl : calcPnl' = Minus(Normalized, taken.delta)
  BY DEF WithdrawPnl
<1>3. FairlyTaken(taken)
  BY <1>1, TakesFairly
<1> QED
  BY <1>2, <1>3 DEF FairlyTaken, WithdrawPnl

LEMMA RestKeepsWorth ==
  ASSUME LedgerInv, LedgerInv', lpAmount' = lpAmount, Product(calcPnl) <= Product(calcPnl')
  PROVE  WorthKept
<1> DEFINE v == Product(calcPnl)
           w == Product(calcPnl')
<1>1. v \in Nat /\ w \in Nat /\ v <= w /\ lpAmount \in Nat
  BY ArithmeticType DEF LedgerInv, TypeOK
<1>2. Kept = calcPnl'
  BY <1>1 DEF Kept
<1> HIDE DEF v, w
<1>3. v * lpAmount <= w * lpAmount /\ v * lpAmount \in Nat /\ w * lpAmount \in Nat
  BY <1>1
<1>4. (v * lpAmount) * lpAmount <= (w * lpAmount) * lpAmount
  <2> DEFINE a == v * lpAmount
             b == w * lpAmount
  <2>1. a \in Nat /\ b \in Nat /\ a <= b
    BY <1>3
  <2> HIDE DEF a, b
  <2>2. a * lpAmount <= b * lpAmount
    BY <1>1, <2>1
  <2> QED
    BY <2>2 DEF a, b
<1> QED
  BY <1>2, <1>4 DEF WorthKept, v, w

(* Every step of a live pool keeps the worth of a share.                   *)
LEMMA StepKeepsWorth ==
  Aligned /\ MinorShares /\ LedgerInv /\ LedgerInv' /\ BaselineCovered /\ FeesChosen /\ Live /\ [Next]_vars
    => WorthKept
<1> SUFFICES ASSUME Aligned, MinorShares, LedgerInv, LedgerInv', BaselineCovered, FeesChosen, Live, [Next]_vars
             PROVE  WorthKept
  OBVIOUS
<1>1. ASSUME Restful PROVE WorthKept
  <2>1. Product(calcPnl) \in Nat
    BY ArithmeticType DEF LedgerInv, TypeOK
  <2> QED
    BY <1>1, <2>1, RestKeepsWorth DEF Restful
<1>2. CASE UNCHANGED vars
  BY <1>1, <1>2, OthersRest
<1>3. CASE Next
  <2>1. ASSUME NEW u \in Users, NEW amount, NEW open, Initialize2(u, amount, open)
        PROVE  WorthKept
    BY <2>1 DEF Initialize2
  <2>2. ASSUME NEW u \in Users, NEW base \in Side, NEW max \in Amount, NEW otherMin \in Nat,
               Deposit(u, base, max, otherMin)
        PROVE  WorthKept
    BY <2>2, DepositResizes, ResizeKeepsWorth
  <2>3. ASSUME NEW u \in Users, NEW lp \in Nat, NEW min \in Amount, Withdraw(u, lp, min)
        PROVE  WorthKept
    BY <2>3, WithdrawResizes, ResizeKeepsWorth
  <2>4. ASSUME NEW u \in Users, NEW src \in Side, NEW a \in Nat, NEW b \in Nat,
               SwapBaseIn(u, src, a, b) \/ SwapBaseOut(u, src, b, a)
        PROVE  WorthKept
    BY <1>1, <2>4, SwapRests
  <2>5. CASE WithdrawPnl
    BY <2>5, WithdrawPnlKeepsWorth, RestKeepsWorth
  <2>6. CASE \/ \E value \in LedgerStatus : SetStatus(value)
             \/ \E value \in FeeChoices : SetFees(value)
             \/ \E value \in Nat : SetOpenTime(value)
             \/ \E u \in Users, s \in Side : Donate(u, s)
             \/ \E u \in Users : BurnOwnLp(u)
             \/ Tick
    BY <1>1, <2>6, OthersRest
  <2> QED
    BY <1>3, <2>1, <2>2, <2>3, <2>4, <2>5, <2>6, NextCases
<1> QED
  BY <1>2, <1>3

(* No deposit dilutes the baseline behind a share and no profit is taken   *)
(* out of it; a withdrawal takes at most dust beyond its part.  The shares *)
(* of a profit that the administrator sets have to be below one half.      *)
THEOREM SharesAreNeverDiluted == Aligned /\ MinorShares => (Spec => BaselinePerShareNeverFalls)
<1> SUFFICES ASSUME Aligned, MinorShares PROVE Spec => BaselinePerShareNeverFalls
  OBVIOUS
<1> DEFINE Worth ==
      Live => LET kept == IF lpAmount' < lpAmount THEN Plus(calcPnl', Dust) ELSE calcPnl' IN
                Product(kept) * lpAmount * lpAmount >= Product(calcPnl) * lpAmount' * lpAmount'
<1>1. LedgerInv /\ LedgerInv' /\ BaselineCovered /\ FeesChosen /\ [Next]_vars => Worth
  <2> SUFFICES ASSUME LedgerInv, LedgerInv', BaselineCovered, FeesChosen, [Next]_vars, Live
               PROVE  Product(Kept) * lpAmount * lpAmount >= Product(calcPnl) * lpAmount' * lpAmount'
    BY DEF Kept
  <2>1. WorthKept
    BY StepKeepsWorth
  <2> DEFINE l == Product(calcPnl) * lpAmount' * lpAmount'
             r == Product(Kept) * lpAmount * lpAmount
  <2>2. l \in Nat /\ r \in Nat
    <3>1. /\ Product(calcPnl) \in Nat /\ Product(Kept) \in Nat
          /\ lpAmount \in Nat /\ lpAmount' \in Nat
      BY KeptType, ArithmeticType DEF LedgerInv, TypeOK
    <3> QED
      BY <3>1
  <2>3. l <= r
    BY <2>1 DEF WorthKept
  <2> HIDE DEF l, r
  <2>4. r >= l
    BY <2>2, <2>3
  <2> QED
    BY <2>4 DEF l, r
<1>2. BaselinePerShareNeverFalls <=> [][Worth]_vars
  BY DEF BaselinePerShareNeverFalls
<1> HIDE DEF Worth
<1> QED
  BY <1>1, <1>2, Invariance, BaselineStaysCovered, FeesStayChosen, PTL DEF Spec
-----------------------------------------------------------------------------
(* The holders' lp tokens are the lp mint's supply, and nothing is issued  *)
(* or owed before process_initialize2.                                     *)
AllHeld == SumFunction(lpOf) = lpSupply

Unborn == ~Live => lpSupply = 0 /\ lpAmount = 0 /\ needTakePnl = Zero

(* One holder's change is the change of the supply.                        *)
LEMMA HolderChanges ==
  ASSUME LedgerInv, LedgerInv', AllHeld, NEW u \in Users, NEW n \in Int,
         lpSupply' = lpSupply + n, lpOf' = [lpOf EXCEPT ![u] = lpOf[u] + n]
  PROVE  AllHeld'
<1>1. lpOf \in [Users -> Int] /\ lpOf' \in [Users -> Int] /\ lpSupply \in Int
  BY DEF LedgerInv, TypeOK
<1>2. lpOf'[u] = lpOf[u] + n /\ \A x \in Users : x # u => lpOf'[x] = lpOf[x]
  BY <1>1
<1>3. lpOf[u] \in Int /\ lpOf'[u] - lpOf[u] = n
  BY <1>1, <1>2
<1>4. SumFunction(lpOf') = SumFunction(lpOf) + (lpOf'[u] - lpOf[u])
  <2> DEFINE f == lpOf
             g == lpOf'
  <2>1. IsFiniteSet(Users) /\ f \in [Users -> Int] /\ g \in [Users -> Int]
        /\ \A x \in Users : x # u => g[x] = f[x]
    BY <1>1, <1>2, UsersAssumption
  <2> HIDE DEF f, g
  <2>2. SumFunction(g) = SumFunction(f) + (g[u] - f[u])
    BY <2>1, SumChanges
  <2> QED
    BY <2>2 DEF f, g
<1>5. SumFunction(lpOf)' = SumFunction(lpOf')
  BY DEF SumFunction, SumFunctionOnSet, FoldFunctionOnSet, MapThenFoldSet
<1> QED
  BY <1>1, <1>3, <1>4, <1>5 DEF AllHeld

LEMMA HolderStill ==
  ASSUME AllHeld, lpOf' = lpOf, lpSupply' = lpSupply
  PROVE  AllHeld'
BY DEF AllHeld

(* Every step keeps both.                                                  *)
LEMMA HoldersKept == LedgerInv /\ LedgerInv' /\ AllHeld /\ Unborn /\ [Next]_vars => AllHeld' /\ Unborn'
<1> SUFFICES ASSUME LedgerInv, LedgerInv', AllHeld, Unborn, [Next]_vars
             PROVE  AllHeld' /\ Unborn'
  OBVIOUS
<1>1. CASE UNCHANGED vars
  <2>1. AllHeld'
    BY <1>1, HolderStill DEF vars
  <2> QED
    BY <1>1, <2>1 DEF vars, Unborn, Live
<1>2. CASE Next
  <2>1. ASSUME NEW u \in Users, NEW coin \in Nat, NEW pc \in Nat, NEW open \in Nat,
               Initialize2(u, Amounts(coin, pc), open)
        PROVE  AllHeld' /\ Unborn'
    <3>1. PICK liquidity \in Unit["coin"] .. Plus(vault, Amounts(coin, pc))["coin"] + Plus(vault, Amounts(coin, pc))["pc"] :
            /\ lpSupply' = liquidity - Unit["coin"]
            /\ lpOf' = [lpOf EXCEPT ![u] = @ + (liquidity - Unit["coin"])]
      BY <2>1 DEF Initialize2
    <3> DEFINE n == liquidity - Unit["coin"]
    <3>2. n \in Int /\ lpSupply = 0 /\ lpSupply' = 0 + n
      BY <2>1, <3>1, ConstantFacts DEF Initialize2, Unborn, Positive
    <3>3. lpOf' = [lpOf EXCEPT ![u] = lpOf[u] + n]
      BY <3>1
    <3> HIDE DEF n
    <3>4. AllHeld'
      BY <3>2, <3>3, HolderChanges
    <3>5. Live'
      BY <2>1 DEF Initialize2, Live
    <3> QED
      BY <3>4, <3>5 DEF Unborn
  <2>2. ASSUME NEW u \in Users, NEW base \in Side, NEW max \in Amount, NEW otherMin \in Nat,
               Deposit(u, base, max, otherMin)
        PROVE  AllHeld' /\ Unborn'
    <3>1. PICK taken \in CalcTakePnl :
            /\ Minus(Total, taken.pnl)[base] # 0
            /\ MintLp(u, DepositMint(base, max[base], Minus(Total, taken.pnl), lpAmount))
      BY <2>2 DEF Deposit
    <3> DEFINE total == Minus(Total, taken.pnl)
               n     == DepositMint(base, max[base], total, lpAmount)
    <3>2. Live /\ Live'
      BY <2>2, StatusFacts DEF Deposit, params, Live
    <3>3. total \in Amount
      <4>1. Total \in Amount /\ taken.pnl \in Amount /\ \A s \in Side : taken.pnl[s] < Total[s]
        BY <3>2, TotalFacts, TakenFacts
      <4>2. AtMost(taken.pnl, Total)
        BY <4>1 DEF AtMost, Amount, Side
      <4> QED
        BY <4>1, <4>2, ArithmeticType
    <3>4. n \in Nat
      <4>1. total[base] # 0
        BY <3>1
      <4>2. max[base] \in Nat /\ lpAmount \in Nat
        BY DEF Amount, LedgerInv, TypeOK
      <4> HIDE DEF total
      <4> QED
        BY <3>3, <4>1, <4>2, DepositType
    <3>5. n \in Int /\ lpSupply' = lpSupply + n /\ lpOf' = [lpOf EXCEPT ![u] = lpOf[u] + n]
      BY <3>1, <3>4 DEF MintLp
    <3> HIDE DEF total, n
    <3>6. AllHeld'
      BY <3>5, HolderChanges
    <3> QED
      BY <3>2, <3>6 DEF Unborn
  <2>3. ASSUME NEW u \in Users, NEW lp \in Nat, NEW min \in Amount, Withdraw(u, lp, min)
        PROVE  AllHeld' /\ Unborn'
    <3>1. Live' /\ lpSupply' = lpSupply + (0 - lp) /\ lpOf' = [lpOf EXCEPT ![u] = lpOf[u] + (0 - lp)]
      <4>1. lpSupply' = lpSupply - lp /\ lpOf' = [lpOf EXCEPT ![u] = lpOf[u] - lp]
        BY <2>3 DEF Withdraw, BurnLp
      <4>2. lpSupply \in Nat /\ lpOf[u] \in Nat
        BY DEF LedgerInv, TypeOK
      <4>3. lpSupply - lp = lpSupply + (0 - lp) /\ lpOf[u] - lp = lpOf[u] + (0 - lp)
        BY <4>2
      <4>4. Live'
        BY <2>3, StatusFacts DEF Withdraw, params, Live
      <4> QED
        BY <4>1, <4>3, <4>4
    <3>2. 0 - lp \in Int
      OBVIOUS
    <3> QED
      BY <3>1, <3>2, HolderChanges DEF Unborn
  <2>4. ASSUME NEW u \in Users, NEW src \in Side, NEW a \in Nat, NEW b \in Nat,
               SwapBaseIn(u, src, a, b) \/ SwapBaseOut(u, src, b, a)
        PROVE  AllHeld' /\ Unborn'
    <3>1. lpOf' = lpOf /\ lpSupply' = lpSupply
      BY <2>4 DEF SwapBaseIn, SwapBaseOut, Exchange
    <3>2. Live'
      BY <2>4, OpenForSwapFacts, StatusFacts DEF SwapBaseIn, SwapBaseOut, Live, LedgerStatus
    <3> QED
      BY <3>1, <3>2, HolderStill DEF Unborn
  <2>5. CASE WithdrawPnl
    <3>1. Live' /\ lpOf' = lpOf /\ lpSupply' = lpSupply
      BY <2>5 DEF WithdrawPnl, params, Live
    <3> QED
      BY <3>1, HolderStill DEF Unborn
  <2>6. CASE \/ \E value \in LedgerStatus : SetStatus(value)
             \/ \E value \in FeeChoices : SetFees(value)
             \/ \E value \in Nat : SetOpenTime(value)
             \/ \E u \in Users, s \in Side : Donate(u, s)
             \/ Tick
    <3>1. lpOf' = lpOf /\ lpSupply' = lpSupply /\ lpAmount' = lpAmount /\ needTakePnl' = needTakePnl
          /\ (Live => Live')
      BY <2>6, StatusFacts DEF SetStatus, SetFees, SetOpenTime, Donate, Tick, params, ledger, Live, LedgerStatus
    <3> QED
      BY <3>1, HolderStill DEF Unborn
  <2>7. ASSUME NEW u \in Users, BurnOwnLp(u)
        PROVE  AllHeld' /\ Unborn'
    <3>1. /\ lpSupply # 0 /\ status' = status
          /\ lpSupply' = lpSupply + (0 - 1) /\ lpOf' = [lpOf EXCEPT ![u] = lpOf[u] + (0 - 1)]
      <4>1. lpSupply' = lpSupply - 1 /\ lpOf' = [lpOf EXCEPT ![u] = lpOf[u] - 1]
        BY <2>7 DEF BurnOwnLp
      <4>2. lpSupply \in Nat /\ lpOf[u] \in Nat
        BY DEF LedgerInv, TypeOK
      <4>3. lpSupply - 1 = lpSupply + (0 - 1) /\ lpOf[u] - 1 = lpOf[u] + (0 - 1)
        BY <4>2
      <4> QED
        BY <2>7, <4>1, <4>3 DEF BurnOwnLp, params
    <3>2. 0 - 1 \in Int
      OBVIOUS
    <3> QED
      BY <3>1, <3>2, HolderChanges DEF Unborn, Live
  <2> QED
    BY <1>2, <2>1, <2>2, <2>3, <2>4, <2>5, <2>6, <2>7, NextCases
<1> QED
  BY <1>1, <1>2

LEMMA HoldersHoldAll == Spec => [](AllHeld /\ Unborn)
<1>1. Init => AllHeld /\ Unborn
  BY UsersAssumption, SumOfNothing DEF Init, AllHeld, Unborn, Live
<1> QED
  BY <1>1, HoldersKept, Invariance, PTL DEF Spec

(* What a redemption leaves is no further below the baseline's arithmetic  *)
(* than dust.                                                              *)
LEMMA ExitLeaves ==
  ASSUME Aligned, LedgerInv, Live, NEW taken \in CalcTakePnl, NEW lp \in Nat, lp < lpAmount, NEW s \in Side
  PROVE  LET total == Minus(Total, taken.pnl)
             out   == WithdrawOut(lp, total, lpAmount)
             left  == Normalize(Minus(total, out), Unit, Sys)
         IN /\ out[s] < vault[s]
            /\ left[s] >= Dust[s] =>
                 Normalized[s] - NormalizeDecimal(out[s], Unit[s], Sys) - taken.delta[s] >= 0
<1> DEFINE total == Minus(Total, taken.pnl)
           out   == WithdrawOut(lp, total, lpAmount)
           rest  == Minus(total, out)
<1>1. /\ taken.pnl \in Amount /\ taken.delta \in Amount /\ Total \in Amount
      /\ \A r \in Side : taken.pnl[r] < Total[r] /\ Total[r] = vault[r] - needTakePnl[r]
  BY TotalFacts, TakenFacts
<1>2. total \in Amount /\ \A r \in Side : total[r] # 0 /\ total[r] = Total[r] - taken.pnl[r]
  <2>1. \A r \in Side : /\ Total[r] \in Nat /\ taken.pnl[r] \in Nat
                        /\ taken.pnl[r] <= Total[r] /\ Total[r] - taken.pnl[r] # 0
    BY <1>1 DEF Amount, Side
  <2>2. total \in Amount
    BY <1>1, <2>1, ArithmeticType DEF AtMost
  <2> QED
    BY <2>1, <2>2, OnEachSide
<1>3. out \in Amount /\ \A r \in Side : out[r] < total[r]
  BY <1>2, WithdrawLeaves DEF LedgerInv, TypeOK
<1> HIDE DEF total, out
<1>4. rest \in Amount /\ rest[s] = total[s] - out[s]
  <2>1. AtMost(out, total)
    BY <1>2, <1>3 DEF AtMost, Amount, Side
  <2> QED
    BY <1>2, <1>3, <2>1, ArithmeticType, OnEachSide
<1> HIDE DEF rest
<1>5. /\ Normalize(rest, Unit, Sys)[s] = Scale[s] * rest[s]
      /\ Normalized[s] = Scale[s] * Total[s]
      /\ NormalizeDecimal(out[s], Unit[s], Sys) = Scale[s] * out[s]
  <2>1. Normalize(out, Unit, Sys)[s] = NormalizeDecimal(out[s], Unit[s], Sys)
    BY DEF Normalize
  <2> QED
    BY <1>1, <1>3, <1>4, <2>1, ScaledAmounts DEF Normalized
<1>6. /\ Total[s] \in Nat /\ total[s] \in Nat /\ out[s] \in Nat /\ taken.pnl[s] \in Nat /\ taken.delta[s] \in Nat
      /\ vault[s] \in Nat /\ needTakePnl[s] \in Nat /\ Scale[s] \in Nat /\ Dust[s] \in Nat
  BY <1>1, <1>2, <1>3, ScaleFacts, DustFacts DEF LedgerInv, TypeOK, Amount, Positive
<1>7. out[s] < vault[s]
  BY <1>1, <1>2, <1>3, <1>6
<1>8. Scale[s] * rest[s] = Scale[s] * Total[s] - Scale[s] * taken.pnl[s] - Scale[s] * out[s]
  BY <1>2, <1>4, <1>6
<1>9. taken.delta[s] <= Scale[s] * taken.pnl[s] + Dust[s]
  BY DeltaNearPnl
<1>10. Scale[s] * Total[s] \in Nat /\ Scale[s] * taken.pnl[s] \in Nat /\ Scale[s] * out[s] \in Nat
  BY <1>6
<1>11. Scale[s] * rest[s] >= Dust[s] => Scale[s] * Total[s] - Scale[s] * out[s] - taken.delta[s] >= 0
  BY <1>6, <1>8, <1>9, <1>10
<1> QED
  BY <1>5, <1>7, <1>11 DEF rest, out, total

(* Whatever a holder redeems, neither the lp supply nor lp_amount nor the  *)
(* vaults are too small for it, and the checked subtractions of            *)
(* process_withdraw succeed unless he leaves no more than dust behind.     *)
THEOREM HoldersCanExit == Aligned => (Spec => []HolderCanExit)
<1> SUFFICES ASSUME Aligned PROVE Spec => []HolderCanExit
  OBVIOUS
<1>1. LedgerInv /\ AllHeld /\ Unborn => HolderCanExit
  <2> SUFFICES ASSUME LedgerInv, AllHeld, Unborn, NEW u \in Users, NEW lp \in 1 .. lpOf[u]
               PROVE  /\ lp <= lpSupply /\ lp < lpAmount
                      /\ \A taken \in CalcTakePnl :
                           LET total == Minus(Total, taken.pnl)
                               out   == WithdrawOut(lp, total, lpAmount)
                               left  == Normalize(Minus(total, out), Unit, Sys)
                           IN \A s \in Side :
                                /\ out[s] < vault[s]
                                /\ left[s] >= Dust[s] =>
                                     Normalized[s] - NormalizeDecimal(out[s], Unit[s], Sys) - taken.delta[s] >= 0
    BY DEF HolderCanExit
  <2>1. lpOf[u] \in Nat /\ lpOf[u] <= lpSupply /\ lpSupply \in Nat /\ lpAmount \in Nat
    BY UsersAssumption, MemberWithinSum DEF LedgerInv, TypeOK, AllHeld
  <2>2. lp \in Nat /\ lp <= lpSupply /\ lpSupply # 0
    BY <2>1
  <2>3. Live
    BY <2>2 DEF Unborn
  <2>4. lp < lpAmount
    BY <2>1, <2>2, <2>3, ConstantFacts DEF LedgerInv, LockedLiquidity, Positive
  <2> QED
    BY <2>2, <2>3, <2>4, ExitLeaves
<1> QED
  BY <1>1, Invariance, HoldersHoldAll, PTL
-----------------------------------------------------------------------------
(* AmmPool implements PoolPromise.  The reserves of the promise are the    *)
(* normalized reserves of a live pool.                                     *)
Reserve == IF Live THEN Normalized ELSE Zero

Owed == Normalize(needTakePnl, Unit, Sys)

(* PoolPromise means by its operators what AmmMath means. *)
LEMMA PromiseWords ==
  /\ Promise!Side = Side /\ Promise!Zero = Zero
  /\ \A t : Promise!Product(t) = Product(t)
  /\ \A t, u : /\ Promise!Minus(t, u) = Minus(t, u) /\ Promise!Plus(t, u) = Plus(t, u)
               /\ Promise!AtMost(t, u) = AtMost(t, u)
BY DEF Promise!Side, Promise!Zero, Promise!Product, Promise!Minus, Promise!Plus, Promise!AtMost,
       Side, Zero, Product, Minus, Plus, AtMost

LEMMA ReserveFacts ==
  ASSUME Aligned, LedgerInv, Live
  PROVE  /\ Reserve = Normalized /\ Reserve \in Amount
         /\ \A s \in Side : Reserve[s] = Scale[s] * Total[s] /\ Reserve[s] > 0
<1>1. Reserve = Normalized /\ Normalized \in Amount /\ Total \in Amount /\ \A s \in Side : Total[s] # 0
  BY TotalFacts DEF Reserve
<1>2. \A s \in Side : Normalized[s] = Scale[s] * Total[s] /\ Scale[s] \in Positive /\ Total[s] \in Positive
  BY <1>1, ScaledAmounts, ScaleFacts DEF Normalized, Amount, Positive
<1>3. \A s \in Side : Scale[s] * Total[s] > 0
  BY <1>2 DEF Positive
<1> QED
  BY <1>1, <1>2, <1>3

LEMMA NextReserve ==
  ASSUME Aligned, LedgerInv', Live'
  PROVE  /\ Reserve' \in Amount
         /\ \A s \in Side : Reserve'[s] = Scale[s] * Total'[s] /\ Reserve'[s] > 0
<1>1. Reserve' = Normalized' /\ Normalized' = Normalize(Total', Unit, Sys) /\ Total' \in Amount
  BY NextTotal DEF Reserve
<1>2. \A s \in Side : Total'[s] \in Positive /\ Scale[s] \in Positive
  <2> SUFFICES ASSUME NEW s \in Side PROVE Total'[s] \in Positive /\ Scale[s] \in Positive
    OBVIOUS
  <2>1. vault'[s] \in Nat /\ needTakePnl'[s] \in Nat /\ needTakePnl'[s] < vault'[s]
    BY DEF LedgerInv, TypeOK, ReservesStayPositive, Amount
  <2>2. Total'[s] = vault'[s] - needTakePnl'[s]
    BY NextTotal
  <2> QED
    BY <2>1, <2>2, ScaleFacts DEF Positive
<1>3. \A s \in Side : Normalize(Total', Unit, Sys)[s] = Scale[s] * Total'[s]
  BY <1>1, ScaledAmounts
<1>4. \A s \in Side : Scale[s] * Total'[s] > 0
  BY <1>2 DEF Positive
<1>5. Normalize(Total', Unit, Sys) \in Amount
  BY <1>1, ConstantFacts, NormalizeType
<1> QED
  BY <1>1, <1>3, <1>4, <1>5

LEMMA OwedFacts ==
  ASSUME Aligned, LedgerInv, LedgerInv'
  PROVE  \A s \in Side : Owed[s] = Scale[s] * needTakePnl[s] /\ Owed'[s] = Scale[s] * needTakePnl'[s]
<1>1. needTakePnl \in Amount /\ needTakePnl' \in Amount
  BY DEF LedgerInv, TypeOK
<1>2. Owed' = Normalize(needTakePnl', Unit, Sys)
  BY DEF Owed
<1> QED
  BY <1>1, <1>2, ScaledAmounts DEF Owed

LEMMA ZeroOwed == ASSUME Aligned PROVE Normalize(Zero, Unit, Sys) = Zero
<1>1. Normalize(Zero, Unit, Sys) \in Amount
  BY ZeroFacts, ConstantFacts, NormalizeType
<1> QED
  BY <1>1, ZeroNormalized, ZeroFacts DEF Amount

(* What the protocol sets aside, in normalized units, is taken from growth. *)
LEMMA SkimFacts ==
  ASSUME Aligned, LedgerInv, Live, NEW taken, FairlyTaken(taken),
         NEW skim, \A s \in Side : skim[s] = Scale[s] * taken.pnl[s]
  PROVE  AtMost(Zero, skim) /\ Product(Minus(Reserve, skim)) >= Product(calcPnl)
<1> DEFINE t == Minus(Normalized, taken.delta)
           u == Minus(Reserve, skim)
<1>1. ASSUME NEW s \in Side
      PROVE  skim[s] >= 0 /\ u[s] \in Nat /\ t[s] \in Nat /\ t[s] <= u[s]
  <2>1. /\ taken.pnl[s] \in Nat /\ taken.delta[s] \in Nat /\ Scale[s] \in Nat
        /\ Normalized[s] \in Nat /\ taken.delta[s] <= Normalized[s]
        /\ Scale[s] * taken.pnl[s] <= taken.delta[s]
    BY TotalFacts, ScaleFacts DEF FairlyTaken, Amount, AtMost, Positive
  <2>2. Scale[s] * taken.pnl[s] \in Nat
    BY <2>1
  <2>3. t[s] = Normalized[s] - taken.delta[s] /\ u[s] = Normalized[s] - skim[s]
    BY ReserveFacts, OnEachSide
  <2>4. skim[s] = Scale[s] * taken.pnl[s]
    OBVIOUS
  <2> HIDE DEF t, u
  <2> QED
    BY <2>1, <2>2, <2>3, <2>4
<1>2. t \in Amount /\ u \in Amount
  BY <1>1 DEF Minus, Amount
<1>3. Product(t) <= Product(u)
  BY <1>1, <1>2, ProductMonotonic DEF AtMost
<1>4. Product(calcPnl) <= Product(t)
  BY DEF FairlyTaken
<1>5. Product(calcPnl) \in Nat /\ Product(t) \in Nat /\ Product(u) \in Nat
  BY <1>2, ArithmeticType DEF LedgerInv, TypeOK
<1>6. AtMost(Zero, skim)
  BY <1>1, ZeroFacts DEF AtMost
<1> HIDE DEF t
<1>7. Product(u) >= Product(calcPnl)
  BY <1>3, <1>4, <1>5
<1> QED
  BY <1>6, <1>7
(* What the new shares and reserves leave of a promise.                    *)
LEMMA StockedNext ==
  ASSUME Aligned, LedgerInv', Live'
  PROVE  Promise!Stocked(Reserve')
BY NextReserve, PromiseWords DEF Promise!Stocked

LEMMA Initialize2Opens ==
  ASSUME Aligned, LedgerInv, LedgerInv', Unborn, NEW u \in Users, NEW amount \in Amount, NEW open \in Nat,
         Initialize2(u, amount, open)
  PROVE  Promise!Open
<1>1. Live' /\ calcPnl' = Reserve'
  BY Initialize2Marks DEF Reserve
<1>2. lpAmount = 0 /\ needTakePnl = Zero /\ needTakePnl' = Zero
  BY DEF Initialize2, Unborn
<1>3. lpAmount' > 0
  BY <1>1, ConstantFacts DEF LedgerInv, TypeOK, LockedLiquidity, Positive
<1>4. Owed' = Owed
  BY <1>2 DEF Owed
<1>5. Promise!Stocked(Reserve')
  BY <1>1, StockedNext
<1> QED
  BY <1>1, <1>2, <1>3, <1>4, <1>5 DEF Promise!Open, Reserve, Owed

LEMMA GrowsTrades ==
  ASSUME Aligned, LedgerInv, LedgerInv', Grows
  PROVE  Promise!Trade
<1>1. Live /\ Live' /\ lpAmount' = lpAmount /\ calcPnl' = calcPnl /\ needTakePnl' = needTakePnl
  BY DEF Grows
<1>2. lpAmount > 0
  BY <1>1, TotalFacts DEF LedgerInv, TypeOK
<1>3. Product(Reserve') >= Product(Reserve)
  <2> DEFINE scale == Scale["pc"] * Scale["coin"]
  <2>1. Total \in Amount /\ Total' \in Amount /\ Reserve = Normalized /\ Normalized = Normalize(Total, Unit, Sys)
        /\ Reserve' = Normalize(Total', Unit, Sys)
    BY <1>1, TotalFacts, NextTotal DEF Reserve, Normalized
  <2>2. /\ scale \in Positive
        /\ Product(Reserve) = scale * Product(Total) /\ Product(Reserve') = scale * Product(Total')
    BY <2>1, ScaledProduct
  <2>3. Product(Total) \in Nat /\ Product(Total') \in Nat /\ Product(Total) <= Product(Total')
    BY <2>1, ArithmeticType DEF Grows
  <2> DEFINE v == Product(Total)
             w == Product(Total')
  <2> HIDE DEF scale, v, w
  <2>4. scale * v <= scale * w /\ scale * v \in Nat /\ scale * w \in Nat
    BY <2>2, <2>3 DEF Positive, v, w
  <2> QED
    BY <2>2, <2>4 DEF v, w
<1>4. Owed' = Owed
  BY <1>1 DEF Owed
<1>5. Promise!Stocked(Reserve')
  BY <1>1, StockedNext
<1> QED
  BY <1>1, <1>2, <1>3, <1>4, <1>5, PromiseWords DEF Promise!Trade, Reserve, Owed

LEMMA ResizedResizes ==
  ASSUME Aligned, LedgerInv, LedgerInv', Live, Live', BaselineCovered',
         NEW taken, FairlyTaken(taken), Resized(taken)
  PROVE  Promise!Resize
<1> DEFINE skim == Minus(Owed', Owed)
<1>1. lpAmount > 0 /\ lpAmount' > 0 /\ lpAmount \in Nat /\ lpAmount' \in Nat
  BY ConstantFacts, TotalFacts DEF LedgerInv, TypeOK, LockedLiquidity, Positive
<1>2. \A s \in Side : skim[s] = Scale[s] * taken.pnl[s]
  <2> SUFFICES ASSUME NEW s \in Side PROVE skim[s] = Scale[s] * taken.pnl[s]
    OBVIOUS
  <2>1. skim[s] = Scale[s] * needTakePnl'[s] - Scale[s] * needTakePnl[s]
    BY OwedFacts, OnEachSide
  <2>2. needTakePnl'[s] = needTakePnl[s] + taken.pnl[s]
    BY DEF Resized
  <2>3. needTakePnl[s] \in Nat /\ taken.pnl[s] \in Nat /\ Scale[s] \in Nat
    BY ScaleFacts DEF LedgerInv, TypeOK, FairlyTaken, Amount, Positive
  <2> HIDE DEF skim
  <2>4. Scale[s] * (needTakePnl[s] + taken.pnl[s]) = Scale[s] * needTakePnl[s] + Scale[s] * taken.pnl[s]
    BY <2>3
  <2>5. Scale[s] * needTakePnl[s] \in Nat /\ Scale[s] * taken.pnl[s] \in Nat
    BY <2>3
  <2> QED
    BY <2>1, <2>2, <2>4, <2>5
<1> HIDE DEF skim
<1>3. AtMost(Zero, skim) /\ Product(Minus(Reserve, skim)) >= Product(calcPnl)
  BY <1>2, SkimFacts
<1>4. \A s \in Side : Reserve'[s] * lpAmount >= (Reserve[s] - skim[s]) * lpAmount'
  <2> SUFFICES ASSUME NEW s \in Side
               PROVE  Reserve'[s] * lpAmount >= (Reserve[s] - skim[s]) * lpAmount'
    OBVIOUS
  <2> DEFINE k    == Scale[s]
             left == Total[s] - taken.pnl[s]
             new  == Total'[s]
             stay == lpAmount'
  <2>1. k \in Nat /\ Total[s] \in Nat /\ taken.pnl[s] \in Nat /\ taken.pnl[s] < Total[s] /\ new \in Nat
    BY TotalFacts, NextTotal, ScaleFacts DEF FairlyTaken, Amount, Positive
  <2>2. left \in Nat /\ k * left = k * Total[s] - k * taken.pnl[s]
    BY <2>1
  <2>3. Reserve[s] - skim[s] = k * left /\ Reserve'[s] = k * new
    BY <1>2, <2>2, ReserveFacts, NextReserve
  <2>4. left * stay <= new * lpAmount
    BY DEF Resized
  <2>5. stay \in Nat
    BY <1>1
  <2> HIDE DEF k, left, new, stay
  <2>6. k * left \in Nat /\ k * new \in Nat /\ k * left <= k * left /\ k * new <= k * new
    BY <2>1, <2>2
  <2>7. (k * left) * stay <= (k * new) * lpAmount
    BY <1>1, <2>1, <2>2, <2>4, <2>5, <2>6, LeaveKeepsShare
  <2>8. (k * left) * stay \in Nat /\ (k * new) * lpAmount \in Nat
    BY <1>1, <2>5, <2>6
  <2>9. (k * new) * lpAmount >= (k * left) * stay
    BY <2>7, <2>8
  <2> QED
    BY <2>3, <2>9 DEF stay
<1>5. Product(calcPnl') <= Product(Reserve')
  BY DEF BaselineCovered, Reserve, Product
<1>6. Promise!Stocked(Reserve')
  BY StockedNext
<1>7. Promise!Skim(skim)
  BY <1>3, PromiseWords DEF Promise!Skim, Reserve
<1> QED
  BY <1>1, <1>4, <1>5, <1>6, <1>7, PromiseWords DEF Promise!Resize, Reserve, Owed, skim

LEMMA DepositJoins ==
  ASSUME Aligned, MinorShares, LedgerInv, LedgerInv', BaselineCovered, BaselineCovered', FeesChosen,
         NEW u \in Users, NEW base \in Side, NEW max \in Amount, NEW otherMin \in Nat,
         Deposit(u, base, max, otherMin)
  PROVE  Promise!Join
<1>1. PICK taken : FairlyTaken(taken) /\ Resized(taken)
  BY DepositResizes
<1>2. Live /\ Live' /\ lpAmount' > lpAmount
  BY DepositUnpacked, DepositResizes
<1>3. Promise!Resize /\ WorthKept
  BY <1>1, <1>2, ResizedResizes, ResizeKeepsWorth
<1>4. Kept = calcPnl'
  BY <1>2 DEF Kept, LedgerInv, TypeOK
<1>5. Promise!WorthMark(calcPnl')
  <2> DEFINE l == Product(calcPnl) * lpAmount' * lpAmount'
             r == Product(calcPnl') * lpAmount * lpAmount
  <2>1. l \in Nat /\ r \in Nat
    BY ArithmeticType DEF LedgerInv, TypeOK
  <2>2. l <= r
    BY <1>3, <1>4 DEF WorthKept
  <2> HIDE DEF l, r
  <2>3. r >= l
    BY <2>1, <2>2
  <2> QED
    BY <2>3, PromiseWords DEF Promise!WorthMark, l, r
<1> QED
  BY <1>2, <1>3, <1>5 DEF Promise!Join

LEMMA WithdrawLeavesPromise ==
  ASSUME Aligned, MinorShares, LedgerInv, LedgerInv', BaselineCovered, BaselineCovered', FeesChosen,
         NEW u \in Users, NEW lp \in Nat, NEW min \in Amount, Withdraw(u, lp, min)
  PROVE  Promise!Leave
<1>1. PICK taken : FairlyTaken(taken) /\ Resized(taken)
  BY WithdrawResizes
<1>2. Live /\ Live' /\ lpAmount' < lpAmount
  BY WithdrawUnpacked, WithdrawResizes
<1>3. Promise!Resize /\ WorthKept
  BY <1>1, <1>2, ResizedResizes, ResizeKeepsWorth
<1>4. Kept = Plus(calcPnl', Dust)
  BY <1>2 DEF Kept
<1>5. Promise!WorthMark(Plus(calcPnl', Dust))
  <2> DEFINE kept == Plus(calcPnl', Dust)
             l    == Product(calcPnl) * lpAmount' * lpAmount'
             r    == Product(kept) * lpAmount * lpAmount
  <2>1. kept \in Amount
    BY <1>4, KeptType
  <2>2. l \in Nat /\ r \in Nat
    <3>1. /\ Product(kept) \in Nat /\ Product(calcPnl) \in Nat
          /\ lpAmount \in Nat /\ lpAmount' \in Nat
      BY <2>1, ArithmeticType DEF LedgerInv, TypeOK
    <3> HIDE DEF kept
    <3> QED
      BY <3>1
  <2>3. l <= r
    BY <1>3, <1>4 DEF WorthKept
  <2> HIDE DEF l, r
  <2>4. r >= l
    BY <2>2, <2>3
  <2> QED
    BY <2>4, PromiseWords DEF Promise!WorthMark, l, r
<1> QED
  BY <1>2, <1>3, <1>5, PromiseWords DEF Promise!Leave

LEMMA WithdrawPnlCollects ==
  ASSUME Aligned, MinorShares, LedgerInv, LedgerInv', BaselineCovered, BaselineCovered', FeesChosen, WithdrawPnl
  PROVE  Promise!Collect
<1>1. Live /\ Live' /\ needTakePnl' = Zero /\ lpAmount' = lpAmount
  BY DEF WithdrawPnl, params, Live
<1>2. PICK taken \in CalcTakePnl : vault' = Minus(vault, Plus(needTakePnl, taken.pnl))
  BY DEF WithdrawPnl
<1>3. FairlyTaken(taken)
  BY <1>1, TakesFairly
<1> DEFINE skim == Minus(Reserve, Reserve')
<1>4. \A s \in Side : skim[s] = Scale[s] * taken.pnl[s]
  <2> SUFFICES ASSUME NEW s \in Side PROVE skim[s] = Scale[s] * taken.pnl[s]
    OBVIOUS
  <2>1. skim[s] = Scale[s] * Total[s] - Scale[s] * Total'[s]
    BY <1>1, ReserveFacts, NextReserve, OnEachSide
  <2>2. /\ vault'[s] = vault[s] - Plus(needTakePnl, taken.pnl)[s]
        /\ Plus(needTakePnl, taken.pnl)[s] = needTakePnl[s] + taken.pnl[s]
    BY <1>2, OnEachSide
  <2>3. Total[s] = vault[s] - needTakePnl[s] /\ Total'[s] = vault'[s] - needTakePnl'[s] /\ needTakePnl'[s] = 0
    BY <1>1, TotalFacts, NextTotal, ZeroFacts
  <2>4. /\ vault[s] \in Nat /\ needTakePnl[s] \in Nat /\ taken.pnl[s] \in Nat /\ Scale[s] \in Nat
        /\ vault'[s] \in Nat
    BY <1>3, ScaleFacts DEF LedgerInv, TypeOK, FairlyTaken, Amount, Positive
  <2> HIDE DEF skim
  <2>5. Total'[s] = Total[s] - taken.pnl[s] /\ Total[s] \in Int
    BY <2>2, <2>3, <2>4
  <2>6. Scale[s] * (Total[s] - taken.pnl[s]) = Scale[s] * Total[s] - Scale[s] * taken.pnl[s]
    BY <2>4, <2>5
  <2>7. Scale[s] * Total[s] \in Int /\ Scale[s] * taken.pnl[s] \in Int
    BY <2>4, <2>5
  <2> QED
    BY <2>1, <2>5, <2>6, <2>7
<1> HIDE DEF skim
<1>5. AtMost(Zero, skim) /\ Product(Minus(Reserve, skim)) >= Product(calcPnl)
  BY <1>1, <1>3, <1>4, SkimFacts
<1>6. Promise!Skim(skim)
  BY <1>5, PromiseWords DEF Promise!Skim, Reserve
<1>7. Product(calcPnl) <= Product(calcPnl') /\ Product(calcPnl') <= Product(Reserve')
  BY <1>1, WithdrawPnlKeepsWorth DEF BaselineCovered, Reserve, Product
<1>8. Owed' = Zero
  BY <1>1, ZeroOwed DEF Owed
<1>9. lpAmount > 0
  BY <1>1, TotalFacts DEF LedgerInv, TypeOK
<1> QED
  BY <1>1, <1>6, <1>7, <1>8, <1>9, PromiseWords DEF Promise!Collect, Reserve, Owed, skim
(* What AmmPool has and its promise has not: the wallets, the clock and    *)
(* the parameters.                                                         *)
LEMMA OthersStutter ==
  ASSUME Live' <=> Live,
         vault' = vault, needTakePnl' = needTakePnl, calcPnl' = calcPnl, lpAmount' = lpAmount
  PROVE  UNCHANGED Promise!vars
<1>1. Reserve' = Reserve
  BY DEF Reserve, Normalized, Total
<1>2. Owed' = Owed
  BY DEF Owed
<1> QED
  BY <1>1, <1>2 DEF Promise!vars, Reserve, Owed

LEMMA StepKeepsPromise ==
  ASSUME Aligned, MinorShares, LedgerInv, LedgerInv', BaselineCovered, BaselineCovered',
         FeesChosen, Unborn, [Next]_vars
  PROVE  Promise!Next \/ UNCHANGED Promise!vars
<1>1. CASE UNCHANGED vars
  BY <1>1, OthersStutter DEF vars, Live
<1>2. CASE Next
  <2>1. ASSUME NEW u \in Users, NEW coin \in Nat, NEW pc \in Nat, NEW open \in Nat,
               Initialize2(u, Amounts(coin, pc), open)
        PROVE  Promise!Next
    <3>1. Amounts(coin, pc) \in Amount
      BY DEF Amounts, Amount
    <3> QED
      BY <2>1, <3>1, Initialize2Opens DEF Promise!Next
  <2>2. ASSUME NEW u \in Users, NEW base \in Side, NEW max \in Amount, NEW otherMin \in Nat,
               Deposit(u, base, max, otherMin)
        PROVE  Promise!Next
    BY <2>2, DepositJoins DEF Promise!Next
  <2>3. ASSUME NEW u \in Users, NEW lp \in Nat, NEW min \in Amount, Withdraw(u, lp, min)
        PROVE  Promise!Next
    BY <2>3, WithdrawLeavesPromise DEF Promise!Next
  <2>4. ASSUME NEW u \in Users, NEW src \in Side, NEW a \in Nat, NEW b \in Nat,
               SwapBaseIn(u, src, a, b) \/ SwapBaseOut(u, src, b, a)
        PROVE  Promise!Next
    BY <2>4, SwapGrows, GrowsTrades DEF Promise!Next
  <2>5. CASE WithdrawPnl
    BY <2>5, WithdrawPnlCollects DEF Promise!Next
  <2>6. CASE \/ \E value \in LedgerStatus : SetStatus(value)
             \/ \E value \in FeeChoices : SetFees(value)
             \/ \E value \in Nat : SetOpenTime(value)
             \/ Tick
    BY <2>6, OthersStutter, StatusFacts
    DEF SetStatus, SetFees, SetOpenTime, Tick, params, ledger, Live, LedgerStatus
  <2>7. ASSUME NEW u \in Users, NEW s \in Side, Donate(u, s)
        PROVE  Promise!Next \/ UNCHANGED Promise!vars
    <3>1. CASE Live
      BY <2>7, <3>1, DonateGrows, GrowsTrades DEF Promise!Next
    <3>2. CASE ~Live
      <4>1. ~Live' /\ needTakePnl' = needTakePnl /\ calcPnl' = calcPnl /\ lpAmount' = lpAmount
        BY <2>7, <3>2 DEF Donate, params, Live
      <4>2. Reserve' = Reserve /\ Owed' = Owed
        BY <3>2, <4>1 DEF Reserve, Owed
      <4> QED
        BY <4>1, <4>2 DEF Promise!vars, Reserve, Owed
    <3> QED
      BY <3>1, <3>2
  <2>8. ASSUME NEW u \in Users, BurnOwnLp(u)
        PROVE  UNCHANGED Promise!vars
    BY <2>8, OthersStutter DEF BurnOwnLp, params, Live
  <2> QED
    BY <1>2, <2>1, <2>2, <2>3, <2>4, <2>5, <2>6, <2>7, <2>8, NextCases
<1> QED
  BY <1>1, <1>2

LEMMA InitKeepsPromise ==
  ASSUME Aligned, Init
  PROVE  Promise!Init
<1>1. Reserve = Zero /\ Owed = Zero /\ lpAmount = 0 /\ calcPnl = Zero
  BY ZeroOwed DEF Init, Reserve, Owed, Live
<1> QED
  BY <1>1, PromiseWords DEF Promise!Init, Reserve, Owed

(* AmmPool implements PoolPromise: every instruction, in every status and  *)
(* with every amount, is a step of the promise or none at all.             *)
THEOREM PoolKeepsPromise == Aligned /\ MinorShares => (Spec => KeepsPromise)
<1> SUFFICES ASSUME Aligned, MinorShares PROVE Spec => KeepsPromise
  OBVIOUS
<1>1. Init => Promise!Init
  BY InitKeepsPromise
<1>2. /\ LedgerInv /\ LedgerInv' /\ BaselineCovered /\ BaselineCovered'
      /\ FeesChosen /\ AllHeld /\ Unborn /\ [Next]_vars
      => [Promise!Next]_Promise!vars
  BY StepKeepsPromise
<1>3. Spec => []LedgerInv /\ []BaselineCovered /\ []FeesChosen /\ [](AllHeld /\ Unborn)
  BY Invariance, BaselineStaysCovered, FeesStayChosen, HoldersHoldAll
<1>4. Spec => Promise!Spec
  BY <1>1, <1>2, <1>3, PTL DEF Spec, Promise!Spec
<1> QED
  BY <1>4 DEF KeepsPromise
=============================================================================
