---------------------------- MODULE AmmPoolProofs ----------------------------
(***************************************************************************)
(* Theorems about AmmPool, for every set of users, every wealth, every     *)
(* decimals and lot sizes and every fee that Fees::validate admits.        *)
(***************************************************************************)
EXTENDS AmmPool, AmmMathLemmas

(* What the proofs use of the constants. *)
LEMMA ConstantFacts ==
  /\ Unit \in [Side -> Positive]
  /\ Unit["coin"] \in Positive /\ Unit["pc"] \in Positive
  /\ Sys \in Positive
<1>1. Unit \in [Side -> Positive] /\ CoinLot \in Positive /\ PcLot \in Positive
  BY MarketAssumption DEF Positive
<1> QED
  BY <1>1, SysPositive DEF Sys, Side

(* The instructions, one disjunct per action. *)
LEMMA NextCases ==
  ASSUME Next
  PROVE  \/ \E u \in Users, coin, pc \in Nat, open \in Nat : Initialize2(u, Amounts(coin, pc), open)
         \/ \E u \in Users, base \in Side, max \in Amount, otherMin \in Nat : Deposit(u, base, max, otherMin)
         \/ \E u \in Users, lp \in Nat, min \in Amount : Withdraw(u, lp, min)
         \/ \E u \in Users, src \in Side, amount, minimum \in Nat : SwapBaseIn(u, src, amount, minimum)
         \/ \E u \in Users, src \in Side, amount, max \in Nat : SwapBaseOut(u, src, max, amount)
         \/ WithdrawPnl
         \/ \E value \in LedgerStatus : SetStatus(value)
         \/ \E value \in FeeChoices : SetFees(value)
         \/ \E value \in Nat : SetOpenTime(value)
         \/ \E u \in Users, s \in Side : Donate(u, s)
         \/ \E u \in Users : BurnOwnLp(u)
         \/ Tick
<1>1. CASE \E u \in Users : UserStep(u)
  <2> PICK u \in Users : UserStep(u)
    BY <1>1
  <2>1. CASE \E coin \in 0 .. wallet[u]["coin"], pc \in 0 .. wallet[u]["pc"], open \in 0 .. MaxTime :
               Initialize2(u, Amounts(coin, pc), open)
    BY <2>1
  <2>2. CASE \E base \in Side : \E amount \in 1 .. wallet[u][base], otherMax, otherMin \in Limits :
               Deposit(u, base, [s \in Side |-> IF s = base THEN amount ELSE otherMax], otherMin)
    <3> PICK base \in Side : \E amount \in 1 .. wallet[u][base], otherMax, otherMin \in Limits :
           Deposit(u, base, [s \in Side |-> IF s = base THEN amount ELSE otherMax], otherMin)
      BY <2>2
    <3> PICK amount \in 1 .. wallet[u][base], otherMax \in Limits, otherMin \in Limits :
           Deposit(u, base, [s \in Side |-> IF s = base THEN amount ELSE otherMax], otherMin)
      OBVIOUS
    <3>1. [s \in Side |-> IF s = base THEN amount ELSE otherMax] \in Amount /\ otherMin \in Nat
      BY LimitsAssumption DEF Amount
    <3> QED
      BY <3>1
  <2>3. CASE \E lp \in 1 .. lpOf[u], coin, pc \in Limits : Withdraw(u, lp, Amounts(coin, pc))
    <3> PICK lp \in 1 .. lpOf[u], coin \in Limits, pc \in Limits : Withdraw(u, lp, Amounts(coin, pc))
      BY <2>3
    <3>1. lp \in Nat /\ Amounts(coin, pc) \in Amount
      BY LimitsAssumption DEF Amounts, Amount
    <3> QED
      BY <3>1
  <2>4. CASE \E src \in Side : \E amount \in 1 .. wallet[u][src], minimum \in Limits :
               SwapBaseIn(u, src, amount, minimum)
    BY <2>4, LimitsAssumption
  <2>5. CASE \E src \in Side : \E max \in Limits, amount \in 1 .. vault[Other(src)] :
               SwapBaseOut(u, src, max, amount)
    BY <2>5, LimitsAssumption
  <2> QED
    BY <2>1, <2>2, <2>3, <2>4, <2>5 DEF UserStep
<1>2. CASE OwnerStep
  BY <1>2, StatusAssumption DEF OwnerStep
<1>3. CASE Outside
  BY <1>3 DEF Outside
<1> QED
  BY <1>1, <1>2, <1>3 DEF Next

-----------------------------------------------------------------------------
(* The inductive invariant: the reserves are natural only because they     *)
(* stay positive, and the liquidity stays positive only because the part   *)
(* that process_initialize2 withheld is never burned.                      *)
LedgerInv == TypeOK /\ LockedLiquidity /\ ReservesStayPositive

(* Under the invariant the checked subtractions of                         *)
(* calc_total_without_take_pnl succeed and its results, and lp_amount, can *)
(* be divided by.                                                          *)
LEMMA TotalFacts ==
  ASSUME LedgerInv, Live
  PROVE  /\ TotalDefined
         /\ Total \in Amount
         /\ \A s \in Side : Total[s] # 0 /\ Total[s] = vault[s] - needTakePnl[s]
         /\ Normalized \in Amount
         /\ lpAmount # 0
<1>1. \A s \in Side : vault[s] \in Nat /\ needTakePnl[s] \in Nat /\ needTakePnl[s] < vault[s]
  BY DEF LedgerInv, TypeOK, ReservesStayPositive, Amount
<1>2. \A s \in Side : needTakePnl[s] <= vault[s] /\ vault[s] - needTakePnl[s] \in Nat \ {0}
  BY <1>1 DEF Side
<1>3. Total = [s \in Side |-> vault[s] - needTakePnl[s]]
  BY DEF Total, Minus
<1>4. TotalDefined /\ Total \in Amount
  BY <1>2, <1>3 DEF TotalDefined, AtMost, Amount
<1>5. Normalized \in Amount
  BY <1>4, ConstantFacts, NormalizeType DEF Normalized
<1>6. lpAmount # 0
  BY ConstantFacts DEF LedgerInv, TypeOK, LockedLiquidity, Positive
<1> QED
  BY <1>2, <1>3, <1>4, <1>5, <1>6

(* The effect of a transfer between a user and the vaults. *)
LEMMA TransferFacts ==
  ASSUME TypeOK, NEW u \in Users, NEW in \in Amount, NEW out \in Amount,
         AtMost(in, wallet[u]), Transfer(u, in, out)
  PROVE  /\ wallet' \in [Users -> Amount]
         /\ \A s \in Side : vault'[s] = vault[s] + in[s] - out[s]
         /\ (\A s \in Side : out[s] <= vault[s] + in[s]) => vault' \in Amount
<1>1. \A s \in Side : vault[s] \in Nat /\ wallet[u][s] \in Nat /\ in[s] \in Nat /\ out[s] \in Nat
  BY DEF TypeOK, Amount
<1>2. \A s \in Side : wallet[u][s] - in[s] + out[s] \in Nat
  BY <1>1 DEF AtMost, Side
<1>3. Plus(Minus(wallet[u], in), out) \in Amount
  <2>1. Plus(Minus(wallet[u], in), out) = [s \in Side |-> wallet[u][s] - in[s] + out[s]]
    BY DEF Plus, Minus
  <2> QED
    BY <1>2, <2>1 DEF Amount
<1>4. wallet' \in [Users -> Amount]
  BY <1>3 DEF Transfer, TypeOK
<1>5. \A s \in Side : Plus(vault, in)[s] = vault[s] + in[s]
  BY DEF Plus
<1>6. ASSUME NEW s \in Side
      PROVE  vault'[s] = vault[s] + in[s] - out[s]
  <2>1. vault'[s] = Plus(vault, in)[s] - out[s]
    BY DEF Transfer, Minus
  <2> QED
    BY <1>1, <1>5, <2>1
<1>7. ASSUME \A s \in Side : out[s] <= vault[s] + in[s]
      PROVE  vault' \in Amount
  <2>1. AtMost(out, Plus(vault, in))
    BY <1>5, <1>7 DEF AtMost
  <2> QED
    BY <2>1, ArithmeticType DEF Transfer, TypeOK
<1> QED
  BY <1>4, <1>6, <1>7

(* An amount of one token.                                                 *)
LEMMA OnlyFacts ==
  ASSUME NEW s \in Side, NEW n \in Nat
  PROVE  Only(s, n) \in Amount /\ \A r \in Side : Only(s, n)[r] = IF r = s THEN n ELSE 0
BY DEF Only, Zero, Amount

(* What calc_take_pnl returns: shares that leave something of every        *)
(* reserve, and that the normalized reserves cover.                        *)
LEMMA TakenFacts ==
  ASSUME LedgerInv, Live, NEW taken \in CalcTakePnl
  PROVE  /\ taken.pnl \in Amount
         /\ \A s \in Side : taken.pnl[s] < Total[s]
         /\ taken.delta \in Amount
         /\ AtMost(taken.delta, Normalized)
<1>1. Total \in Amount
  BY TotalFacts
<1>2. fees.pnl \in Fraction
  BY DEF LedgerInv, TypeOK, FeeSet
<1>3. PICK x2 \in 0 .. Normalized["pc"] :
        /\ \A s \in Side : Normalized[s] # 0
        /\ taken.pnl = TakePnl(Normalized, x2, fees.pnl, Unit, Sys)
        /\ taken.delta = TakeDelta(Normalized, x2, fees.pnl, Unit, Sys)
  BY DEF CalcTakePnl, TakeOutcomes, Normalized
<1> QED
  BY <1>1, <1>2, <1>3, ConstantFacts, PnlBounds DEF Normalized

(* The exchange of a swap keeps the invariant. *)
LEMMA ExchangeKeeps ==
  ASSUME LedgerInv, Live, status' \in LedgerStatus,
         NEW u \in Users, NEW src \in Side, NEW in \in Nat, NEW out \in Nat,
         Exchange(u, src, in, out)
  PROVE  LedgerInv'
<1>1. Other(src) \in Side /\ Other(src) # src
  BY OtherSide
<1>2. /\ in <= wallet[u][src] /\ out < vault[Other(src)] - needTakePnl[Other(src)]
      /\ Transfer(u, Only(src, in), Only(Other(src), out))
      /\ UNCHANGED <<now, openTime, fees, needTakePnl, calcPnl, lpAmount, lpSupply, lpOf, pnlPaid>>
  BY <1>1, TotalFacts DEF Exchange
<1>3. \A s \in Side :
        /\ Only(src, in)[s] = IF s = src THEN in ELSE 0
        /\ Only(Other(src), out)[s] = IF s = Other(src) THEN out ELSE 0
  BY <1>1, OnlyFacts
<1>4. \A s \in Side : /\ vault[s] \in Nat /\ needTakePnl[s] \in Nat /\ needTakePnl[s] < vault[s]
                      /\ wallet[u][s] \in Nat
  BY DEF LedgerInv, TypeOK, ReservesStayPositive, Amount
<1>5. AtMost(Only(src, in), wallet[u])
  BY <1>2, <1>3, <1>4 DEF AtMost
<1>6. /\ wallet' \in [Users -> Amount]
      /\ \A s \in Side : vault'[s] = vault[s] + Only(src, in)[s] - Only(Other(src), out)[s]
      /\ (\A s \in Side : Only(Other(src), out)[s] <= vault[s] + Only(src, in)[s]) => vault' \in Amount
  BY <1>1, <1>2, <1>5, OnlyFacts, TransferFacts DEF LedgerInv
<1>7. \A s \in Side : /\ Only(Other(src), out)[s] <= vault[s] + Only(src, in)[s]
                      /\ needTakePnl[s] < vault[s] + Only(src, in)[s] - Only(Other(src), out)[s]
  <2> SUFFICES ASSUME NEW s \in Side
               PROVE  /\ Only(Other(src), out)[s] <= vault[s] + Only(src, in)[s]
                      /\ needTakePnl[s] < vault[s] + Only(src, in)[s] - Only(Other(src), out)[s]
    OBVIOUS
  <2>1. CASE s = src
    BY <1>1, <1>3, <1>4, <2>1
  <2>2. CASE s = Other(src)
    BY <1>1, <1>2, <1>3, <1>4, <2>2
  <2> QED
    BY <2>1, <2>2 DEF Side, Other
<1>8. vault' \in Amount /\ \A s \in Side : needTakePnl[s] < vault'[s]
  BY <1>6, <1>7
<1>9. TypeOK'
  BY <1>2, <1>6, <1>8 DEF LedgerInv, TypeOK
<1>10. LockedLiquidity' /\ ReservesStayPositive'
  BY <1>2, <1>8 DEF LedgerInv, LockedLiquidity, ReservesStayPositive, Live
<1> QED
  BY <1>9, <1>10 DEF LedgerInv

(* A status that allows an instruction is a status of a live pool. *)
LEMMA StatusFacts ==
  /\ DepositPermission \subseteq ValidStatus
  /\ WithdrawPermission \subseteq ValidStatus
  /\ SwapPermission \subseteq ValidStatus
  /\ "Uninitialized" \notin ValidStatus
BY DEF DepositPermission, WithdrawPermission, SwapPermission, ValidStatus

(* A swap finds a live pool and leaves it with a status of this module.    *)
LEMMA OpenForSwapFacts ==
  ASSUME LedgerInv, OpenForSwap
  PROVE  Live /\ status' \in LedgerStatus
<1>1. status \in SwapPermission /\ status \in LedgerStatus \cup {"Uninitialized"}
  BY DEF OpenForSwap, LedgerInv, TypeOK
<1>2. Live
  BY <1>1, StatusFacts DEF Live
<1>3. "SwapOnly" \in LedgerStatus
  BY DEF LedgerStatus, ValidStatus, WithdrawPermission, DepositPermission, OrderbookPermission
<1> QED
  BY <1>1, <1>2, <1>3 DEF OpenForSwap, Live

(* Nothing exists before process_initialize2.                              *)
LEMMA InitKeeps == Init => LedgerInv
<1> SUFFICES ASSUME Init PROVE LedgerInv
  OBVIOUS
<1>1. Zero \in Amount
  BY DEF Zero, Amount
<1>2. TypeOK
  BY <1>1, UsersAssumption, FeesAssumption DEF Init, TypeOK
<1> QED
  BY <1>2 DEF Init, LedgerInv, LockedLiquidity, ReservesStayPositive, Live

(* process_initialize2 withholds 10^decimals lp tokens and refuses a side  *)
(* without reserves.                                                       *)
LEMMA Initialize2Keeps ==
  ASSUME LedgerInv, NEW u \in Users, NEW amount \in Amount, NEW open \in Nat,
         Initialize2(u, amount, open)
  PROVE  LedgerInv'
<1> DEFINE funded == Plus(vault, amount)
<1>1. funded \in Amount /\ \A s \in Side : funded[s] # 0 /\ funded[s] = vault[s] + amount[s]
  BY ArithmeticType DEF Initialize2, Plus, LedgerInv, TypeOK
<1>2. Zero \in Amount /\ \A s \in Side : Zero[s] = 0
  BY DEF Zero, Amount
<1>3. \A s \in Side : vault[s] \in Nat /\ amount[s] \in Nat
  BY DEF LedgerInv, TypeOK, Amount
<1>4. wallet' \in [Users -> Amount] /\ vault' \in Amount
      /\ \A s \in Side : vault'[s] = vault[s] + amount[s] - 0
  <2>1. \A s \in Side : Zero[s] <= vault[s] + amount[s]
    BY <1>2, <1>3 DEF Side
  <2> QED
    BY <1>2, <2>1, TransferFacts DEF Initialize2, LedgerInv
<1>5. \A s \in Side : 0 < vault'[s]
  <2> SUFFICES ASSUME NEW s \in Side
               PROVE  0 < vault'[s]
    OBVIOUS
  <2>1. vault[s] + amount[s] # 0
    BY <1>1
  <2> QED
    BY <1>3, <1>4, <2>1
<1>6. PICK liquidity \in Unit["coin"] .. funded["coin"] + funded["pc"] :
        /\ lpAmount' = liquidity
        /\ lpSupply' = liquidity - Unit["coin"]
        /\ lpOf' = [lpOf EXCEPT ![u] = @ + (liquidity - Unit["coin"])]
  BY DEF Initialize2
<1>7. liquidity \in Nat /\ liquidity - Unit["coin"] \in Nat
  BY <1>1, ConstantFacts DEF Positive, Amount, Side
<1>8. lpOf' \in [Users -> Nat]
  BY <1>6, <1>7 DEF LedgerInv, TypeOK
<1>9. calcPnl' \in Amount
  BY <1>1, ConstantFacts, NormalizeType DEF Initialize2
<1>10. status' \in LedgerStatus
  BY DEF Initialize2, LedgerStatus, ValidStatus, WithdrawPermission, DepositPermission,
         OrderbookPermission
<1>11. openTime' \in Nat /\ now' \in Nat /\ fees' \in FeeSet /\ needTakePnl' \in Amount
       /\ pnlPaid' \in Amount
  BY <1>2, FeesAssumption DEF Initialize2, LedgerInv, TypeOK
<1>12. TypeOK'
  BY <1>4, <1>6, <1>7, <1>8, <1>9, <1>10, <1>11 DEF TypeOK
<1>13. LockedLiquidity'
  BY <1>6, <1>7, ConstantFacts DEF LockedLiquidity, Positive
<1>14. ReservesStayPositive'
  BY <1>2, <1>5 DEF Initialize2, ReservesStayPositive
<1> QED
  BY <1>12, <1>13, <1>14 DEF LedgerInv

(* process_deposit adds to the vaults more than the profit it sets aside,  *)
(* and mints what it adds to lp_amount.                                    *)
LEMMA DepositKeeps ==
  ASSUME LedgerInv, NEW u \in Users, NEW base \in Side, NEW max \in Amount,
         NEW otherMin \in Nat, Deposit(u, base, max, otherMin)
  PROVE  LedgerInv'
<1>1. Live /\ status \in LedgerStatus
  BY StatusFacts DEF Deposit, Live, LedgerInv, TypeOK
<1>2. PICK taken \in CalcTakePnl :
        LET total  == Minus(Total, taken.pnl)
            deduct == DepositDeduct(base, max[base], total)
            mint   == DepositMint(base, max[base], total, lpAmount)
        IN /\ total[base] # 0
           /\ AtMost(deduct, wallet[u])
           /\ Transfer(u, deduct, Zero)
           /\ MintLp(u, mint)
           /\ needTakePnl' = Plus(needTakePnl, taken.pnl)
           /\ calcPnl' = Minus(Plus(Normalized, Normalize(deduct, Unit, Sys)), taken.delta)
  BY DEF Deposit
<1> DEFINE total  == Minus(Total, taken.pnl)
           deduct == DepositDeduct(base, max[base], total)
           mint   == DepositMint(base, max[base], total, lpAmount)
<1>3. /\ taken.pnl \in Amount /\ taken.delta \in Amount /\ AtMost(taken.delta, Normalized)
      /\ Total \in Amount /\ Normalized \in Amount
      /\ \A s \in Side : taken.pnl[s] < vault[s] - needTakePnl[s]
  BY <1>1, TotalFacts, TakenFacts
<1>4. total \in Amount
  <2>1. AtMost(taken.pnl, Total)
    BY <1>2, <1>1, <1>3, TakenFacts DEF AtMost, Amount, Side
  <2> QED
    BY <1>3, <2>1, ArithmeticType
<1>5. deduct \in Amount /\ mint \in Nat
  BY <1>2, <1>4, DepositType DEF Amount, LedgerInv, TypeOK
<1>6. \A s \in Side : vault[s] \in Nat /\ needTakePnl[s] \in Nat /\ deduct[s] \in Nat
                      /\ taken.pnl[s] \in Nat
  BY <1>3, <1>5 DEF LedgerInv, TypeOK, Amount
<1>7. Zero \in Amount /\ \A s \in Side : Zero[s] = 0
  BY DEF Zero, Amount
<1>8. /\ wallet' \in [Users -> Amount] /\ vault' \in Amount
      /\ \A s \in Side : vault'[s] = vault[s] + deduct[s] - 0
  <2>1. \A s \in Side : Zero[s] <= vault[s] + deduct[s]
    BY <1>6, <1>7 DEF Side
  <2> QED
    BY <1>2, <1>5, <1>7, <2>1, TransferFacts DEF LedgerInv
<1>9. needTakePnl' \in Amount /\ \A s \in Side : needTakePnl'[s] = needTakePnl[s] + taken.pnl[s]
  BY <1>2, <1>3, ArithmeticType DEF LedgerInv, TypeOK, Plus
<1>10. calcPnl' \in Amount
  <2>1. Normalize(deduct, Unit, Sys) \in Amount
    BY <1>5, ConstantFacts, NormalizeType
  <2>2. Plus(Normalized, Normalize(deduct, Unit, Sys)) \in Amount
    BY <1>3, <2>1, ArithmeticType
  <2>3. AtMost(taken.delta, Plus(Normalized, Normalize(deduct, Unit, Sys)))
    BY <1>3, <2>1 DEF AtMost, Plus, Amount, Side
  <2> QED
    BY <1>2, <1>3, <2>2, <2>3, ArithmeticType
<1>11. /\ lpAmount' = lpAmount + mint /\ lpSupply' = lpSupply + mint
       /\ lpOf' \in [Users -> Nat]
  BY <1>2, <1>5 DEF MintLp, LedgerInv, TypeOK
<1>12. UNCHANGED <<params, now, pnlPaid>>
  BY DEF Deposit
<1>13. TypeOK'
  BY <1>1, <1>5, <1>8, <1>9, <1>10, <1>11, <1>12 DEF LedgerInv, TypeOK, params
<1>14. LockedLiquidity'
  BY <1>1, <1>5, <1>11, ConstantFacts DEF LedgerInv, TypeOK, LockedLiquidity, Positive
<1>15. ReservesStayPositive'
  BY <1>3, <1>6, <1>8, <1>9 DEF ReservesStayPositive, Side
<1> QED
  BY <1>13, <1>14, <1>15 DEF LedgerInv

(* process_withdraw pays less than the reserves, as lp is below lp_amount, *)
(* and burns what it takes from lp_amount.                                 *)
LEMMA WithdrawKeeps ==
  ASSUME LedgerInv, NEW u \in Users, NEW lp \in Nat, NEW min \in Amount, Withdraw(u, lp, min)
  PROVE  LedgerInv'
<1>1. Live /\ status \in LedgerStatus
  BY StatusFacts DEF Withdraw, Live, LedgerInv, TypeOK
<1>2. PICK taken \in IF status = "WithdrawOnly" THEN {[pnl |-> Zero, delta |-> Zero]}
                    ELSE CalcTakePnl :
        LET total == Minus(Total, taken.pnl)
            out   == WithdrawOut(lp, total, lpAmount)
            next  == Minus(Minus(Normalized, Normalize(out, Unit, Sys)), taken.delta)
        IN /\ \A s \in Side : next[s] >= 0
           /\ Transfer(u, Zero, out)
           /\ BurnLp(u, lp)
           /\ needTakePnl' = Plus(needTakePnl, taken.pnl)
           /\ calcPnl' = next
  BY DEF Withdraw
<1> DEFINE total == Minus(Total, taken.pnl)
           out   == WithdrawOut(lp, total, lpAmount)
<1>3. Zero \in Amount /\ \A s \in Side : Zero[s] = 0
  BY DEF Zero, Amount
<1>4. Total \in Amount /\ Normalized \in Amount
      /\ \A s \in Side : Total[s] # 0 /\ Total[s] = vault[s] - needTakePnl[s]
  BY <1>1, TotalFacts
<1>5. taken.pnl \in Amount /\ taken.delta \in Amount /\ \A s \in Side : taken.pnl[s] < Total[s]
  <2>1. CASE status = "WithdrawOnly"
    <3>1. \A s \in Side : 0 < Total[s]
      BY <1>4 DEF Amount, Side
    <3> QED
      BY <1>2, <1>3, <2>1, <3>1
  <2>2. CASE status # "WithdrawOnly"
    BY <1>1, <1>2, <2>2, TakenFacts
  <2> QED
    BY <2>1, <2>2
<1>6. total \in Amount /\ \A s \in Side : total[s] # 0 /\ total[s] = Total[s] - taken.pnl[s]
  <2>1. \A s \in Side : Total[s] \in Nat /\ taken.pnl[s] \in Nat /\ taken.pnl[s] <= Total[s]
                       /\ Total[s] - taken.pnl[s] # 0
    BY <1>4, <1>5 DEF Amount, Side
  <2>2. total \in Amount
    BY <1>4, <1>5, <2>1, ArithmeticType DEF AtMost
  <2>3. \A s \in Side : total[s] = Total[s] - taken.pnl[s]
    BY DEF Minus
  <2> QED
    BY <2>1, <2>2, <2>3
<1>7. lpAmount \in Nat /\ lpSupply \in Nat /\ lp < lpAmount /\ lp <= lpSupply /\ lp <= lpOf[u]
  BY DEF Withdraw, LedgerInv, TypeOK
<1>8. out \in Amount /\ \A s \in Side : out[s] < total[s]
  BY <1>6, <1>7, WithdrawLeaves
<1>9. \A s \in Side :
        /\ vault[s] \in Nat /\ needTakePnl[s] \in Nat /\ out[s] \in Nat /\ taken.pnl[s] \in Nat
        /\ out[s] < vault[s] - needTakePnl[s] - taken.pnl[s]
  <2> SUFFICES ASSUME NEW s \in Side
               PROVE  /\ vault[s] \in Nat /\ needTakePnl[s] \in Nat
                      /\ out[s] \in Nat /\ taken.pnl[s] \in Nat
                      /\ out[s] < vault[s] - needTakePnl[s] - taken.pnl[s]
    OBVIOUS
  <2>1. /\ vault[s] \in Nat /\ needTakePnl[s] \in Nat /\ out[s] \in Nat /\ taken.pnl[s] \in Nat
    BY <1>5, <1>8 DEF LedgerInv, TypeOK, Amount
  <2> QED
    BY <1>4, <1>6, <1>8, <2>1
<1>10. /\ wallet' \in [Users -> Amount] /\ vault' \in Amount
       /\ \A s \in Side : vault'[s] = vault[s] + 0 - out[s]
  <2>1. \A s \in Side : out[s] <= vault[s] + Zero[s]
    BY <1>3, <1>9 DEF Side
  <2>2. AtMost(Zero, wallet[u])
    BY <1>3 DEF AtMost, LedgerInv, TypeOK, Amount, Side
  <2> QED
    BY <1>2, <1>3, <1>8, <2>1, <2>2, TransferFacts DEF LedgerInv
<1>11. needTakePnl' \in Amount /\ \A s \in Side : needTakePnl'[s] = needTakePnl[s] + taken.pnl[s]
  BY <1>2, <1>5, ArithmeticType DEF LedgerInv, TypeOK, Plus
<1>12. calcPnl' \in Amount
  <2> DEFINE gone == Normalize(out, Unit, Sys)
  <2>1. gone \in Amount
    BY <1>8, ConstantFacts, NormalizeType
  <2>2. calcPnl' = Minus(Minus(Normalized, gone), taken.delta) /\ \A s \in Side : calcPnl'[s] >= 0
    BY <1>2
  <2>3. \A s \in Side : calcPnl'[s] = Normalized[s] - gone[s] - taken.delta[s]
    BY <2>2 DEF Minus
  <2>4. \A s \in Side : Normalized[s] - gone[s] - taken.delta[s] \in Nat
    BY <1>4, <1>5, <2>1, <2>2, <2>3 DEF Amount, Side
  <2>5. calcPnl' = [s \in Side |-> calcPnl'[s]]
    BY <2>2 DEF Minus
  <2> QED
    BY <2>3, <2>4, <2>5 DEF Amount
<1>13. /\ lpAmount' = lpAmount - lp /\ lpSupply' = lpSupply - lp
       /\ lpOf' \in [Users -> Nat]
  BY <1>2, <1>7 DEF BurnLp, LedgerInv, TypeOK
<1>14. UNCHANGED <<params, now, pnlPaid>>
  BY DEF Withdraw
<1>15. TypeOK'
  BY <1>1, <1>7, <1>10, <1>11, <1>12, <1>13, <1>14 DEF LedgerInv, TypeOK, params
<1>16. LockedLiquidity'
  BY <1>1, <1>7, <1>13, ConstantFacts DEF LedgerInv, LockedLiquidity, Positive
<1>17. ReservesStayPositive'
  BY <1>9, <1>10, <1>11 DEF ReservesStayPositive, Side
<1> QED
  BY <1>15, <1>16, <1>17 DEF LedgerInv

(* Both swap instructions end in an exchange that leaves reserves on both  *)
(* sides.                                                                  *)
LEMMA SwapKeeps ==
  ASSUME LedgerInv, NEW u \in Users, NEW src \in Side, NEW amount \in Nat, NEW limit \in Nat,
         SwapBaseIn(u, src, amount, limit) \/ SwapBaseOut(u, src, limit, amount)
  PROVE  LedgerInv'
<1>1. Live /\ status' \in LedgerStatus
  BY OpenForSwapFacts DEF SwapBaseIn, SwapBaseOut
<1>2. Total \in Amount /\ \A s \in Side : Total[s] # 0
  BY <1>1, TotalFacts
<1>3. fees.swap \in Fraction
  BY DEF LedgerInv, TypeOK, FeeSet
<1>4. CASE SwapBaseIn(u, src, amount, limit)
  BY <1>1, <1>2, <1>3, <1>4, SwapQuoteType, ExchangeKeeps DEF SwapBaseIn
<1>5. CASE SwapBaseOut(u, src, limit, amount)
  BY <1>1, <1>2, <1>3, <1>5, SwapQuoteType, ExchangeKeeps DEF SwapBaseOut
<1> QED
  BY <1>4, <1>5

(* process_withdrawpnl pays what was set aside and a share that is below   *)
(* the reserves.                                                           *)
LEMMA WithdrawPnlKeeps == LedgerInv /\ WithdrawPnl => LedgerInv'
<1> SUFFICES ASSUME LedgerInv, WithdrawPnl PROVE LedgerInv'
  OBVIOUS
<1>1. Live /\ UNCHANGED <<params, now, lpAmount, lpSupply, wallet, lpOf>>
  BY DEF WithdrawPnl
<1>2. PICK taken \in CalcTakePnl :
        /\ vault' = Minus(vault, Plus(needTakePnl, taken.pnl))
        /\ pnlPaid' = Plus(pnlPaid, Plus(needTakePnl, taken.pnl))
        /\ needTakePnl' = Zero
        /\ calcPnl' = Minus(Normalized, taken.delta)
  BY DEF WithdrawPnl
<1> DEFINE owed == Plus(needTakePnl, taken.pnl)
<1>3. /\ taken.pnl \in Amount /\ taken.delta \in Amount /\ AtMost(taken.delta, Normalized)
      /\ Normalized \in Amount
      /\ \A s \in Side : taken.pnl[s] < vault[s] - needTakePnl[s]
  BY <1>1, TotalFacts, TakenFacts
<1>4. owed \in Amount /\ \A s \in Side : owed[s] = needTakePnl[s] + taken.pnl[s]
  BY <1>3, ArithmeticType DEF LedgerInv, TypeOK, Plus
<1>5. \A s \in Side : vault[s] \in Nat /\ owed[s] \in Nat /\ owed[s] < vault[s]
  <2> SUFFICES ASSUME NEW s \in Side
               PROVE  vault[s] \in Nat /\ owed[s] \in Nat /\ owed[s] < vault[s]
    OBVIOUS
  <2>1. vault[s] \in Nat /\ needTakePnl[s] \in Nat /\ taken.pnl[s] \in Nat
    BY <1>3 DEF LedgerInv, TypeOK, Amount
  <2> QED
    BY <1>3, <1>4, <2>1
<1>6. vault' \in Amount
  <2>1. AtMost(owed, vault)
    BY <1>5 DEF AtMost, Side
  <2> QED
    BY <1>2, <1>4, <2>1, ArithmeticType DEF LedgerInv, TypeOK
<1>7. Zero \in Amount /\ \A s \in Side : Zero[s] = 0
  BY DEF Zero, Amount
<1>8. \A s \in Side : 0 < vault'[s]
  <2>1. \A s \in Side : vault'[s] = vault[s] - owed[s]
    BY <1>2 DEF Minus
  <2> QED
    BY <1>5, <2>1 DEF Side
<1>9. calcPnl' \in Amount /\ pnlPaid' \in Amount
  BY <1>2, <1>3, <1>4, ArithmeticType DEF LedgerInv, TypeOK
<1>10. TypeOK'
  BY <1>1, <1>2, <1>6, <1>7, <1>9 DEF LedgerInv, TypeOK, params
<1>11. LockedLiquidity'
  BY <1>1 DEF LedgerInv, LockedLiquidity, Live, params
<1>12. ReservesStayPositive'
  BY <1>2, <1>7, <1>8 DEF ReservesStayPositive
<1> QED
  BY <1>10, <1>11, <1>12 DEF LedgerInv

(* A gift only raises a vault.                                             *)
LEMMA DonateKeeps ==
  ASSUME LedgerInv, NEW u \in Users, NEW side \in Side, Donate(u, side)
  PROVE  LedgerInv'
<1>1. Zero \in Amount /\ \A s \in Side : Zero[s] = 0
  BY DEF Zero, Amount
<1>2. Only(side, 1) \in Amount /\ \A s \in Side : Only(side, 1)[s] = IF s = side THEN 1 ELSE 0
  BY OnlyFacts
<1>3. \A s \in Side : vault[s] \in Nat /\ needTakePnl[s] \in Nat /\ wallet[u][s] \in Nat
  BY DEF LedgerInv, TypeOK, Amount
<1>4. AtMost(Only(side, 1), wallet[u])
  BY <1>2, <1>3 DEF AtMost, Donate, Side
<1>5. /\ wallet' \in [Users -> Amount] /\ vault' \in Amount
      /\ \A s \in Side : vault'[s] = vault[s] + Only(side, 1)[s] - 0
  <2>1. \A s \in Side : Zero[s] <= vault[s] + Only(side, 1)[s]
    BY <1>1, <1>2, <1>3 DEF Side
  <2> QED
    BY <1>1, <1>2, <1>4, <2>1, TransferFacts DEF Donate, LedgerInv
<1>6. UNCHANGED <<params, now, needTakePnl, calcPnl, lpAmount, lpSupply, lpOf, pnlPaid>>
  BY DEF Donate
<1>7. TypeOK'
  BY <1>5, <1>6 DEF LedgerInv, TypeOK, params
<1>8. LockedLiquidity'
  BY <1>6 DEF LedgerInv, LockedLiquidity, Live, params
<1>9. ReservesStayPositive'
  BY <1>2, <1>3, <1>5, <1>6 DEF LedgerInv, ReservesStayPositive, Live, params, Side
<1> QED
  BY <1>7, <1>8, <1>9 DEF LedgerInv

(* A holder who burns his lp tokens leaves more locked.                    *)
LEMMA BurnOwnLpKeeps ==
  ASSUME LedgerInv, NEW u \in Users, BurnOwnLp(u)
  PROVE  LedgerInv'
<1>1. /\ lpOf[u] \in Nat /\ lpOf[u] # 0 /\ lpOf' = [lpOf EXCEPT ![u] = @ - 1]
      /\ lpSupply \in Nat /\ lpSupply # 0 /\ lpSupply' = lpSupply - 1
      /\ lpAmount \in Nat
      /\ UNCHANGED <<params, now, vault, needTakePnl, calcPnl, lpAmount, wallet, pnlPaid>>
  BY DEF BurnOwnLp, LedgerInv, TypeOK
<1>2. lpOf' \in [Users -> Nat]
  BY <1>1 DEF LedgerInv, TypeOK
<1>3. TypeOK'
  BY <1>1, <1>2 DEF LedgerInv, TypeOK, params
<1>4. LockedLiquidity'
  BY <1>1, ConstantFacts DEF LedgerInv, LockedLiquidity, Live, params, Positive
<1>5. ReservesStayPositive'
  BY <1>1 DEF LedgerInv, ReservesStayPositive, Live, params
<1> QED
  BY <1>3, <1>4, <1>5 DEF LedgerInv

(* The administrator and the clock leave the ledger alone. *)
LEMMA ParamsKeep ==
  ASSUME LedgerInv,
         \/ \E value \in LedgerStatus : SetStatus(value)
         \/ \E value \in FeeSet : SetFees(value)
         \/ \E value \in Nat : SetOpenTime(value)
         \/ Tick
  PROVE  LedgerInv'
<1>1. /\ status' \in LedgerStatus \cup {"Uninitialized"}
      /\ Live' => Live
      /\ now' \in Nat /\ openTime' \in Nat /\ fees' \in FeeSet
      /\ UNCHANGED ledger
  BY DEF SetStatus, SetFees, SetOpenTime, Tick, params, LedgerInv, TypeOK, Live
<1>2. TypeOK'
  BY <1>1 DEF LedgerInv, TypeOK, ledger
<1> QED
  BY <1>1, <1>2 DEF LedgerInv, LockedLiquidity, ReservesStayPositive, ledger

(* A step that changes nothing keeps the invariant.                        *)
LEMMA StutterKeeps == LedgerInv /\ UNCHANGED vars => LedgerInv'
BY DEF LedgerInv, TypeOK, LockedLiquidity, ReservesStayPositive, Live, vars

(* Every step keeps the invariant.                                         *)
LEMMA StepKeeps == LedgerInv /\ [Next]_vars => LedgerInv'
<1> SUFFICES ASSUME LedgerInv, [Next]_vars PROVE LedgerInv'
  OBVIOUS
<1>1. CASE UNCHANGED vars
  BY <1>1, StutterKeeps
<1> SUFFICES ASSUME Next PROVE LedgerInv'
  BY <1>1
<1>2. ASSUME NEW u \in Users, NEW coin \in Nat, NEW pc \in Nat, NEW open \in Nat,
             Initialize2(u, Amounts(coin, pc), open)
      PROVE  LedgerInv'
  <2>1. Amounts(coin, pc) \in Amount
    BY DEF Amounts, Amount
  <2> QED
    BY <1>2, <2>1, Initialize2Keeps
<1>3. ASSUME NEW u \in Users, NEW base \in Side, NEW max \in Amount, NEW otherMin \in Nat,
             Deposit(u, base, max, otherMin)
      PROVE  LedgerInv'
  BY <1>3, DepositKeeps
<1>4. ASSUME NEW u \in Users, NEW lp \in Nat, NEW min \in Amount, Withdraw(u, lp, min)
      PROVE  LedgerInv'
  BY <1>4, WithdrawKeeps
<1>5. ASSUME NEW u \in Users, NEW src \in Side, NEW amount \in Nat, NEW limit \in Nat,
             SwapBaseIn(u, src, amount, limit) \/ SwapBaseOut(u, src, limit, amount)
      PROVE  LedgerInv'
  BY <1>5, SwapKeeps
<1>6. CASE WithdrawPnl
  BY <1>6, WithdrawPnlKeeps
<1>7. CASE \/ \E value \in LedgerStatus : SetStatus(value)
           \/ \E value \in FeeSet : SetFees(value)
           \/ \E value \in Nat : SetOpenTime(value)
           \/ Tick
  BY <1>7, ParamsKeep
<1>8. ASSUME NEW u \in Users, NEW s \in Side, Donate(u, s)
      PROVE  LedgerInv'
  BY <1>8, DonateKeeps
<1>9. ASSUME NEW u \in Users, BurnOwnLp(u)
      PROVE  LedgerInv'
  BY <1>9, BurnOwnLpKeeps
<1> QED
  BY <1>2, <1>3, <1>4, <1>5, <1>6, <1>7, <1>8, <1>9, NextCases, FeesAssumption

(* Every reachable state of the ledger satisfies the inductive invariant.  *)
THEOREM Invariance == Spec => []LedgerInv
BY InitKeeps, StepKeeps, PTL DEF Spec

-----------------------------------------------------------------------------
(* Every balance, fee and share of a reachable state is one the program    *)
(* could have stored: no instruction subtracts below zero.                 *)
THEOREM TypeCorrect == Spec => []TypeOK
<1>1. LedgerInv => TypeOK
  BY DEF LedgerInv
<1> QED
  BY <1>1, Invariance, PTL

(* amm.lp_amount always exceeds the lp supply by the withheld liquidity,   *)
(* so that no holder can redeem the whole pool and process_deposit never   *)
(* meets NotAllowZeroLP.                                                   *)
THEOREM LiquidityStaysLocked == Spec => []LockedLiquidity
<1>1. LedgerInv => LockedLiquidity
  BY DEF LedgerInv
<1> QED
  BY <1>1, Invariance, PTL

(* No sequence of deposits, withdrawals, swaps and pnl payments empties a  *)
(* reserve or makes the pool owe the protocol all that it holds.           *)
THEOREM ReservesNeverEmpty == Spec => []ReservesStayPositive
<1>1. LedgerInv => ReservesStayPositive
  BY DEF LedgerInv
<1> QED
  BY <1>1, Invariance, PTL
=============================================================================
