CONSTANTS
  Users = {u1}
  CoinWealth = 9
  PcWealth = 8
  Wealth <- MCWealth
  CoinUnit = 2
  PcUnit = 1
  Unit <- MCUnit
  CoinLot = 1
  PcLot = 1
  DefaultFees <- MCDefaultFees
  FeeChoices <- MCFeeChoices
  StatusChoices = {"WithdrawOnly", "SwapOnly", "WaitingTrade"}
  Limits = {0, 99}
  MaxTime = 1
SPECIFICATION Spec
INVARIANTS
  TypeOK
  LockedLiquidity
  ReservesStayPositive
  BaselineCovered
  CalcTakePnlNeverFails
  HolderCanExit
PROPERTIES
  KeepsPromise
  BaselinePerShareNeverFalls
