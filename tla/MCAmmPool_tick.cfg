CONSTANTS
  Users = {u1}
  CoinWealth = 16
  PcWealth = 16
  Wealth <- MCWealth
  CoinUnit = 10
  PcUnit = 10
  Unit <- MCUnit
  CoinLot = 13
  PcLot = 1
  DefaultFees <- MCDefaultFees
  FeeChoices <- MCFeeChoices
  StatusChoices = {"WithdrawOnly", "SwapOnly"}
  Limits = {0, 99}
  MaxTime = 0
SPECIFICATION Spec
INVARIANTS
  RootWithinReserves
