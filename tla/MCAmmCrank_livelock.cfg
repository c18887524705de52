CONSTANTS
  Unit <- One
  Sys = 4
  Tick = 1
  MinMultiplier = 1
  MaxMultiplier = 3
  SwapFee <- MCFee
  InitVault <- CoinHeavy
  Owed <- Zero
  Limits = {2}
  LevelLocks <- OneLock
  Gains = {1, 2}
  SwapAmounts = {3}
  MaxOrderNum = 2
  SlotLimit = 3
  MaxMoves = 0
SPECIFICATION FairSpec
CHECK_DEADLOCK FALSE
PROPERTY BookAlwaysSettles
