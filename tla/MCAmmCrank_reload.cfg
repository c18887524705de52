CONSTANTS
  Unit <- One
  Sys = 1
  Tick = 1
  MinMultiplier = 1
  MaxMultiplier = 3
  SwapFee <- MCFee
  InitVault <- MCVault
  Owed <- One
  Limits = {1, 2}
  LevelLocks <- MCLocks
  Gains = {1, 2}
  SwapAmounts = {3}
  MaxOrderNum = 2
  SlotLimit = 3
  MaxMoves = 2
SPECIFICATION Spec
CHECK_DEADLOCK FALSE
INVARIANT AsksAreFunded
