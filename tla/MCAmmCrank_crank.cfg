CONSTANTS
  Unit <- One
  Sys = 4
  Tick = 1
  MinMultiplier = 1
  MaxMultiplier = 8
  SwapFee <- MCFee
  InitVault <- MCVault
  Owed <- PcOwed
  Limits = {1, 2}
  LevelLocks <- MCLocks
  Gains = {2}
  SwapAmounts = {3}
  MaxOrderNum = 2
  SlotLimit = 3
  MaxMoves = 2
SPECIFICATION FairSpec
CHECK_DEADLOCK FALSE
INVARIANTS
  TypeOK
  ExactTotals
  SlotsBounded
  NothingLeftBehind
  PlacesWithinPlan
  BidsAreFunded
PROPERTIES
  ResetServed
  BookSettles
  BookMatchesReserves
  AdviceKeepsBookCurrent
