CONSTANTS
  MaxReserve = 80
  Reserves <- MCReserves
  Unit <- CoinTen
  CoinLot = 2
  PcLot = 1
  OrderNum = 4
  Depth = 60
  TradeFee <- MCFee
  MinSeparate = 1
  CutRatio = 2000
  LastOrder <- MCLastOrder
SPECIFICATION Spec
CHECK_DEADLOCK FALSE
INVARIANTS
  TypeOK
  PlanNeverFails
  BidsKeepProduct
  NeverCrosses
  Funded
  AsksKeepProduct
