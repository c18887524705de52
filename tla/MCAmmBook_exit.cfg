CONSTANTS
  Unit <- MCUnit
  SysChoices = {1, 2}
  SwapFee <- Quarter
  PnlShare <- Third
  OrderFee <- Quarter
  InitVault <- MCVault
  InitLp = 8
  StatusChoices = {"Initialized", "WithdrawOnly"}
  Amounts = {3, 6}
  Shares = {2, 5}
  Prices = {1, 3, 5}
  Sizes = {1, 3}
  MaxMoves = 4
SPECIFICATION Spec
CHECK_DEADLOCK FALSE
INVARIANT HolderCanExit
