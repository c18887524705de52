------------------------------ MODULE AmmStatus ------------------------------
(* AmmStatus of src/program/src/state.rs: the values of amm.status and what *)
(* each of them permits.                                                   *)

DepositPermission == {"Initialized", "LiquidityOnly", "OrderBookOnly", "SwapOnly", "WaitingTrade"}

WithdrawPermission == DepositPermission \cup {"WithdrawOnly"}

SwapPermission == {"Initialized", "SwapOnly", "WaitingTrade"}

OrderbookPermission == {"Initialized", "OrderBookOnly"}

ValidStatus == WithdrawPermission \cup {"Disabled"}
=============================================================================
