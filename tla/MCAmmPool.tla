------------------------------ MODULE MCAmmPool ------------------------------
(* Instances of AmmPool for TLC. *)
EXTENDS AmmPool

CONSTANTS
  CoinWealth,  \* coin that the users hold at the start
  PcWealth,    \* pc that the users hold at the start
  CoinUnit,    \* 10^coin_decimals
  PcUnit       \* 10^pc_decimals

MCWealth == [u \in Users |-> [s \in Side |-> IF s = "coin" THEN CoinWealth ELSE PcWealth]]

MCUnit == [s \in Side |-> IF s = "coin" THEN CoinUnit ELSE PcUnit]

(* Fees::initialize. *)
MCDefaultFees == [swap |-> [num |-> 25, den |-> 10000], pnl |-> [num |-> 12, den |-> 100]]

(* Fractions coarse enough for small amounts to pay a fee and a share. *)
MCFeeChoices == {[swap |-> [num |-> 1, den |-> 4], pnl |-> [num |-> 1, den |-> 3]]}
=============================================================================
