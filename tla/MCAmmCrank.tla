------------------------------ MODULE MCAmmCrank ------------------------------
(***************************************************************************)
(* Bounded checking of the crank: a few units of each token, two levels of *)
(* orders, a handful of moves by everybody else.                           *)
(***************************************************************************)
EXTENDS AmmCrank

One == [s \in Side |-> 1]

MCVault == [s \in Side |-> IF s = "coin" THEN 4 ELSE 3]

CoinHeavy == [s \in Side |-> IF s = "coin" THEN 4 ELSE 2]

Lock(coin, pc) == [s \in Side |-> IF s = "coin" THEN coin ELSE pc]

(* Levels of two orders and of one.                                        *)
MCLocks == {Lock(2, 2), Lock(2, 0), Lock(0, 2)}

OneLock == {Lock(2, 1)}

PcOwed == [s \in Side |-> IF s = "pc" THEN 1 ELSE 0]

MCFee == [num |-> 1, den |-> 4]
=============================================================================
