------------------------------ MODULE MCAmmBook ------------------------------
(* Bounded checking of a pool with orders on the book: a dozen units of    *)
(* each token, one order a side, a handful of moves.                       *)
EXTENDS AmmBook

MCUnit == [s \in Side |-> 1]

MCVault == [s \in Side |-> IF s = "coin" THEN 6 ELSE 12]

Quarter == [num |-> 1, den |-> 4]

Third == [num |-> 1, den |-> 3]
=============================================================================
