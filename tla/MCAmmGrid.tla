------------------------------ MODULE MCAmmGrid ------------------------------
(***************************************************************************)
(* Bounded checking of the grid: every plan from reserves up to MaxReserve *)
(* of either token.                                                        *)
(***************************************************************************)
EXTENDS AmmGrid

CONSTANTS MaxReserve

MCReserves == [Side -> 1 .. MaxReserve]

CoinTen == [s \in Side |-> IF s = "coin" THEN 10 ELSE 1]

MCFee == [num |-> 1, den |-> 40]

MCLastOrder == [num |-> 3, den |-> 2]

(* The rule that Calculator::fibonacci computes the sequence with. *)
ASSUME FibonacciRule ==
  \A i \in 4 .. Len(Fibonacci) : Fibonacci[i] = Fibonacci[i - 1] + Fibonacci[i - 2]
=============================================================================
