------------------------------ MODULE MCAmmMath ------------------------------
(***************************************************************************)
(* Bounded checking of the pool's arithmetic.  A behaviour is one probe, a *)
(* record of inputs; TLC enumerates every probe as an initial state and    *)
(* evaluates the properties on it.                                         *)
(***************************************************************************)
EXTENDS AmmMath

CONSTANTS
  MaxReserve,   \* largest reserve of a side, in native units
  MaxAmount,    \* largest amount of an instruction
  MaxLp,        \* largest lp_amount
  Fees,         \* fractions used as swap fee
  MaxBaseline,  \* largest side of a normalized baseline
  Shares,       \* fractions used as the protocol's share of the profit
  Unit,         \* 10^decimals of each token
  Sys           \* sys_decimal_value

ASSUME ProbeAssumption ==
  /\ MaxReserve \in Nat /\ MaxAmount \in Nat /\ MaxLp \in Nat /\ MaxBaseline \in Nat
  /\ Fees \subseteq Fraction /\ Shares \subseteq Fraction
  /\ Unit \in [Side -> Nat \ {0}] /\ Sys \in Nat \ {0}

VARIABLE probe

MCFees == {[num |-> 0, den |-> 1], [num |-> 1, den |-> 4], [num |-> 25, den |-> 10000], [num |-> 9, den |-> 10]}

MCShares == {[num |-> 12, den |-> 100], [num |-> 1, den |-> 4], [num |-> 1, den |-> 3]}

One == [s \in Side |-> 1]

CoinTen == [s \in Side |-> IF s = "coin" THEN 10 ELSE 1]

Reserves == [Side -> 1 .. MaxReserve]

(* Inputs of a swap, and of a deposit into a pool of lp liquidity. *)
QuoteProbes ==
  [kind : {"quote"}, total : Reserves, side : Side, amount : 1 .. MaxAmount, fee : Fees, lp : 1 .. MaxLp]

(* Inputs of calc_take_pnl: any reserves and any baseline that they cover. *)
PnlProbes ==
  {p \in [kind : {"pnl"}, total : Reserves, calc : [Side -> 1 .. MaxBaseline], share : Shares] :
     Product(p.calc) <= Product(Normalize(p.total, Unit, Sys))}

Quoted == probe.kind = "quote"

Settled == probe.kind = "pnl"

Spec == probe \in QuoteProbes \cup PnlProbes /\ [][UNCHANGED probe]_probe

-----------------------------------------------------------------------------
In == QuoteBaseOut(probe.amount, probe.total, probe.side, probe.fee)

Out == QuoteBaseIn(probe.amount, probe.total, probe.side, probe.fee)

(* A swap that process_swap_base_in executes (its output is not zero and   *)
(* below the reserve) never lowers the product of the reserves.            *)
BaseInKeepsProduct ==
  Quoted /\ Out # 0 =>
    Product(After(probe.total, probe.side, probe.amount, Out)) >= Product(probe.total)

(* A swap that process_swap_base_out executes (its input is not zero, its  *)
(* output below the reserve) never lowers the product of the reserves,     *)
(* although checked_ceil_div does not always round up.                     *)
BaseOutKeepsProduct ==
  Quoted /\ probe.amount < probe.total[Other(probe.side)] /\ In # 0 =>
    Product(After(probe.total, probe.side, In, probe.amount)) >= Product(probe.total)

(* The two swap instructions quote one price: paying through swap_base_in  *)
(* what swap_base_out asks for an output yields at least that output.      *)
QuotesAgree ==
  Quoted /\ probe.amount < probe.total[Other(probe.side)] /\ In # 0 =>
    QuoteBaseIn(In, probe.total, probe.side, probe.fee) >= probe.amount

(* ... and buying through swap_base_out the output that swap_base_in gives *)
(* for an input never costs more than that input, unless swap_base_in      *)
(* rounded its fee down (which it does only to zero).                      *)
QuotesAgreeBack ==
  LET fee == SwapFeeIn(probe.amount, probe.fee) IN
  Quoted /\ Out # 0 /\ fee * probe.fee.den >= probe.amount * probe.fee.num =>
    QuoteBaseOut(Out, probe.total, probe.side, probe.fee) <= probe.amount

(* Whoever asks a simulation first gets an answer for every swap that the  *)
(* handlers execute, provided a coin is worth a pc at least; when he sells *)
(* coin, a loss of the whole price at most.  The simulations panic in      *)
(* pools whose whole price is zero, which the handlers serve.              *)
SimulationAnswers ==
  LET answers(in, out) ==
        LET after == After(probe.total, probe.side, in, out) IN
        /\ ~SimulationPanics(probe.total, after, probe.side)
        /\ probe.side = "coin" => PriceImpact(probe.total, after, probe.side) <= 1000000
  IN
  Quoted /\ probe.total["pc"] >= probe.total["coin"] =>
    /\ Out # 0 => answers(probe.amount, Out)
    /\ probe.amount < probe.total[Other(probe.side)] /\ In # 0 => answers(In, probe.amount)

-----------------------------------------------------------------------------
Deduct == DepositDeduct(probe.side, probe.amount, probe.total)

Mint == DepositMint(probe.side, probe.amount, probe.total, probe.lp)

(* Depositing and withdrawing the minted liquidity at once never returns   *)
(* more of either token than was paid, whichever side the deposit is based *)
(* on and however its two divisions round.                                 *)
RoundTripNeverProfits ==
  Quoted /\ Mint # 0 /\ (\A s \in Side : Deduct[s] # 0) =>
    AtMost(WithdrawOut(Mint, Plus(probe.total, Deduct), probe.lp + Mint), Deduct)

-----------------------------------------------------------------------------
X1Y1 == Normalize(probe.total, Unit, Sys)

Root == CHOOSE r \in 0 .. X1Y1["pc"] : IsIntegerSqrt(r, CalcXPower(probe.calc, X1Y1))

Pnl == TakePnl(X1Y1, Root, probe.share, Unit, Sys)

Delta == TakeDelta(X1Y1, Root, probe.share, Unit, Sys)

(* The protocol's share comes out of the profit: when the reserves cover   *)
(* the baseline, what is left of them after the share still covers it, in  *)
(* native amounts and in the normalized ones the next baseline is built    *)
(* from.                                                                   *)
ShareLeavesBaseline ==
  Settled =>
  /\ Product(Minus(probe.total, Pnl)) >= Product(Restore(probe.calc, Unit, Sys))
  /\ Product(Minus(X1Y1, Delta)) >= Product(probe.calc)

(* The normalized reserves recorded as the next baseline never exceed the  *)
(* native reserves that remain: the two fractions round the same way.      *)
DeltaCoversPnl ==
  Settled => AtMost(Minus(X1Y1, Delta), Normalize(Minus(probe.total, Pnl), Unit, Sys))
=============================================================================
