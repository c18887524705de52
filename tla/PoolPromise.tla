----------------------------- MODULE PoolPromise -----------------------------
(***************************************************************************)
(* What a pool promises to the holders of its lp tokens, without saying    *)
(* how amounts are computed: a constant-product market whose holders own   *)
(* the reserves in proportion to their shares, and whose protocol is paid  *)
(* out of growth.  AmmPool implements it (MCPoolPromise).                  *)
(***************************************************************************)
EXTENDS AmmMath

CONSTANT
  Dust      \* what rounding may cost those who stay when a holder leaves

VARIABLES
  reserve,  \* what the holders own
  shares,   \* what their claims are divided by
  owed,     \* set aside for the protocol
  mark      \* the reserves that growth is measured from

vars == <<reserve, shares, owed, mark>>

Init == reserve = Zero /\ shares = 0 /\ owed = Zero /\ mark = Zero

Stocked(t) == \A s \in Side : t[s] > 0

(* The first deposit. *)
Open ==
  /\ shares = 0 /\ shares' > 0
  /\ Stocked(reserve')
  /\ mark' = reserve'
  /\ owed' = owed

(* A trade or a gift: the product of the reserves does not fall, nothing   *)
(* else moves, and no side is emptied.                                     *)
Trade ==
  /\ shares > 0
  /\ Stocked(reserve')
  /\ Product(reserve') >= Product(reserve)
  /\ UNCHANGED <<shares, owed, mark>>

(* The protocol sets aside skim; what is left covers the old mark. *)
Skim(skim) ==
  /\ AtMost(Zero, skim)
  /\ Product(Minus(reserve, skim)) >= Product(mark)

(* After a skim, the shares change: no remaining share loses any part of   *)
(* either token, and the new mark is not above the reserves.               *)
Resize ==
  /\ shares > 0 /\ shares' > 0
  /\ LET skim == Minus(owed', owed) IN
       /\ Skim(skim)
       /\ \A s \in Side : reserve'[s] * shares >= (reserve[s] - skim[s]) * shares'
  /\ Stocked(reserve')
  /\ Product(mark') <= Product(reserve')

(* The amounts t behind the new shares are worth, share for share, at      *)
(* least what the mark was.                                                *)
WorthMark(t) == Product(t) * shares * shares >= Product(mark) * shares' * shares'

(* Holders join: the mark rises with the growth. *)
Join == Resize /\ shares' > shares /\ WorthMark(mark')

(* Holders leave: it does, but for dust. *)
Leave == Resize /\ shares' < shares /\ WorthMark(Plus(mark', Dust))

(* The protocol collects what it is owed, skimming once more. *)
Collect ==
  /\ shares > 0
  /\ Skim(Minus(reserve, reserve'))
  /\ Product(mark) <= Product(mark') /\ Product(mark') <= Product(reserve')
  /\ owed' = Zero
  /\ UNCHANGED shares

Next == Open \/ Trade \/ Join \/ Leave \/ Collect

Spec == Init /\ [][Next]_vars
=============================================================================
