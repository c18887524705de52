---------------------------- MODULE MCPoolPromise ----------------------------
(* AmmPool implements PoolPromise: the holders own the vaults without the  *)
(* profit owed, and the mark is the baseline, all in the normalized units  *)
(* in which calc_take_pnl compares them.                                   *)
EXTENDS MCAmmPool

Promise == INSTANCE PoolPromise WITH
  reserve <- IF Live THEN Normalized ELSE Zero,
  shares  <- lpAmount,
  owed    <- Normalize(needTakePnl, Unit, Sys),
  mark    <- calcPnl,
  Dust    <- Dust

(* Every instruction, in every status, keeps what the pool promises to the *)
(* holders of its lp tokens.                                               *)
KeepsPromise == Promise!Spec
=============================================================================
