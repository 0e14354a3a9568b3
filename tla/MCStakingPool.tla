--------------------------- MODULE MCStakingPool ---------------------------
(***************************************************************************)
(* StakingPool with a few small amounts.  Amounts that do not divide each  *)
(* other make every conversion between SUI and pool tokens round.          *)
(***************************************************************************)
EXTENDS StakingPool
=============================================================================
