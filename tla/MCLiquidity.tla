----------------------------- MODULE MCLiquidity ----------------------------
(***************************************************************************)
(* A small instance of Liquidity for TLC.                                  *)
(***************************************************************************)
EXTENDS Liquidity

CONSTANTS a1, k1
=============================================================================
