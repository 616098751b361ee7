-------------------------- MODULE MCDepositHandler --------------------------
(***************************************************************************)
(* Small instances of DepositHandler for TLC.                              *)
(***************************************************************************)
EXTENDS DepositHandler

CONSTANTS a1, k1, usdc
=============================================================================
