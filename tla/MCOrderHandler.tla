--------------------------- MODULE MCOrderHandler ---------------------------
(***************************************************************************)
(* Small instances of OrderHandler for TLC.                                *)
(***************************************************************************)
EXTENDS OrderHandler

CONSTANTS a1, a2, k1, k2, usdc

\* Governance switches one operation of users and one of keepers.
MCFeatures == {<<"execute", "MarketIncrease">>, <<"cancel", "LimitDecrease">>}
=============================================================================
