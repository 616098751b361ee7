------------------------------ MODULE MCClients -----------------------------
(***************************************************************************)
(* Casts for Clients and Subaccounts: every script alone, scripts that     *)
(* want the same tokens together, helpers after one another, and a script  *)
(* beside a subaccount; wallets that have nothing, and that have some.     *)
(***************************************************************************)
EXTENDS Subaccounts

MCTokens == {"WNT", "WETH", "USDC", "WBTC", "GMweth", "GMwnt", "GMwbtc", "GMsynthetic"}
MCWallets == {[t \in Tokens |-> 0], [t \in Tokens |-> IF t = Wnt THEN 10 ELSE 6]}

Scripts ==
  {"createDepositWethUsdc", "createDepositWgasUsdc", "createDepositWnt", "createDepositWbtcUsdt",
   "createDepositSynthetic", "createWithdrawalWethUsdc", "createWithdrawalWntStable",
   "createOrder", "createMarketIncreaseLongWethUsdc", "createMarketIncreaseLongSynthetic",
   "createLimitLongWethUsdc", "createMarketIncreaseLongWntStable", "createMarketSwapWethWgas",
   "createLimitSwapWethWgas", "createMarketDecreaseLongWethUsdc",
   "createMarketDecreaseLongWntStable", "createLimitDecreaseLongWethUsdc",
   "createStopLossDecreaseLongWethUsdc", "createLiquidationOrder"}

\* One script of each shape, beside one that takes WETH and stablecoins, one that
\* takes wrapped native tokens, one whose approval is not for good.
Shapes ==
  {"createDepositWethUsdc", "createDepositWgasUsdc", "createDepositWnt", "createDepositWbtcUsdt",
   "createDepositSynthetic", "createWithdrawalWethUsdc", "createWithdrawalWntStable",
   "createMarketSwapWethWgas", "createMarketDecreaseLongWntStable"}
Rivals ==
  (Shapes \X {"createMarketIncreaseLongWethUsdc", "createMarketIncreaseLongWntStable"})
  \cup ({"createDepositWethUsdc", "createDepositWnt", "createOrder"} \X {"createOrder"})
  \cup {<<"createWithdrawalWethUsdc", "createWithdrawalWethUsdc">>,
        <<"createDepositWgasUsdc", "createDepositWnt">>}

Tests ==
  {<<"handleDepositUnderpaid", "handleDeposit">>, <<"handleDeposit", "handleWithdrawal">>,
   <<"handleOrderUnderpaid", "handleOrder">>, <<"handleOrder", "handleDeposit">>}

MCCasts == {<<s>> : s \in Scripts} \cup Rivals \cup Tests
           \cup {<<s, "subaccount">> : s \in {"createMarketIncreaseLongWntStable", "createOrder"}}

\* A new wallet and createOrder alone.
NewWallet == {<<"createOrder">>}
=============================================================================
