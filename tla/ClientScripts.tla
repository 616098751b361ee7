---------------------------- MODULE ClientScripts ---------------------------
(***************************************************************************)
(* The scripts that create requests from a wallet (src/scripts/create*.ts) *)
(* and the test helpers that do so (src/utils/deposit.ts, withdrawal.ts,   *)
(* order.ts): what each does, in order.  A look reads the chain and sends  *)
(* a transaction if it has to; a script does not wait for these, it waits  *)
(* for its multicall only.  The helpers wait for every transaction.        *)
(* The scripts are run on neoXT4 (on localhost some take WETH, which does  *)
(* not wrap, for the wrapped native token, and throw).                     *)
(* Amounts are scaled: what counts is their order (a fee of 0.001 is 1, of *)
(* 0.007 or 0.008 it is 2).  The parameters are what the script has        *)
(* learned from the chain when it gets there.                              *)
(***************************************************************************)
EXTENDS RouterCalls

-----------------------------------------------------------------------------
(* Looks.                                                                  *)

\* Wrap native tokens when the wallet has less than `below` wrapped ones.
Wrap(below) == [do |-> "wrap", token |-> "WNT", below |-> below]
Unwrap(amount) == [do |-> "unwrap", token |-> "WNT", below |-> amount, amount |-> amount]
Approve(token, below) == [do |-> "approve", token |-> token, below |-> below]
ApproveOnly(token, below) == [do |-> "approveOnly", token |-> token, below |-> below]
Mint(token, below) == [do |-> "mint", token |-> token, below |-> below]
ReadBalance(token) == [do |-> "readBalance", token |-> token]
ReadGasPrice == [do |-> "readGasPrice", token |-> "WNT"]
ApproveBalance(token) == [do |-> "approveBalance", token |-> token]
\* Of the helpers.
MintTo(vault, token, amount) ==
    [do |-> "mintTo", vault |-> vault, token |-> token, amount |-> amount]
TransferTo(vault, token, amount) ==
    [do |-> "transferTo", vault |-> vault, token |-> token, amount |-> amount]

-----------------------------------------------------------------------------
(* Calls, and the step that sends them.                                    *)

SendWntTo(vault, amount) == [name |-> "sendWnt", vault |-> vault, amount |-> amount]
SendTokensTo(vault, token, amount) ==
    [name |-> "sendTokens", vault |-> vault, token |-> token, amount |-> amount]

\* `gives`: the tokens that the wallet may get when the request is executed.
Create(vault, fee, asked, gives) ==
    [name |-> "create", vault |-> vault, fee |-> fee, brings |-> DOMAIN asked,
     asked |-> asked @@ Nothing, gives |-> gives, mayBeEmpty |-> FALSE, creatable |-> TRUE]
CreateDeposit(fee, asked, market) == Create("DepositVault", fee, asked, {market})
CreateWithdrawal(fee, asked, gives) == Create("WithdrawalVault", fee, asked, gives)
CreateSwap(fee, asked, gives) == Create("OrderVault", fee, asked, gives)
CreateIncrease(fee, asked) == [Create("OrderVault", fee, asked, {}) EXCEPT !.mayBeEmpty = TRUE]
CreateDecrease(fee, gives) ==
    [Create("OrderVault", fee, <<>>, gives) EXCEPT !.mayBeEmpty = TRUE]
\* Order type 7: OrderTypeCannotBeCreated.
CreateLiquidation(fee) == [CreateDecrease(fee, {}) EXCEPT !.creatable = FALSE]

Send(value, calls) == [do |-> "send", value |-> value, calls |-> calls, estimated |-> FALSE]
\* Sent without a gas limit: the gas is estimated, which throws when it would revert.
SendEstimated(value, calls) == [Send(value, calls) EXCEPT !.estimated = TRUE]

\* A helper's last step: settle the first or the last request of the list.
Handle(vault, pick) == [do |-> "handle", vault |-> vault, pick |-> pick]

-----------------------------------------------------------------------------
(* Deposits.                                                               *)

createDepositWethUsdc ==
    <<Wrap(1), Approve("WNT", 1),
      Approve("WETH", 2), Mint("WETH", 2), Approve("USDC", 3), Mint("USDC", 3),
      Send(1, <<SendWntTo("DepositVault", 1),
                SendTokensTo("DepositVault", "WETH", 2),
                SendTokensTo("DepositVault", "USDC", 3),
                CreateDeposit(1, "WETH" :> 2 @@ "USDC" :> 3, "GMweth")>>)>>

\* The long token is the wrapped native token, so that the fee comes out of it.
createDepositWgasUsdc ==
    <<Wrap(1), Approve("WNT", 1),
      Approve("WNT", 9), Mint("WNT", 9), Approve("USDC", 5), Mint("USDC", 5),
      Send(1, <<SendWntTo("DepositVault", 1),
                SendTokensTo("DepositVault", "WNT", 9),
                SendTokensTo("DepositVault", "USDC", 5),
                CreateDeposit(1, "WNT" :> 9 @@ "USDC" :> 5, "GMwnt")>>)>>

\* Fault: the value is still sent, although nothing wraps it.
DepositWntWithValue ==
    <<Wrap(8), Approve("WNT", 8), Approve("USDC", 4),
      Send(8, <<SendTokensTo("DepositVault", "WNT", 8),
                SendTokensTo("DepositVault", "USDC", 4),
                CreateDeposit(2, "WNT" :> 6 @@ "USDC" :> 4, "GMwnt")>>)>>

\* sendWnt is commented out: the fee is sent with the long tokens.
createDepositWnt ==
    <<Wrap(8), Approve("WNT", 8), Approve("USDC", 4),
      Send(0, <<SendTokensTo("DepositVault", "WNT", 8),
                SendTokensTo("DepositVault", "USDC", 4),
                CreateDeposit(2, "WNT" :> 6 @@ "USDC" :> 4, "GMwnt")>>)>>

\* The value is the fee and the amount of long tokens, which are not native.
createDepositWbtcUsdt ==
    <<Approve("WBTC", 3), Approve("USDC", 2),
      Send(3, <<SendWntTo("DepositVault", 2),
                SendTokensTo("DepositVault", "WBTC", 1),
                SendTokensTo("DepositVault", "USDC", 2),
                CreateDeposit(2, "WBTC" :> 1 @@ "USDC" :> 2, "GMwbtc")>>)>>

createDepositSynthetic ==
    <<Wrap(1), Approve("WNT", 1), Approve("WETH", 4), Approve("USDC", 6),
      Send(1, <<SendWntTo("DepositVault", 1),
                SendTokensTo("DepositVault", "WETH", 4),
                SendTokensTo("DepositVault", "USDC", 6),
                CreateDeposit(1, "WETH" :> 4 @@ "USDC" :> 6, "GMsynthetic")>>)>>

-----------------------------------------------------------------------------
(* Withdrawals of all the market tokens the wallet was seen to have.       *)

createWithdrawalWethUsdc(balance) ==
    <<Unwrap(1), Approve("WNT", 1), ReadBalance("GMweth"), ApproveBalance("GMweth"),
      Send(1, <<SendWntTo("WithdrawalVault", 1),
                SendTokensTo("WithdrawalVault", "GMweth", balance),
                CreateWithdrawal(1, "GMweth" :> balance, {"WETH", "USDC"})>>)>>

createWithdrawalWntStable(balance) ==
    <<Unwrap(2), Approve("WNT", 2), ReadBalance("GMwnt"), ApproveBalance("GMwnt"),
      Send(2, <<SendWntTo("WithdrawalVault", 2),
                SendTokensTo("WithdrawalVault", "GMwnt", balance),
                CreateWithdrawal(2, "GMwnt" :> balance, {"WNT", "USDC"})>>)>>

-----------------------------------------------------------------------------
(* Orders.                                                                 *)

\* The fee is the gas price times a gas limit; the approval is for this order only.
createOrder(fee) ==
    <<ApproveOnly("USDC", 1), ReadGasPrice,
      SendEstimated(fee, <<SendWntTo("OrderVault", fee),
                                SendTokensTo("OrderVault", "USDC", 1),
                                CreateIncrease(fee, "USDC" :> 1)>>)>>

\* Fault: the collateral is minted and not approved.
IncreaseUnapproved ==
    <<Wrap(1), Approve("WNT", 1), Mint("WETH", 3),
      Send(1, <<SendWntTo("OrderVault", 1), SendTokensTo("OrderVault", "WETH", 3),
                CreateIncrease(1, "WETH" :> 3)>>)>>

\* The market, the trigger and the acceptable price, and with them the order
\* type within its kind, are left out.
IncreaseWithWeth ==
    <<Wrap(1), Approve("WNT", 1), Approve("WETH", 3), Mint("WETH", 3),
      Send(1, <<SendWntTo("OrderVault", 1), SendTokensTo("OrderVault", "WETH", 3),
                CreateIncrease(1, "WETH" :> 3)>>)>>
createMarketIncreaseLongWethUsdc == IncreaseWithWeth
createMarketIncreaseLongSynthetic == IncreaseWithWeth
createLimitLongWethUsdc == IncreaseWithWeth

createMarketIncreaseLongWntStable ==
    <<Wrap(5), Approve("WNT", 5),
      Send(2, <<SendWntTo("OrderVault", 2), SendTokensTo("OrderVault", "WNT", 3),
                CreateIncrease(2, "WNT" :> 3)>>)>>

SwapWeth ==
    <<Wrap(1), Approve("WNT", 1), Approve("WETH", 1), Mint("WETH", 1),
      Send(1, <<SendWntTo("OrderVault", 1), SendTokensTo("OrderVault", "WETH", 1),
                CreateSwap(1, "WETH" :> 1, {"WNT"})>>)>>
createMarketSwapWethWgas == SwapWeth
createLimitSwapWethWgas == SwapWeth

Decrease(fee, gives) ==
    <<Wrap(fee), Approve("WNT", fee),
      Send(fee, <<SendWntTo("OrderVault", fee), CreateDecrease(fee, gives)>>)>>
createMarketDecreaseLongWethUsdc == Decrease(1, {"WETH"})
createMarketDecreaseLongWntStable == Decrease(2, {"WNT"})
createLimitDecreaseLongWethUsdc == Decrease(1, {"WETH"})
createStopLossDecreaseLongWethUsdc == Decrease(1, {"WETH"})

\* The collateral is approved and minted, and not sent.
createLiquidationOrder ==
    <<Wrap(1), Approve("WNT", 1), Approve("WETH", 3), Mint("WETH", 3),
      Send(1, <<SendWntTo("OrderVault", 1), CreateLiquidation(1)>>)>>

-----------------------------------------------------------------------------
(* The helpers of the tests; executionFeeToMint may be less than the fee,  *)
(* as in the tests of InsufficientWntAmount.                               *)

depositHelper(feeToMint, fee) ==
    <<MintTo("DepositVault", "WNT", feeToMint), MintTo("DepositVault", "WETH", 2),
      MintTo("DepositVault", "USDC", 2),
      Send(0, <<CreateDeposit(fee, "WETH" :> 2 @@ "USDC" :> 2, "GMweth")>>)>>
handleDeposit(feeToMint, fee) ==
    Append(depositHelper(feeToMint, fee), Handle("DepositVault", "first"))

withdrawalHelper(fee, amount) ==
    <<MintTo("WithdrawalVault", "WNT", fee), TransferTo("WithdrawalVault", "GMweth", amount),
      Send(0, <<CreateWithdrawal(fee, "GMweth" :> amount, {"WETH", "USDC"})>>)>>
handleWithdrawal(fee, amount) ==
    Append(withdrawalHelper(fee, amount), Handle("WithdrawalVault", "first"))

orderHelper(feeToMint, fee) ==
    <<MintTo("OrderVault", "WETH", 2), MintTo("OrderVault", "WNT", feeToMint),
      Send(0, <<CreateIncrease(fee, "WETH" :> 2)>>)>>
handleOrder(feeToMint, fee) ==
    Append(orderHelper(feeToMint, fee), Handle("OrderVault", "last"))

-----------------------------------------------------------------------------
\* The steps of a script; `learned` is the balance or the gas price it has read.
Steps(script, learned) ==
    CASE script = "createDepositWethUsdc"              -> createDepositWethUsdc
      [] script = "createDepositWgasUsdc"              -> createDepositWgasUsdc
      [] script = "createDepositWnt"                   -> createDepositWnt
      [] script = "createDepositWbtcUsdt"              -> createDepositWbtcUsdt
      [] script = "createDepositSynthetic"             -> createDepositSynthetic
      [] script = "createWithdrawalWethUsdc"           -> createWithdrawalWethUsdc(learned)
      [] script = "createWithdrawalWntStable"          -> createWithdrawalWntStable(learned)
      [] script = "createOrder"                        -> createOrder(learned)
      [] script = "createMarketIncreaseLongWethUsdc"   -> createMarketIncreaseLongWethUsdc
      [] script = "createMarketIncreaseLongSynthetic"  -> createMarketIncreaseLongSynthetic
      [] script = "createLimitLongWethUsdc"            -> createLimitLongWethUsdc
      [] script = "createMarketIncreaseLongWntStable"  -> createMarketIncreaseLongWntStable
      [] script = "createMarketSwapWethWgas"           -> createMarketSwapWethWgas
      [] script = "createLimitSwapWethWgas"            -> createLimitSwapWethWgas
      [] script = "createMarketDecreaseLongWethUsdc"   -> createMarketDecreaseLongWethUsdc
      [] script = "createMarketDecreaseLongWntStable"  -> createMarketDecreaseLongWntStable
      [] script = "createLimitDecreaseLongWethUsdc"    -> createLimitDecreaseLongWethUsdc
      [] script = "createStopLossDecreaseLongWethUsdc" -> createStopLossDecreaseLongWethUsdc
      [] script = "createLiquidationOrder"             -> createLiquidationOrder
      [] script = "handleDeposit"                      -> handleDeposit(1, 1)
      [] script = "handleDepositUnderpaid"             -> handleDeposit(1, 2)
      [] script = "handleWithdrawal"                   -> handleWithdrawal(1, 1)
      [] script = "handleOrder"                        -> handleOrder(1, 1)
      [] script = "handleOrderUnderpaid"               -> handleOrder(1, 2)
      [] OTHER                                         -> <<>>

TriggerScripts == {"createLimitLongWethUsdc", "createLimitSwapWethWgas",
                   "createLimitDecreaseLongWethUsdc", "createStopLossDecreaseLongWethUsdc"}

Helpers == {"handleDeposit", "handleDepositUnderpaid", "handleWithdrawal",
            "handleOrder", "handleOrderUnderpaid"}
=============================================================================
