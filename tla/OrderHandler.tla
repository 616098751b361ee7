---------------------------- MODULE OrderHandler ----------------------------
(***************************************************************************)
(* The life of an order: OrderHandler, LiquidationHandler, OrderUtils and  *)
(* the OrderVault.  An order is created with its collateral and execution  *)
(* fee in the vault; later it is updated, executed, cancelled or frozen.   *)
(* What a position or a swap is worth is abstracted: an execution may fail *)
(* for a reason chosen by the environment, and a position is its size and  *)
(* the blocks at which it was last increased and decreased (one market,    *)
(* collateral token and side per account).                                 *)
(*                                                                         *)
(* A transaction that ends in a callback has two steps: up to the callback *)
(* of the order's callbackContract, and payExecutionFee after it; other    *)
(* contracts can act in between.  A transaction that reverts is no step.   *)
(***************************************************************************)
EXTENDS PrefixSum, StrictBank

CONSTANTS
  Accounts,                   \* the users of the exchange
  NoAddress,                  \* address(0)
  OrderKeepers,               \* addresses with the ORDER_KEEPER role
  FrozenOrderKeepers,         \* addresses with the FROZEN_ORDER_KEEPER role
  RequestedTypes,             \* the order types users ask for
  RequestedSizes,             \* the values users pass as sizeDeltaUsd
  RequestedFees,              \* the values users pass as executionFee
  RequestedCollaterals,       \* the values users pass to decrease collateral
  TransferAmounts,            \* the amounts sent to the vault in one transfer
  GasCosts,                   \* what a transaction may cost its keeper
  MinExecutionFee,            \* the fee validateExecutionFee asks for
  RequestExpirationBlockAge,  \* REQUEST_EXPIRATION_BLOCK_AGE
  MaxOraclePriceAge,          \* MAX_ORACLE_PRICE_AGE, in blocks
  SwitchableFeatures,         \* the features governance switches on and off
  MaxNonce,                   \* bound on the number of orders
  MaxBlock,                   \* bound on the block number
  LastCreateBlock,            \* bound on the block of a createOrder
  MaxBalance,                 \* bound on what the vault is sent of a token
  MaxPositionSize             \* bound on the size of a position

VARIABLES
  nonce,        \* NONCE in the DataStore: the last key given out
  orders,       \* the OrderStore: the order of every key
  vault,        \* the OrderVault
  positions,    \* the PositionStore
  disabled,     \* the disabled features
  block,        \* the current block number
  guard,        \* REENTRANCY_GUARD_STATUS in the DataStore
  call,         \* the transaction that is in its callback, or NoCall
  termsSetAt    \* history: the block at which a key's terms were last set

vars == <<nonce, orders, vault, positions, disabled, block, guard, call,
          termsSetAt>>

Keys == 1..MaxNonce

-----------------------------------------------------------------------------
(* Order types. *)

OrderTypes == {"MarketSwap", "LimitSwap", "MarketIncrease", "LimitIncrease",
               "MarketDecrease", "LimitDecrease", "StopLossDecrease",
               "Liquidation"}

isMarketOrder(type)   == type \in {"MarketSwap", "MarketIncrease", "MarketDecrease"}
isSwapOrder(type)     == type \in {"MarketSwap", "LimitSwap"}
isIncreaseOrder(type) == type \in {"MarketIncrease", "LimitIncrease"}
isDecreaseOrder(type) == type \in {"MarketDecrease", "LimitDecrease",
                                   "StopLossDecrease", "Liquidation"}
isPositionOrder(type) == isIncreaseOrder(type) \/ isDecreaseOrder(type)

\* Swap and increase orders bring their collateral into the vault.
BringsCollateral(type) == isSwapOrder(type) \/ isIncreaseOrder(type)

Order == [account                      : Accounts \cup {NoAddress},
          orderType                    : OrderTypes,
          initialCollateralToken       : Tokens \cup {NoAddress},
          sizeDeltaUsd                 : Nat,
          initialCollateralDeltaAmount : Nat,
          executionFee                 : Nat,
          updatedAtBlock               : Nat,
          isFrozen                     : BOOLEAN]

\* What OrderStoreUtils.get returns for a key that is not in the store.
EmptyOrder == [account                      |-> NoAddress,
               orderType                    |-> "MarketSwap",
               initialCollateralToken       |-> NoAddress,
               sizeDeltaUsd                 |-> 0,
               initialCollateralDeltaAmount |-> 0,
               executionFee                 |-> 0,
               updatedAtBlock               |-> 0,
               isFrozen                     |-> FALSE]

IsEmptyOrder(order) ==
  \/ order.account = NoAddress
  \/ order.sizeDeltaUsd = 0 /\ order.initialCollateralDeltaAmount = 0

Position == [size : Nat, increasedAtBlock : Nat, decreasedAtBlock : Nat]

EmptyPosition == [size |-> 0, increasedAtBlock |-> 0, decreasedAtBlock |-> 0]

\* A transaction in its callback: the fee it still has to pay out, and how
\* it got there.
Call == [key : Nat, executionFee : Nat,
         outcome : {"none", "executed", "cancelled", "frozen"},
         sender : Accounts \cup OrderKeepers \cup {NoAddress},
         minBlock : Nat, maxBlock : Nat]

NoCall == [key |-> 0, executionFee |-> 0, outcome |-> "none",
           sender |-> NoAddress, minBlock |-> 0, maxBlock |-> 0]

Features == {"create", "update", "cancel", "execute"} \X OrderTypes

ASSUME OrderHandlerAssumption ==
  /\ NoAddress \notin Accounts \cup Tokens
  /\ RequestedTypes \subseteq OrderTypes
  /\ RequestedSizes \subseteq Nat /\ RequestedFees \subseteq Nat
  /\ RequestedCollaterals \subseteq Nat
  /\ TransferAmounts \subseteq Nat /\ GasCosts \subseteq Nat
  /\ MinExecutionFee \in Nat
  /\ RequestExpirationBlockAge \in Nat /\ MaxOraclePriceAge \in Nat
  /\ SwitchableFeatures \subseteq Features
  /\ {MaxNonce, MaxBlock, LastCreateBlock, MaxBalance, MaxPositionSize} \subseteq Nat

-----------------------------------------------------------------------------
(* What the vault holds for an order. *)

CollateralOf(order, token) ==
  IF BringsCollateral(order.orderType) /\ order.initialCollateralToken = token
    THEN order.initialCollateralDeltaAmount ELSE 0

FeeIn(fee, token) == IF token = Wnt THEN fee ELSE 0

EscrowOf(order, token) ==
  CollateralOf(order, token) + FeeIn(order.executionFee, token)

\* The tokens of the vault that belong to a key: its order's, and the fee of
\* the transaction that is settling it.
Held(token) ==
  [k \in Keys |-> EscrowOf(orders[k], token)
                  + IF call.key = k THEN FeeIn(call.executionFee, token) ELSE 0]

-----------------------------------------------------------------------------
TypeOK ==
  /\ nonce \in 0..MaxNonce
  /\ orders \in [Keys -> Order]
  /\ vault \in Bank
  /\ positions \in [Accounts -> Position]
  /\ disabled \in SUBSET Features
  /\ block \in Nat
  /\ guard \in {"NOT_ENTERED", "ENTERED"}
  /\ call \in Call
  /\ termsSetAt \in [Keys -> Nat]

Init ==
  /\ nonce = 0
  /\ orders = [k \in Keys |-> EmptyOrder]
  /\ vault = EmptyBank
  /\ positions = [a \in Accounts |-> EmptyPosition]
  /\ disabled = {}
  /\ block = 1
  /\ guard = "NOT_ENTERED"
  /\ call = NoCall
  /\ termsSetAt = [k \in Keys |-> 0]

-----------------------------------------------------------------------------
(* Requests of users, through the ExchangeRouter. *)

\* validateFeature, and the globalNonReentrant modifier of every entry point.
FeatureEnabled(operation, type) == <<operation, type>> \notin disabled
NotEntered == guard = "NOT_ENTERED"

\* OrderUtils.createOrder.  Collateral in wrapped native tokens arrives together
\* with the fee; otherwise all the wrapped native tokens that arrived are the fee.
CreateOrder(account, type, token, size, collateralDelta, executionFee) ==
  LET sharesFeeTransfer == BringsCollateral(type) /\ token = Wnt
      received   == Unrecorded(vault, token)
      withCollateral == IF BringsCollateral(type)
                          THEN RecordTransferIn(vault, token) ELSE vault
      wntAmount  == Unrecorded(withCollateral, Wnt)
      collateral == IF ~ BringsCollateral(type) THEN collateralDelta
                    ELSE IF sharesFeeTransfer THEN received - executionFee
                    ELSE received
      fee        == IF sharesFeeTransfer THEN executionFee ELSE wntAmount
      order      == [account                      |-> account,
                     orderType                    |-> type,
                     initialCollateralToken       |-> token,
                     sizeDeltaUsd                 |-> size,
                     initialCollateralDeltaAmount |-> collateral,
                     executionFee                 |-> fee,
                     updatedAtBlock               |-> block,
                     isFrozen                     |-> FALSE]
  IN
  /\ NotEntered
  /\ FeatureEnabled("create", type)
  /\ type # "Liquidation"
  /\ (IF sharesFeeTransfer THEN received ELSE wntAmount) >= executionFee
  /\ fee >= MinExecutionFee
  /\ ~ IsEmptyOrder(order)
  /\ nonce < MaxNonce /\ block <= LastCreateBlock
  /\ nonce' = nonce + 1
  /\ orders' = [orders EXCEPT ![nonce + 1] = order]
  /\ vault' = IF sharesFeeTransfer THEN withCollateral
              ELSE RecordTransferIn(withCollateral, Wnt)
  /\ termsSetAt' = [termsSetAt EXCEPT ![nonce + 1] = block]
  /\ UNCHANGED <<positions, disabled, block, guard, call>>

\* OrderHandler.updateOrder: new terms, unfrozen, the fee topped up with the
\* wrapped native tokens that arrived; touch() sets updatedAtBlock.
UpdateOrder(key, account, size) ==
  LET order   == orders[key]
      updated == [order EXCEPT
                    !.sizeDeltaUsd   = size,
                    !.isFrozen       = FALSE,
                    !.executionFee   = @ + Unrecorded(vault, Wnt),
                    !.updatedAtBlock = block]
  IN
  /\ NotEntered
  /\ order.account = account
  /\ FeatureEnabled("update", order.orderType)
  /\ ~ isMarketOrder(order.orderType)
  /\ updated.executionFee >= MinExecutionFee
  /\ ~ IsEmptyOrder(updated)
  /\ orders' = [orders EXCEPT ![key] = updated]
  /\ vault' = RecordTransferIn(vault, Wnt)
  /\ termsSetAt' = [termsSetAt EXCEPT ![key] = block]
  /\ UNCHANGED <<nonce, positions, disabled, block, guard, call>>

\* OrderUtils.cancelOrder up to its callback: the order is removed and its
\* collateral sent back; the fee is paid after the callback.
cancelOrder(key, sender) ==
  LET order == orders[key] IN
  /\ ~ IsEmptyOrder(order)
  /\ orders' = [orders EXCEPT ![key] = EmptyOrder]
  /\ vault' = IF /\ BringsCollateral(order.orderType)
                 /\ order.initialCollateralDeltaAmount > 0
                THEN TransferOut(vault, order.initialCollateralToken,
                                 order.initialCollateralDeltaAmount)
                ELSE vault
  /\ call' = [NoCall EXCEPT !.key = key, !.sender = sender,
                            !.executionFee = order.executionFee,
                            !.outcome = "cancelled"]
  /\ guard' = "ENTERED"

\* Fault: a frozen order cannot be cancelled.
CancelUnfrozenOrder(key, account) ==
  LET order == orders[key] IN
  /\ NotEntered
  /\ order.account = account
  /\ ~ order.isFrozen
  /\ FeatureEnabled("cancel", order.orderType)
  /\ isMarketOrder(order.orderType)
       => block - order.updatedAtBlock >= RequestExpirationBlockAge
  /\ cancelOrder(key, account)
  /\ UNCHANGED <<nonce, positions, disabled, block, termsSetAt>>

CancelOrder(key, account) ==
  LET order == orders[key] IN
  /\ NotEntered
  /\ order.account = account
  /\ FeatureEnabled("cancel", order.orderType)
  /\ isMarketOrder(order.orderType)
       => block - order.updatedAtBlock >= RequestExpirationBlockAge
  /\ cancelOrder(key, account)
  /\ UNCHANGED <<nonce, positions, disabled, block, termsSetAt>>

-----------------------------------------------------------------------------
(* Execution by keepers. *)

\* Oracle.setPrices: signed prices are of one range of blocks that are over, the
\* last of them not too long ago.  It runs before executeOrder's try, so that no
\* failed attempt does anything when the prices are too old.
ValidBlockRange(minBlock, maxBlock) ==
  minBlock <= maxBlock /\ maxBlock < block /\ block <= maxBlock + MaxOraclePriceAge

Larger(m, n) == IF m > n THEN m ELSE n

\* validateOracleBlockNumbers of the three order utils: the prices of market
\* orders are of the block of the order, those of the others not older than
\* the order and, for orders that close a position, than the position.
SwapBlocksValid(order, minBlock, maxBlock) ==
  IF order.orderType = "MarketSwap"
    THEN order.updatedAtBlock \in minBlock..maxBlock
    ELSE minBlock >= order.updatedAtBlock

IncreaseBlocksValid(order, minBlock, maxBlock) ==
  IF order.orderType = "MarketIncrease"
    THEN order.updatedAtBlock \in minBlock..maxBlock
    ELSE minBlock >= order.updatedAtBlock

\* Faults: the block of the position, or of the order, is not looked at.
DecreaseIgnoresIncrease(order, position, minBlock, maxBlock) ==
  IF order.orderType = "MarketDecrease"
    THEN order.updatedAtBlock \in minBlock..maxBlock
    ELSE minBlock >= order.updatedAtBlock
DecreaseIgnoresUpdate(order, position, minBlock, maxBlock) ==
  IF order.orderType = "MarketDecrease"
    THEN order.updatedAtBlock \in minBlock..maxBlock
    ELSE minBlock >= position.increasedAtBlock

DecreaseBlocksValid(order, position, minBlock, maxBlock) ==
  CASE order.orderType = "MarketDecrease" ->
         order.updatedAtBlock \in minBlock..maxBlock
    [] order.orderType \in {"LimitDecrease", "StopLossDecrease"} ->
         minBlock >= Larger(order.updatedAtBlock, position.increasedAtBlock)
    [] order.orderType = "Liquidation" ->
         minBlock >= Larger(position.increasedAtBlock, position.decreasedAtBlock)

OracleBlocksValid(order, position, minBlock, maxBlock) ==
  CASE isSwapOrder(order.orderType) -> SwapBlocksValid(order, minBlock, maxBlock)
    [] isIncreaseOrder(order.orderType) -> IncreaseBlocksValid(order, minBlock, maxBlock)
    [] isDecreaseOrder(order.orderType) ->
         DecreaseBlocksValid(order, position, minBlock, maxBlock)

\* Fault: only limit swaps are left to the frozen order keepers.
AnyKeeperMayExecuteFrozen(order, keeper) ==
  order.orderType = "LimitSwap" => keeper \in FrozenOrderKeepers

\* A frozen order, or any limit swap, needs a frozen order keeper.
KeeperMayExecute(order, keeper) ==
  order.isFrozen \/ order.orderType = "LimitSwap" => keeper \in FrozenOrderKeepers

\* The positions an increase can leave: one without size is
\* InvalidPositionSizeValues.
PositionsAfterIncrease(order, position) ==
  {p \in {[position EXCEPT !.size = @ + order.sizeDeltaUsd,
                           !.increasedAtBlock = block]} :
     p.size > 0 /\ p.size <= MaxPositionSize}

\* The positions a decrease can leave: a trigger order is capped at the size of
\* the position, a market order is not; a partial decrease closes the position
\* when too little of it would remain.
PositionsAfterDecrease(order, position) ==
  IF \/ position.size = 0
     \/ /\ order.sizeDeltaUsd > position.size
        /\ order.orderType \notin {"LimitDecrease", "StopLossDecrease"}
    THEN {}
  ELSE {EmptyPosition} \cup
       {p \in {[position EXCEPT !.size = @ - order.sizeDeltaUsd,
                                !.decreasedAtBlock = block]} : p.size > 0}

PositionsAfter(order, position) ==
  CASE isSwapOrder(order.orderType)     -> {position}
    [] isIncreaseOrder(order.orderType) -> PositionsAfterIncrease(order, position)
    [] isDecreaseOrder(order.orderType) -> PositionsAfterDecrease(order, position)

\* OrderUtils.executeOrder up to its callback.
executeOrder(key, order, sender, minBlock, maxBlock) ==
  /\ ~ IsEmptyOrder(order)
  /\ OracleBlocksValid(order, positions[order.account], minBlock, maxBlock)
  /\ \E p \in PositionsAfter(order, positions[order.account]) :
       positions' = [positions EXCEPT ![order.account] = p]
  /\ orders' = [orders EXCEPT ![key] = EmptyOrder]
  /\ vault' = IF /\ BringsCollateral(order.orderType)
                 /\ order.initialCollateralDeltaAmount > 0
                THEN TransferOut(vault, order.initialCollateralToken,
                                 order.initialCollateralDeltaAmount)
                ELSE vault
  /\ call' = [key |-> key, executionFee |-> order.executionFee,
              outcome |-> "executed", sender |-> sender,
              minBlock |-> minBlock, maxBlock |-> maxBlock]
  /\ guard' = "ENTERED"

ExecuteOrder(key, keeper, minBlock, maxBlock) ==
  LET order == orders[key] IN
  /\ NotEntered
  /\ ValidBlockRange(minBlock, maxBlock)
  /\ KeeperMayExecute(order, keeper)
  /\ FeatureEnabled("execute", order.orderType)
  /\ executeOrder(key, order, keeper, minBlock, maxBlock)
  /\ UNCHANGED <<nonce, disabled, block, termsSetAt>>

(* Failed executions. *)

\* The reasons _executeOrder can fail with.  "OracleError" stands for the block
\* number errors and a missing price, "InvalidPosition" for InvalidPositionMarket,
\* InvalidCollateralTokenForMarket and InvalidPositionSizeValues, "Other" for
\* everything OrderHandler does not single out (output amounts, prices out of
\* range, reserves, gas...); a disabled market among them is noticed before any of
\* the checks of ExecuteOrder, so that the prices may be of other blocks.
FailureReasons(order, keeper) ==
  LET type == order.orderType IN
  {"OracleError", "Other"}
  \cup {r \in {"EmptyOrder"}         : IsEmptyOrder(order)}
  \cup {r \in {"DisabledFeature"}    : ~ FeatureEnabled("execute", type)}
  \cup {r \in {"InvalidKeeperForFrozenOrder"} : ~ KeeperMayExecute(order, keeper)}
  \cup {r \in {"InvalidOrderPrices"} : type \in {"LimitIncrease", "LimitDecrease",
                                                 "StopLossDecrease"}}
  \cup {r \in {"EmptyPosition"}      : /\ isDecreaseOrder(type)
                                       /\ positions[order.account].size = 0}
  \cup {r \in {"InvalidPosition"}    : isPositionOrder(type)}

\* A failure that undoes the attempt and nothing else: the order is frozen
\* already, or the error is one a later attempt may not meet.
RevertsAlways(order, reason) ==
  \/ order.isFrozen
  \/ reason \in {"OracleError", "EmptyOrder", "DisabledFeature",
                 "InvalidKeeperForFrozenOrder", "InvalidOrderPrices"}

\* Fault: market orders are frozen like any other order.
FreezeMarketOrders(order, reason) ==
  IF RevertsAlways(order, reason) THEN "revert"
  ELSE IF reason = "InvalidPosition" THEN "cancel"
  ELSE "freeze"

\* OrderHandler._handleOrderError: what becomes of the order.
HandleOrderError(order, reason) ==
  IF \/ RevertsAlways(order, reason)
     \/ reason = "EmptyPosition" /\ ~ isMarketOrder(order.orderType) THEN "revert"
  ELSE IF isMarketOrder(order.orderType) \/ reason = "InvalidPosition" THEN "cancel"
  ELSE "freeze"

\* The failed execution is undone and the order cancelled, the keeper being
\* the one that is paid.
ExecutionCancelsOrder(key, keeper, minBlock, maxBlock) ==
  LET order == orders[key] IN
  /\ NotEntered
  /\ ValidBlockRange(minBlock, maxBlock)
  /\ ~ IsEmptyOrder(order)
  /\ \E r \in FailureReasons(order, keeper) : HandleOrderError(order, r) = "cancel"
  /\ cancelOrder(key, keeper)
  /\ UNCHANGED <<nonce, positions, disabled, block, termsSetAt>>

\* OrderUtils.freezeOrder up to its callback: the order stays, without its fee.
ExecutionFreezesOrder(key, keeper, minBlock, maxBlock) ==
  LET order == orders[key] IN
  /\ NotEntered
  /\ ValidBlockRange(minBlock, maxBlock)
  /\ ~ IsEmptyOrder(order)
  /\ \E r \in FailureReasons(order, keeper) : HandleOrderError(order, r) = "freeze"
  /\ ~ order.isFrozen
  /\ orders' = [orders EXCEPT ![key].executionFee = 0, ![key].isFrozen = TRUE]
  /\ call' = [NoCall EXCEPT !.key = key, !.sender = keeper,
                            !.executionFee = order.executionFee,
                            !.outcome = "frozen"]
  /\ guard' = "ENTERED"
  /\ UNCHANGED <<nonce, vault, positions, disabled, block, termsSetAt>>

\* LiquidationUtils.createLiquidationOrder, for the whole position, without fee.
LiquidationOrder(account) ==
  [account                      |-> account,
   orderType                    |-> "Liquidation",
   initialCollateralToken       |-> NoAddress,
   sizeDeltaUsd                 |-> positions[account].size,
   initialCollateralDeltaAmount |-> 0,
   executionFee                 |-> 0,
   updatedAtBlock               |-> block,
   isFrozen                     |-> FALSE]

\* LiquidationHandler.executeLiquidation: the order is given the next key and
\* executed at once; a failure reverts it all.
ExecuteLiquidation(account, keeper, minBlock, maxBlock) ==
  /\ NotEntered
  /\ ValidBlockRange(minBlock, maxBlock)
  /\ FeatureEnabled("execute", "Liquidation")
  /\ nonce < MaxNonce
  /\ nonce' = nonce + 1
  /\ executeOrder(nonce + 1, LiquidationOrder(account), keeper, minBlock, maxBlock)
  /\ termsSetAt' = [termsSetAt EXCEPT ![nonce + 1] = block]
  /\ UNCHANGED <<disabled, block>>

\* The rest of a transaction after its callback.
FinishCall(gasCost) ==
  /\ guard = "ENTERED"
  /\ vault' = PayExecutionFee(vault, call.executionFee, gasCost)
  /\ call' = NoCall
  /\ guard' = "NOT_ENTERED"
  /\ UNCHANGED <<nonce, orders, positions, disabled, block, termsSetAt>>

-----------------------------------------------------------------------------
(* The rest of the world. *)

\* Tokens sent to the vault: ahead of a request, or by anybody at any time, a
\* callback contract included.
SendTokens(token, amount) ==
  /\ vault.balance[token] + amount <= MaxBalance
  /\ vault' = TransferIn(vault, token, amount)
  /\ UNCHANGED <<nonce, orders, positions, disabled, block, guard, call,
                 termsSetAt>>

\* Blocks and configuration change between transactions.
NextBlock ==
  /\ NotEntered
  /\ block < MaxBlock
  /\ block' = block + 1
  /\ UNCHANGED <<nonce, orders, vault, positions, disabled, guard, call,
                 termsSetAt>>

SwitchFeature(feature) ==
  /\ NotEntered
  /\ disabled' = IF feature \in disabled THEN disabled \ {feature}
                 ELSE disabled \cup {feature}
  /\ UNCHANGED <<nonce, orders, vault, positions, block, guard, call,
                 termsSetAt>>

-----------------------------------------------------------------------------
CreateSomeOrder(account, type) ==
  \E token \in Tokens, size \in RequestedSizes, fee \in RequestedFees :
  \E collateral \in IF BringsCollateral(type) THEN {0} ELSE RequestedCollaterals :
    CreateOrder(account, type, token, size, collateral, fee)

UserStep(account) ==
  \/ \E type \in RequestedTypes : CreateSomeOrder(account, type)
  \/ \E key \in Keys, size \in RequestedSizes : UpdateOrder(key, account, size)
  \/ \E key \in Keys : CancelOrder(key, account)

KeeperStep(keeper) ==
  \E minBlock, maxBlock \in 1..MaxBlock :
    \/ \E key \in Keys :
         \/ ExecuteOrder(key, keeper, minBlock, maxBlock)
         \/ ExecutionCancelsOrder(key, keeper, minBlock, maxBlock)
         \/ ExecutionFreezesOrder(key, keeper, minBlock, maxBlock)
    \/ \E account \in Accounts : ExecuteLiquidation(account, keeper, minBlock, maxBlock)

WorldStep ==
  \/ \E token \in Tokens, amount \in TransferAmounts : SendTokens(token, amount)
  \/ \E feature \in SwitchableFeatures : SwitchFeature(feature)
  \/ NextBlock

Next ==
  \/ \E account \in Accounts : UserStep(account)
  \/ \E keeper \in OrderKeepers : KeeperStep(keeper)
  \/ \E gasCost \in GasCosts : FinishCall(gasCost)
  \/ WorldStep

Spec == Init /\ [][Next]_vars

-----------------------------------------------------------------------------
(* Safety. *)

\* The vault has recorded no more than it holds, and what it recorded covers
\* the collateral and execution fee of every pending order and the fee of the
\* transaction in progress: every create, top-up, refund and fee payment of
\* OrderUtils keeps the OrderVault able to pay everybody.
VaultCoversOrders ==
  \A t \in Tokens :
    /\ vault.recorded[t] <= vault.balance[t]
    /\ Total(Held(t), MaxNonce) <= vault.recorded[t]

\* Settling an order pays out exactly what the vault held for it: whenever a
\* key loses what is held for it, the balance falls by the same amount, so
\* nothing is paid twice and nothing of a removed order stays in the vault.
SettlementIsExact ==
  [][\A t \in Tokens :
       (\/ vault'.balance[t] < vault.balance[t]
        \/ \E k \in Keys : Held(t)'[k] < Held(t)[k])
       => Total(Held(t), MaxNonce)' - Total(Held(t), MaxNonce)
            = vault'.balance[t] - vault.balance[t]]_vars

\* The steps in which an order is executed.
Executes == call.key = 0 /\ call'.outcome = "executed"

\* No order is executed with prices from before its terms were set, by its
\* creation or its last update, and a market order only with prices of that
\* block: a user cannot set terms knowing prices the order can still get.
NoExecutionAtOlderPrices ==
  [][Executes =>
       LET key == call'.key IN
       IF key \in 1..nonce /\ isMarketOrder(orders[key].orderType)
         THEN termsSetAt[key] \in call'.minBlock..call'.maxBlock
         ELSE key \in 1..nonce => termsSetAt[key] <= call'.minBlock]_vars

\* A position shrinks, other than by a market order of its owner, only at prices
\* from after its last increase: a limit or stop-loss decrease, or a liquidation,
\* never uses prices from before the exposure it closes existed.
NoClosingAtPricesBeforeIncrease ==
  [][\A a \in Accounts :
       /\ Executes
       /\ positions'[a].size < positions[a].size
       => \/ call'.minBlock >= positions[a].increasedAtBlock
          \/ /\ call'.key <= nonce
             /\ isMarketOrder(orders[call'.key].orderType)]_vars

\* Once frozen, an order waits: it is executed only by a frozen order keeper,
\* cancelled only by its owner, and thawed only by an update after which it
\* holds a full execution fee.  No keeper is paid for it a second time before.
FrozenOrdersWait ==
  [][\A k \in Keys :
       orders[k].isFrozen /\ orders'[k] # orders[k] =>
         \/ call'.outcome = "executed"  /\ call'.sender \in FrozenOrderKeepers
         \/ call'.outcome = "cancelled" /\ call'.sender = orders[k].account
         \/ ~ orders'[k].isFrozen /\ orders'[k].executionFee >= MinExecutionFee]_vars

\* Only trigger orders freeze, and a frozen order holds no fee until it is
\* updated; what it cost is in the transaction that froze it.
FrozenOrdersHoldNoFee ==
  \A k \in Keys : orders[k].isFrozen =>
    /\ ~ isMarketOrder(orders[k].orderType)
    /\ orders[k].executionFee = 0

\* A transaction that waits in its callback has already taken its fee out of the
\* order it is about (which is gone, or frozen), so no other path of the handlers
\* can pay that fee again; keys not given out yet have no order, and what an order
\* brought is a token the vault can hold.
CallOwnsItsFee ==
  /\ call.key <= nonce
  /\ guard = "ENTERED" <=> call.key # 0
  /\ call.key # 0 => orders[call.key].executionFee = 0
  /\ \A k \in Keys :
       /\ k > nonce => orders[k] = EmptyOrder
       /\ \/ orders[k].initialCollateralToken \in Tokens
          \/ orders[k].initialCollateralDeltaAmount = 0

-----------------------------------------------------------------------------
(* Liveness. *)

Pending(k) == ~ IsEmptyOrder(orders[k])

\* A keeper's attempt that settles the order, while its execution is enabled, at
\* the prices of the order's own block, the only ones he can count on: executed, or
\* failed and cancelled.
KeeperSettles(key) ==
  /\ FeatureEnabled("execute", orders[key].orderType)
  /\ \E keeper \in OrderKeepers, minBlock \in {orders[key].updatedAtBlock} :
       \/ ExecuteOrder(key, keeper, minBlock, minBlock)
       \/ ExecutionCancelsOrder(key, keeper, minBlock, minBlock)

PricesTooOld(key) == block > orders[key].updatedAtBlock + MaxOraclePriceAge

\* A transaction that was entered is finished, and blocks go on: no sequence of
\* transactions keeps the chain in one block for ever.
FairSpec ==
  /\ Spec
  /\ WF_vars(\E gasCost \in GasCosts : FinishCall(gasCost))
  /\ SF_vars(NextBlock)

\* With keepers that keep trying, every market order is settled while its prices
\* are young enough, as long as the execution of market orders is enabled again and
\* again; it cannot get frozen or stuck between a revert and a cancellation.  With
\* prices grown too old it is up to its owner (OwnersCanLeave).
MarketOrdersAreSettled ==
  \A key \in Keys :
    /\ SF_vars(KeeperSettles(key))
    /\ []<>(\A type \in RequestedTypes : FeatureEnabled("execute", type))
    => (Pending(key) /\ isMarketOrder(orders[key].orderType)
          ~> ~ Pending(key) \/ PricesTooOld(key))

OwnerCancels(key) == \E account \in Accounts : CancelOrder(key, account)

\* No keeper is needed to get out: an owner who keeps trying to cancel gets the
\* order removed, frozen or not, once cancelling is enabled again and again.
OwnersCanLeave ==
  \A key \in Keys :
    /\ SF_vars(OwnerCancels(key))
    /\ []<>(\A type \in RequestedTypes : FeatureEnabled("cancel", type))
    => (Pending(key) ~> ~ Pending(key))

-----------------------------------------------------------------------------
(* OrderHandler implements RequestEscrow: a key is open from the creation of *)
(* its order until the transaction that removed the order has paid its fee.  *)

phaseOf(key) ==
  CASE key > nonce -> "unused"
    [] key <= nonce /\ (orders[key].account # NoAddress \/ call.key = key) -> "open"
    [] OTHER -> "closed"

Escrow == INSTANCE RequestEscrow WITH
  MaxKey     <- MaxNonce,
  balance    <- vault.balance,
  held       <- [t \in Tokens |-> Held(t)],
  phase      <- [k \in Keys |-> phaseOf(k)]

\* Every step of the OrderVault's accounting is a step of the escrow.
ImplementsEscrow == Escrow!Spec
=============================================================================
