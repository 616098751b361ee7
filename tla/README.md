# Verification of the DeXFun exchange

DeXFun (`src/contracts`) is a perpetuals and spot exchange on an EVM chain.  Users
leave *requests* (orders, deposits, withdrawals) together with their tokens and an
execution fee in a vault; *keepers* execute the requests later, with signed oracle
prices.  Around the contracts, TypeScript deploys and upgrades them (`src/deploy`,
`src/utils`), writes their settings from configuration files (`src/config`,
`src/scripts/update*.ts`) and creates requests (`src/scripts/create*.ts`).  This
directory holds TLA+ models of both, TLC runs of small instances, and TLAPS proofs
for all instances.

Contents: 1 the system, 2 the modules, 3 the runs, 4 fairness, 5 the proofs,
6 what the models showed, 7 what is left out.

## 1 The system

| component | state | operations | talks to |
|---|---|---|---|
| `OrderHandler`, `OrderUtils`, `OrderStoreUtils` | the order of every key | create, update, cancel, execute; a failed execution reverts, cancels or freezes | OrderVault, positions, swaps, callback contracts |
| `LiquidationHandler`, `AdlHandler` | the ADL flag | create an order and execute it at once | as above |
| `DepositHandler`, `DepositUtils`, `ExecuteDepositUtils` | the deposit of every key | create, cancel, execute | DepositVault, market pool, market token (mint) |
| `WithdrawalHandler`, `WithdrawalUtils`, `ExecuteWithdrawalUtils` | the withdrawal of every key | create, cancel, execute | WithdrawalVault, market pool, market token (burn) |
| `StrictBank` (the three vaults) | per token: balance, recorded balance | recordTransferIn, syncTokenBalance, transferOut | every handler |
| `GasUtils` | - | payExecutionFee: keeper first, rest back to the user | vaults |
| `GlobalReentrancyGuard`, `NonceUtils`, `FeatureUtils` | guard, nonce, disabled features in the `DataStore` | enter/leave, next key, switch | every handler |
| `CallbackUtils` | - | calls the contract named in a request, between its effects and the payment of its fee | anything |
| `MarketUtils`, `MarketToken` | pool, open interest, collateral sums, impact pools, claimables, cumulative funding and borrowing | apply deltas, claims, reserve and pnl limits | positions, swaps, deposits, withdrawals |
| `IncreasePositionUtils`, `DecreasePositionUtils`, ... | positions | increase, decrease, liquidate, pay costs | market, fees, referrals |
| `Oracle`, `OracleStore` | prices of the transaction, signers | set, use, clear | every handler that executes |
| `RoleStore`, `Timelock`, `Config` | roles, pending actions, parameters | signal, wait, act | everything |
| `SubaccountRouter`, `SubaccountUtils` | subaccounts, action counts, top-up amounts | add, remove, set, create/update/cancel an order of the account, top up | OrderVault, Router |
| `ExchangeRouter`, `Router` | native tokens left in it, allowances | multicall, sendWnt, sendTokens, create... | vaults, handlers |
| deploy scripts (`src/deploy`, `utils/deploy.ts`, `utils/role.ts`) | hardhat's records: instances, ids that ran | run in order, deploy, afterDeploy | RoleStore, DataStore, ReferralStorage |
| configuration files and the scripts that apply them | none of their own | set if different, read and compare, multicall | DataStore, Config, MarketFactory |
| client scripts, test helpers | the wallet's queue of transactions | wrap, approve, mint, multicall, handle | ExchangeRouter, keepers |
| fees, referrals, readers, token contracts | claimables, codes, balances | | |

What is hard in it:

* **Interleaving across transactions.**  A transaction is atomic, but a request
  lives through several: transfer to the vault, creation, update, execution or
  cancellation, each by another party, in any order, with governance and other
  users in between.  The vault cannot tell who sent it tokens; it only compares
  balances (`StrictBank.sol:51`).
* **Interleaving inside a transaction.**  The callback of a request hands control
  to a foreign contract after the effects of the request and before its fee is
  paid (`OrderUtils.sol:184`).  Only the global guard keeps the handlers closed;
  transfers stay possible.
* **Failure.**  `OrderHandler` catches every failure of an execution, and what it
  does then depends on the error, the order type and whether the order is frozen.
* **Ordering.**  Block numbers of prices are compared with those of orders and
  positions, so that nobody trades at prices older than his terms.
* **Arithmetic.**  Fees out of amounts, equal tokens on both sides, capped fees,
  first deposits; and in positions a dozen roundings whose directions must agree.
* **Books kept by deltas.**  Pool amounts, open interest, collateral sums, impact
  pools and claimable amounts share one token balance per market, each is changed by
  deltas in other places of the code, and none is ever recomputed.
* **Stopping half way.**  A liquidation pays its costs in a fixed order and stops at
  the first it cannot pay; what has been paid until then stays paid.
* **Governance.**  The Timelock grants the roles that it is run with.
* **Runs that are cut off.**  A deployment is hundreds of transactions, any of which
  may be the last of a run; afterDeploy may be left half done, and the next run only
  knows what hardhat-deploy has recorded.  Upgrades replace some of the contracts.
* **Two ways to write a setting.**  The deploy script writes one setting at a time, the
  update scripts compare with a snapshot and write one multicall; both have their own
  list of settings, and users trade in between.
* **Scripts that do not wait.**  A client script looks at a balance or an allowance
  while the transactions it has sent are not yet mined.

Properties that make each component correct: a vault covers all it owes and each
settlement is exact; a request is settled once; a frozen order waits and costs
nothing; prices are never older than terms; users can always leave; market tokens
are neither made nor lost and the first of them stay locked; every token of a market
belongs to somebody; open interest equals the positions; costs come before payments
to the trader; trading at standing prices costs the pool nothing; no power changes
without notice; a subaccount acts no more often than it was allowed; a completed run
of the deploy scripts leaves every contract equipped; settings end up as the files
have them; a script's request holds what the script meant it to hold.

## 2 The modules

| module | what it models |
|---|---|
| `PrefixSum` | sums over request keys, as a recursive *function* (so proofs can use it) |
| `StrictBank` | a vault as a record `[balance, recorded]` with one operator per function of `Bank`, `StrictBank` and `payExecutionFee` |
| `RequestEscrow` | the abstract specification: tokens arrive, a request takes free tokens, releases what it holds, and closes for good |
| `OrderHandler` | orders, liquidations, the OrderVault, the callback window |
| `RequestVault` | what deposits and withdrawals share |
| `DepositHandler`, `WithdrawalHandler` | the two request handlers |
| `Liquidity` | both together on one nonce, guard, block and market token: it extends `DepositHandler` and instantiates `WithdrawalHandler` |
| `PositionUtils` | the arithmetic of positions: profit, fees, impact, liquidation, and how a cost is paid |
| `Positions` | the positions of one market and its books: increase, decrease, liquidation, deleveraging, claims |
| `Governance` | `RoleStore`, `Timelock` and `OracleStore`: roles and announced changes |
| `DeployScripts` | the deploy scripts as data: needs, libraries, duties of afterDeploy, ids |
| `Deployment` | runs of the scripts, crashes, releases, the hand-over of ROLE_ADMIN |
| `SettingLists` | the settings each script writes, in its order, with its rule for missing values |
| `Settings` | the deploy script, the four update scripts, edits of the files, other keepers, deposits |
| `RouterCalls` | a wallet's transactions and the calls of a multicall, on `StrictBank` vaults |
| `ClientScripts` | the client scripts and the test helpers as sequences of steps |
| `Clients` | runs of them with one wallet, mining, keepers, gas prices |
| `Subaccounts` | the SubaccountRouter beside these runs |
| `*Proofs` | the theorems about the module they are named after; `LiquidityProofs` has those of `DepositHandler` too, `SumProofs` the lemmas about sums |
| `MC*` | instances for TLC |

How state and actions correspond to the code:

* `nonce`, `guard`, `disabled`, `orders`, `deposits`, `withdrawals` and `positions`
  are entries of the `DataStore`; `vault` is the bank contract with its token
  balances; `block` is the chain.
* One action per entry point.  `CreateOrder` is `OrderUtils.createOrder` with the
  checks of its callers.  `cancelOrder` and `executeOrder` (lower case) are the
  library functions that several entry points share.  `ExecutionCancelsOrder` and
  `ExecutionFreezesOrder` are `OrderHandler.executeOrder` when `_executeOrder`
  fails: the reason is chosen from those the state allows, `HandleOrderError` says
  what follows.  An attempt that reverts changes nothing and is no step.
* `call` is the transaction that has reached its callback: which request, what fee
  it has still to pay.  `FinishCall` is the rest of it.  `guard` is entered in
  between, so the only steps are transfers to the vault and `FinishCall`.
* `termsSetAt` is a history variable: the properties about prices compare with it,
  and not with `updatedAtBlock`, which the code could forget to set.
* `market` in `Positions` is a record with a field per kind of `DataStore` entry of
  the market and the token balances of its `MarketToken`; `AddToPool`, `CreditFees`,
  `Follow` and the like are the functions of `MarketUtils` and `FeeUtils` that change
  it.  A decrease is the chain of the steps of `processCollateral`: each operator
  `TakeProfit`, `PayFunding`, ... takes the books with the output and collateral that
  are left, and does nothing once a cost was left unpaid.  `decreasePosition` (lower
  case) is shared by orders, liquidations and deleveraging, and by the property that
  a liquidation completes.  `history` keeps what the properties need to know of the
  past: funding paid less funding claimed, fees credited though rounded away, rewards
  dropped, and whether an insolvent close has happened or has paid somebody.
* With each order an *environment* is chosen: prices, the price impact before its
  limits, what funding and borrowing have accrued for the position, how much of the
  impact pool is distributed, and whether a swap's own conditions hold.
* In `Governance`, `Signal` and `ActAfterSignal` are the pairs of functions of the
  Timelock; an action is a record of its kind and arguments, as its key hashes them.
* `Deployment`: `RunScript(t)` is one transaction of the script `t` where the run is:
  deploying the contract (`createDeployFunction`), or one duty of its afterDeploy
  (`grantRoleIfNotGranted`, `setUintIfDifferent`, ...), or recording its id.  `Crash`
  cuts a run off, `StartRun` begins again with the first script; a script with a
  recorded id is passed over.  An instance is a number; `built[t]` is the code and
  the instances it was wired to.  `careful` is history: every release so far bumped
  the ids of the pinned scripts it concerns.
* `Settings`: `DeployStep` is one transaction of deployAndConfigureMarkets and the
  scripts after it; `StartUpdate`, `ReadValues`, `SendUpdate` are the parts of an
  update script between which the chain can change: read the markets, read the
  values, send the multicall.  `config` is what the files say now; a run keeps the
  files as it has loaded them.  Which base keys are looked at is chosen at the start:
  settings hardly depend on each other, and the few that do are selected together.
* `Clients`: a script is a sequence of steps; `Look` reads the mined chain and queues a
  transaction, `SendMulticall` queues the multicall, `Mine` applies the first of the
  queue.  Waiting is in the guards: helpers wait for each transaction, scripts do not.
  `Pending` is the chain with the whole queue applied, what a node may estimate gas
  against.
* Abstracted data: amounts are small numbers; a position is its size and the blocks
  of its last increase and decrease (one market and side per account); prices are
  the range of blocks they were signed for, blocks that are over (`Oracle.sol`
  checks both); gas is the cost of a transaction, any value of `GasCosts`; native
  and wrapped native tokens are one token.
* A definition whose comment begins with *Fault* is not part of the model: it is a
  version of the next definition with a bug, used to see that the properties
  notice it.

## 3 The runs

| run | states | what it checks |
|---|---|---|
| `MCOrderEscrow` | 428,220 | `TypeOK`, `VaultCoversOrders`, `SettlementIsExact`, and `ImplementsEscrow`: `OrderHandler` implements `RequestEscrow` |
| `MCOrderKeepers` | 81,016 | `NoExecutionAtOlderPrices`, `NoClosingAtPricesBeforeIncrease`, `FrozenOrdersWait`; under fairness `MarketOrdersAreSettled`, `OwnersCanLeave` |
| `MCDepositHandler` | 31,524 | `ImplementsEscrow` for `DepositHandler`; under fairness `DepositsAreSettled`, `DepositorsCanLeave` |
| `MCLiquidity` | 146,736 | `TypeOK`, `SupplyAddsUp`, `LockedSharesStay`, `VaultsCoverRequests`, and that `WithdrawalHandler` implements `RequestEscrow` |
| `MCPositions` | 88,378 | `TypeOK`, `TokensAddUp`, `PositionsAddUp`, `CostsComeFirst`, and `LiquidationsComplete` with its two exceptions, at moving prices |
| `MCPositionsStill` | 220,188 | `PoolNeverLoses` at standing prices, and `ClaimsAddUp` while claims are made and their factors move up and down |
| `MCPositionsAffiliates` | violation | `AffiliatesAreRewarded`, which a comment claims, does not hold |
| `MCGovernance` | 240,928 | `TypeOK`, `StoppedStaysStopped`, `MembersRemain`, `NoSurprises` |
| `MCDeployment` | 74,214 | `Equipped`, `StaleOnlyBehindPins`, `NoDuplicates`; under fairness `RunsComplete` |
| `MCSettings` | 133,000 | `DeployedAsUpdated`, `TracksInventory`; under fairness `UpdateSettles`, `SettingsAgree` |
| `MCClients` | 383,125 | `UndisturbedRunsSucceed`, `RequestsAsAsked`, `NothingStranded`, `SubaccountIsBounded` |
| `MCClientsNewWallet` | violation | `NewWalletsCanOrder`, which the instructions of createOrder.ts promise, does not hold |

The violations.  A liquidation whose money ends at the price impact, after the fees were
paid, returns empty fees, and the affiliate's part, which the trader has paid, is
credited to nobody (`MCPositionsAffiliates`).

`payForCost` converts what is left of a cost down to the secondary token
(`DecreasePositionCollateralUtils.sol:562`).  A rest worth less than one unit of it
vanishes, and the fees are credited in full although less has been paid;
`TokensAddUp` counts it as forgiven.  A loss rounded this way costs the pool up to the
price of the token less one: `history.roundedLosses` counts such losses, and
`PoolNeverLoses` allows as much for each.  Where nothing else is there to cover it the
balance check at the end of `OrderUtils.executeOrder` fails and the liquidation reverts,
also when claims of funding never run ahead of payments; by
`DecreasePositionUtils.sol:309` the liquidation "should still complete".

`LiquidationsComplete` is what holds, with collateral in the token of the profit and in
the other one, every environment and claims of funding included: `decreasePosition`
completes in every state in which a position should be liquidated, unless the impact
leaves no price to close at (`NegativeExecutionPrice`), and the balance suffices
afterwards unless fees were credited unpaid or funding was promised ahead of payments
(`Covered`; TLC finds a liquidation that reverts when this exception is dropped).  The
operator `decreasePosition` takes what is done with its result as a parameter, so that
the action and the property share it.

createOrder.ts sends the approval of its collateral and does not wait for it; where the
node estimates the gas of the multicall on the last block, the estimate throws
(`MCClientsNewWallet`).  `UndisturbedRunsSucceed` excepts this by name: `run[r].hasty` says
that transactions of the run's own were not mined when the estimate threw.

Bounds.  Every bound is a constant that appears in a guard: `MaxNonce` (keys),
`MaxBlock`, `LastCreateBlock` (creations stop there, so that everything created can
still be executed and expire), `MaxBalance` (what one vault is sent of one token),
`MaxPositionSize`, `MaxSupply`.  Two requests are enough for one to take what
belongs to the other, which is how the vault properties fail; `MCLiquidity` has
three, so that a deposit can fund two withdrawals or a withdrawal and a new
deposit.  One account is enough for the vaults, which do not look at accounts.
Three blocks are enough for a position opened by an order to be liquidated, and
four, with orders created in the first two, for a trigger order to be older than
the increase of the position it closes.  Fees are 1 and gas costs 0, 1 or more than
the fee, so both branches of `payExecutionFee` are taken.  `MCOrderEscrow` has one
order type of each kind of `HandleOrderError` and of collateral; `MCOrderKeepers` has
a limit swap (frozen keepers only), a limit decrease, a market increase and a market
decrease, and two keepers of which one may execute frozen orders; an owner who
persists is checked in the same instance.  `MCFeatures` in the liveness runs
lets governance switch one keeper and one user operation.  `MaxOraclePriceAge` is the
age of prices in blocks: in the liveness runs prices grow too old before the blocks
end, for a request whose keeper comes late or whose feature was off meanwhile.

Positions have a precision of 4 (so that a factor of 1 is a quarter), prices from 1 to
14, sizes up to 16 and pools of 8 and 16 tokens: every fee, impact and cost rounds
somewhere.  `MaxSteps` is 4 transactions (two increases, an insolvent close and a claim
after it; an increase, a close with impact above the limit and two claims of what was
set aside), and in every state of `MCPositions` every liquidation is tried; changes of
the claimable factors are not counted.  Each kind of close is reached: with profit and
with loss, swapped and not, by order, liquidation and deleveraging, partial, enlarged to
a full one, insolvent at funding, loss, fees and impact.  `MinPositionSizeUsd` is 4: at
prices up to 4 a rest is worth at least one index token, as it is in practice by many
orders of magnitude; `MCPositions` has higher prices as well, so that a position can
lose its last token with a size left (`history.restDropped`), the one case
`PositionsAddUp` excepts. `Governance` has time up to 3, a first delay of 1 and a
largest of 2 and two pending actions at a time: one can be repeated or cancelled while
another one waits, and the delay can grow in between.  Only the Timelock has ROLE_ADMIN
and CONTROLLER at first.

`Deployment` has all the scripts as they run on neoX (every row of `DeployScripts`): the
deployer is a CONTROLLER there, and the OrderHandler is not made a handler of the
ReferralStorage.  There is one release and one crash.  The release changes a library
deep in the graph (`SwapUtils`), a pinned contract that other pinned ones take
(`Oracle`), or one of the two stores the scripts write to (`DataStore`, `RoleStore`).
The crash falls between any two transactions of a run, also of the run after the
release.

`Settings` has a perpetual and a swap-only market with one virtual market, on a network
that the validation of updateMarketConfig refuses (neoX) and one that it lets through
(neoXT4).  All settings are looked at together when only the deploy scripts run; else a
few base keys that depend on each other or are treated in a way of their own (the
selections in `MCSettings.tla`), with one change by others: an edit of the files or a
write of another keeper.

`Clients` runs each script alone, one script of each shape beside one that takes the
same tokens, a helper after a failed one, and a script beside a subaccount, with a
wallet that has nothing or enough.  Amounts are scaled so that 1 is the smaller
execution fee and 2 the larger; the gas price may double.

All the runs say `CHECK_DEADLOCK FALSE`: the bounds on keys, blocks and balances
stop a run at the end of every behaviour (in `Governance`, time ends; runs
of scripts end by themselves).

## 4 Fairness

* `OrderHandler!FairSpec` and `DepositFairSpec`: weak fairness of `FinishCall` (a
  transaction that has reached its callback ends: the callback has a gas limit and a
  transaction is atomic) and strong fairness of `NextBlock` (the chain goes on).  What
  nobody owes the system is a hypothesis of the property.  `MarketOrdersAreSettled` and
  `DepositsAreSettled` say that a market order or a deposit is settled, or its prices
  grow too old, *if* a keeper persists (strong fairness of `KeeperSettles(key)`: strong,
  since other transactions and the feature switch disable attempts again and again).
  A keeper attempts with prices of the request's own block, the only ones he can count
  on.  Once these are older than `MaxOraclePriceAge`, `withOraclePrices` reverts ahead of
  the handler's `try` (`Oracle.sol:385`), so no failed attempt cancels anything: then
  `OwnersCanLeave` and `DepositorsCanLeave` say that a request ends if its owner persists
  in cancelling (`OwnerCancels(key)`).  No fairness of governance is assumed: the
  properties say "as long as the feature is enabled again and again".
* `Deployment`: weak fairness of `StartRun` and of the run's next transaction (the team
  runs the scripts until a run completes), strong fairness of `GovernanceGrants` (a
  missing role is granted in the end, although runs come in between).
* `Settings`: strong fairness of starting each update script, weak fairness of its
  later steps: keepers go on running it.  The bounded numbers of edits and of
  overriding writes are what "once the files stay as they are" needs.

## 5 The proofs

Checked by `tlapm` for every value of the constants that satisfies the `ASSUME`s
(finite bounds are not assumed to be small).

* `SumProofs`: the recursive function `PrefixSum` exists and unfolds
  (`PrefixSumUnfold`, by the least-element argument), changing one summand changes
  the total by the difference (`TotalUpdate`), a summand is at most the total of
  non-negative summands (`TotalBounds`); and the same for `SumFunctionOnSet` of the
  community modules over any finite set (`SumUnfold`, `SumChange`, `SumBounds`,
  `SumZero`), by a minimal set that would be an exception.
* `RequestEscrowProofs`: `EscrowIsBacked` and `EscrowClosesOnce`, for bounds that are
  natural numbers (the hypothesis `Bounds`).
* `OrderHandlerProofs`, in three parts.  At its head, as at that of `LiquidityProofs`,
  lemmas say what each operation of a vault does to its balance and what it has recorded,
  and that `recorded <= balance` stays.  What the vault holds: `TypeCorrect`,
  `OrdersAreCovered`, `FeesAreSeparate` and `FrozenOrdersAreSpent`.
* Its second part, time: `PricesAreNotOlderThanTerms`, `NoClosingBeforeTheIncrease`
  and `FrozenOrdersStayUntilUpdated` (the action properties
  `NoExecutionAtOlderPrices`, `NoClosingAtPricesBeforeIncrease` and
  `FrozenOrdersWait`), with the invariant `TInv`: the block stored in an order is the
  block at which its terms were set, nobody can store a liquidation order, and no
  outcome is left over between transactions.  Without the first part, a check of
  the stored block would say nothing about the terms; without the second, a user
  could have an order that the decrease checks treat as a liquidation.
* Its third part, the refinement: `OrdersAreEscrowed` (`Spec => ImplementsEscrow`: the order
  handlers refine `RequestEscrow`, under the mapping of `OrderHandler`) and
  `NothingIsPaidTwice` (`SettlementIsExact`).  Beside `IInv` the refinement needs
  `RInv`: no balance is above the bound of the environment, and a key whose order has
  no account has no order at all, so that nothing is left for a key when its phase
  becomes "closed".  Each action is first brought to one of three shapes: a new key
  takes what had arrived (`OpenStep`), an open key gets more (`TopUpStep`), an open key
  pays out some of what it holds (`ReleaseStep`); the fee in the transaction is what
  keeps a settled key open until `FinishCall`.
* `LiquidityProofs`.  Of the deposits alone: `DepositsAreCovered` (`VaultCoversDeposits`)
  and `DepositsAreEscrowed` (`DepositSpec => ImplementsEscrow`), also when both sides of a
  deposit are one token or a side is the token of the fee.  To the type and the
  coverage the invariant adds `SettledKeysAreEmpty` (a key not given out, a settled key
  and one whose transaction is in its callback have no deposit: so the fee of the
  transaction is all that such a key holds) and `BalancesAreBounded`.  Of deposits and
  withdrawals together: `TypeCorrect`, `VaultsAlwaysCoverRequests`, `SupplyAlwaysAddsUp`,
  `LockedSharesAlwaysStay` and `WithdrawalsAreEscrowed` (`WithdrawalHandler` refines
  `RequestEscrow` while deposits run beside it), from the invariant `LInv` below; any
  number of accounts, as long as it is finite.
* `GovernanceProofs`: `TypeCorrect`, `ChangesAreAnnounced` (the action property
  `NoSurprises`), `TheBrakeHolds` and `GuardedRolesKeepMembers`, with the
  invariant `TypeOK /\ DueAfterDelay`: what is pending became due by the delay
  that was in force when it was announced, so an action that is due now has been
  announced for that long.
* `PositionsProofs`: `TypeCorrect`, `TokensAlwaysAddUp`, `PositionsAlwaysAddUp`,
  `ClaimsAlwaysAddUp` and `CostsAlwaysComeFirst`, from the invariant `Inv` below, and
  `PoolIsNeverWorthLess` (`PoolNeverLoses` while prices stand still), from `ValueInv`.
* `DeploymentProofs`: `NothingIsDeployedTwice` (`NoDuplicates`),
  `NothingStaleButBehindPins` (`StaleOnlyBehindPins`) and `EveryInstanceIsEquipped`
  (`Equipped`), for any number of releases of any contracts and any number of crashes,
  from the invariant `DInv` below.
* `SubaccountProofs`: `SubaccountsStayBounded` (`SubaccountIsBounded`), with the wallet's
  scripts, the keepers and the gas price running beside the subaccount, for any scripts,
  amounts and fees, from the invariant `SInv` below.

The inductive invariant of `OrderHandler` is

    IInv == TypeOK /\ CallOwnsItsFee /\ VaultCoversOrders

None of the three is inductive alone.  `VaultCoversOrders` needs `CallOwnsItsFee`:
when a transaction in its callback pays its fee, the total held falls by that fee
only if the order of the same key holds none of it, and a new order adds only its own
amounts only if no order was stored at the next key.  `TypeOK` needs
`VaultCoversOrders`: a balance is a natural number because a payment is at most what
is held for the key it settles, which is at most what is recorded, which is at most
the balance.  `FrozenOrdersAreSpent` has its own small induction on top.  Each step
lemma shows that an action changes `Held(t)` at one key; `TotalUpdate` turns this
into the change of the total, and the lemmas about the operations of a vault give
the change of the vault.

The inductive invariant of `Liquidity` is

    LInv == IInv /\ WInv /\ Exclusive /\ PendingReceivers /\ SupplyAddsUp /\ LockedSharesStay

`IInv` is the invariant of `DepositHandler`, `WInv` the same for withdrawals.  Here
neither handler can say that the guard is entered exactly when a transaction of *its
own* is in progress, only that its transaction implies an entered guard; `Exclusive`
(at most one of the two transactions is in progress) gives back that the end of one does
not release the guard of the other.  The counter of keys moves under both: for the
withdrawals a key that a deposit takes is a `Pass` of the escrow (`WPassStep`).
`PendingReceivers` (a pending deposit has a receiver) is what makes minted tokens
belong to somebody.  `SupplyAddsUp` is needed for the types: a burn leaves a natural
supply because the tokens burnt are in the vault, and what the vault has is part of
the supply.  `LockedSharesStay` follows from it, since no withdrawal takes from the
receiver of the first deposit, who is no account, and the supply is at least what it
holds.

The inductive invariant of `Positions` is

    Inv == TypeOK /\ TokensAddUp /\ PositionsAddUp /\ ClaimsAddUp /\ CostsComeFirst
             /\ Sized /\ Accrued

`Sized` says that a stored position has a size and tokens: without it the profit of a
part of a position, which divides by its size, would not be a number.  `Accrued` says
that a position's borrowing factor is at most that of its side: without it a borrowing
fee could be negative, and what a trader pays would not be an amount.  `TypeOK` needs
`ClaimsAddUp` (a claim takes from a total that must hold it).
The argument about a decrease is one equation and one implication.  For every token,

    Accounted == what the books owe + what goes out + collateral and reward in hand

is the same before and after each of the eight steps of `processCollateral`, also when
a cost is left unpaid and the rest is skipped (one `...Keeps` lemma per step, chained by
`KeptChain` into `ProcessCollateralKeeps`); and after each step an unpaid cost means
that no output and no collateral is left (`Broke`).  What follows `processCollateral`
turns collateral in hand into collateral owed (`FollowOwes`) and what goes out into a
smaller balance (`PaidOutFacts`), so balance and books stay equal.  The totals follow a
position by deltas; `FollowAddsUp` shows that deltas taken from the stored position keep
them the sums, `PositionSumFacts` being `SumChange` for the keys of a side.
An increase, the claims and the setters of factors are the same equation with fewer
terms.  Nothing is assumed of the environment but its types: prices are positive, what
accrues is an amount, impact is any integer.

`PoolIsNeverWorthLess` is about prices that stand still: `StandStill(p)` says that every
environment has the prices `p`, with one index price, as those of `MCPositionsStill`
have; fees, impact, what accrues, factors, limits, positions and orders are any.  Its
inductive invariant is

    ValueInv(p) == Inv /\ ShortsExact(market, positions)
                     /\ Backed(market, history, positions, p)

`Worth` is the pool at the smaller prices less the impact pool.  `Backed` says that,
unless a close was insolvent, it is at least what it was at first and the gains of all
positions, but for the losses that `payForCost` has rounded.  The property takes the
gains from the totals of the market, the invariant takes them from the positions,
because a trade changes one position only: `PoolPnlIsCovered` is the way back (the
sum of what is rounded for each position is no less than what is rounded once), and
needs `ShortsExact`, since a size left behind in the totals of the shorts would count
against the pool.  A short never leaves one: its tokens are rounded so that the last one
goes only with the rest of the size.
A decrease is two inequalities.  `PnlIsCovered`: the profit it realizes is at most what
the gain of the position falls by, and the loss it realizes at least what the gain
grows by, though both are parts of a size in tokens that was rounded.
`ProcessCollateralIsWorth`: through the eight steps of `processCollateral` the worth
falls by no more than the profit and grows by at least the loss: only the step that
takes the profit lowers it, and the one that pays the loss raises it by as much, counts
it as rounded or is insolvent; positive impact costs nothing, the impact pool falls
by as much.  `IncreaseIsCovered` is the same for an increase: what a position gains on
opening is at most what the impact pool pays for.

The inductive invariant of `Deployment` is

    DInv == Shape /\ Dutiful /\ \E k, R : Frontier(k) /\ Dirty(k, R)

`k` is how far the runs have come since the last release, the furthest of them if several
were cut off: what is before it is settled and is not deployed again (`Frontier`), so a
run that starts over does nothing until it is back there.  What makes this inductive is
the order: an instance takes addresses only of scripts before it, so a deployment at `k`
makes nothing before `k` stale.  `R` is the set of what the last release reached: it
contains all users of its members, what is outside it is built from what is in use, and
as long as the releases were careful no pinned script of `R` is passed over before the
run has come by (`Dirty`).  `Dutiful` says that what a run has passed by, and what it is
going to pass over, has nothing left to do.  `k` and `R` are existentially quantified: no
variable of the model holds them.

Two assumptions are about the scripts and not about a parameter.  `OrderAssumption`: the
order has each script once, after those it takes addresses of and not before those it
writes to, and `Users` is closed.  `DeployerAssumption`: no script grants ROLE_ADMIN to
the deployer.  Both are closed formulas about `DeployScripts`, and the runs of TLC, which
evaluate the `ASSUME`s, compute them for the scripts as they stand; the prover cannot,
because the order is a recursive function over sequences.  The proof uses nothing else of
the scripts, so it holds for any others of which these two are true.

The inductive invariant of `Subaccounts` is

    SInv == SubaccountTypeOK /\ SetBefore /\ Counted /\ DrawnPerAction

`SetBefore`: the limits in force have been set before, and what was set is remembered as
the most generous.  `Counted`: every action is counted before it does anything, and the
count goes back neither with a new limit nor when the subaccount is removed and added
again; so the count is at most the largest limit ever set, although it may be above the
one in force.  `DrawnPerAction`: one action draws at most the top-up set, whatever it
offers and uses, because `TopUp` takes the smallest of four amounts; the bound on
everything drawn is a product, which grows with both of its factors (`ProductGrows`).
Nothing of the wallet's balances, allowances and requests matters, so the proof says
nothing about them: of all that runs beside, it needs that the gas price stays a number.

Only model-checked: `LiquidationsComplete`, `Settings` and `Clients`.
`LiquidationsComplete` needs that the pool can pay what a position has gained when fees
make it liquidatable, which the reserve factors and the prices of the run ensure and no
assumption of the module does: the cap on profits is on the total of a side, in which the
losses of others count.  What the modules of scripts fold over sequences of steps (`FoldLeft`)
would need induction over data, which is outside the reach of the prover; so are the
liveness properties, with ENABLED and fairness.

## 6 What the models showed

Observations met while translating; those that contradict what the repository states are
the violations of section 3, and most are visible as exceptions written into a property.

Positions:

* A position that loses its last token while it has a size left is removed, and
  `updateOpenInterest` and `updateTotalBorrowing` get the deltas of a position that
  keeps the rest (`DecreasePositionUtils.sol:245`, `:262`, `:285`): that size stays in
  the open interest.  It takes an index token worth more than the smallest position.
* A loss whose rest is worth less than one unit of the secondary token is taken as paid
  (`DecreasePositionCollateralUtils.sol:525` to `:585`): the pool is credited with what
  was taken and the trader owes nothing more.  Without `RoundedUsd` the property
  `PoolNeverLoses` is false, also without any spread; every other rounding is proved to
  favour the pool.

Deployment:

* The id of a pinned script is recorded after afterDeploy, so a crash between
  deployment and afterDeploy is repaired by the next run: that is why `Equipped` holds.
* A pinned script keeps stale wiring unless its id is bumped (`StaleOnlyBehindPins`).
  A new DataStore needs a new id of Oracle, although Oracle does not take the DataStore:
  its afterDeploy writes into it.
* Superseded instances keep their CONTROLLER role.
* After the hand-over of ROLE_ADMIN a run is refused at the first new contract, until
  governance has granted its role.
* configureRoles destructures `{ account, role }` from entries `{ role, member }`;
  validateRolesUtils throws where the comment of updateRoles.ts says otherwise.

Settings:

* The validation before updateMarketConfig passes on neoXT4 only: on neoX the
  recommended values are those of tokens its file does not list, elsewhere there are
  none.
* A literal 0 is skipped by the deploy script, the BigNumber zero is not; `swapOnly !==
  undefined` is tested in one place and its truth in another.  `DeployedAsUpdated`
  excepts zero.
* The deploy script never sets the transfer gas of a swap-only market's token (the loop
  continues at line 219, before line 316), and updateMarketConfig does.
* updateMarketConfig opens a market for deposits and never sets its virtual ids, which
  only the deploy script does; the comment in deployAndConfigureMarkets.ts:137 asks
  for the ids before other settings.  What is deposited in between is missing from the
  virtual inventory for good: `TracksInventory` excepts markets opened that way.
* Config checks the range of fee factors, the deploy script bypasses Config.
* The impact script reads the values of markets on chain and finds them by their
  place among the listed ones: a listed market that is not on chain shifts the rest.

Clients and subaccounts:

* createOrder.ts estimates the gas of a multicall before its own approval need be mined
  (`MCClientsNewWallet`).
* The withdrawal scripts unwrap when there is less WNT than the fee, which reverts.
* createDepositWbtcUsdt.ts sends a value of amount plus fee and leaves the amount in
  the ExchangeRouter (`NothingStranded` counts it).
* createLiquidationOrder always reverts.
* A helper whose create fails leaves the tokens it minted to the vault to the next
  request (`RequestsAsAsked` says "not less", once a helper has failed).
* The action count of a subaccount is not reset when it is removed, which
  `SubaccountIsBounded` depends on.  The account pays the execution fee of an order
  with wrapped native collateral out of that collateral, and the subaccount is topped up
  by it all the same.

## 7 What is left out, and assumptions

* The code compares the time a signer reports with `MAX_ORACLE_PRICE_AGE`; the models
  count blocks from the last block of the range.
* A callback sends tokens and does nothing else: the guard keeps every handler from being
  entered, and `call` is a single record, so what a re-entry would do is not modelled.
* Prices taken from price feeds carry no block number: the block checks of the code
  say nothing about them, and the timing properties are about signed prices.
* `PayExecutionFee` calls out with native tokens to keeper and user; the guard is
  still entered then, and no state changes after the second call but the vault's own
  recording, so the window is the same as that of the callback.
* A failure after the callback (in `payExecutionFee`) undoes the execution and is
  handled like one before it: a step of `ExecutionCancelsOrder` or
  `ExecutionFreezesOrder`.
* Swaps that name the OrderVault itself as the receiver of their output.
* Gas estimates, minimum gas, `validateExecutionErrorGas`: an attempt with too
  little gas reverts, which is no step.
* Funding in `Positions`: what a position pays and what it may claim are chosen
  independently, so claims are not tied to payments; the ledger `history.funding`
  keeps the difference.  With claims ahead of payments a balance check can fail, which
  `LiquidationsComplete` excepts.
* One interface and one affiliate per market, and one time bucket of claimable
  collateral; swaps inside a decrease have no fee and no impact of their own; a swap
  that fails for a reason outside the market's pools is `swapWorks = FALSE`.
* Trigger and acceptable prices, virtual inventory, the part of the collateral factor
  that grows with open interest, the flag of ADL, and markets whose two tokens are
  the same.
* `PoolNeverLoses` and its theorem are about prices that do not move and an index price
  without a spread: with one, tokens of the impact pool are taken in at one price and
  valued at another, and the two sides of the property no longer compare.
* Deployment: other networks than neoX, scripts that every network skips or that only
  test networks run, the faucets and mocks; `FOR_EXISTING_MAINNET_DEPLOYMENT`, which
  skips the grants.
* Settings: toggleMarkets, removeMarkets, updateClaimableCollateralFactors, the scripts
  that repair a virtual inventory, and `READ_FROM_CHAIN`; numbers are small integers, so
  the ratios the validation checks hold or fail as a whole.
* Clients: other networks than neoXT4 (on localhost some scripts take WETH, which does
  not wrap there, for the wrapped native token, and throw); the acceptable prices,
  callbacks and referral codes the scripts put into a request; whether a keeper pays a
  request out, gives it back, freezes it (trigger orders) or, in a test, gets a revert
  is a choice.

### Not modelled

* **Oracle**: medians of signed prices, signatures, the prices kept in the store during
  a transaction.  A transaction sets, uses and clears them in one modifier
  (`OracleModule.withOraclePrices`), and every path out of it reverts or clears; what
  matters across transactions, the blocks of the prices, is in `OrderHandler`.
* **The ADL flag** (`AdlUtils.updateAdlState`): `Positions` deleverages whenever a keeper
  does, which includes every flag.
* **Funding and borrowing factors** over time and open interest: `Positions` takes what has
  accrued from the environment.
* **Fee batches and swaps of fees**, **readers**, **events**, **errors**: reading or
  forwarding only, or without a lifecycle that a model of this size could add to.
* **Token contracts**: standard ERC-20 behaviour is assumed (`StrictBank`, `RouterCalls`);
  the staking and vesting contracts are not part of the exchange.
* **Tests, fixtures, mocks, incentive and printing scripts**: they keep no state of the
  system.
* The multisig's power to revoke at once does not cancel a grant announced before: as
  long as an admin remains he can carry it out (`Timelock.sol:226`).  The code allows
  it, so no property forbids it; `StoppedStaysStopped` says when it ends.
