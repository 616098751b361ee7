--------------------------- MODULE DepositHandler ---------------------------
(***************************************************************************)
(* Deposits of liquidity: DepositHandler, DepositUtils, ExecuteDepositUtils*)
(* and the DepositVault.  A deposit brings long and short tokens and its   *)
(* execution fee; its execution moves the tokens to the market and mints   *)
(* market tokens, its cancellation sends them back.  How many market       *)
(* tokens a deposit is worth is chosen by the environment.                 *)
(***************************************************************************)
EXTENDS RequestVault

CONSTANTS
  MintAmounts,                 \* how many market tokens a deposit may mint
  RequestedMinima,             \* the values users pass as minMarketTokens
  FirstDepositReceiver,        \* RECEIVER_FOR_FIRST_DEPOSIT, address(1)
  MinMarketTokensForFirstDeposit,
  MaxSupply                    \* bound on the supply of market tokens

ASSUME DepositHandlerAssumption ==
  /\ MintAmounts \subseteq Nat /\ RequestedMinima \subseteq Nat
  /\ FirstDepositReceiver \notin Accounts \cup {NoAddress}
  /\ MinMarketTokensForFirstDeposit \in Nat /\ MaxSupply \in Nat

VARIABLES
  deposits,   \* the deposit of every key
  shares      \* the market tokens minted to each receiver

depositVars == <<nonce, vault, supply, disabled, block, guard, call, deposits, shares>>

Receivers == Accounts \cup {FirstDepositReceiver}

Deposit == [account                 : Accounts \cup {NoAddress},
            receiver                : Receivers \cup {NoAddress},
            initialLongToken        : Tokens \cup {NoAddress},
            initialShortToken       : Tokens \cup {NoAddress},
            initialLongTokenAmount  : Nat,
            initialShortTokenAmount : Nat,
            minMarketTokens         : Nat,
            executionFee            : Nat,
            updatedAtBlock          : Nat]

\* What DepositStoreUtils.get returns for a key that is not in the store.
EmptyDeposit == [account                 |-> NoAddress,
                 receiver                |-> NoAddress,
                 initialLongToken        |-> NoAddress,
                 initialShortToken       |-> NoAddress,
                 initialLongTokenAmount  |-> 0,
                 initialShortTokenAmount |-> 0,
                 minMarketTokens         |-> 0,
                 executionFee            |-> 0,
                 updatedAtBlock          |-> 0]

EscrowOf(deposit, token) ==
  (IF deposit.initialLongToken = token THEN deposit.initialLongTokenAmount ELSE 0)
  + (IF deposit.initialShortToken = token THEN deposit.initialShortTokenAmount ELSE 0)
  + FeeIn(deposit.executionFee, token)

Held(token) ==
  [k \in Keys |-> EscrowOf(deposits[k], token)
                  + IF call.key = k THEN FeeIn(call.executionFee, token) ELSE 0]

DepositTypeOK ==
  /\ VaultTypeOK
  /\ deposits \in [Keys -> Deposit]
  /\ shares \in [Receivers -> Nat]

DepositInit ==
  /\ VaultInit
  /\ deposits = [k \in Keys |-> EmptyDeposit]
  /\ shares = [r \in Receivers |-> 0]

-----------------------------------------------------------------------------
\* DepositUtils.createDeposit.  The fee comes out of the wrapped native tokens
\* of the deposit, if one of its tokens is that; otherwise all the wrapped
\* native tokens that arrived are the fee.
CreateDeposit(account, receiver, long, short, minMarketTokens, executionFee) ==
  LET afterLong     == RecordTransferIn(vault, long)
      afterShort    == RecordTransferIn(afterLong, short)
      longReceived  == Unrecorded(vault, long)
      shortReceived == Unrecorded(afterLong, short)
      wntAmount     == Unrecorded(afterShort, Wnt)
      available     == IF long = Wnt THEN longReceived
                       ELSE IF short = Wnt THEN shortReceived
                       ELSE wntAmount
      longAmount    == IF long = Wnt THEN longReceived - executionFee
                       ELSE longReceived
      shortAmount   == IF long # Wnt /\ short = Wnt THEN shortReceived - executionFee
                       ELSE shortReceived
      fee           == IF Wnt \in {long, short} THEN executionFee ELSE wntAmount
  IN
  /\ NotEntered
  /\ FeatureEnabled("create")
  /\ available >= executionFee
  /\ longAmount # 0 \/ shortAmount # 0
  /\ fee >= MinExecutionFee
  /\ nonce < MaxNonce /\ block <= LastCreateBlock
  /\ nonce' = nonce + 1
  /\ deposits' = [deposits EXCEPT ![nonce + 1] =
                    [account                 |-> account,
                     receiver                |-> receiver,
                     initialLongToken        |-> long,
                     initialShortToken       |-> short,
                     initialLongTokenAmount  |-> longAmount,
                     initialShortTokenAmount |-> shortAmount,
                     minMarketTokens         |-> minMarketTokens,
                     executionFee            |-> fee,
                     updatedAtBlock          |-> block]]
  /\ vault' = IF Wnt \in {long, short} THEN afterShort
              ELSE RecordTransferIn(afterShort, Wnt)
  /\ UNCHANGED <<supply, disabled, block, guard, call, shares>>

\* The long, then the short tokens of a deposit leave the vault: to the account
\* when it is cancelled, to the market (or the first market of its swap path)
\* when it is executed.
SendDepositOut(deposit) ==
  LET afterLong == TransferOutIfAny(vault, deposit.initialLongToken,
                                    deposit.initialLongTokenAmount)
  IN  vault' = TransferOutIfAny(afterLong, deposit.initialShortToken,
                                deposit.initialShortTokenAmount)

\* Fault: the deposit stays in the store.
KeepDeposit(key) == UNCHANGED deposits

RemoveDeposit(key) == deposits' = [deposits EXCEPT ![key] = EmptyDeposit]

\* DepositUtils.cancelDeposit up to its callback.
cancelDeposit(key) ==
  LET deposit == deposits[key] IN
  /\ deposit.account # NoAddress
  /\ deposit.initialLongTokenAmount # 0 \/ deposit.initialShortTokenAmount # 0
  /\ RemoveDeposit(key)
  /\ SendDepositOut(deposit)
  /\ EnterCall(key, deposit.executionFee, "cancelled")
  /\ UNCHANGED <<nonce, supply, disabled, block, shares>>

\* Fault: cancelling is switched off with executing.
CancelExecutableDeposit(key, account) ==
  /\ NotEntered
  /\ deposits[key].account = account
  /\ FeatureEnabled("execute")
  /\ Expired(deposits[key].updatedAtBlock)
  /\ cancelDeposit(key)

CancelDeposit(key, account) ==
  /\ NotEntered
  /\ deposits[key].account = account
  /\ FeatureEnabled("cancel")
  /\ Expired(deposits[key].updatedAtBlock)
  /\ cancelDeposit(key)

\* Fault: the receiver of the first deposit is not checked.
ValidFirstMinimum(deposit) ==
  supply = 0 => deposit.minMarketTokens >= MinMarketTokensForFirstDeposit

\* ExecuteDepositUtils._validateFirstDeposit.
ValidFirstDeposit(deposit) ==
  supply = 0 /\ MinMarketTokensForFirstDeposit > 0 =>
    /\ deposit.receiver = FirstDepositReceiver
    /\ deposit.minMarketTokens >= MinMarketTokensForFirstDeposit

\* ExecuteDepositUtils.executeDeposit up to its callback.
ExecuteDeposit(key, keeper, minBlock, maxBlock, minted) ==
  LET deposit == deposits[key] IN
  /\ NotEntered
  /\ keeper \in OrderKeepers
  /\ FeatureEnabled("execute")
  /\ deposit.account # NoAddress
  /\ ValidBlockRange(minBlock, maxBlock)
  /\ OracleBlocksValid(deposit.updatedAtBlock, minBlock, maxBlock)
  /\ ValidFirstDeposit(deposit)
  /\ minted >= deposit.minMarketTokens
  /\ supply + minted <= MaxSupply
  /\ RemoveDeposit(key)
  /\ SendDepositOut(deposit)
  /\ supply' = supply + minted
  /\ shares' = [shares EXCEPT ![deposit.receiver] = @ + minted]
  /\ EnterCall(key, deposit.executionFee, "executed")
  /\ UNCHANGED <<nonce, disabled, block>>

\* Fault: a failed execution cancels only what a user could cancel.
ExecutionCancelsIfEnabled(key, keeper, minBlock, maxBlock) ==
  /\ NotEntered
  /\ keeper \in OrderKeepers
  /\ FeatureEnabled("execute") /\ FeatureEnabled("cancel")
  /\ ValidBlockRange(minBlock, maxBlock)
  /\ OracleBlocksValid(deposits[key].updatedAtBlock, minBlock, maxBlock)
  /\ cancelDeposit(key)

\* DepositHandler._handleDepositError: an execution that fails for any reason but
\* an oracle error or a disabled feature (a disabled market, too few market
\* tokens, an invalid first deposit, a swap, a pool limit...) is undone and the
\* deposit cancelled.  All of those come after the checks of feature and blocks.
ExecutionCancelsDeposit(key, keeper, minBlock, maxBlock) ==
  /\ NotEntered
  /\ keeper \in OrderKeepers
  /\ FeatureEnabled("execute")
  /\ ValidBlockRange(minBlock, maxBlock)
  /\ OracleBlocksValid(deposits[key].updatedAtBlock, minBlock, maxBlock)
  /\ cancelDeposit(key)

-----------------------------------------------------------------------------
DepositUserStep(account) ==
  \/ \E receiver \in Receivers, long, short \in Tokens \ {Market},
        minMarketTokens \in RequestedMinima, fee \in RequestedFees :
       CreateDeposit(account, receiver, long, short, minMarketTokens, fee)
  \/ \E key \in Keys : CancelDeposit(key, account)

Attempt(key, keeper, minBlock, maxBlock) ==
  \/ \E minted \in MintAmounts : ExecuteDeposit(key, keeper, minBlock, maxBlock, minted)
  \/ ExecutionCancelsDeposit(key, keeper, minBlock, maxBlock)

DepositNext ==
  \/ \E account \in Accounts : DepositUserStep(account)
  \/ \E key \in Keys, keeper \in OrderKeepers, minBlock, maxBlock \in 1..MaxBlock :
       Attempt(key, keeper, minBlock, maxBlock)
  \/ /\ \/ \E gasCost \in GasCosts : FinishCall(gasCost)
        \/ \E token \in Tokens \ {Market}, amount \in TransferAmounts :
             SendTokens(token, amount)
        \/ NextBlock
        \/ \E operation \in Operations : SwitchFeature(operation)
     /\ UNCHANGED <<deposits, shares>>

DepositSpec == DepositInit /\ [][DepositNext]_depositVars

-----------------------------------------------------------------------------
(* Safety. *)

\* The vault has recorded no more than it holds, and what it recorded covers
\* the tokens and fees of every pending deposit, and the fee of the transaction
\* in progress: also when both sides of a deposit are the same token, or a side
\* is the token the fee is paid in.
VaultCoversDeposits ==
  \A t \in Tokens :
    /\ vault.recorded[t] <= vault.balance[t]
    /\ Total(Held(t), MaxNonce) <= vault.recorded[t]

-----------------------------------------------------------------------------
(* Liveness. *)

Waiting(key) == deposits[key].account # NoAddress

\* A transaction that was entered is finished, and blocks go on.
TimeGoesOn ==
  /\ WF_depositVars(/\ \E gasCost \in GasCosts : FinishCall(gasCost)
                    /\ UNCHANGED <<deposits, shares>>)
  /\ SF_depositVars(NextBlock /\ UNCHANGED <<deposits, shares>>)

DepositFairSpec == DepositSpec /\ TimeGoesOn

\* An attempt of a keeper at the prices of the deposit's own block, the only ones
\* he can count on.
KeeperSettles(key) ==
  \E keeper \in OrderKeepers :
    Attempt(key, keeper, deposits[key].updatedAtBlock, deposits[key].updatedAtBlock)

PricesTooOld(key) == block > deposits[key].updatedAtBlock + MaxOraclePriceAge

\* With keepers that keep trying, no deposit waits for ever while its prices are
\* young enough, as long as executing is enabled again and again: it is executed,
\* or cancelled whatever else is disabled.
DepositsAreSettled ==
  \A key \in Keys :
    /\ SF_depositVars(KeeperSettles(key))
    /\ []<> FeatureEnabled("execute")
    => (Waiting(key) ~> ~ Waiting(key) \/ PricesTooOld(key))

OwnerCancels(key) == \E account \in Accounts : CancelDeposit(key, account)

\* When its prices have grown too old no keeper can settle a deposit, and nobody
\* has to: an owner who keeps trying gets it cancelled, whatever becomes of
\* execution.
DepositorsCanLeave ==
  \A key \in Keys :
    /\ SF_depositVars(OwnerCancels(key))
    /\ []<> FeatureEnabled("cancel")
    => (Waiting(key) ~> ~ Waiting(key))

-----------------------------------------------------------------------------
(* DepositHandler implements RequestEscrow. *)

phaseOf(key) ==
  CASE key > nonce -> "unused"
    [] key <= nonce /\ (Waiting(key) \/ call.key = key) -> "open"
    [] OTHER -> "closed"

Escrow == INSTANCE RequestEscrow WITH
  MaxKey  <- MaxNonce,
  balance <- vault.balance,
  held    <- [t \in Tokens |-> Held(t)],
  phase   <- [k \in Keys |-> phaseOf(k)]

\* Every step of the DepositVault's accounting is a step of the escrow: a deposit
\* is paid out once, whole, and never again.
ImplementsEscrow == Escrow!Spec
=============================================================================
