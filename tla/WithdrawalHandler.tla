-------------------------- MODULE WithdrawalHandler --------------------------
(***************************************************************************)
(* Withdrawals of liquidity: WithdrawalHandler, WithdrawalUtils,           *)
(* ExecuteWithdrawalUtils and the WithdrawalVault.  A withdrawal brings    *)
(* market tokens and its execution fee; its execution burns the market     *)
(* tokens out of the vault (what the market pays for them does not pass    *)
(* through the vault), its cancellation sends them back.                   *)
(***************************************************************************)
EXTENDS RequestVault

VARIABLE withdrawals   \* the withdrawal of every key

withdrawalVars == <<nonce, vault, supply, disabled, block, guard, call, withdrawals>>

Withdrawal == [account           : Accounts \cup {NoAddress},
               marketTokenAmount : Nat,
               executionFee      : Nat,
               updatedAtBlock    : Nat]

\* What WithdrawalStoreUtils.get returns for a key that is not in the store.
EmptyWithdrawal == [account           |-> NoAddress,
                    marketTokenAmount |-> 0,
                    executionFee      |-> 0,
                    updatedAtBlock    |-> 0]

EscrowOf(withdrawal, token) ==
  (IF token = Market THEN withdrawal.marketTokenAmount ELSE 0)
  + FeeIn(withdrawal.executionFee, token)

Held(token) ==
  [k \in Keys |-> EscrowOf(withdrawals[k], token)
                  + IF call.key = k THEN FeeIn(call.executionFee, token) ELSE 0]

WithdrawalTypeOK ==
  /\ VaultTypeOK
  /\ withdrawals \in [Keys -> Withdrawal]

WithdrawalInit ==
  /\ VaultInit
  /\ withdrawals = [k \in Keys |-> EmptyWithdrawal]

-----------------------------------------------------------------------------
\* WithdrawalUtils.createWithdrawal: all the wrapped native tokens that arrived
\* are the fee, all the market tokens are to be withdrawn.
CreateWithdrawal(account, executionFee) ==
  LET wntAmount         == Unrecorded(vault, Wnt)
      marketTokenAmount == Unrecorded(vault, Market)
  IN
  /\ NotEntered
  /\ FeatureEnabled("create")
  /\ wntAmount >= executionFee
  /\ marketTokenAmount # 0
  /\ wntAmount >= MinExecutionFee
  /\ nonce < MaxNonce /\ block <= LastCreateBlock
  /\ nonce' = nonce + 1
  /\ withdrawals' = [withdrawals EXCEPT ![nonce + 1] =
                       [account           |-> account,
                        marketTokenAmount |-> marketTokenAmount,
                        executionFee      |-> wntAmount,
                        updatedAtBlock    |-> block]]
  /\ vault' = RecordTransferIn(RecordTransferIn(vault, Wnt), Market)
  /\ UNCHANGED <<supply, disabled, block, guard, call>>

\* Fault: the withdrawal stays in the store.
KeepWithdrawal(key) == UNCHANGED withdrawals

RemoveWithdrawal(key) == withdrawals' = [withdrawals EXCEPT ![key] = EmptyWithdrawal]

\* WithdrawalUtils.cancelWithdrawal up to its callback.
cancelWithdrawal(key) ==
  LET withdrawal == withdrawals[key] IN
  /\ withdrawal.account # NoAddress
  /\ withdrawal.marketTokenAmount # 0
  /\ RemoveWithdrawal(key)
  /\ vault' = TransferOut(vault, Market, withdrawal.marketTokenAmount)
  /\ EnterCall(key, withdrawal.executionFee, "cancelled")
  /\ UNCHANGED <<nonce, supply, disabled, block>>

CancelWithdrawal(key, account) ==
  /\ NotEntered
  /\ withdrawals[key].account = account
  /\ FeatureEnabled("cancel")
  /\ Expired(withdrawals[key].updatedAtBlock)
  /\ cancelWithdrawal(key)

\* Faults: no market tokens are burnt; the vault does not record that they are.
BurnNothing(bank, amount) == SyncTokenBalance(bank, Market)
BurnUnsynced(bank, amount) == [bank EXCEPT !.balance[Market] = @ - amount]

\* MarketToken.burn, then StrictBank.syncTokenBalance.
Burn(bank, amount) ==
  SyncTokenBalance([bank EXCEPT !.balance[Market] = @ - amount], Market)

\* ExecuteWithdrawalUtils.executeWithdrawal up to its callback.
ExecuteWithdrawal(key, keeper, minBlock, maxBlock) ==
  LET withdrawal == withdrawals[key] IN
  /\ NotEntered
  /\ keeper \in OrderKeepers
  /\ FeatureEnabled("execute")
  /\ withdrawal.account # NoAddress
  /\ withdrawal.marketTokenAmount # 0
  /\ ValidBlockRange(minBlock, maxBlock)
  /\ OracleBlocksValid(withdrawal.updatedAtBlock, minBlock, maxBlock)
  /\ vault.balance[Market] >= withdrawal.marketTokenAmount
  /\ RemoveWithdrawal(key)
  /\ vault' = Burn(vault, withdrawal.marketTokenAmount)
  /\ supply' = supply - withdrawal.marketTokenAmount
  /\ EnterCall(key, withdrawal.executionFee, "executed")
  /\ UNCHANGED <<nonce, disabled, block>>

\* WithdrawalHandler._handleWithdrawalError: an execution that fails for any reason
\* but an oracle error or a disabled feature (output amounts, reserves, the pnl of
\* traders, a disabled market...) is undone and the withdrawal cancelled.  They come
\* after the checks of feature and blocks.
ExecutionCancelsWithdrawal(key, keeper, minBlock, maxBlock) ==
  /\ NotEntered
  /\ keeper \in OrderKeepers
  /\ FeatureEnabled("execute")
  /\ ValidBlockRange(minBlock, maxBlock)
  /\ OracleBlocksValid(withdrawals[key].updatedAtBlock, minBlock, maxBlock)
  /\ cancelWithdrawal(key)

-----------------------------------------------------------------------------
ExecuteAtSomePrices(key, keeper) ==
  \E minBlock, maxBlock \in 1..MaxBlock :
    ExecuteWithdrawal(key, keeper, minBlock, maxBlock)

-----------------------------------------------------------------------------
\* The vault has recorded no more than it holds, and what it recorded covers the
\* market tokens and the fee of every pending withdrawal, and the fee of the
\* transaction in progress, also after market tokens were burnt out of it.
VaultCoversWithdrawals ==
  \A t \in Tokens :
    /\ vault.recorded[t] <= vault.balance[t]
    /\ Total(Held(t), MaxNonce) <= vault.recorded[t]

-----------------------------------------------------------------------------
(* WithdrawalHandler implements RequestEscrow. *)

Waiting(key) == withdrawals[key].account # NoAddress

phaseOf(key) ==
  CASE key > nonce -> "unused"
    [] key <= nonce /\ (Waiting(key) \/ call.key = key) -> "open"
    [] OTHER -> "closed"

Escrow == INSTANCE RequestEscrow WITH
  MaxKey  <- MaxNonce,
  balance <- vault.balance,
  held    <- [t \in Tokens |-> Held(t)],
  phase   <- [k \in Keys |-> phaseOf(k)]

\* Every step of the WithdrawalVault's accounting is a step of the escrow.
ImplementsEscrow == Escrow!Spec
=============================================================================
