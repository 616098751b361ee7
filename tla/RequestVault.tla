---------------------------- MODULE RequestVault ----------------------------
(***************************************************************************)
(* What DepositHandler and WithdrawalHandler share: a StrictBank as vault, *)
(* the counter of request keys, the global reentrancy guard, and the end   *)
(* of a transaction, payExecutionFee, that comes after its callback.       *)
(* A transaction that reverts is no step.                                  *)
(***************************************************************************)
EXTENDS PrefixSum, StrictBank

CONSTANTS
  Accounts,                   \* the users of the exchange
  NoAddress,                  \* address(0)
  OrderKeepers,               \* addresses with the ORDER_KEEPER role
  Market,                     \* the market token, one market
  RequestedFees,              \* the values users pass as executionFee
  TransferAmounts,            \* the amounts sent to a vault in one transfer
  GasCosts,                   \* what a transaction may cost its keeper
  MinExecutionFee,            \* the fee validateExecutionFee asks for
  RequestExpirationBlockAge,  \* REQUEST_EXPIRATION_BLOCK_AGE
  MaxOraclePriceAge,          \* MAX_ORACLE_PRICE_AGE, in blocks
  MaxNonce,                   \* bound on the number of requests
  MaxBlock,                   \* bound on the block number
  LastCreateBlock,            \* bound on the block of a creation
  MaxBalance                  \* bound on what a vault is sent of a token

VARIABLES
  nonce,      \* NONCE in the DataStore: the last key given out
  vault,      \* the DepositVault, or the WithdrawalVault
  supply,     \* the total supply of the market token
  disabled,   \* the disabled operations of the handler
  block,      \* the current block number
  guard,      \* REENTRANCY_GUARD_STATUS in the DataStore
  call        \* the handler's transaction that is in its callback, or NoCall

Keys == 1..MaxNonce

Operations == {"create", "cancel", "execute"}

ASSUME RequestVaultAssumption ==
  /\ NoAddress \notin Accounts \cup Tokens
  /\ Market \in Tokens \ {Wnt}
  /\ RequestedFees \subseteq Nat /\ TransferAmounts \subseteq Nat
  /\ GasCosts \subseteq Nat /\ MinExecutionFee \in Nat
  /\ RequestExpirationBlockAge \in Nat /\ MaxOraclePriceAge \in Nat
  /\ {MaxNonce, MaxBlock, LastCreateBlock, MaxBalance} \subseteq Nat

Call == [key : Nat, executionFee : Nat, outcome : {"none", "executed", "cancelled"}]

NoCall == [key |-> 0, executionFee |-> 0, outcome |-> "none"]

FeeIn(fee, token) == IF token = Wnt THEN fee ELSE 0

VaultTypeOK ==
  /\ nonce \in 0..MaxNonce
  /\ vault \in Bank
  /\ supply \in Nat
  /\ disabled \in SUBSET Operations
  /\ block \in Nat
  /\ guard \in {"NOT_ENTERED", "ENTERED"}
  /\ call \in Call

VaultInit ==
  /\ nonce = 0
  /\ vault = EmptyBank
  /\ supply = 0
  /\ disabled = {}
  /\ block = 1
  /\ guard = "NOT_ENTERED"
  /\ call = NoCall

-----------------------------------------------------------------------------
(* Guards of the handlers. *)

NotEntered == guard = "NOT_ENTERED"
FeatureEnabled(operation) == operation \notin disabled

\* ExchangeUtils.validateRequestCancellation.
Expired(updatedAtBlock) == block - updatedAtBlock >= RequestExpirationBlockAge

\* Oracle.setPrices: signed prices are of one range of blocks that are over, the
\* last of them not too long ago.  It runs before the handlers' try, so that no
\* failed attempt cancels anything when the prices are too old.
ValidBlockRange(minBlock, maxBlock) ==
  minBlock <= maxBlock /\ maxBlock < block /\ block <= maxBlock + MaxOraclePriceAge

\* Deposits and withdrawals are executed at prices of the block of the request.
OracleBlocksValid(updatedAtBlock, minBlock, maxBlock) ==
  updatedAtBlock \in minBlock..maxBlock

\* TransferOut is only called for amounts that are not 0.
TransferOutIfAny(bank, token, amount) ==
  IF amount > 0 THEN TransferOut(bank, token, amount) ELSE bank

\* A transaction reaches its callback.
EnterCall(key, executionFee, outcome) ==
  /\ call' = [key |-> key, executionFee |-> executionFee, outcome |-> outcome]
  /\ guard' = "ENTERED"

-----------------------------------------------------------------------------
(* Steps that leave the requests alone. *)

FinishCall(gasCost) ==
  /\ call.key # 0
  /\ vault' = PayExecutionFee(vault, call.executionFee, gasCost)
  /\ call' = NoCall
  /\ guard' = "NOT_ENTERED"
  /\ UNCHANGED <<nonce, supply, disabled, block>>

\* Tokens sent to the vault: ahead of a request, or by anybody at any time, a
\* callback contract included.
SendTokens(token, amount) ==
  /\ vault.balance[token] + amount <= MaxBalance
  /\ vault' = TransferIn(vault, token, amount)
  /\ UNCHANGED <<nonce, supply, disabled, block, guard, call>>

NextBlock ==
  /\ NotEntered
  /\ block < MaxBlock
  /\ block' = block + 1
  /\ UNCHANGED <<nonce, vault, supply, disabled, guard, call>>

SwitchFeature(operation) ==
  /\ NotEntered
  /\ disabled' = IF operation \in disabled THEN disabled \ {operation}
                 ELSE disabled \cup {operation}
  /\ UNCHANGED <<nonce, vault, supply, block, guard, call>>
=============================================================================
