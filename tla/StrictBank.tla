----------------------------- MODULE StrictBank -----------------------------
(***************************************************************************)
(* The vaults (DepositVault, WithdrawalVault, OrderVault) are StrictBanks: *)
(* a bank knows, per token, the balance it recorded (tokenBalances) next   *)
(* to the balance the token contract gives it.  What arrived since the     *)
(* last recording is what the next recordTransferIn returns.               *)
(* Native and wrapped native tokens are one token here: a vault holds only *)
(* the wrapped one, and unwrapping moves the same amount out.              *)
(***************************************************************************)
EXTENDS Integers

CONSTANTS
  Tokens,   \* the tokens a vault can hold
  Wnt       \* the wrapped native token, in which execution fees are paid

ASSUME WntAssumption == Wnt \in Tokens

\* balance: IERC20(token).balanceOf(bank); recorded: tokenBalances.
Bank == [balance : [Tokens -> Nat], recorded : [Tokens -> Nat]]

EmptyBank == [balance  |-> [t \in Tokens |-> 0],
              recorded |-> [t \in Tokens |-> 0]]

\* Fault: the whole balance is reported, not what arrived since the last time.
UnrecordedIsBalance(bank, token) == bank.balance[token]

\* The tokens transferred in that recordTransferIn would report.
Unrecorded(bank, token) == bank.balance[token] - bank.recorded[token]

\* Anybody can send tokens to a bank; nothing in the bank runs.
TransferIn(bank, token, amount) ==
  [bank EXCEPT !.balance[token] = @ + amount]

\* Fault: recordTransferIn does not store the new balance.
RecordTransferInForgets(bank, token) == bank

RecordTransferIn(bank, token) ==
  [bank EXCEPT !.recorded[token] = bank.balance[token]]

\* syncTokenBalance, called after tokens of the bank were burnt.
SyncTokenBalance(bank, token) == RecordTransferIn(bank, token)

\* transferOut and transferOutNativeToken: the transfer (to the receiver, or
\* to HOLDING_ADDRESS when the receiver cannot take it), then _afterTransferOut
\* records the balance, which takes in whatever had not been recorded.
TransferOut(bank, token, amount) ==
  [balance  |-> [bank.balance EXCEPT ![token] = @ - amount],
   recorded |-> [bank.recorded EXCEPT ![token] = bank.balance[token] - amount]]

\* Faults: the gas cost is paid even if the fee is less; what is left of the fee
\* is not given back.
PayExecutionFeeUncapped(bank, executionFee, gasCost) ==
  TransferOut(bank, Wnt, gasCost)
PayExecutionFeeKeepsRest(bank, executionFee, gasCost) ==
  TransferOut(bank, Wnt, IF gasCost > executionFee THEN executionFee ELSE gasCost)

\* GasUtils.payExecutionFee: the keeper gets the gas cost, at most the fee, and
\* the rest, if any, goes back to the user. Both calls move wrapped native tokens.
PayExecutionFee(bank, executionFee, gasCost) ==
  LET executionFeeForKeeper ==
        IF gasCost > executionFee THEN executionFee ELSE gasCost
      refundFeeAmount == executionFee - executionFeeForKeeper
      afterKeeper == TransferOut(bank, Wnt, executionFeeForKeeper)
  IN  IF refundFeeAmount = 0
        THEN afterKeeper
        ELSE TransferOut(afterKeeper, Wnt, refundFeeAmount)
=============================================================================
