------------------------------ MODULE Liquidity ------------------------------
(***************************************************************************)
(* DepositHandler and WithdrawalHandler together: they share the counter   *)
(* of request keys, the global reentrancy guard, the chain and the market  *)
(* token, that deposits mint and withdrawals burn, and each has its vault. *)
(* The first is extended, so that what is proved of it can be used, the    *)
(* second instantiated.                                                    *)
(***************************************************************************)
EXTENDS DepositHandler, FiniteSets, Functions

ASSUME LiquidityAssumption == IsFiniteSet(Accounts)

\* vault, disabled and call are those of the DepositHandler.
VARIABLES withdrawalVault, withdrawalsDisabled, withdrawalCall, withdrawals

W == INSTANCE WithdrawalHandler WITH
  vault <- withdrawalVault, disabled <- withdrawalsDisabled, call <- withdrawalCall

ofDeposits    == <<vault, disabled, call, deposits>>
ofWithdrawals == <<withdrawalVault, withdrawalsDisabled, withdrawalCall, withdrawals>>
vars == <<nonce, supply, block, guard, shares, ofDeposits, ofWithdrawals>>

TypeOK ==
  /\ DepositTypeOK
  /\ W!WithdrawalTypeOK

Init ==
  /\ DepositInit
  /\ W!WithdrawalInit

-----------------------------------------------------------------------------
\* A deposit that is executed mints market tokens to its receiver.
DepositStep ==
  /\ DepositNext
  /\ UNCHANGED ofWithdrawals

\* A withdrawal that is cancelled gives the market tokens back to its account.
ReturnShares(key) ==
  shares' = [shares EXCEPT ![withdrawals[key].account] =
                              @ + withdrawals[key].marketTokenAmount]

\* Market tokens are sent to the WithdrawalVault by an account that has them.
SendShares(account, amount) ==
  /\ amount <= shares[account]
  /\ W!SendTokens(Market, amount)
  /\ shares' = [shares EXCEPT ![account] = @ - amount]
  /\ UNCHANGED withdrawals

WithdrawalStep ==
  /\ \/ /\ \E account \in Accounts, fee \in RequestedFees :
             W!CreateWithdrawal(account, fee)
        /\ UNCHANGED shares
     \/ \E key \in Keys :
          \/ /\ \/ \E account \in Accounts : W!CancelWithdrawal(key, account)
                \/ \E keeper \in OrderKeepers, minBlock, maxBlock \in 1..MaxBlock :
                     W!ExecutionCancelsWithdrawal(key, keeper, minBlock, maxBlock)
             /\ ReturnShares(key)
          \/ /\ \E keeper \in OrderKeepers : W!ExecuteAtSomePrices(key, keeper)
             /\ UNCHANGED shares
     \/ /\ \/ \E gasCost \in GasCosts : W!FinishCall(gasCost)
           \/ \E amount \in TransferAmounts : W!SendTokens(Wnt, amount)
           \/ \E operation \in Operations : W!SwitchFeature(operation)
        /\ UNCHANGED <<withdrawals, shares>>
     \/ \E account \in Accounts, amount \in TransferAmounts : SendShares(account, amount)
  /\ UNCHANGED ofDeposits

Next == DepositStep \/ WithdrawalStep

Spec == Init /\ [][Next]_vars

-----------------------------------------------------------------------------
\* No market token is made or lost outside of the handlers: the supply is what
\* accounts hold, what was locked by the first deposit, and what the
\* WithdrawalVault holds for pending withdrawals or was sent.
SupplyAddsUp ==
  supply = SumFunctionOnSet(shares, Receivers) + withdrawalVault.balance[Market]

\* Once a market has liquidity, the minimum locked by its first deposit stays:
\* whatever is withdrawn, the supply is never small enough for the price of the
\* market token to be moved by rounding.
LockedSharesStay ==
  supply > 0 => /\ shares[FirstDepositReceiver] >= MinMarketTokensForFirstDeposit
                /\ supply >= MinMarketTokensForFirstDeposit

\* Both vaults keep covering their requests while the handlers interleave.
VaultsCoverRequests == VaultCoversDeposits /\ W!VaultCoversWithdrawals

\* The WithdrawalVault's accounting, with the keys that deposits take passed over,
\* and market tokens that leave it by being burnt.
WithdrawalsImplementEscrow == W!ImplementsEscrow
=============================================================================
