----------------------------- MODULE Subaccounts ----------------------------
(***************************************************************************)
(* The SubaccountRouter: a subaccount creates, updates and cancels orders  *)
(* of the wallet's account and is topped up from the account's wrapped     *)
(* native tokens.  Both go through the Router, with the allowances that    *)
(* the client scripts have given it, and take tokens that the scripts may  *)
(* count on; so the wallet's scripts run beside the subaccount.            *)
(* A call is one transaction and none is half done.                        *)
(***************************************************************************)
EXTENDS Clients

CONSTANTS ActionCounts,   \* the numbers of actions the account allows
          TopUpAmounts,   \* the amounts the account sets for topping up
          GasUses,        \* what a call of the subaccount costs, at a gas price of 1
          SubaccountFees  \* the execution fees it offers

ASSUME SubaccountsAssumption ==
    ActionCounts \cup TopUpAmounts \cup GasUses \cup SubaccountFees \subseteq Nat

VARIABLES subaccount,   \* what the DataStore holds of it
          spent         \* history: what it was allowed and what it did

subaccountVars == <<subaccount, spent>>
vars == <<clientVars, subaccountVars>>

HasSubaccount == \E r \in Runs : run[r].script = "subaccount"

AddSubaccount ==
    /\ ~ subaccount.listed
    /\ subaccount' = [subaccount EXCEPT !.listed = TRUE]
    /\ UNCHANGED <<clientVars, spent>>

\* Fault: a subaccount that is removed and added again starts to count anew.
RemoveSubaccountAndCount ==
    /\ subaccount.listed
    /\ subaccount' = [subaccount EXCEPT !.listed = FALSE, !.count = 0]
    /\ UNCHANGED <<clientVars, spent>>

\* Neither the count nor the allowance is forgotten.
RemoveSubaccount ==
    /\ subaccount.listed
    /\ subaccount' = [subaccount EXCEPT !.listed = FALSE]
    /\ UNCHANGED <<clientVars, spent>>

Most(m, n) == IF m > n THEN m ELSE n

SetMaxAllowedSubaccountActionCount(n) ==
    /\ subaccount' = [subaccount EXCEPT !.maxCount = n]
    /\ spent' = [spent EXCEPT !.allowed = Most(@, n)]
    /\ UNCHANGED clientVars

SetSubaccountAutoTopUpAmount(n) ==
    /\ subaccount' = [subaccount EXCEPT !.topUp = n]
    /\ spent' = [spent EXCEPT !.topUp = Most(@, n)]
    /\ UNCHANGED clientVars

DisableFeature ==
    /\ subaccount.enabled
    /\ subaccount' = [subaccount EXCEPT !.enabled = FALSE]
    /\ UNCHANGED <<clientVars, spent>>

\* _autoTopUpSubaccount: nothing when the allowance or the balance is below the
\* amount set, else that amount or what the call is said to have used.
TopUp(c, executionFee, gasUsed) ==
    LET used == gasUsed * gasPrice + executionFee
    IN  IF c.allowance[Wnt] < subaccount.topUp \/ c.wallet[Wnt] < subaccount.topUp THEN 0
        ELSE IF used < subaccount.topUp THEN used ELSE subaccount.topUp

\* _handleSubaccountAction, the call of the OrderHandler that leads to `after`,
\* and _autoTopUpSubaccount.
Act(after, executionFee) ==
    /\ subaccount.enabled /\ subaccount.listed
    /\ subaccount.count < subaccount.maxCount
    /\ subaccount' = [subaccount EXCEPT !.count = @ + 1]
    /\ after.ok
    /\ \E gasUsed \in GasUses :
          LET amount == TopUp(after, executionFee, gasUsed)
          IN  /\ chain' = PluginTransfer(after, Wnt, amount)
              /\ spent' = [spent EXCEPT !.actions = @ + 1, !.toppedUp = @ + amount]
    /\ run' = [r \in Runs |-> [run[r] EXCEPT !.disturbed = @ \/ (Started(r) /\ ~ Ended(r))]]
    /\ UNCHANGED <<gasPrice, queue>>

\* createOrder, in a multicall after a sendWnt of the subaccount: the collateral
\* of an increase or a swap comes from the account, and of wrapped native tokens
\* the fee as well.
CreateSubaccountOrder(token, amount, fee, sent) ==
    LET call  == CreateIncrease(fee, token :> IF token = Wnt THEN amount + sent - fee ELSE amount)
        paid  == Multicall(chain, sent, <<SendWntTo("OrderVault", sent)>>, 0)
        moved == PluginTransfer(paid, token, amount)
    IN  Act(Call(MintedTo(moved, "OrderVault", token, amount), call, 0), fee)

\* updateOrder: what was sent for it, or before it, raises the order's fee.
UpdateSubaccountOrder(i, sent) ==
    LET bank  == TransferIn(chain.vaults["OrderVault"], Wnt, sent)
        order == chain.requests["OrderVault"][i]
        fee   == order.fee + Unrecorded(bank, Wnt)
    IN  Act(After(chain, fee >= gasPrice,
                  [chain EXCEPT !.vaults["OrderVault"] = RecordTransferIn(bank, Wnt),
                                !.requests["OrderVault"][i].fee = fee,
                                !.requests["OrderVault"][i].askedFee = @ + sent]), 0)

\* cancelOrder: collateral and fee go back to the account, the fee unwrapped.
CancelSubaccountOrder(i) ==
    Act(Settled(chain, "OrderVault", i, chain.requests["OrderVault"][i].holds), 0)

-----------------------------------------------------------------------------
Init ==
    /\ ClientInit
    /\ subaccount = [listed |-> FALSE, maxCount |-> 0, count |-> 0, topUp |-> 0, enabled |-> TRUE]
    /\ spent = [allowed |-> 0, topUp |-> 0, actions |-> 0, toppedUp |-> 0]

AccountNext ==
    \/ AddSubaccount \/ RemoveSubaccount \/ DisableFeature
    \/ \E n \in ActionCounts : SetMaxAllowedSubaccountActionCount(n)
    \/ \E n \in TopUpAmounts : SetSubaccountAutoTopUpAmount(n)

SubaccountNext ==
    \/ \E token \in {Wnt, "WETH"}, fee \in SubaccountFees : \E sent \in {0, fee} :
          CreateSubaccountOrder(token, 3, fee, sent)
    \/ \E i \in DOMAIN chain.requests["OrderVault"] :
          CancelSubaccountOrder(i) \/ \E sent \in SubaccountFees : UpdateSubaccountOrder(i, sent)

Next ==
    \/ ClientNext /\ UNCHANGED subaccountVars
    \/ HasSubaccount /\ (AccountNext \/ SubaccountNext)

Spec == Init /\ [][Next]_vars

-----------------------------------------------------------------------------
\* Whatever the account sets, removes and sets again, and however orders are
\* created, updated and cancelled: a subaccount never acts more often than the
\* account allowed at its most generous, and what it has drawn from the account
\* in top-ups is no more than that many times the largest amount ever set.
SubaccountIsBounded ==
    /\ spent.actions <= spent.allowed
    /\ spent.toppedUp <= spent.allowed * spent.topUp
=============================================================================
