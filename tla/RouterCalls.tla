---------------------------- MODULE RouterCalls -----------------------------
(***************************************************************************)
(* What the transactions of a wallet do to the chain: the wallet's own     *)
(* token transactions, and a multicall of the ExchangeRouter, whose calls  *)
(* run in order and are undone together when one of them reverts.          *)
(* A chain holds the wallet's tokens and its allowances for the Router,    *)
(* the native tokens left in the ExchangeRouter, the vaults with the       *)
(* requests each is kept for, and whether the transaction at work has      *)
(* reverted.  The gas price, at a scale at which it is also the smallest   *)
(* execution fee, is one and the same throughout a transaction.            *)
(***************************************************************************)
EXTENDS StrictBank, SequencesExt

CONSTANTS Vaults, Unlimited     \* approve(2 ** 256 - 1)

VARIABLE gasPrice

Nothing == [t \in Tokens |-> 0]

Reverted(chain) == [chain EXCEPT !.ok = FALSE]
After(chain, condition, next) == IF condition THEN next ELSE Reverted(chain)

-----------------------------------------------------------------------------
(* The wallet's own transactions.                                          *)

Deposited(chain, amount)    == [chain EXCEPT !.wallet[Wnt] = @ + amount]
Withdrawn(chain, amount)    ==
    After(chain, chain.wallet[Wnt] >= amount, [chain EXCEPT !.wallet[Wnt] = @ - amount])
Approved(chain, token, amount) == [chain EXCEPT !.allowance[token] = amount]
Minted(chain, token, amount) == [chain EXCEPT !.wallet[token] = @ + amount]

\* The tests mint into a vault directly, or transfer market tokens to it.
MintedTo(chain, vault, token, amount) ==
    [chain EXCEPT !.vaults[vault] = TransferIn(@, token, amount)]
Transferred(chain, vault, token, amount) ==
    After(chain, chain.wallet[token] >= amount,
          MintedTo([chain EXCEPT !.wallet[token] = @ - amount], vault, token, amount))

-----------------------------------------------------------------------------
(* The calls of a multicall.                                               *)

\* BaseRouter.sendWnt wraps native tokens that the router has, whoever sent them.
SendWnt(chain, vault, amount) ==
    After(chain, chain.native >= amount,
          MintedTo([chain EXCEPT !.native = @ - amount], vault, Wnt, amount))

\* Router.pluginTransfer: an unlimited allowance is not used up.
PluginTransfer(chain, token, amount) ==
    After(chain, chain.wallet[token] >= amount /\ chain.allowance[token] >= amount,
          [chain EXCEPT !.wallet[token] = @ - amount,
                        !.allowance[token] = IF @ = Unlimited THEN @ ELSE @ - amount])

SendTokens(chain, vault, token, amount) ==
    LET sent == PluginTransfer(chain, token, amount)
    IN  After(chain, sent.ok, MintedTo(sent, vault, token, amount))

\* Fault: a fee that arrives on its own is taken and not recorded.
TokensRecorded(brings) == brings
TokensToRecord(brings) == brings \cup {Wnt}

\* createDeposit, createWithdrawal and createOrder, which differ in the tokens
\* the request brings: what arrived in the vault since it last recorded is the
\* request's, and its fee is taken out of wrapped native tokens it brings or is
\* all that arrived of them.
CreateRequest(chain, vault, call, by) ==
    LET bank     == chain.vaults[vault]
        arrived  == [t \in Tokens |-> IF t \in call.brings THEN Unrecorded(bank, t) ELSE 0]
        fromWnt  == Wnt \in call.brings
        fee      == IF fromWnt THEN call.fee ELSE Unrecorded(bank, Wnt)
        paid     == call.fee <= Unrecorded(bank, Wnt)
        holds    == IF fromWnt /\ paid THEN [arrived EXCEPT ![Wnt] = @ - fee] ELSE arrived
        request  == [id |-> chain.nonce + 1, by |-> by, holds |-> holds, fee |-> fee,
                     asked |-> call.asked, askedFee |-> call.fee, gives |-> call.gives]
        recorded == [bank EXCEPT !.recorded =
                        [t \in Tokens |-> IF t \in TokensToRecord(call.brings)
                                          THEN bank.balance[t] ELSE @[t]]]
    IN  After(chain,
              /\ call.creatable /\ paid /\ fee >= gasPrice
              /\ call.mayBeEmpty \/ holds # Nothing,
              [chain EXCEPT !.nonce = @ + 1, !.vaults[vault] = recorded,
                            !.requests[vault] = Append(@, request)])

Call(chain, call, by) ==
    IF ~ chain.ok THEN chain
    ELSE CASE call.name = "sendWnt"    -> SendWnt(chain, call.vault, call.amount)
           [] call.name = "sendTokens" -> SendTokens(chain, call.vault, call.token, call.amount)
           [] OTHER                    -> CreateRequest(chain, call.vault, call, by)

Multicall(chain, value, calls, by) ==
    FoldLeft(LAMBDA c, call : Call(c, call, by), [chain EXCEPT !.native = @ + value], calls)

-----------------------------------------------------------------------------
(* The keepers' side: a request leaves the list of its vault, whose last   *)
(* takes its place, and its tokens and fee leave the vault.  What the      *)
(* wallet gets for it depends on prices and positions.                     *)

SwapRemove(list, i) ==
    [j \in 1 .. Len(list) - 1 |-> IF j = i THEN list[Len(list)] ELSE list[j]]

Settled(chain, vault, i, paid) ==
    LET request == chain.requests[vault][i]
        out     == [t \in Tokens |-> request.holds[t] + IF t = Wnt THEN request.fee ELSE 0]
        bank    == chain.vaults[vault]
    IN  [chain EXCEPT
           !.requests[vault] = SwapRemove(@, i),
           !.vaults[vault] = [balance  |-> [t \in Tokens |-> bank.balance[t] - out[t]],
                              recorded |-> [t \in Tokens |->
                                  IF out[t] = 0 THEN bank.recorded[t] ELSE bank.balance[t] - out[t]]],
           !.wallet = [t \in Tokens |-> @[t] + paid[t]]]

\* A frozen order stays with its collateral; its fee leaves the vault.
Frozen(chain, i) ==
    LET order == chain.requests["OrderVault"][i]
        bank  == chain.vaults["OrderVault"]
    IN  [chain EXCEPT
           !.requests["OrderVault"][i] = [order EXCEPT !.fee = 0, !.askedFee = 0],
           !.vaults["OrderVault"] = TransferOut(bank, Wnt, order.fee)]
=============================================================================
