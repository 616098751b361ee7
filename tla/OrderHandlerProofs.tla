------------------------- MODULE OrderHandlerProofs --------------------------
(***************************************************************************)
(* OrderHandler keeps its types, keeps the fee of a transaction apart from *)
(* the orders, and keeps the OrderVault able to pay everybody, whatever    *)
(* the users, keepers, tokens, amounts, fees and bounds are.               *)
(***************************************************************************)
EXTENDS OrderHandler, SumProofs

USE OrderHandlerAssumption, WntAssumption

\* The inductive invariant: the vault covers the orders because a transaction
\* in progress holds a fee no order holds, and unused keys hold nothing.
IInv == TypeOK /\ CallOwnsItsFee /\ VaultCoversOrders

-----------------------------------------------------------------------------
(* What the operations of the vault do to its balance and its record. *)

\* Recording: one token's record becomes its balance.
LEMMA RecordTransferInBank ==
  ASSUME NEW bank \in Bank, NEW token \in Tokens
  PROVE  LET after == RecordTransferIn(bank, token) IN
         /\ after \in Bank
         /\ after.balance = bank.balance
         /\ after.recorded[token] = bank.balance[token]
         /\ \A t \in Tokens \ {token} : after.recorded[t] = bank.recorded[t]
BY DEF RecordTransferIn, Bank

\* Tokens that arrive change a balance and no record.
LEMMA TransferInBank ==
  ASSUME NEW bank \in Bank, NEW token \in Tokens, NEW amount \in Nat
  PROVE  LET after == TransferIn(bank, token, amount) IN
         /\ after \in Bank
         /\ after.recorded = bank.recorded
         /\ after.balance[token] = bank.balance[token] + amount
         /\ \A t \in Tokens \ {token} : after.balance[t] = bank.balance[t]
BY DEF TransferIn, Bank

\* A transfer out takes its amount from the balance and records what is left.
LEMMA TransferOutBank ==
  ASSUME NEW bank \in Bank, NEW token \in Tokens, NEW amount \in Nat,
         amount <= bank.balance[token]
  PROVE  LET after == TransferOut(bank, token, amount) IN
         /\ after \in Bank
         /\ after.balance[token] = bank.balance[token] - amount
         /\ after.recorded[token] = bank.balance[token] - amount
         /\ \A t \in Tokens \ {token} : /\ after.balance[t] = bank.balance[t]
                                        /\ after.recorded[t] = bank.recorded[t]
<1>1. bank.balance[token] - amount \in Nat  BY DEF Bank
<1> QED BY <1>1 DEF TransferOut, Bank

\* Paying an execution fee transfers the fee out, whole, however it is split
\* between the keeper and the refund.
LEMMA PayExecutionFeeBank ==
  ASSUME NEW bank \in Bank, NEW fee \in Nat, NEW gasCost \in Nat,
         fee <= bank.balance[Wnt]
  PROVE  PayExecutionFee(bank, fee, gasCost) = TransferOut(bank, Wnt, fee)
<1> DEFINE keeper == IF gasCost > fee THEN fee ELSE gasCost
           paid   == TransferOut(bank, Wnt, keeper)
<1>1. /\ Wnt \in Tokens /\ bank.balance[Wnt] \in Nat
      /\ keeper \in Nat /\ keeper <= fee /\ fee - keeper \in Nat
  BY WntAssumption DEF Bank
<1>2. PayExecutionFee(bank, fee, gasCost)
        = IF fee - keeper = 0 THEN paid ELSE TransferOut(paid, Wnt, fee - keeper)
  BY DEF PayExecutionFee
<1> HIDE DEF keeper
<1>3. CASE fee - keeper = 0
  BY <1>1, <1>2, <1>3
<1>4. CASE fee - keeper # 0
  <2>1. /\ bank.balance \in [Tokens -> Nat] /\ bank.recorded \in [Tokens -> Nat]
        /\ bank.balance[Wnt] - keeper - (fee - keeper) = bank.balance[Wnt] - fee
    BY <1>1 DEF Bank
  <2> QED BY <1>1, <1>2, <1>4, <2>1 DEF TransferOut
<1> QED BY <1>3, <1>4

-----------------------------------------------------------------------------
(* What the vault holds for the keys. *)

\* What an order holds of a token is an amount.
LEMMA EscrowOfNat ==
  ASSUME NEW order \in Order, NEW t \in Tokens
  PROVE  EscrowOf(order, t) \in Nat /\ CollateralOf(order, t) \in Nat
BY DEF EscrowOf, CollateralOf, FeeIn, Order

\* An empty order holds nothing.
LEMMA EmptyOrderFacts ==
  /\ EmptyOrder \in Order
  /\ \A t \in Tokens : EscrowOf(EmptyOrder, t) = 0
BY DEF EscrowOf, CollateralOf, FeeIn, Order, EmptyOrder, OrderTypes

\* What the vault holds for each key is an amount.
LEMMA HeldNat ==
  ASSUME TypeOK, NEW t \in Tokens
  PROVE  Held(t) \in [Keys -> Nat]
<1>1. \A k \in Keys : EscrowOf(orders[k], t) \in Nat
  BY EscrowOfNat DEF TypeOK
<1>2. FeeIn(call.executionFee, t) \in Nat
  BY DEF TypeOK, Call, FeeIn
<1> QED BY <1>1, <1>2 DEF Held

\* A step about one key changes the total by what it changes for that key.
LEMMA HeldStep ==
  ASSUME TypeOK, TypeOK', NEW t \in Tokens, NEW k \in Keys,
         \A j \in Keys \ {k} : orders'[j] = orders[j],
         call.key \in {0, k}, call'.key \in {0, k}
  PROVE  /\ Held(t)[k] \in Nat /\ Held(t)'[k] \in Nat
         /\ Total(Held(t), MaxNonce) \in Nat
         /\ Total(Held(t), MaxNonce)' \in Nat
         /\ Held(t)[k] <= Total(Held(t), MaxNonce)
         /\ Total(Held(t), MaxNonce)'
              = Total(Held(t), MaxNonce) - Held(t)[k] + Held(t)'[k]
<1> DEFINE f == Held(t)
           g == Held(t)'
<1>1. f \in [Keys -> Nat]  BY HeldNat
<1>2. g \in [Keys -> Nat]
  <2>1. \A j \in Keys : EscrowOf(orders'[j], t) \in Nat
    BY EscrowOfNat DEF TypeOK
  <2>2. FeeIn(call'.executionFee, t) \in Nat
    BY DEF TypeOK, Call, FeeIn
  <2> QED BY <2>1, <2>2 DEF Held
<1>3. \A j \in Keys \ {k} : g[j] = f[j]
  BY DEF Held, Keys
<1> HIDE DEF f, g
<1>4. g = [f EXCEPT ![k] = g[k]]
  BY <1>1, <1>2, <1>3
<1>5. MaxNonce \in Nat /\ Keys = 1..MaxNonce  BY DEF Keys
<1>6. f \in [1..MaxNonce -> Int] /\ k \in 1..MaxNonce /\ g[k] \in Int
  BY <1>1, <1>2, <1>5
<1>7. Total(g, MaxNonce) = Total(f, MaxNonce) - f[k] + g[k]
  <2>1. Total([f EXCEPT ![k] = g[k]], MaxNonce)
          = Total(f, MaxNonce) - f[k] + g[k]
    BY <1>5, <1>6, TotalUpdate
  <2> QED BY <2>1, <1>4
<1>8. /\ Total(f, MaxNonce) \in Nat /\ Total(g, MaxNonce) \in Nat
      /\ f[k] <= Total(f, MaxNonce)
  BY <1>1, <1>2, <1>5, <1>6, TotalBounds
<1>9. Total(Held(t), MaxNonce)' = Total(g, MaxNonce)  BY DEF g
<1> QED BY <1>1, <1>2, <1>7, <1>8, <1>9 DEF f, g

\* The vault stays able to pay when a step records at least as much more of each
\* token as it holds more for the key it is about.
LEMMA CoverStep ==
  ASSUME IInv, TypeOK', NEW k \in Keys,
         \A j \in Keys \ {k} : orders'[j] = orders[j],
         call.key \in {0, k}, call'.key \in {0, k},
         \A t \in Tokens :
           /\ vault'.recorded[t] <= vault'.balance[t]
           /\ Held(t)'[k] - Held(t)[k] <= vault'.recorded[t] - vault.recorded[t]
  PROVE  VaultCoversOrders'
<1> SUFFICES ASSUME NEW t \in Tokens
             PROVE  Total(Held(t), MaxNonce)' <= vault'.recorded[t]
  BY DEF VaultCoversOrders
<1>1. /\ Held(t)[k] \in Nat /\ Held(t)'[k] \in Nat
      /\ Total(Held(t), MaxNonce) \in Nat
      /\ Total(Held(t), MaxNonce)' \in Nat
      /\ Total(Held(t), MaxNonce)'
           = Total(Held(t), MaxNonce) - Held(t)[k] + Held(t)'[k]
  BY HeldStep DEF IInv
<1>2. Total(Held(t), MaxNonce) <= vault.recorded[t]
  BY DEF IInv, VaultCoversOrders
<1>3. vault.recorded[t] \in Nat /\ vault'.recorded[t] \in Nat
  BY DEF IInv, TypeOK, Bank
<1> QED BY <1>1, <1>2, <1>3

\* What the vault holds for a key when no transaction is in progress, and for
\* the key of the transaction when one is.
LEMMA HeldValues ==
  ASSUME TypeOK, NEW t \in Tokens, NEW k \in Keys
  PROVE  /\ call.key = 0 => Held(t)[k] = EscrowOf(orders[k], t)
         /\ call.key = k =>
              Held(t)[k] = EscrowOf(orders[k], t) + FeeIn(call.executionFee, t)
<1>1. EscrowOf(orders[k], t) \in Nat  BY EscrowOfNat DEF TypeOK
<1> QED BY <1>1 DEF Held, Keys

\* A key is covered by the vault: its collateral and its fee can be paid out.
LEMMA KeyIsCovered ==
  ASSUME IInv, NEW k \in Keys, NEW t \in Tokens
  PROVE  /\ EscrowOf(orders[k], t) <= vault.recorded[t]
         /\ vault.recorded[t] <= vault.balance[t]
         /\ call.key = k => EscrowOf(orders[k], t) + FeeIn(call.executionFee, t)
                              <= vault.recorded[t]
<1> USE DEF IInv
<1>1. Held(t) \in [1..MaxNonce -> Nat] /\ MaxNonce \in Nat /\ k \in 1..MaxNonce
  BY HeldNat DEF Keys
<1>2. Total(Held(t), MaxNonce) \in Nat /\ Held(t)[k] <= Total(Held(t), MaxNonce)
  BY <1>1, TotalBounds
<1>3. /\ Total(Held(t), MaxNonce) <= vault.recorded[t]
      /\ vault.recorded[t] <= vault.balance[t]
      /\ vault.recorded[t] \in Nat /\ vault.balance[t] \in Nat
  BY DEF VaultCoversOrders, TypeOK, Bank
<1>4. EscrowOf(orders[k], t) \in Nat /\ FeeIn(call.executionFee, t) \in Nat
  BY EscrowOfNat DEF TypeOK, Call, FeeIn
<1>5. EscrowOf(orders[k], t) <= Held(t)[k]
  BY <1>4 DEF Held, Keys
<1>6. call.key = k =>
        Held(t)[k] = EscrowOf(orders[k], t) + FeeIn(call.executionFee, t)
  BY HeldValues
<1> QED BY <1>1, <1>2, <1>3, <1>4, <1>5, <1>6

\* The same, after a step.
LEMMA HeldValuesNext ==
  ASSUME TypeOK', NEW t \in Tokens, NEW k \in Keys
  PROVE  /\ call'.key = 0 => Held(t)'[k] = EscrowOf(orders'[k], t)
         /\ call'.key = k =>
              Held(t)'[k] = EscrowOf(orders'[k], t) + FeeIn(call'.executionFee, t)
<1>1. EscrowOf(orders'[k], t) \in Nat  BY EscrowOfNat DEF TypeOK
<1> QED BY <1>1 DEF Held, Keys

-----------------------------------------------------------------------------
(* Every action keeps the invariant. *)

\* Paying the fee of the transaction in progress takes it out of the vault.
LEMMA FinishCallIInv ==
  ASSUME IInv, NEW gasCost \in GasCosts, FinishCall(gasCost)
  PROVE  IInv'
<1> DEFINE k == call.key
           fee == call.executionFee
<1>1. k \in Keys /\ fee \in Nat /\ gasCost \in Nat
  <2>1. call \in Call /\ nonce \in 0..MaxNonce  BY DEF IInv, TypeOK
  <2>2. k \in Nat /\ fee \in Nat  BY <2>1 DEF Call
  <2>3. k # 0 /\ k <= nonce  BY DEF IInv, CallOwnsItsFee, FinishCall
  <2> HIDE DEF k, fee
  <2>4. nonce \in Nat /\ MaxNonce \in Nat /\ nonce <= MaxNonce  BY <2>1
  <2>5. k \in 1..MaxNonce  BY <2>2, <2>3, <2>4
  <2>6. gasCost \in Nat  OBVIOUS
  <2> QED BY <2>2, <2>5, <2>6 DEF Keys
<1>2. orders[k].executionFee = 0 /\ orders[k] \in Order
  BY <1>1 DEF IInv, TypeOK, CallOwnsItsFee, FinishCall
<1>3. fee <= vault.recorded[Wnt] /\ vault.recorded[Wnt] <= vault.balance[Wnt]
  <2>1. EscrowOf(orders[k], Wnt) \in Nat  BY <1>2, EscrowOfNat
  <2>2. FeeIn(fee, Wnt) = fee  BY DEF FeeIn
  <2> QED BY <1>1, <2>1, <2>2, KeyIsCovered DEF IInv, TypeOK, Bank
<1>4. vault \in Bank /\ fee <= vault.balance[Wnt]
  BY <1>1, <1>3 DEF IInv, TypeOK, Bank
<1>5. /\ vault' \in Bank
      /\ vault'.balance[Wnt] = vault.balance[Wnt] - fee
      /\ vault'.recorded[Wnt] = vault.balance[Wnt] - fee
      /\ \A t \in Tokens \ {Wnt} : /\ vault'.balance[t] = vault.balance[t]
                                   /\ vault'.recorded[t] = vault.recorded[t]
  BY <1>1, <1>4, PayExecutionFeeBank, TransferOutBank DEF FinishCall
<1>6. NoCall \in Call /\ NoCall.key = 0 /\ NoCall.executionFee = 0
  BY DEF NoCall, Call
<1>7. TypeOK'
  BY <1>5, <1>6 DEF IInv, TypeOK, FinishCall
<1>8. CallOwnsItsFee'
  BY <1>6 DEF IInv, CallOwnsItsFee, FinishCall, TypeOK
<1>9. VaultCoversOrders'
  <2>1. ASSUME NEW t \in Tokens
        PROVE  /\ vault'.recorded[t] <= vault'.balance[t]
               /\ Held(t)'[k] - Held(t)[k] <= vault'.recorded[t] - vault.recorded[t]
    <3>1. Held(t)[k] = EscrowOf(orders[k], t) + FeeIn(fee, t)
      BY <1>1, HeldValues DEF IInv
    <3>2. Held(t)'[k] = EscrowOf(orders[k], t)
      BY <1>1, <1>6, <1>7, HeldValuesNext DEF FinishCall
    <3>3. EscrowOf(orders[k], t) \in Nat  BY <1>2, EscrowOfNat
    <3>4. /\ vault.recorded[t] <= vault.balance[t]
          /\ vault.recorded[t] \in Nat /\ vault.balance[t] \in Nat
      BY DEF IInv, VaultCoversOrders, TypeOK, Bank
    <3>5. FeeIn(fee, t) = IF t = Wnt THEN fee ELSE 0  BY DEF FeeIn
    <3> HIDE DEF k, fee
    <3> QED BY <1>1, <1>5, <3>1, <3>2, <3>3, <3>4, <3>5
  <2>2. \A j \in Keys \ {k} : orders'[j] = orders[j]  BY DEF FinishCall
  <2>3. call'.key = 0  BY <1>6 DEF FinishCall
  <2> QED BY <1>1, <1>7, <2>1, <2>2, <2>3, CoverStep
<1> QED BY <1>7, <1>8, <1>9 DEF IInv

\* Tokens that arrive only add to a balance.
LEMMA SendTokensIInv ==
  ASSUME IInv, NEW token \in Tokens, NEW amount \in TransferAmounts,
         SendTokens(token, amount)
  PROVE  IInv'
<1>1. /\ vault' \in Bank
      /\ vault'.recorded = vault.recorded
      /\ vault'.balance[token] = vault.balance[token] + amount
      /\ \A t \in Tokens \ {token} : vault'.balance[t] = vault.balance[t]
  <2>1. vault \in Bank /\ amount \in Nat  BY DEF IInv, TypeOK
  <2> DEFINE after == TransferIn(vault, token, amount)
  <2>2. vault' = after  BY DEF SendTokens
  <2>3. /\ after \in Bank
        /\ after.recorded = vault.recorded
        /\ after.balance[token] = vault.balance[token] + amount
        /\ \A t \in Tokens \ {token} : after.balance[t] = vault.balance[t]
    BY <2>1, TransferInBank, Zenon
  <2> HIDE DEF after
  <2> QED BY <2>2, <2>3
<1>2. UNCHANGED <<nonce, orders, positions, disabled, block, guard, call, termsSetAt>>
  BY DEF SendTokens
<1>3. TypeOK'  BY <1>1, <1>2 DEF IInv, TypeOK
<1>4. CallOwnsItsFee'  BY <1>2 DEF IInv, CallOwnsItsFee
<1>5. VaultCoversOrders'
  <2> SUFFICES ASSUME NEW t \in Tokens
               PROVE  /\ vault'.recorded[t] <= vault'.balance[t]
                      /\ Total(Held(t), MaxNonce)' <= vault'.recorded[t]
    BY DEF VaultCoversOrders
  <2>1. /\ vault.recorded[t] <= vault.balance[t]
        /\ Total(Held(t), MaxNonce) <= vault.recorded[t]
    BY DEF IInv, VaultCoversOrders
  <2>2. vault.recorded[t] \in Nat /\ vault.balance[t] \in Nat /\ amount \in Nat
    BY DEF IInv, TypeOK, Bank
  <2>3. Held(t)' = Held(t)  BY <1>2 DEF Held
  <2>4. Total(Held(t), MaxNonce)' = Total(Held(t), MaxNonce)  BY <2>3
  <2>5. vault'.recorded[t] <= vault'.balance[t]
    BY <1>1, <2>1, <2>2
  <2> QED BY <1>1, <2>1, <2>4, <2>5
<1> QED BY <1>3, <1>4, <1>5 DEF IInv

\* Steps that leave the orders, the transaction and the vault alone.
LEMMA OtherStepIInv ==
  ASSUME IInv, TypeOK', UNCHANGED <<nonce, orders, vault, guard, call>>
  PROVE  IInv'
<1>1. CallOwnsItsFee'  BY DEF IInv, CallOwnsItsFee
<1>2. VaultCoversOrders'
  <2>1. \A t \in Tokens : Held(t)' = Held(t)  BY DEF Held
  <2>2. \A t \in Tokens : Total(Held(t), MaxNonce)' = Total(Held(t), MaxNonce)
    BY <2>1
  <2> QED BY <2>2 DEF IInv, VaultCoversOrders
<1> QED BY <1>1, <1>2 DEF IInv

\* A cancellation or an execution takes the order's collateral out of the vault
\* and moves its fee to the transaction.
LEMMA RemoveOrderVault ==
  ASSUME IInv, NEW key \in Keys,
         vault' = IF /\ BringsCollateral(orders[key].orderType)
                     /\ orders[key].initialCollateralDeltaAmount > 0
                    THEN TransferOut(vault, orders[key].initialCollateralToken,
                                     orders[key].initialCollateralDeltaAmount)
                    ELSE vault
  PROVE  /\ vault' \in Bank
         /\ \A t \in Tokens :
              /\ vault'.recorded[t] <= vault'.balance[t]
              /\ vault.recorded[t] - vault'.recorded[t] <= CollateralOf(orders[key], t)
<1> DEFINE order  == orders[key]
           token  == order.initialCollateralToken
           amount == order.initialCollateralDeltaAmount
<1>1. order \in Order /\ amount \in Nat /\ order.executionFee \in Nat
  BY DEF IInv, TypeOK, Order
<1>2. vault \in Bank /\ \A t \in Tokens :
        /\ vault.recorded[t] \in Nat /\ vault.balance[t] \in Nat
        /\ vault.recorded[t] <= vault.balance[t]
  BY DEF IInv, TypeOK, VaultCoversOrders, Bank
<1>3. \A t \in Tokens : CollateralOf(order, t) \in Nat  BY <1>1, EscrowOfNat
<1>4. CASE BringsCollateral(order.orderType) /\ amount > 0
  <2>1. token \in Tokens
    <3>1. token \in Tokens \/ amount = 0  BY DEF IInv, CallOwnsItsFee
    <3> QED BY <3>1, <1>4, <1>1
  <2>2. CollateralOf(order, token) = amount  BY <1>4 DEF CollateralOf
  <2>3. amount <= vault.balance[token]
    <3>1. EscrowOf(order, token) <= vault.recorded[token]
      BY <2>1, KeyIsCovered
    <3>2. FeeIn(order.executionFee, token) \in Nat  BY <1>1 DEF FeeIn
    <3>3. EscrowOf(order, token) = amount + FeeIn(order.executionFee, token)
      BY <2>2 DEF EscrowOf
    <3> HIDE DEF order, token, amount
    <3> QED BY <3>1, <3>2, <3>3, <2>1, <1>1, <1>2
  <2> DEFINE after == TransferOut(vault, token, amount)
  <2>4. vault' = after  BY <1>4
  <2>5. /\ after \in Bank
        /\ after.balance[token] = vault.balance[token] - amount
        /\ after.recorded[token] = vault.balance[token] - amount
        /\ \A t \in Tokens \ {token} : /\ after.balance[t] = vault.balance[t]
                                       /\ after.recorded[t] = vault.recorded[t]
    BY <1>1, <1>2, <2>1, <2>3, TransferOutBank
  <2> HIDE DEF after, order, token, amount
  <2>6. ASSUME NEW t \in Tokens
        PROVE  /\ after.recorded[t] <= after.balance[t]
               /\ vault.recorded[t] - after.recorded[t] <= CollateralOf(order, t)
    <3>1. CASE t = token  BY <3>1, <2>1, <2>2, <2>5, <1>1, <1>2
    <3>2. CASE t # token  BY <3>2, <2>5, <1>2, <1>3
    <3> QED BY <3>1, <3>2
  <2> QED BY <2>4, <2>5, <2>6 DEF order
<1>5. CASE ~ (BringsCollateral(order.orderType) /\ amount > 0)
  <2>1. vault' = vault  BY <1>5
  <2> HIDE DEF order
  <2> QED BY <2>1, <1>2, <1>3 DEF order
<1> QED BY <1>4, <1>5

\* Removing an order, its fee passing to the transaction, leaves the vault covered.
LEMMA RemoveOrderCover ==
  ASSUME IInv, TypeOK', NEW key \in Keys, call.key = 0,
         orders' = [orders EXCEPT ![key] = EmptyOrder],
         call'.key = key, call'.executionFee = orders[key].executionFee,
         \A t \in Tokens :
           /\ vault'.recorded[t] <= vault'.balance[t]
           /\ vault.recorded[t] - vault'.recorded[t] <= CollateralOf(orders[key], t)
  PROVE  VaultCoversOrders'
<1>1. ASSUME NEW t \in Tokens
      PROVE  Held(t)'[key] - Held(t)[key] <= vault'.recorded[t] - vault.recorded[t]
  <2> DEFINE order == orders[key]
  <2>1. Held(t)[key] = EscrowOf(order, t)
    BY HeldValues DEF IInv
  <2>2. Held(t)'[key] = EscrowOf(orders'[key], t) + FeeIn(order.executionFee, t)
    BY HeldValuesNext
  <2>3. orders'[key] = EmptyOrder  BY DEF IInv, TypeOK
  <2>4. EscrowOf(EmptyOrder, t) = 0  BY EmptyOrderFacts
  <2>5. EscrowOf(order, t) = CollateralOf(order, t) + FeeIn(order.executionFee, t)
    BY DEF EscrowOf
  <2>6. order \in Order  BY DEF IInv, TypeOK
  <2>7. CollateralOf(order, t) \in Nat /\ FeeIn(order.executionFee, t) \in Nat
    BY <2>6, EscrowOfNat DEF FeeIn, Order
  <2>8. vault.recorded[t] \in Nat /\ vault'.recorded[t] \in Nat
    BY DEF IInv, TypeOK, Bank
  <2>9. vault.recorded[t] - vault'.recorded[t] <= CollateralOf(order, t)
    OBVIOUS
  <2> HIDE DEF order
  <2> QED BY <2>1, <2>2, <2>3, <2>4, <2>5, <2>7, <2>8, <2>9
<1>2. \A j \in Keys \ {key} : orders'[j] = orders[j]  BY DEF IInv, TypeOK
<1> QED BY <1>1, <1>2, CoverStep

\* OrderUtils.cancelOrder and the removal after an execution keep the invariant.
LEMMA RemoveOrderIInv ==
  ASSUME IInv, NEW key \in Keys, call.key = 0,
         nonce' \in 0..MaxNonce, nonce <= nonce', key <= nonce',
         orders' = [orders EXCEPT ![key] = EmptyOrder],
         vault' = IF /\ BringsCollateral(orders[key].orderType)
                     /\ orders[key].initialCollateralDeltaAmount > 0
                    THEN TransferOut(vault, orders[key].initialCollateralToken,
                                     orders[key].initialCollateralDeltaAmount)
                    ELSE vault,
         call' \in Call, call'.key = key,
         call'.executionFee = orders[key].executionFee,
         guard' = "ENTERED",
         positions' \in [Accounts -> Position],
         UNCHANGED <<disabled, block>>,
         termsSetAt' \in [Keys -> Nat]
  PROVE  IInv'
<1>1. /\ vault' \in Bank
      /\ \A t \in Tokens :
           /\ vault'.recorded[t] <= vault'.balance[t]
           /\ vault.recorded[t] - vault'.recorded[t] <= CollateralOf(orders[key], t)
  BY RemoveOrderVault
<1>2. EmptyOrder \in Order /\ EmptyOrder.executionFee = 0
      /\ EmptyOrder.initialCollateralDeltaAmount = 0
  BY EmptyOrderFacts DEF EmptyOrder
<1>3. orders \in [Keys -> Order] /\ orders' \in [Keys -> Order]
  BY <1>2 DEF IInv, TypeOK
<1>4. TypeOK'
  BY <1>1, <1>3 DEF IInv, TypeOK
<1>5. CallOwnsItsFee'
  <2>1. key # 0 /\ key \in Nat  BY DEF Keys
  <2>2. nonce \in Nat /\ nonce' \in Nat  BY DEF IInv, TypeOK
  <2>3. orders'[key] = EmptyOrder /\ \A k \in Keys \ {key} : orders'[k] = orders[k]
    BY <1>3
  <2>4. ASSUME NEW k \in Keys
        PROVE  /\ k > nonce' => orders'[k] = EmptyOrder
               /\ \/ orders'[k].initialCollateralToken \in Tokens
                  \/ orders'[k].initialCollateralDeltaAmount = 0
    <3>1. CASE k = key  BY <3>1, <2>3, <1>2
    <3>2. CASE k # key
      <4>1. orders'[k] = orders[k]  BY <3>2, <2>3
      <4>2. k > nonce' => k > nonce  BY <2>2 DEF Keys
      <4> QED BY <4>1, <4>2 DEF IInv, CallOwnsItsFee
    <3> QED BY <3>1, <3>2
  <2> QED BY <2>1, <2>3, <2>4, <1>2 DEF CallOwnsItsFee
<1>6. VaultCoversOrders'
  BY <1>1, <1>4, RemoveOrderCover
<1> QED BY <1>4, <1>5, <1>6 DEF IInv

\* Between transactions no key is being settled.
LEMMA NoCallKey ==
  ASSUME IInv, NotEntered
  PROVE  call.key = 0
BY DEF IInv, CallOwnsItsFee, NotEntered

\* A key with an order has been given out.
LEMMA GivenOut ==
  ASSUME IInv, NEW key \in Keys, ~ IsEmptyOrder(orders[key])
  PROVE  key <= nonce
<1>1. IsEmptyOrder(EmptyOrder)  BY DEF IsEmptyOrder, EmptyOrder
<1>2. ~ (key > nonce)  BY <1>1 DEF IInv, CallOwnsItsFee
<1>3. key \in Nat /\ nonce \in Nat  BY DEF IInv, TypeOK, Keys
<1> QED BY <1>2, <1>3

\* Cancellations, by the owner or after a failed execution.
LEMMA cancelOrderIInv ==
  ASSUME IInv, NotEntered, NEW key \in Keys,
         NEW sender \in Accounts \cup OrderKeepers,
         cancelOrder(key, sender),
         UNCHANGED <<nonce, positions, disabled, block, termsSetAt>>
  PROVE  IInv'
<1>1. call.key = 0  BY NoCallKey
<1>2. ~ IsEmptyOrder(orders[key])  BY DEF cancelOrder
<1>3. key <= nonce  BY <1>2, GivenOut
<1>4. nonce' \in 0..MaxNonce /\ nonce <= nonce' /\ key <= nonce'
  BY <1>3 DEF IInv, TypeOK
<1>5. key \in Nat /\ orders[key].executionFee \in Nat
  BY DEF IInv, TypeOK, Order, Keys
<1>6. /\ call' \in Call /\ call'.key = key
      /\ call'.executionFee = orders[key].executionFee
  BY <1>5 DEF cancelOrder, NoCall, Call
<1>7. /\ positions' \in [Accounts -> Position] /\ termsSetAt' \in [Keys -> Nat]
  BY DEF IInv, TypeOK
<1>8. /\ orders' = [orders EXCEPT ![key] = EmptyOrder]
      /\ guard' = "ENTERED"
      /\ vault' = IF /\ BringsCollateral(orders[key].orderType)
                     /\ orders[key].initialCollateralDeltaAmount > 0
                    THEN TransferOut(vault, orders[key].initialCollateralToken,
                                     orders[key].initialCollateralDeltaAmount)
                    ELSE vault
  BY DEF cancelOrder
<1> QED BY <1>1, <1>4, <1>6, <1>7, <1>8, RemoveOrderIInv

\* What an execution leaves of a position is a position.
LEMMA PositionsAfterType ==
  ASSUME NEW order \in Order, NEW position \in Position, block \in Nat,
         NEW p \in PositionsAfter(order, position)
  PROVE  p \in Position
<1> DEFINE sum  == position.size + order.sizeDeltaUsd
           rest == position.size - order.sizeDeltaUsd
           more == [position EXCEPT !.size = sum, !.increasedAtBlock = block]
           less == [position EXCEPT !.size = rest, !.decreasedAtBlock = block]
<1>1. /\ sum \in Nat /\ rest \in Int /\ (rest > 0 => rest \in Nat)
  BY DEF Order, Position
<1>2. more \in Position
  <2> HIDE DEF sum
  <2> QED BY <1>1 DEF Position
<1>3. less.size > 0 => less \in Position
  <2> HIDE DEF rest
  <2>1. less.size = rest  BY DEF Position
  <2> QED BY <1>1, <2>1 DEF Position
<1>4. EmptyPosition \in Position  BY DEF EmptyPosition, Position
<1>5. \/ p = position \/ p = more \/ p = EmptyPosition
      \/ p = less /\ less.size > 0
  <2>1. isSwapOrder(order.orderType) \/ isIncreaseOrder(order.orderType)
        \/ isDecreaseOrder(order.orderType)
    BY DEF Order, OrderTypes, isSwapOrder, isIncreaseOrder, isDecreaseOrder
  <2> QED
    BY <2>1 DEF PositionsAfter, PositionsAfterIncrease, PositionsAfterDecrease
<1> QED BY <1>2, <1>3, <1>4, <1>5

\* Executions leave positions and a transaction of the right type.
LEMMA executeOrderFacts ==
  ASSUME IInv, NEW key \in Nat, NEW order \in Order, order.account \in Accounts,
         NEW sender \in OrderKeepers,
         NEW minBlock \in 1..MaxBlock, NEW maxBlock \in 1..MaxBlock,
         executeOrder(key, order, sender, minBlock, maxBlock)
  PROVE  /\ positions' \in [Accounts -> Position]
         /\ call' \in Call /\ call'.key = key
         /\ call'.executionFee = order.executionFee
         /\ guard' = "ENTERED"
         /\ orders' = [orders EXCEPT ![key] = EmptyOrder]
         /\ vault' = IF /\ BringsCollateral(order.orderType)
                        /\ order.initialCollateralDeltaAmount > 0
                       THEN TransferOut(vault, order.initialCollateralToken,
                                        order.initialCollateralDeltaAmount)
                       ELSE vault
<1>1. positions' \in [Accounts -> Position]
  <2>1. PICK p \in PositionsAfter(order, positions[order.account]) :
          positions' = [positions EXCEPT ![order.account] = p]
    BY DEF executeOrder
  <2>2. /\ positions \in [Accounts -> Position] /\ block \in Nat
        /\ positions[order.account] \in Position
    BY DEF IInv, TypeOK
  <2>3. p \in Position  BY <2>2, PositionsAfterType
  <2> QED BY <2>1, <2>2, <2>3
<1>2. order.executionFee \in Nat  BY DEF Order
<1>3. minBlock \in Nat /\ maxBlock \in Nat  OBVIOUS
<1>4. call' = [key |-> key, executionFee |-> order.executionFee,
               outcome |-> "executed", sender |-> sender,
               minBlock |-> minBlock, maxBlock |-> maxBlock]
  BY DEF executeOrder
<1>5. /\ call' \in Call /\ call'.key = key
      /\ call'.executionFee = order.executionFee
  BY <1>2, <1>3, <1>4 DEF Call
<1> QED BY <1>1, <1>5 DEF executeOrder

\* OrderHandler.executeOrder keeps the invariant, whichever way it ends.
LEMMA ExecuteOrderIInv ==
  ASSUME IInv, NEW key \in Keys, NEW keeper \in OrderKeepers,
         NEW minBlock \in 1..MaxBlock, NEW maxBlock \in 1..MaxBlock,
         ExecuteOrder(key, keeper, minBlock, maxBlock)
  PROVE  IInv'
<1> DEFINE order == orders[key]
<1>1. /\ NotEntered /\ ~ IsEmptyOrder(order)
      /\ executeOrder(key, order, keeper, minBlock, maxBlock)
      /\ UNCHANGED <<nonce, disabled, block, termsSetAt>>
  BY DEF ExecuteOrder, executeOrder
<1>2. call.key = 0  BY <1>1, NoCallKey
<1>3. key <= nonce  BY <1>1, GivenOut
<1>4. /\ nonce' \in 0..MaxNonce /\ nonce <= nonce' /\ key <= nonce'
      /\ termsSetAt' \in [Keys -> Nat]
  BY <1>1, <1>3 DEF IInv, TypeOK
<1>5. order \in Order /\ order.account \in Accounts /\ key \in Nat
  BY <1>1 DEF IInv, TypeOK, Order, IsEmptyOrder, Keys
<1>6. /\ positions' \in [Accounts -> Position]
      /\ call' \in Call /\ call'.key = key
      /\ call'.executionFee = order.executionFee
      /\ guard' = "ENTERED"
      /\ orders' = [orders EXCEPT ![key] = EmptyOrder]
      /\ vault' = IF /\ BringsCollateral(order.orderType)
                     /\ order.initialCollateralDeltaAmount > 0
                    THEN TransferOut(vault, order.initialCollateralToken,
                                     order.initialCollateralDeltaAmount)
                    ELSE vault
  BY <1>1, <1>5, executeOrderFacts
<1> QED BY <1>1, <1>2, <1>4, <1>6, RemoveOrderIInv

\* A liquidation order has no collateral and no fee in the vault: it leaves
\* what the removal of an unused key would.
LEMMA ExecuteLiquidationIInv ==
  ASSUME IInv, NEW account \in Accounts, NEW keeper \in OrderKeepers,
         NEW minBlock \in 1..MaxBlock, NEW maxBlock \in 1..MaxBlock,
         ExecuteLiquidation(account, keeper, minBlock, maxBlock)
  PROVE  IInv'
<1> DEFINE key   == nonce + 1
           size  == positions[account].size
           order == LiquidationOrder(account)
<1>1. /\ NotEntered /\ nonce < MaxNonce /\ nonce' = nonce + 1
      /\ executeOrder(key, order, keeper, minBlock, maxBlock)
      /\ termsSetAt' = [termsSetAt EXCEPT ![nonce + 1] = block]
      /\ UNCHANGED <<disabled, block>>
  BY DEF ExecuteLiquidation
<1>2. nonce \in 0..MaxNonce /\ block \in Nat /\ size \in Nat
  BY DEF IInv, TypeOK, Position
<1>3. key \in Keys /\ key \in Nat /\ nonce' \in 0..MaxNonce /\ nonce <= nonce'
      /\ key <= nonce' /\ key > nonce
  BY <1>1, <1>2 DEF Keys
<1> HIDE DEF size, key
<1>4. order = [account                      |-> account,
               orderType                    |-> "Liquidation",
               initialCollateralToken       |-> NoAddress,
               sizeDeltaUsd                 |-> size,
               initialCollateralDeltaAmount |-> 0,
               executionFee                 |-> 0,
               updatedAtBlock               |-> block,
               isFrozen                     |-> FALSE]
  BY DEF LiquidationOrder, size
<1> HIDE DEF order
<1>5. order \in Order /\ order.account \in Accounts
      /\ order.orderType = "Liquidation" /\ order.executionFee = 0
      /\ order.initialCollateralDeltaAmount = 0
  BY <1>2, <1>4 DEF Order, OrderTypes
<1>6. /\ positions' \in [Accounts -> Position]
      /\ call' \in Call /\ call'.key = key
      /\ call'.executionFee = 0
      /\ guard' = "ENTERED"
      /\ orders' = [orders EXCEPT ![key] = EmptyOrder]
      /\ vault' = vault
  <2>1. executeOrder(key, order, keeper, minBlock, maxBlock)  BY <1>1
  <2> QED BY <2>1, <1>3, <1>5, executeOrderFacts
<1>7. orders[key] = EmptyOrder  BY <1>3 DEF IInv, CallOwnsItsFee
<1>8. EmptyOrder.executionFee = 0 /\ EmptyOrder.initialCollateralDeltaAmount = 0
  BY DEF EmptyOrder
<1>9. call.key = 0  BY <1>1, NoCallKey
<1>10. termsSetAt' \in [Keys -> Nat]  BY <1>1, <1>2 DEF IInv, TypeOK, key
<1>11. /\ call'.executionFee = orders[key].executionFee
       /\ vault' = IF /\ BringsCollateral(orders[key].orderType)
                      /\ orders[key].initialCollateralDeltaAmount > 0
                     THEN TransferOut(vault, orders[key].initialCollateralToken,
                                      orders[key].initialCollateralDeltaAmount)
                     ELSE vault
  BY <1>6, <1>7, <1>8
<1>12. UNCHANGED <<disabled, block>>  BY <1>1
<1> QED BY <1>3, <1>6, <1>9, <1>10, <1>11, <1>12, RemoveOrderIInv

\* Freezing moves the fee of the order to the transaction.
LEMMA ExecutionFreezesOrderIInv ==
  ASSUME IInv, NEW key \in Keys, NEW keeper \in OrderKeepers,
         NEW minBlock, NEW maxBlock, ExecutionFreezesOrder(key, keeper, minBlock, maxBlock)
  PROVE  IInv'
<1> DEFINE order  == orders[key]
           fee    == order.executionFee
           frozen == [order EXCEPT !.executionFee = 0, !.isFrozen = TRUE]
<1>1. /\ NotEntered /\ ~ IsEmptyOrder(order)
      /\ orders' = [orders EXCEPT ![key].executionFee = 0, ![key].isFrozen = TRUE]
      /\ call' = [NoCall EXCEPT !.key = key, !.sender = keeper,
                                !.executionFee = fee, !.outcome = "frozen"]
      /\ guard' = "ENTERED"
      /\ UNCHANGED <<nonce, vault, positions, disabled, block, termsSetAt>>
  BY DEF ExecutionFreezesOrder
<1>2. call.key = 0  BY <1>1, NoCallKey
<1>3. key <= nonce  BY <1>1, GivenOut
<1>4. order \in Order /\ key \in Nat /\ key # 0 /\ fee \in Nat
  BY DEF IInv, TypeOK, Order, Keys
<1>5. frozen \in Order /\ frozen.executionFee = 0
      /\ frozen.orderType = order.orderType
      /\ frozen.initialCollateralToken = order.initialCollateralToken
      /\ frozen.initialCollateralDeltaAmount = order.initialCollateralDeltaAmount
  BY <1>4 DEF Order
<1>6. call' \in Call /\ call'.key = key /\ call'.executionFee = fee
  BY <1>1, <1>4 DEF NoCall, Call
<1>7. /\ orders \in [Keys -> Order] /\ orders' \in [Keys -> Order]
      /\ orders'[key] = frozen /\ \A j \in Keys \ {key} : orders'[j] = orders[j]
  <2>1. orders \in [Keys -> Order]  BY DEF IInv, TypeOK
  <2>2. orders' = [orders EXCEPT ![key] = frozen]  BY <1>1, <2>1
  <2> HIDE DEF frozen
  <2> QED BY <1>5, <2>1, <2>2
<1> HIDE DEF frozen, order, fee
<1>8. TypeOK'
  BY <1>1, <1>6, <1>7 DEF IInv, TypeOK
<1>9. CallOwnsItsFee'
  <2>1. ASSUME NEW j \in Keys
        PROVE  /\ j > nonce' => orders'[j] = EmptyOrder
               /\ \/ orders'[j].initialCollateralToken \in Tokens
                  \/ orders'[j].initialCollateralDeltaAmount = 0
    <3>1. nonce' = nonce /\ nonce \in Nat  BY <1>1 DEF IInv, TypeOK
    <3>2. CASE j = key
      BY <1>3, <1>4, <1>5, <1>7, <3>1, <3>2 DEF IInv, CallOwnsItsFee, order
    <3>3. CASE j # key
      BY <1>7, <3>1, <3>3 DEF IInv, CallOwnsItsFee
    <3> QED BY <3>2, <3>3
  <2> QED BY <2>1, <1>1, <1>3, <1>4, <1>5, <1>6, <1>7 DEF CallOwnsItsFee
<1>10. VaultCoversOrders'
  <2>1. ASSUME NEW t \in Tokens
        PROVE  /\ vault'.recorded[t] <= vault'.balance[t]
               /\ Held(t)'[key] - Held(t)[key] <= vault'.recorded[t] - vault.recorded[t]
    <3>1. Held(t)[key] = EscrowOf(order, t)
      BY <1>2, HeldValues DEF IInv, order
    <3>2. Held(t)'[key] = EscrowOf(frozen, t) + FeeIn(fee, t)
      BY <1>6, <1>7, <1>8, HeldValuesNext
    <3>3. EscrowOf(order, t) = CollateralOf(order, t) + FeeIn(fee, t)
      BY DEF EscrowOf, fee
    <3>4. EscrowOf(frozen, t) = CollateralOf(order, t)
      <4>1. CollateralOf(frozen, t) = CollateralOf(order, t)
        BY <1>5 DEF CollateralOf
      <4>2. CollateralOf(order, t) \in Nat  BY <1>4, EscrowOfNat
      <4> QED BY <4>1, <4>2, <1>5 DEF EscrowOf, FeeIn
    <3>5. CollateralOf(order, t) \in Nat /\ FeeIn(fee, t) \in Nat
      BY <1>4, EscrowOfNat DEF FeeIn
    <3>6. vault.recorded[t] \in Nat /\ vault.recorded[t] <= vault.balance[t]
          /\ vault' = vault
      BY <1>1 DEF IInv, TypeOK, Bank, VaultCoversOrders
    <3> QED BY <3>1, <3>2, <3>3, <3>4, <3>5, <3>6
  <2> QED BY <1>2, <1>6, <1>7, <1>8, <2>1, CoverStep
<1> QED BY <1>8, <1>9, <1>10 DEF IInv

\* An update takes the wrapped native tokens that arrived into the order's fee.
LEMMA UpdateOrderIInv ==
  ASSUME IInv, NEW key \in Keys, NEW account \in Accounts,
         NEW size \in RequestedSizes, UpdateOrder(key, account, size)
  PROVE  IInv'
<1> DEFINE order   == orders[key]
           topUp   == Unrecorded(vault, Wnt)
           fee     == order.executionFee + topUp
           updated == [order EXCEPT !.sizeDeltaUsd = size, !.isFrozen = FALSE,
                                    !.executionFee = fee, !.updatedAtBlock = block]
<1>1. /\ NotEntered /\ order.account = account
      /\ orders' = [orders EXCEPT ![key] = updated]
      /\ vault' = RecordTransferIn(vault, Wnt)
      /\ termsSetAt' = [termsSetAt EXCEPT ![key] = block]
      /\ UNCHANGED <<nonce, positions, disabled, block, guard, call>>
  BY DEF UpdateOrder
<1>2. call.key = 0  BY <1>1, NoCallKey
<1>3. /\ vault \in Bank /\ block \in Nat /\ size \in Nat
      /\ order \in Order /\ order.executionFee \in Nat
  BY DEF IInv, TypeOK, Order
<1>4. \A t \in Tokens :
        /\ vault.recorded[t] \in Nat /\ vault.balance[t] \in Nat
        /\ vault.recorded[t] <= vault.balance[t]
  BY <1>3 DEF IInv, VaultCoversOrders, Bank
<1>5. topUp = vault.balance[Wnt] - vault.recorded[Wnt] /\ topUp \in Nat
  BY <1>4 DEF Unrecorded
<1> HIDE DEF topUp
<1>6. fee \in Nat /\ fee = order.executionFee + topUp  BY <1>3, <1>5
<1> HIDE DEF fee
<1>7. /\ updated \in Order /\ updated.executionFee = fee
      /\ updated.orderType = order.orderType
      /\ updated.initialCollateralToken = order.initialCollateralToken
      /\ updated.initialCollateralDeltaAmount = order.initialCollateralDeltaAmount
  <2> HIDE DEF order
  <2> QED BY <1>3, <1>6 DEF Order
<1> HIDE DEF updated
<1>8. /\ orders \in [Keys -> Order] /\ orders' \in [Keys -> Order]
      /\ orders'[key] = updated /\ \A j \in Keys \ {key} : orders'[j] = orders[j]
  BY <1>1, <1>7 DEF IInv, TypeOK
<1>9. /\ vault' \in Bank /\ vault'.balance = vault.balance
      /\ vault'.recorded[Wnt] = vault.balance[Wnt]
      /\ \A t \in Tokens \ {Wnt} : vault'.recorded[t] = vault.recorded[t]
  BY <1>1, <1>3, RecordTransferInBank
<1>10. TypeOK'
  BY <1>1, <1>3, <1>8, <1>9 DEF IInv, TypeOK
<1>11. key <= nonce
  <2>1. order # EmptyOrder
    <3>1. account # NoAddress  OBVIOUS
    <3> QED BY <1>1, <3>1 DEF EmptyOrder
  <2>2. key \in Nat /\ nonce \in Nat  BY DEF Keys, IInv, TypeOK
  <2> QED BY <2>1, <2>2 DEF IInv, CallOwnsItsFee
<1>12. CallOwnsItsFee'
  <2>1. ASSUME NEW j \in Keys
        PROVE  /\ j > nonce => orders'[j] = EmptyOrder
               /\ \/ orders'[j].initialCollateralToken \in Tokens
                  \/ orders'[j].initialCollateralDeltaAmount = 0
    <3>1. CASE j = key
      <4>1. ~ (j > nonce)  BY <3>1, <1>11 DEF Keys, IInv, TypeOK
      <4> QED BY <3>1, <4>1, <1>7, <1>8 DEF IInv, CallOwnsItsFee
    <3>2. CASE j # key  BY <3>2, <1>8 DEF IInv, CallOwnsItsFee
    <3> QED BY <3>1, <3>2
  <2> QED BY <2>1, <1>1, <1>2 DEF IInv, CallOwnsItsFee
<1>13. VaultCoversOrders'
  <2>1. ASSUME NEW t \in Tokens
        PROVE  /\ vault'.recorded[t] <= vault'.balance[t]
               /\ Held(t)'[key] - Held(t)[key] <= vault'.recorded[t] - vault.recorded[t]
    <3>1. Held(t)[key] = EscrowOf(order, t)
      BY <1>2, HeldValues DEF IInv
    <3>2. Held(t)'[key] = EscrowOf(updated, t)
      <4>1. call'.key = 0  BY <1>1, <1>2
      <4> QED BY <4>1, <1>8, <1>10, HeldValuesNext
    <3>3. EscrowOf(order, t) = CollateralOf(order, t) + FeeIn(order.executionFee, t)
      BY DEF EscrowOf
    <3>4. EscrowOf(updated, t) = CollateralOf(order, t) + FeeIn(fee, t)
      BY <1>7 DEF EscrowOf, CollateralOf
    <3>5. CollateralOf(order, t) \in Nat  BY <1>3, EscrowOfNat
    <3> HIDE DEF order
    <3>6. FeeIn(fee, t) = FeeIn(order.executionFee, t) + IF t = Wnt THEN topUp ELSE 0
      BY <1>3, <1>5, <1>6 DEF FeeIn
    <3>7. FeeIn(order.executionFee, t) \in Nat  BY <1>3 DEF FeeIn
    <3>8. CASE t = Wnt
      BY <3>1, <3>2, <3>3, <3>4, <3>5, <3>6, <3>7, <3>8, <1>4, <1>5, <1>9
    <3>9. CASE t # Wnt
      BY <3>1, <3>2, <3>3, <3>4, <3>5, <3>6, <3>7, <3>9, <1>4, <1>9
    <3> QED BY <3>8, <3>9
  <2>2. call.key \in {0, key} /\ call'.key \in {0, key}  BY <1>1, <1>2
  <2> QED BY <2>2, <1>8, <1>10, <2>1, CoverStep
<1> QED BY <1>10, <1>12, <1>13 DEF IInv

\* What createOrder records covers the collateral and the fee of the order,
\* whether they arrived together, apart, or only the fee did.
LEMMA CreateOrderIInv ==
  ASSUME IInv, NEW account \in Accounts, NEW type \in OrderTypes,
         NEW token \in Tokens, NEW size \in Nat, NEW collateralDelta \in Nat,
         NEW executionFee \in Nat,
         CreateOrder(account, type, token, size, collateralDelta, executionFee)
  PROVE  IInv'
<1> DEFINE key        == nonce + 1
           shared     == BringsCollateral(type) /\ token = Wnt
           received   == Unrecorded(vault, token)
           withCollateral == IF BringsCollateral(type)
                               THEN RecordTransferIn(vault, token) ELSE vault
           wntAmount  == Unrecorded(withCollateral, Wnt)
           collateral == IF ~ BringsCollateral(type) THEN collateralDelta
                         ELSE IF shared THEN received - executionFee
                         ELSE received
           fee        == IF shared THEN executionFee ELSE wntAmount
           order      == [account                      |-> account,
                          orderType                    |-> type,
                          initialCollateralToken       |-> token,
                          sizeDeltaUsd                 |-> size,
                          initialCollateralDeltaAmount |-> collateral,
                          executionFee                 |-> fee,
                          updatedAtBlock               |-> block,
                          isFrozen                     |-> FALSE]
           added(t)   == (IF BringsCollateral(type) /\ t = token
                            THEN collateral ELSE 0)
                         + FeeIn(fee, t)
<1>1. /\ NotEntered
      /\ (IF shared THEN received ELSE wntAmount) >= executionFee
      /\ nonce < MaxNonce
      /\ nonce' = nonce + 1
      /\ orders' = [orders EXCEPT ![nonce + 1] = order]
      /\ vault' = IF shared THEN withCollateral
                  ELSE RecordTransferIn(withCollateral, Wnt)
      /\ termsSetAt' = [termsSetAt EXCEPT ![nonce + 1] = block]
      /\ UNCHANGED <<positions, disabled, block, guard, call>>
  BY DEF CreateOrder
<1>2. call.key = 0  BY <1>1, NoCallKey
<1>3. vault \in Bank /\ block \in Nat /\ nonce \in 0..MaxNonce
  BY DEF IInv, TypeOK
<1>4. \A t \in Tokens :
        /\ vault.recorded[t] \in Nat /\ vault.balance[t] \in Nat
        /\ vault.recorded[t] <= vault.balance[t]
  BY <1>3 DEF IInv, VaultCoversOrders, Bank
<1>5. received = vault.balance[token] - vault.recorded[token] /\ received \in Nat
  BY <1>4 DEF Unrecorded
<1>6. /\ collateral \in Nat /\ fee \in Nat
      /\ vault' \in Bank
      /\ \A t \in Tokens : /\ vault'.recorded[t] <= vault'.balance[t]
                           /\ added(t) <= vault'.recorded[t] - vault.recorded[t]
  <2> DEFINE first == RecordTransferIn(vault, token)
  <2>1. /\ first \in Bank /\ first.balance = vault.balance
        /\ first.recorded[token] = vault.balance[token]
        /\ \A t \in Tokens \ {token} : first.recorded[t] = vault.recorded[t]
    BY <1>3, RecordTransferInBank
  <2>2. CASE shared
    <3>1. vault' = first /\ fee = executionFee /\ collateral = received - executionFee
          /\ received >= executionFee /\ token = Wnt
      BY <1>1, <2>2
    <3>2. BringsCollateral(type)  BY <2>2
    <3> HIDE DEF first, collateral, fee, received
    <3>3. collateral \in Nat /\ fee \in Nat  BY <1>5, <3>1
    <3>4. ASSUME NEW t \in Tokens
          PROVE  /\ vault'.recorded[t] <= vault'.balance[t]
                 /\ added(t) <= vault'.recorded[t] - vault.recorded[t]
      <4>1. CASE t = Wnt
        <5>1. added(t) = received  BY <4>1, <3>1, <3>2, <3>3, <1>5 DEF FeeIn
        <5> HIDE DEF added
        <5> QED BY <4>1, <5>1, <3>1, <2>1, <1>4, <1>5
      <4>2. CASE t # Wnt
        <5>1. added(t) = 0  BY <4>2, <3>1 DEF FeeIn
        <5> HIDE DEF added
        <5> QED BY <4>2, <5>1, <3>1, <2>1, <1>4
      <4> QED BY <4>1, <4>2
    <3> QED BY <2>1, <3>1, <3>3, <3>4
  <2>3. CASE ~ shared
    <3> DEFINE last == RecordTransferIn(withCollateral, Wnt)
    <3>1. /\ withCollateral \in Bank /\ withCollateral.balance = vault.balance
          /\ withCollateral.recorded[Wnt] = vault.recorded[Wnt]
          /\ \A t \in Tokens : withCollateral.recorded[t] =
               IF BringsCollateral(type) /\ t = token
                 THEN vault.balance[t] ELSE vault.recorded[t]
      <4> HIDE DEF first
      <4>1. CASE BringsCollateral(type)
        <5>1. token # Wnt  BY <2>3, <4>1
        <5>2. withCollateral = first  BY <4>1 DEF first
        <5> HIDE DEF withCollateral
        <5> QED BY <2>1, <4>1, <5>1, <5>2
      <4>2. CASE ~ BringsCollateral(type)
        <5>1. withCollateral = vault  BY <4>2
        <5> HIDE DEF withCollateral
        <5> QED BY <1>3, <4>2, <5>1
      <4> QED BY <4>1, <4>2
    <3> HIDE DEF withCollateral
    <3>2. /\ last \in Bank /\ last.balance = vault.balance
          /\ last.recorded[Wnt] = vault.balance[Wnt]
          /\ \A t \in Tokens \ {Wnt} : last.recorded[t] = withCollateral.recorded[t]
      BY <3>1, RecordTransferInBank
    <3>3. vault' = last /\ fee = wntAmount  BY <1>1, <2>3
    <3>4. wntAmount = vault.balance[Wnt] - vault.recorded[Wnt] /\ wntAmount \in Nat
      BY <1>4, <3>1 DEF Unrecorded
    <3>5. collateral = IF BringsCollateral(type) THEN received ELSE collateralDelta
      BY <2>3
    <3>6. BringsCollateral(type) => token # Wnt  BY <2>3
    <3> HIDE DEF last, fee, wntAmount, collateral, received
    <3>7. collateral \in Nat /\ fee \in Nat  BY <1>5, <3>3, <3>4, <3>5
    <3>8. ASSUME NEW t \in Tokens
          PROVE  /\ vault'.recorded[t] <= vault'.balance[t]
                 /\ added(t) <= vault'.recorded[t] - vault.recorded[t]
      <4>1. CASE t = Wnt
        <5>1. added(t) = fee  BY <4>1, <3>6, <3>7 DEF FeeIn
        <5> HIDE DEF added
        <5> QED BY <4>1, <5>1, <3>2, <3>3, <3>4, <1>4
      <4>2. CASE t # Wnt /\ BringsCollateral(type) /\ t = token
        <5>1. added(t) = received  BY <4>2, <3>5, <1>5 DEF FeeIn
        <5>2. vault'.recorded[t] = vault.balance[t]  BY <4>2, <3>1, <3>2, <3>3
        <5>3. vault'.balance = vault.balance  BY <3>2, <3>3
        <5> HIDE DEF added
        <5> QED BY <4>2, <5>1, <5>2, <5>3, <1>4, <1>5
      <4>3. CASE t # Wnt /\ ~ (BringsCollateral(type) /\ t = token)
        <5>1. added(t) = 0  BY <4>3 DEF FeeIn
        <5>2. vault'.recorded[t] = vault.recorded[t]  BY <4>3, <3>1, <3>2, <3>3
        <5>3. vault'.balance = vault.balance  BY <3>2, <3>3
        <5> HIDE DEF added
        <5> QED BY <5>1, <5>2, <5>3, <1>4
      <4> QED BY <4>1, <4>2, <4>3
    <3> QED BY <3>2, <3>3, <3>7, <3>8
  <2> QED BY <2>2, <2>3
<1> HIDE DEF collateral, fee, received, withCollateral, wntAmount, shared
<1>7. /\ order \in Order /\ order.initialCollateralToken = token
      /\ \A t \in Tokens : EscrowOf(order, t) = added(t)
  <2>1. order \in Order  BY <1>3, <1>6 DEF Order
  <2>2. ASSUME NEW t \in Tokens PROVE EscrowOf(order, t) = added(t)
    BY DEF EscrowOf, CollateralOf
  <2> QED BY <2>1, <2>2
<1>8. key \in Keys /\ key > nonce /\ nonce' \in 0..MaxNonce /\ nonce' = key
  BY <1>1, <1>3 DEF Keys
<1> HIDE DEF order, added, key
<1>9. /\ orders \in [Keys -> Order] /\ orders' \in [Keys -> Order]
      /\ orders'[key] = order /\ \A j \in Keys \ {key} : orders'[j] = orders[j]
  BY <1>1, <1>7, <1>8 DEF IInv, TypeOK, key
<1>10. termsSetAt' \in [Keys -> Nat]
  BY <1>1, <1>3, <1>8 DEF IInv, TypeOK, key
<1>11. TypeOK'
  BY <1>1, <1>6, <1>8, <1>9, <1>10 DEF IInv, TypeOK
<1>12. CallOwnsItsFee'
  <2>1. ASSUME NEW j \in Keys
        PROVE  /\ j > nonce' => orders'[j] = EmptyOrder
               /\ \/ orders'[j].initialCollateralToken \in Tokens
                  \/ orders'[j].initialCollateralDeltaAmount = 0
    <3>1. nonce \in Nat /\ j \in Nat  BY <1>3 DEF Keys
    <3>2. CASE j = key
      <4>1. ~ (j > nonce')  BY <3>1, <3>2, <1>8
      <4>2. orders'[j].initialCollateralToken \in Tokens  BY <3>2, <1>7, <1>9
      <4> QED BY <4>1, <4>2
    <3>3. CASE j # key
      <4>1. j > nonce' => j > nonce  BY <3>1, <1>1
      <4>2. orders'[j] = orders[j]  BY <3>3, <1>9
      <4> QED BY <4>1, <4>2 DEF IInv, CallOwnsItsFee
    <3> QED BY <3>2, <3>3
  <2>2. call'.key = 0 /\ guard' = guard /\ nonce' \in Nat  BY <1>1, <1>2, <1>8
  <2>3. ~ (guard = "ENTERED")  BY <1>1 DEF NotEntered
  <2> QED BY <2>1, <2>2, <2>3 DEF CallOwnsItsFee
<1>13. VaultCoversOrders'
  <2>1. ASSUME NEW t \in Tokens
        PROVE  Held(t)'[key] - Held(t)[key] <= vault'.recorded[t] - vault.recorded[t]
    <3>1. orders[key] = EmptyOrder  BY <1>8 DEF IInv, CallOwnsItsFee
    <3>2. Held(t)[key] = 0
      BY <1>2, <1>8, <3>1, HeldValues, EmptyOrderFacts DEF IInv
    <3>3. Held(t)'[key] = added(t)
      <4>1. call'.key = 0  BY <1>1, <1>2
      <4>2. Held(t)'[key] = EscrowOf(orders'[key], t)
        BY <4>1, <1>8, <1>11, HeldValuesNext
      <4> QED BY <4>2, <1>7, <1>9
    <3>4. added(t) \in Nat
      BY <1>7, EscrowOfNat
    <3> QED BY <3>2, <3>3, <3>4, <1>6
  <2>2. call.key \in {0, key} /\ call'.key \in {0, key}  BY <1>1, <1>2
  <2> QED BY <1>6, <1>8, <1>9, <1>11, <2>1, <2>2, CoverStep
<1> QED BY <1>11, <1>12, <1>13 DEF IInv

-----------------------------------------------------------------------------
(* The theorems. *)

\* The invariant holds before the first transaction.
LEMMA InitIInv ==
  Init => IInv
<1> SUFFICES ASSUME Init PROVE IInv
  OBVIOUS
<1>1. NoCall \in Call /\ NoCall.key = 0  BY DEF NoCall, Call
<1>2. EmptyBank \in Bank
      /\ \A t \in Tokens : EmptyBank.balance[t] = 0 /\ EmptyBank.recorded[t] = 0
  BY DEF EmptyBank, Bank
<1>3. EmptyOrder.initialCollateralDeltaAmount = 0  BY DEF EmptyOrder
<1>4. EmptyPosition \in Position  BY DEF EmptyPosition, Position
<1>5. TypeOK
  BY <1>1, <1>2, <1>4, EmptyOrderFacts DEF Init, TypeOK
<1>6. CallOwnsItsFee
  BY <1>1, <1>3 DEF Init, CallOwnsItsFee
<1>7. ASSUME NEW t \in Tokens
      PROVE  Total(Held(t), MaxNonce) = 0
  <2>1. Held(t) \in [1..MaxNonce -> Nat] /\ MaxNonce \in Nat
    BY <1>5, HeldNat DEF Keys
  <2>2. \A k \in Keys : Held(t)[k] = 0
    BY <1>1, <1>5, HeldValues, EmptyOrderFacts DEF Init
  <2> QED BY <2>1, <2>2, TotalZero DEF Keys
<1>8. VaultCoversOrders
  BY <1>2, <1>7 DEF Init, VaultCoversOrders
<1> QED BY <1>5, <1>6, <1>8 DEF IInv

\* Every step keeps the invariant.
LEMMA NextIInv ==
  ASSUME IInv, [Next]_vars
  PROVE  IInv'
<1>1. ASSUME NEW account \in Accounts, UserStep(account)
      PROVE  IInv'
  <2>1. ASSUME NEW type \in RequestedTypes, CreateSomeOrder(account, type)
        PROVE  IInv'
    <3>1. PICK token \in Tokens, size \in RequestedSizes, fee \in RequestedFees,
               collateral \in (IF BringsCollateral(type) THEN {0}
                               ELSE RequestedCollaterals) :
            CreateOrder(account, type, token, size, collateral, fee)
      BY <2>1 DEF CreateSomeOrder
    <3>2. type \in OrderTypes /\ size \in Nat /\ fee \in Nat /\ collateral \in Nat
      OBVIOUS
    <3> QED BY <3>1, <3>2, CreateOrderIInv
  <2>2. ASSUME NEW key \in Keys, NEW size \in RequestedSizes,
               UpdateOrder(key, account, size)
        PROVE  IInv'
    BY <2>2, UpdateOrderIInv
  <2>3. ASSUME NEW key \in Keys, CancelOrder(key, account)
        PROVE  IInv'
    BY <2>3, cancelOrderIInv DEF CancelOrder
  <2> QED BY <1>1, <2>1, <2>2, <2>3 DEF UserStep
<1>2. ASSUME NEW keeper \in OrderKeepers, KeeperStep(keeper)
      PROVE  IInv'
  <2>1. ASSUME NEW key \in Keys, NEW minBlock \in 1..MaxBlock, NEW maxBlock \in 1..MaxBlock,
               ExecuteOrder(key, keeper, minBlock, maxBlock)
        PROVE  IInv'
    BY <2>1, ExecuteOrderIInv
  <2>2. ASSUME NEW key \in Keys, NEW minBlock, NEW maxBlock,
               ExecutionCancelsOrder(key, keeper, minBlock, maxBlock)
        PROVE  IInv'
    BY <2>2, cancelOrderIInv DEF ExecutionCancelsOrder
  <2>3. ASSUME NEW key \in Keys, NEW minBlock, NEW maxBlock,
               ExecutionFreezesOrder(key, keeper, minBlock, maxBlock)
        PROVE  IInv'
    BY <2>3, ExecutionFreezesOrderIInv
  <2>4. ASSUME NEW account \in Accounts,
               NEW minBlock \in 1..MaxBlock, NEW maxBlock \in 1..MaxBlock,
               ExecuteLiquidation(account, keeper, minBlock, maxBlock)
        PROVE  IInv'
    BY <2>4, ExecuteLiquidationIInv
  <2> QED BY <1>2, <2>1, <2>2, <2>3, <2>4 DEF KeeperStep
<1>3. ASSUME NEW gasCost \in GasCosts, FinishCall(gasCost)
      PROVE  IInv'
  BY <1>3, FinishCallIInv
<1>4. CASE WorldStep
  <2>1. ASSUME NEW token \in Tokens, NEW amount \in TransferAmounts,
               SendTokens(token, amount)
        PROVE  IInv'
    BY <2>1, SendTokensIInv
  <2>2. ASSUME NEW feature \in SwitchableFeatures, SwitchFeature(feature)
        PROVE  IInv'
    <3>1. feature \in Features /\ disabled \in SUBSET Features
      BY DEF IInv, TypeOK
    <3>2. disabled' \in SUBSET Features
      BY <2>2, <3>1 DEF SwitchFeature
    <3>3. UNCHANGED <<nonce, orders, vault, positions, block, guard, call, termsSetAt>>
      BY <2>2 DEF SwitchFeature
    <3>4. TypeOK'  BY <3>2, <3>3 DEF IInv, TypeOK
    <3> QED BY <3>3, <3>4, OtherStepIInv
  <2>3. CASE NextBlock
    <3>1. block' \in Nat /\ UNCHANGED <<nonce, orders, vault, positions, disabled,
                                        guard, call, termsSetAt>>
      BY <2>3 DEF NextBlock, IInv, TypeOK
    <3>2. TypeOK'  BY <3>1 DEF IInv, TypeOK
    <3> QED BY <3>1, <3>2, OtherStepIInv
  <2> QED BY <1>4, <2>1, <2>2, <2>3 DEF WorldStep
<1>5. CASE UNCHANGED vars
  <2>1. TypeOK'  BY <1>5 DEF vars, IInv, TypeOK
  <2> QED BY <1>5, <2>1, OtherStepIInv DEF vars
<1> QED BY <1>1, <1>2, <1>3, <1>4, <1>5 DEF Next

\* The types of OrderHandler's state, the OrderVault's included: no step takes
\* more out of the vault than it holds.
THEOREM TypeCorrect ==
  Spec => []TypeOK
<1>1. IInv => TypeOK  BY DEF IInv
<1> QED BY InitIInv, NextIInv, <1>1, PTL DEF Spec

\* The OrderVault covers the collateral and fees of all pending orders, and the
\* fee of the transaction in progress, whatever is sent to it and in whatever
\* order requests are created, updated, executed, cancelled and frozen.
THEOREM OrdersAreCovered ==
  Spec => []VaultCoversOrders
<1>1. IInv => VaultCoversOrders  BY DEF IInv
<1> QED BY InitIInv, NextIInv, <1>1, PTL DEF Spec

\* The fee of the transaction in progress is in no order any more.
THEOREM FeesAreSeparate ==
  Spec => []CallOwnsItsFee
<1>1. IInv => CallOwnsItsFee  BY DEF IInv
<1> QED BY InitIInv, NextIInv, <1>1, PTL DEF Spec

\* The outcome "freeze" is for trigger orders that are not frozen yet.
LEMMA OnlyTriggerOrdersFreeze ==
  ASSUME NEW order, NEW reason, HandleOrderError(order, reason) = "freeze"
  PROVE  ~ isMarketOrder(order.orderType)
BY DEF HandleOrderError

\* Every step leaves the frozen orders trigger orders without a fee.
LEMMA FrozenStep ==
  ASSUME IInv, FrozenOrdersHoldNoFee, [Next]_vars
  PROVE  FrozenOrdersHoldNoFee'
<1> DEFINE Allowed(order) == order.isFrozen => /\ ~ isMarketOrder(order.orderType)
                                               /\ order.executionFee = 0
<1>1. orders \in [Keys -> Order] /\ \A k \in Keys : Allowed(orders[k])
  BY DEF IInv, TypeOK, FrozenOrdersHoldNoFee
<1>2. ASSUME NEW key, NEW order, orders' = [orders EXCEPT ![key] = order],
             Allowed(order)
      PROVE  \A k \in Keys : Allowed(orders'[k])
  BY <1>1, <1>2
<1>3. Allowed(EmptyOrder)  BY DEF EmptyOrder
<1> SUFFICES \A k \in Keys : Allowed(orders'[k])
  BY DEF FrozenOrdersHoldNoFee
<1>4. ASSUME NEW account \in Accounts, UserStep(account)
      PROVE  \A k \in Keys : Allowed(orders'[k])
  <2>1. ASSUME NEW type, NEW token, NEW size, NEW collateralDelta, NEW fee,
               CreateOrder(account, type, token, size, collateralDelta, fee)
        PROVE  \A k \in Keys : Allowed(orders'[k])
    <3> DEFINE created(collateral, paid) ==
                 [account                      |-> account,
                  orderType                    |-> type,
                  initialCollateralToken       |-> token,
                  sizeDeltaUsd                 |-> size,
                  initialCollateralDeltaAmount |-> collateral,
                  executionFee                 |-> paid,
                  updatedAtBlock               |-> block,
                  isFrozen                     |-> FALSE]
    <3>1. \E collateral, paid :
            orders' = [orders EXCEPT ![nonce + 1] = created(collateral, paid)]
      BY <2>1, Zenon DEF CreateOrder
    <3>2. \A collateral, paid : ~ created(collateral, paid).isFrozen
      OBVIOUS
    <3> HIDE DEF created
    <3> QED BY <3>1, <3>2, <1>2
  <2>2. ASSUME NEW key \in Keys, NEW size \in RequestedSizes,
               UpdateOrder(key, account, size)
        PROVE  \A k \in Keys : Allowed(orders'[k])
    <3> DEFINE fee     == orders[key].executionFee + Unrecorded(vault, Wnt)
               updated == [orders[key] EXCEPT !.sizeDeltaUsd = size,
                             !.isFrozen = FALSE, !.executionFee = fee,
                             !.updatedAtBlock = block]
    <3>1. orders' = [orders EXCEPT ![key] = updated]
      BY <2>2 DEF UpdateOrder
    <3>2. ~ updated.isFrozen
      <4> HIDE DEF fee
      <4> QED BY <1>1 DEF Order
    <3> HIDE DEF updated
    <3> QED BY <3>1, <3>2, <1>2
  <2>3. ASSUME NEW key \in Keys, CancelOrder(key, account)
        PROVE  \A k \in Keys : Allowed(orders'[k])
    BY <2>3, <1>2, <1>3 DEF CancelOrder, cancelOrder
  <2> QED BY <1>4, <2>1, <2>2, <2>3 DEF UserStep, CreateSomeOrder
<1>5. ASSUME NEW keeper \in OrderKeepers, KeeperStep(keeper)
      PROVE  \A k \in Keys : Allowed(orders'[k])
  <2>1. ASSUME NEW key, NEW order, NEW minBlock, NEW maxBlock,
               executeOrder(key, order, keeper, minBlock, maxBlock)
        PROVE  \A k \in Keys : Allowed(orders'[k])
    BY <2>1, <1>2, <1>3 DEF executeOrder
  <2>2. ASSUME NEW key \in Keys, NEW minBlock, NEW maxBlock,
               ExecutionCancelsOrder(key, keeper, minBlock, maxBlock)
        PROVE  \A k \in Keys : Allowed(orders'[k])
    BY <2>2, <1>2, <1>3 DEF ExecutionCancelsOrder, cancelOrder
  <2>3. ASSUME NEW key \in Keys, NEW minBlock, NEW maxBlock,
               ExecutionFreezesOrder(key, keeper, minBlock, maxBlock)
        PROVE  \A k \in Keys : Allowed(orders'[k])
    <3> DEFINE frozen == [orders[key] EXCEPT !.executionFee = 0, !.isFrozen = TRUE]
    <3>1. orders' = [orders EXCEPT ![key] = frozen]
      BY <2>3, <1>1 DEF ExecutionFreezesOrder
    <3>2. ~ isMarketOrder(orders[key].orderType)
      BY <2>3, OnlyTriggerOrdersFreeze DEF ExecutionFreezesOrder
    <3>3. frozen.executionFee = 0 /\ frozen.orderType = orders[key].orderType
      BY <1>1 DEF Order
    <3> HIDE DEF frozen
    <3> QED BY <3>1, <3>2, <3>3, <1>2
  <2> QED BY <1>5, <2>1, <2>2, <2>3
          DEF KeeperStep, ExecuteOrder, ExecuteLiquidation
<1>6. ASSUME UNCHANGED orders
      PROVE  \A k \in Keys : Allowed(orders'[k])
  BY <1>1, <1>6
<1>7. ASSUME NEW gasCost \in GasCosts, FinishCall(gasCost)
      PROVE  UNCHANGED orders
  BY <1>7 DEF FinishCall
<1>8. CASE WorldStep
  BY <1>8, <1>6 DEF WorldStep, SendTokens, SwitchFeature, NextBlock
<1>9. CASE UNCHANGED vars
  BY <1>9, <1>6 DEF vars
<1> QED BY <1>4, <1>5, <1>6, <1>7, <1>8, <1>9 DEF Next

\* A frozen order is a trigger order and holds no fee, so nothing is left in it
\* to pay a keeper with before its owner updates it.
THEOREM FrozenOrdersAreSpent ==
  Spec => []FrozenOrdersHoldNoFee
<1>1. Init => FrozenOrdersHoldNoFee
  BY DEF Init, FrozenOrdersHoldNoFee, EmptyOrder
<1> QED BY InitIInv, NextIInv, FrozenStep, <1>1, PTL DEF Spec

-----------------------------------------------------------------------------
(* Which prices an order can be executed at, and what a frozen order waits   *)
(* for, in every step and whatever the constants are.                        *)

\* What an order in the store has to do with the history of its key: the block
\* it was touched at is the one its terms were set at, and liquidations are
\* never stored.
Timed(order, setAt) ==
  /\ order.orderType # "Liquidation"
  /\ ~ IsEmptyOrder(order) => order.updatedAtBlock = setAt

\* The inductive invariant.  The outcome of a transaction that is over is
\* forgotten, so an execution is told by the outcome of the next state.
TInv ==
  /\ call.key = 0 => call.outcome = "none"
  /\ \A k \in Keys : Timed(orders[k], termsSetAt[k])

-----------------------------------------------------------------------------
(* The invariant. *)

\* An empty key has no time to keep to.
LEMMA EmptyOrderTimed == \A setAt : Timed(EmptyOrder, setAt)
BY DEF Timed, EmptyOrder, IsEmptyOrder

\* A step that writes the order of one key, and perhaps when it was set.
LEMMA WriteTimed ==
  ASSUME IInv, TInv, NEW key \in Keys, NEW order,
         orders' = [orders EXCEPT ![key] = order],
         \/ termsSetAt' = [termsSetAt EXCEPT ![key] = block] /\ Timed(order, block)
         \/ termsSetAt' = termsSetAt /\ Timed(order, termsSetAt[key])
  PROVE  \A k \in Keys : Timed(orders'[k], termsSetAt'[k])
<1>1. /\ orders \in [Keys -> Order] /\ termsSetAt \in [Keys -> Nat]
      /\ \A k \in Keys : Timed(orders[k], termsSetAt[k])
  BY DEF IInv, TypeOK, TInv
<1>2. ASSUME NEW k \in Keys PROVE Timed(orders'[k], termsSetAt'[k])
  BY <1>1
<1> QED BY <1>2

\* What a user does keeps the times.
LEMMA UserStepTimed ==
  ASSUME IInv, TInv, NEW account \in Accounts, UserStep(account)
  PROVE  TInv'
<1>1. orders \in [Keys -> Order] /\ nonce \in Nat /\ MaxNonce \in Nat
  BY DEF IInv, TypeOK
<1>2. ASSUME NEW type \in RequestedTypes, NEW token, NEW size, NEW collateralDelta,
             NEW fee, CreateOrder(account, type, token, size, collateralDelta, fee)
      PROVE  TInv'
  <2> DEFINE created(collateral, paid) ==
               [account                      |-> account,
                orderType                    |-> type,
                initialCollateralToken       |-> token,
                sizeDeltaUsd                 |-> size,
                initialCollateralDeltaAmount |-> collateral,
                executionFee                 |-> paid,
                updatedAtBlock               |-> block,
                isFrozen                     |-> FALSE]
  <2>1. \E collateral, paid :
          orders' = [orders EXCEPT ![nonce + 1] = created(collateral, paid)]
    BY <1>2, Zenon DEF CreateOrder
  <2>2. /\ type # "Liquidation" /\ nonce < MaxNonce /\ UNCHANGED call
        /\ termsSetAt' = [termsSetAt EXCEPT ![nonce + 1] = block]
    BY <1>2 DEF CreateOrder
  <2>3. \A collateral, paid : Timed(created(collateral, paid), block)
    BY <2>2 DEF Timed
  <2>4. nonce + 1 \in Keys  BY <1>1, <2>2 DEF Keys
  <2> HIDE DEF created
  <2> QED BY <2>1, <2>2, <2>3, <2>4, WriteTimed DEF TInv
<1>3. ASSUME NEW key \in Keys, NEW size \in RequestedSizes,
             UpdateOrder(key, account, size)
      PROVE  TInv'
  <2> DEFINE fee     == orders[key].executionFee + Unrecorded(vault, Wnt)
             updated == [orders[key] EXCEPT !.sizeDeltaUsd = size,
                           !.isFrozen = FALSE, !.executionFee = fee,
                           !.updatedAtBlock = block]
  <2>1. /\ orders' = [orders EXCEPT ![key] = updated] /\ UNCHANGED call
        /\ termsSetAt' = [termsSetAt EXCEPT ![key] = block]
    BY <1>3 DEF UpdateOrder
  <2>2. Timed(updated, block)
    <3>1. orders[key] \in Order /\ orders[key].orderType # "Liquidation"
      BY <1>1 DEF TInv, Timed
    <3> HIDE DEF fee
    <3> QED BY <3>1 DEF Order, Timed
  <2> HIDE DEF updated
  <2> QED BY <2>1, <2>2, WriteTimed DEF TInv
<1>4. ASSUME NEW key \in Keys, CancelOrder(key, account)
      PROVE  TInv'
  <2>1. /\ orders' = [orders EXCEPT ![key] = EmptyOrder] /\ termsSetAt' = termsSetAt
        /\ call'.key = key /\ key # 0
    BY <1>4, <1>1 DEF CancelOrder, cancelOrder, NoCall, Keys
  <2> QED BY <2>1, EmptyOrderTimed, WriteTimed DEF TInv
<1> QED BY <1>2, <1>3, <1>4 DEF UserStep, CreateSomeOrder

\* What a keeper does keeps the times.
LEMMA KeeperStepTimed ==
  ASSUME IInv, TInv, NEW keeper \in OrderKeepers, KeeperStep(keeper)
  PROVE  TInv'
<1>1. orders \in [Keys -> Order] /\ nonce \in Nat /\ MaxNonce \in Nat
  BY DEF IInv, TypeOK
<1>2. ASSUME NEW key \in Keys, NEW minBlock, NEW maxBlock,
             ExecuteOrder(key, keeper, minBlock, maxBlock)
      PROVE  TInv'
  <2>1. /\ orders' = [orders EXCEPT ![key] = EmptyOrder] /\ termsSetAt' = termsSetAt
        /\ call'.key = key /\ key # 0
    BY <1>2, <1>1 DEF ExecuteOrder, executeOrder, Keys
  <2> QED BY <2>1, EmptyOrderTimed, WriteTimed DEF TInv
<1>3. ASSUME NEW key \in Keys, NEW minBlock, NEW maxBlock,
               ExecutionCancelsOrder(key, keeper, minBlock, maxBlock)
      PROVE  TInv'
  <2>1. /\ orders' = [orders EXCEPT ![key] = EmptyOrder] /\ termsSetAt' = termsSetAt
        /\ call'.key = key /\ key # 0
    BY <1>3, <1>1 DEF ExecutionCancelsOrder, cancelOrder, NoCall, Keys
  <2> QED BY <2>1, EmptyOrderTimed, WriteTimed DEF TInv
<1>4. ASSUME NEW key \in Keys, NEW minBlock, NEW maxBlock,
               ExecutionFreezesOrder(key, keeper, minBlock, maxBlock)
      PROVE  TInv'
  <2> DEFINE frozen == [orders[key] EXCEPT !.executionFee = 0, !.isFrozen = TRUE]
  <2>1. orders' = [orders EXCEPT ![key] = frozen]
    BY <1>4, <1>1 DEF ExecutionFreezesOrder
  <2>3. termsSetAt' = termsSetAt /\ call'.key = key /\ key # 0
    BY <1>4, <1>1 DEF ExecutionFreezesOrder, NoCall, Keys
  <2>2. Timed(frozen, termsSetAt[key])
    BY <1>1 DEF TInv, Timed, IsEmptyOrder, Order
  <2> HIDE DEF frozen
  <2> QED BY <2>1, <2>2, <2>3, WriteTimed DEF TInv
<1>5. ASSUME NEW account \in Accounts, NEW minBlock, NEW maxBlock,
             ExecuteLiquidation(account, keeper, minBlock, maxBlock)
      PROVE  TInv'
  <2>1. /\ orders' = [orders EXCEPT ![nonce + 1] = EmptyOrder] /\ nonce < MaxNonce
        /\ termsSetAt' = [termsSetAt EXCEPT ![nonce + 1] = block]
        /\ call'.key = nonce + 1
    BY <1>5 DEF ExecuteLiquidation, executeOrder
  <2>2. nonce + 1 \in Keys /\ nonce + 1 # 0  BY <1>1, <2>1 DEF Keys
  <2> QED BY <2>1, <2>2, EmptyOrderTimed, WriteTimed DEF TInv
<1> QED BY <1>2, <1>3, <1>4, <1>5 DEF KeeperStep

\* Every step keeps the times.
LEMMA NextTimed ==
  ASSUME IInv, TInv, [Next]_vars
  PROVE  TInv'
<1>1. ASSUME NEW gasCost \in GasCosts, FinishCall(gasCost) PROVE TInv'
  BY <1>1 DEF FinishCall, NoCall, TInv
<1>2. CASE WorldStep
  BY <1>2 DEF WorldStep, SendTokens, SwitchFeature, NextBlock, TInv
<1>3. CASE UNCHANGED vars
  BY <1>3 DEF vars, TInv
<1> QED BY <1>1, <1>2, <1>3, UserStepTimed, KeeperStepTimed DEF Next

LEMMA InitTimed == Init => TInv
BY EmptyOrderTimed DEF Init, TInv, NoCall

LEMMA TimedHolds == Spec => [](IInv /\ TInv)
<1>1. Init => IInv /\ TInv  BY InitIInv, InitTimed
<1>2. (IInv /\ TInv) /\ [Next]_vars => (IInv /\ TInv)'
  BY NextIInv, NextTimed
<1> QED BY <1>1, <1>2, PTL DEF Spec

-----------------------------------------------------------------------------
(* Executions. *)

\* The steps that execute something: a keeper executes an order of the store,
\* or a position is liquidated under the next key.
LEMMA ExecutionSteps ==
  ASSUME IInv, TInv, [Next]_vars, Executes
  PROVE  \E keeper \in OrderKeepers, minBlock, maxBlock \in Nat :
           \/ \E key \in Keys : ExecuteOrder(key, keeper, minBlock, maxBlock)
           \/ \E account \in Accounts :
                ExecuteLiquidation(account, keeper, minBlock, maxBlock)
<1>1. call.outcome = "none" /\ call'.outcome = "executed" /\ call' # call
  BY DEF Executes, TInv
<1>2. ASSUME NEW account \in Accounts, UserStep(account) PROVE FALSE
  <2>1. ASSUME NEW type, NEW token, NEW size, NEW collateralDelta, NEW fee,
               CreateOrder(account, type, token, size, collateralDelta, fee)
        PROVE  FALSE
    BY <1>1, <2>1 DEF CreateOrder
  <2>2. ASSUME NEW key, NEW size, UpdateOrder(key, account, size) PROVE FALSE
    BY <1>1, <2>2 DEF UpdateOrder
  <2>3. ASSUME NEW key, CancelOrder(key, account) PROVE FALSE
    BY <1>1, <2>3 DEF CancelOrder, cancelOrder, NoCall
  <2> QED BY <1>2, <2>1, <2>2, <2>3 DEF UserStep, CreateSomeOrder
<1>3. ASSUME NEW gasCost \in GasCosts, FinishCall(gasCost) PROVE FALSE
  BY <1>1, <1>3 DEF FinishCall, NoCall
<1>4. ASSUME WorldStep \/ UNCHANGED vars PROVE FALSE
  BY <1>1, <1>4 DEF WorldStep, SendTokens, SwitchFeature, NextBlock, vars
<1>5. PICK keeper \in OrderKeepers : KeeperStep(keeper)
  BY <1>2, <1>3, <1>4 DEF Next
<1>6. ASSUME NEW key \in Keys, NEW minBlock, NEW maxBlock,
             \/ ExecutionCancelsOrder(key, keeper, minBlock, maxBlock)
             \/ ExecutionFreezesOrder(key, keeper, minBlock, maxBlock)
      PROVE  FALSE
  BY <1>1, <1>6 DEF ExecutionCancelsOrder, ExecutionFreezesOrder, cancelOrder, NoCall
<1>7. 1..MaxBlock \subseteq Nat  OBVIOUS
<1> QED BY <1>5, <1>6, <1>7 DEF KeeperStep

\* The order a keeper executes is one that was given out, whose terms were set
\* when it says, and whose prices its kind allows.
LEMMA ExecutedOrder ==
  ASSUME IInv, TInv, NEW key \in Keys, NEW keeper,
         NEW minBlock \in Nat, NEW maxBlock \in Nat,
         ExecuteOrder(key, keeper, minBlock, maxBlock)
  PROVE  /\ key \in 1..nonce /\ call'.key = key
         /\ call'.minBlock = minBlock /\ call'.maxBlock = maxBlock
         /\ orders[key] \in Order /\ orders[key].account \in Accounts
         /\ orders[key].orderType # "Liquidation"
         /\ orders[key].updatedAtBlock = termsSetAt[key]
         /\ OracleBlocksValid(orders[key], positions[orders[key].account],
                              minBlock, maxBlock)
         /\ \E p \in PositionsAfter(orders[key], positions[orders[key].account]) :
              positions' = [positions EXCEPT ![orders[key].account] = p]
<1>1. ~ IsEmptyOrder(orders[key])
  BY DEF ExecuteOrder, executeOrder
<1>2. orders[key] \in Order /\ nonce \in Nat  BY DEF IInv, TypeOK
<1>3. orders[key] # EmptyOrder  BY <1>1 DEF IsEmptyOrder, EmptyOrder
<1>4. key \in 1..nonce  BY <1>2, <1>3 DEF IInv, CallOwnsItsFee, Keys
<1>5. orders[key].account \in Accounts
  BY <1>1, <1>2 DEF Order, IsEmptyOrder
<1>6. orders[key].orderType # "Liquidation" /\ orders[key].updatedAtBlock = termsSetAt[key]
  BY <1>1 DEF TInv, Timed
<1> QED BY <1>2, <1>4, <1>5, <1>6 DEF ExecuteOrder, executeOrder

\* Larger is an upper bound of its arguments.
LEMMA LargerBounds ==
  ASSUME NEW m \in Nat, NEW n \in Nat, NEW b \in Nat, b >= Larger(m, n)
  PROVE  b >= m /\ b >= n
BY DEF Larger

\* What the block checks of the three order utils say of an order of the store.
LEMMA BlocksOfStoredOrder ==
  ASSUME NEW order \in Order, order.orderType # "Liquidation",
         NEW position \in Position, NEW minBlock \in Nat, NEW maxBlock \in Nat,
         OracleBlocksValid(order, position, minBlock, maxBlock)
  PROVE  /\ isMarketOrder(order.orderType) =>
              order.updatedAtBlock \in minBlock..maxBlock
         /\ ~ isMarketOrder(order.orderType) => order.updatedAtBlock <= minBlock
         /\ order.orderType \in {"LimitDecrease", "StopLossDecrease"} =>
              position.increasedAtBlock <= minBlock
<1>1. order.updatedAtBlock \in Nat /\ position.increasedAtBlock \in Nat
      /\ order.orderType \in OrderTypes
  BY DEF Order, Position
<1>2. CASE isSwapOrder(order.orderType)
  <2>1. SwapBlocksValid(order, minBlock, maxBlock)
    BY <1>2 DEF OracleBlocksValid, isSwapOrder, isIncreaseOrder, isDecreaseOrder
  <2> QED BY <1>1, <1>2, <2>1 DEF SwapBlocksValid, isSwapOrder, isMarketOrder
<1>3. CASE isIncreaseOrder(order.orderType)
  <2>1. IncreaseBlocksValid(order, minBlock, maxBlock)
    BY <1>3 DEF OracleBlocksValid, isSwapOrder, isIncreaseOrder, isDecreaseOrder
  <2> QED BY <1>1, <1>3, <2>1 DEF IncreaseBlocksValid, isIncreaseOrder, isMarketOrder
<1>4. CASE isDecreaseOrder(order.orderType)
  <2>1. DecreaseBlocksValid(order, position, minBlock, maxBlock)
    BY <1>4 DEF OracleBlocksValid, isSwapOrder, isIncreaseOrder, isDecreaseOrder
  <2>2. CASE order.orderType = "MarketDecrease"
    BY <1>1, <2>1, <2>2 DEF DecreaseBlocksValid, isMarketOrder
  <2>3. CASE order.orderType \in {"LimitDecrease", "StopLossDecrease"}
    <3>1. minBlock >= Larger(order.updatedAtBlock, position.increasedAtBlock)
      BY <2>1, <2>3 DEF DecreaseBlocksValid
    <3>2. minBlock >= order.updatedAtBlock /\ minBlock >= position.increasedAtBlock
      BY <1>1, <3>1, LargerBounds
    <3> QED BY <1>1, <2>3, <3>2 DEF isMarketOrder
  <2> QED BY <1>4, <2>2, <2>3 DEF isDecreaseOrder
<1> QED BY <1>1, <1>2, <1>3, <1>4
        DEF OrderTypes, isSwapOrder, isIncreaseOrder, isDecreaseOrder

\* No order is executed with prices from before its creation or last update, and
\* a market order only with prices of that block.
THEOREM PricesAreNotOlderThanTerms == Spec => NoExecutionAtOlderPrices
<1> DEFINE Right ==
      Executes =>
        LET key == call'.key IN
        IF key \in 1..nonce /\ isMarketOrder(orders[key].orderType)
          THEN termsSetAt[key] \in call'.minBlock..call'.maxBlock
          ELSE key \in 1..nonce => termsSetAt[key] <= call'.minBlock
<1>1. ASSUME IInv, TInv, [Next]_vars PROVE Right
  <2> SUFFICES ASSUME Executes PROVE Right
    OBVIOUS
  <2>1. ASSUME NEW keeper \in OrderKeepers, NEW minBlock \in Nat, NEW maxBlock \in Nat,
               NEW key \in Keys, ExecuteOrder(key, keeper, minBlock, maxBlock)
        PROVE  Right
    <3>1. positions[orders[key].account] \in Position
      BY <1>1, <2>1, ExecutedOrder DEF IInv, TypeOK
    <3>2. /\ call'.key = key /\ call'.minBlock = minBlock /\ call'.maxBlock = maxBlock
          /\ orders[key] \in Order /\ orders[key].orderType # "Liquidation"
          /\ orders[key].updatedAtBlock = termsSetAt[key]
          /\ OracleBlocksValid(orders[key], positions[orders[key].account],
                               minBlock, maxBlock)
      BY <1>1, <2>1, ExecutedOrder
    <3>3. /\ isMarketOrder(orders[key].orderType) => termsSetAt[key] \in minBlock..maxBlock
          /\ ~ isMarketOrder(orders[key].orderType) => termsSetAt[key] <= minBlock
      BY <3>1, <3>2, BlocksOfStoredOrder
    <3> QED BY <3>2, <3>3
  <2>2. ASSUME NEW keeper \in OrderKeepers, NEW minBlock \in Nat, NEW maxBlock \in Nat,
               NEW account \in Accounts,
               ExecuteLiquidation(account, keeper, minBlock, maxBlock)
        PROVE  Right
    <3>1. call'.key = nonce + 1 /\ nonce \in Nat
      BY <1>1, <2>2 DEF ExecuteLiquidation, executeOrder, IInv, TypeOK
    <3>2. call'.key \notin 1..nonce  BY <3>1
    <3> QED BY <3>2
  <2> QED BY <1>1, <2>1, <2>2, ExecutionSteps
<1>2. IInv /\ TInv /\ [Next]_vars => [Right]_vars
  BY <1>1
<1> QED BY <1>2, TimedHolds, PTL DEF Spec, NoExecutionAtOlderPrices

\* A position shrinks, other than by a market order, only at prices from after
\* its last increase.
THEOREM NoClosingBeforeTheIncrease == Spec => NoClosingAtPricesBeforeIncrease
<1> DEFINE Right == \A a \in Accounts :
             /\ Executes
             /\ positions'[a].size < positions[a].size
             => \/ call'.minBlock >= positions[a].increasedAtBlock
                \/ /\ call'.key <= nonce
                   /\ isMarketOrder(orders[call'.key].orderType)
<1>1. ASSUME IInv, TInv, [Next]_vars PROVE Right
  <2> SUFFICES ASSUME NEW a \in Accounts, Executes,
                      positions'[a].size < positions[a].size,
                      ~ (/\ call'.key <= nonce
                         /\ isMarketOrder(orders[call'.key].orderType))
               PROVE  call'.minBlock >= positions[a].increasedAtBlock
    OBVIOUS
  <2>1. positions \in [Accounts -> Position] /\ nonce \in Nat
    BY <1>1 DEF IInv, TypeOK
  <2>2. \A p \in Position : p.size \in Nat /\ p.increasedAtBlock \in Nat
    BY DEF Position
  <2>3. ASSUME NEW keeper \in OrderKeepers, NEW minBlock \in Nat, NEW maxBlock \in Nat,
               NEW key \in Keys, ExecuteOrder(key, keeper, minBlock, maxBlock)
        PROVE  call'.minBlock >= positions[a].increasedAtBlock
    <3> DEFINE order == orders[key]
               old   == positions[order.account]
    <3>1. /\ key \in 1..nonce /\ call'.key = key /\ call'.minBlock = minBlock
          /\ order \in Order /\ order.account \in Accounts
          /\ order.orderType # "Liquidation"
          /\ OracleBlocksValid(order, old, minBlock, maxBlock)
          /\ \E p \in PositionsAfter(order, old) :
               positions' = [positions EXCEPT ![order.account] = p]
      BY <1>1, <2>3, ExecutedOrder
    <3>2. old \in Position  BY <2>1, <3>1
    <3>3. ~ isMarketOrder(order.orderType)
      BY <2>1, <3>1
    <3>4. PICK p \in PositionsAfter(order, old) :
                 positions' = [positions EXCEPT ![order.account] = p]
      BY <3>1
    <3>5. a = order.account /\ p.size < old.size
      <4>1. CASE a # order.account  BY <2>1, <2>2, <3>4, <4>1
      <4>2. CASE a = order.account  BY <2>1, <3>4, <4>2
      <4> QED BY <4>1, <4>2
    <3> HIDE DEF order, old
    <3>6. isDecreaseOrder(order.orderType)
      <4>1. ASSUME isSwapOrder(order.orderType) PROVE FALSE
        <5>1. p = old  BY <3>4, <4>1 DEF PositionsAfter, isSwapOrder, isIncreaseOrder, isDecreaseOrder
        <5> QED BY <3>5, <5>1, <3>2, <2>2
      <4>2. ASSUME isIncreaseOrder(order.orderType) PROVE FALSE
        <5>1. p \in PositionsAfterIncrease(order, old)
          BY <3>4, <4>2 DEF PositionsAfter, isSwapOrder, isIncreaseOrder, isDecreaseOrder
        <5>2. old.size \in Nat /\ order.sizeDeltaUsd \in Nat
          BY <3>1, <3>2 DEF Position, Order
        <5>3. p.size = old.size + order.sizeDeltaUsd
          BY <3>2, <5>1, <5>2 DEF PositionsAfterIncrease, Position
        <5> QED BY <3>5, <5>2, <5>3
      <4>3. order.orderType \in OrderTypes  BY <3>1 DEF Order
      <4> QED BY <4>1, <4>2, <4>3
              DEF OrderTypes, isSwapOrder, isIncreaseOrder, isDecreaseOrder
    <3>7. order.orderType \in {"LimitDecrease", "StopLossDecrease"}
      BY <3>1, <3>3, <3>6 DEF isDecreaseOrder, isMarketOrder
    <3>8. old.increasedAtBlock <= minBlock
      BY <3>1, <3>2, <3>7, BlocksOfStoredOrder
    <3> QED BY <2>2, <3>1, <3>2, <3>5, <3>8 DEF old
  <2>4. ASSUME NEW keeper \in OrderKeepers, NEW minBlock \in Nat, NEW maxBlock \in Nat,
               NEW account \in Accounts,
               ExecuteLiquidation(account, keeper, minBlock, maxBlock)
        PROVE  call'.minBlock >= positions[a].increasedAtBlock
    <3> DEFINE order == LiquidationOrder(account)
               old   == positions[account]
    <3>1. order.account = account /\ order.orderType = "Liquidation"
      BY DEF LiquidationOrder
    <3>2. /\ call'.minBlock = minBlock
          /\ OracleBlocksValid(order, old, minBlock, maxBlock)
          /\ \E p : positions' = [positions EXCEPT ![account] = p]
      BY <2>4, <3>1 DEF ExecuteLiquidation, executeOrder
    <3> HIDE DEF order
    <3>3. minBlock >= Larger(old.increasedAtBlock, old.decreasedAtBlock)
      BY <3>1, <3>2 DEF OracleBlocksValid, DecreaseBlocksValid, isSwapOrder,
                        isIncreaseOrder, isDecreaseOrder
    <3>4. old.increasedAtBlock \in Nat /\ old.decreasedAtBlock \in Nat
      BY <2>1 DEF Position
    <3>5. minBlock >= old.increasedAtBlock
      BY <3>3, <3>4, LargerBounds
    <3>6. a = account
      BY <2>1, <2>2, <3>2
    <3> QED BY <3>2, <3>5, <3>6
  <2> QED BY <1>1, <2>3, <2>4, ExecutionSteps
<1>2. IInv /\ TInv /\ [Next]_vars => [Right]_vars
  BY <1>1
<1> QED BY <1>2, TimedHolds, PTL DEF Spec, NoClosingAtPricesBeforeIncrease

-----------------------------------------------------------------------------
(* Frozen orders. *)

\* A failure of a frozen order is reverted, never a cancellation.
LEMMA FrozenOrdersRevert ==
  ASSUME NEW order, NEW reason, order.isFrozen
  PROVE  HandleOrderError(order, reason) = "revert"
BY DEF HandleOrderError, RevertsAlways

\* Once frozen, an order is executed only by a frozen order keeper, cancelled
\* only by its owner, and thawed only with a full execution fee.
THEOREM FrozenOrdersStayUntilUpdated == Spec => FrozenOrdersWait
<1> DEFINE Waits(k) ==
      orders[k].isFrozen /\ orders'[k] # orders[k] =>
        \/ call'.outcome = "executed"  /\ call'.sender \in FrozenOrderKeepers
        \/ call'.outcome = "cancelled" /\ call'.sender = orders[k].account
        \/ ~ orders'[k].isFrozen /\ orders'[k].executionFee >= MinExecutionFee
<1>1. ASSUME IInv, [Next]_vars, NEW k \in Keys PROVE Waits(k)
  <2> SUFFICES ASSUME orders[k].isFrozen, orders'[k] # orders[k] PROVE Waits(k)
    OBVIOUS
  <2>1. orders \in [Keys -> Order] /\ nonce \in Nat /\ MaxNonce \in Nat
    BY <1>1 DEF IInv, TypeOK
  <2>2. orders[k] # EmptyOrder /\ k <= nonce
    <3>1. orders[k] # EmptyOrder  BY DEF EmptyOrder
    <3> QED BY <1>1, <2>1, <3>1 DEF Keys, IInv, CallOwnsItsFee
  <2>3. k # nonce + 1  BY <2>1, <2>2 DEF Keys
  <2>4. ASSUME NEW account \in Accounts, NEW type, NEW token, NEW size,
               NEW collateralDelta, NEW fee,
               CreateOrder(account, type, token, size, collateralDelta, fee)
        PROVE  FALSE
    <3>1. \E order : orders' = [orders EXCEPT ![nonce + 1] = order]
      BY <2>4 DEF CreateOrder
    <3> QED BY <2>1, <2>3, <3>1
  <2>5. ASSUME NEW account \in Accounts, NEW key \in Keys, NEW size \in RequestedSizes,
               UpdateOrder(key, account, size)
        PROVE  Waits(k)
    <3> DEFINE fee     == orders[key].executionFee + Unrecorded(vault, Wnt)
               updated == [orders[key] EXCEPT !.sizeDeltaUsd = size,
                             !.isFrozen = FALSE, !.executionFee = fee,
                             !.updatedAtBlock = block]
    <3>1. orders' = [orders EXCEPT ![key] = updated] /\ updated.executionFee >= MinExecutionFee
      BY <2>5 DEF UpdateOrder
    <3>2. ~ updated.isFrozen
      <4> HIDE DEF fee
      <4> QED BY <2>1 DEF Order
    <3> HIDE DEF updated
    <3> QED BY <2>1, <3>1, <3>2
  <2>6. ASSUME NEW account \in Accounts, NEW key \in Keys, CancelOrder(key, account)
        PROVE  Waits(k)
    BY <2>1, <2>6 DEF CancelOrder, cancelOrder, NoCall
  <2>7. ASSUME NEW keeper \in OrderKeepers, NEW key \in Keys, NEW minBlock, NEW maxBlock,
               ExecuteOrder(key, keeper, minBlock, maxBlock)
        PROVE  Waits(k)
    BY <2>1, <2>7 DEF ExecuteOrder, executeOrder, KeeperMayExecute
  <2>8. ASSUME NEW keeper \in OrderKeepers, NEW key \in Keys, NEW minBlock, NEW maxBlock,
               \/ ExecutionCancelsOrder(key, keeper, minBlock, maxBlock)
               \/ ExecutionFreezesOrder(key, keeper, minBlock, maxBlock)
        PROVE  FALSE
    <3>1. \E r : HandleOrderError(orders[key], r) \in {"cancel", "freeze"}
      BY <2>8 DEF ExecutionCancelsOrder, ExecutionFreezesOrder
    <3>2. ~ orders[key].isFrozen  BY <3>1, FrozenOrdersRevert
    <3>3. k # key  BY <3>2
    <3>4. CASE ExecutionCancelsOrder(key, keeper, minBlock, maxBlock)
      BY <2>1, <3>3, <3>4 DEF ExecutionCancelsOrder, cancelOrder
    <3>5. CASE ExecutionFreezesOrder(key, keeper, minBlock, maxBlock)
      BY <2>1, <3>3, <3>5 DEF ExecutionFreezesOrder
    <3> QED BY <2>8, <3>4, <3>5
  <2>9. ASSUME NEW keeper \in OrderKeepers, NEW account \in Accounts,
               NEW minBlock, NEW maxBlock,
               ExecuteLiquidation(account, keeper, minBlock, maxBlock)
        PROVE  FALSE
    BY <2>1, <2>3, <2>9 DEF ExecuteLiquidation, executeOrder
  <2>10. ASSUME NEW gasCost \in GasCosts, FinishCall(gasCost) PROVE FALSE
    BY <2>10 DEF FinishCall
  <2>11. ASSUME WorldStep \/ UNCHANGED vars PROVE FALSE
    BY <2>11 DEF WorldStep, SendTokens, SwitchFeature, NextBlock, vars
  <2>12. ASSUME NEW account \in Accounts, UserStep(account) PROVE Waits(k)
    BY <2>4, <2>5, <2>6, <2>12 DEF UserStep, CreateSomeOrder
  <2>13. ASSUME NEW keeper \in OrderKeepers, KeeperStep(keeper) PROVE Waits(k)
    BY <2>7, <2>8, <2>9, <2>13 DEF KeeperStep
  <2> QED BY <1>1, <2>10, <2>11, <2>12, <2>13 DEF Next
<1>2. IInv /\ [Next]_vars => [\A k \in Keys : Waits(k)]_vars
  BY <1>1
<1> QED BY <1>2, InitIInv, NextIInv, PTL DEF Spec, FrozenOrdersWait

-----------------------------------------------------------------------------
(* OrderHandler implements RequestEscrow: every step of a handler is one     *)
(* step of the escrow, or none, of the key it is about.                      *)

\* The variables of the escrow that are not the vault's balance.
heldNow  == [t \in Tokens |-> Held(t)]
phaseNow == [k \in Keys |-> phaseOf(k)]

\* What the refinement needs beside IInv: nobody sends more than the bound, and
\* a key without an account has no order at all, so it holds nothing.
RInv ==
  /\ \A t \in Tokens : vault.balance[t] <= MaxBalance
  /\ \A k \in Keys : orders[k].account = NoAddress => orders[k] = EmptyOrder

\* A key is open: its order is pending, or in the transaction in progress.
IsOpen(k) == k <= nonce /\ (orders[k].account # NoAddress \/ call.key = k)

\* A step pays out of the vault exactly what its keys lose.
Exact ==
  \A t \in Tokens :
    (\/ vault'.balance[t] < vault.balance[t]
     \/ \E k \in Keys : Held(t)'[k] < Held(t)[k])
    => Total(Held(t), MaxNonce)' - Total(Held(t), MaxNonce)
         = vault'.balance[t] - vault.balance[t]

-----------------------------------------------------------------------------
(* The state of the escrow. *)

LEMMA EscrowTotal == \A f, n : Escrow!Total(f, n) = Total(f, n)
BY DEF Total, Escrow!Total, PrefixSum, Escrow!PrefixSum

LEMMA PhaseValues ==
  ASSUME NEW k \in Keys, nonce \in Nat
  PROVE  /\ k > nonce => phaseNow[k] = "unused"
         /\ IsOpen(k) => phaseNow[k] = "open"
         /\ k <= nonce /\ ~ IsOpen(k) => phaseNow[k] = "closed"
<1>1. k \in Nat  BY DEF Keys
<1>2. k > nonce <=> ~ (k <= nonce)  BY <1>1
<1>3. phaseNow[k] = phaseOf(k)  BY DEF phaseNow
<1> QED BY <1>2, <1>3 DEF phaseOf, IsOpen

LEMMA PhaseValuesNext ==
  ASSUME NEW k \in Keys, nonce' \in Nat
  PROVE  /\ k > nonce' => phaseNow'[k] = "unused"
         /\ IsOpen(k)' => phaseNow'[k] = "open"
         /\ k <= nonce' /\ ~ IsOpen(k)' => phaseNow'[k] = "closed"
<1>1. k \in Nat  BY DEF Keys
<1>2. k > nonce' <=> ~ (k <= nonce')  BY <1>1
<1>3. phaseNow'[k] = phaseOf(k)'  BY DEF phaseNow
<1> QED BY <1>2, <1>3 DEF phaseOf, IsOpen

\* A step about one key changes what is held for it, and its phase, only.
LEMMA OneKeyChanges ==
  ASSUME TypeOK, TypeOK', NEW k \in Keys,
         \A j \in Keys \ {k} : orders'[j] = orders[j],
         call.key \in {0, k}, call'.key \in {0, k},
         nonce' = nonce \/ (nonce' = nonce + 1 /\ k = nonce + 1)
  PROVE  /\ \A t \in Tokens : heldNow'[t] = [heldNow[t] EXCEPT ![k] = Held(t)'[k]]
         /\ \A t \in Tokens : heldNow[t][k] = Held(t)[k]
         /\ phaseNow' = [phaseNow EXCEPT ![k] = phaseOf(k)']
<1>1. ASSUME NEW t \in Tokens
      PROVE  /\ heldNow'[t] = [heldNow[t] EXCEPT ![k] = Held(t)'[k]]
             /\ heldNow[t][k] = Held(t)[k]
  <2>1. heldNow[t] = Held(t) /\ heldNow'[t] = Held(t)'  BY DEF heldNow
  <2>2. \A j \in Keys \ {k} : Held(t)'[j] = Held(t)[j]  BY DEF Held, Keys
  <2> QED BY <2>1, <2>2 DEF Held
<1>2. ASSUME NEW j \in Keys \ {k} PROVE phaseOf(j)' = phaseOf(j)
  <2>1. j \in Nat /\ j # 0 /\ nonce \in Nat /\ (j > nonce' <=> j > nonce)
        /\ (j <= nonce' <=> j <= nonce)
    BY DEF Keys, TypeOK
  <2>2. orders'[j] = orders[j] /\ call.key # j /\ call'.key # j  BY <2>1
  <2> QED BY <2>1, <2>2 DEF phaseOf
<1>3. phaseNow' = [phaseNow EXCEPT ![k] = phaseOf(k)']
  <2>1. phaseNow' = [j \in Keys |-> phaseOf(j)']  BY DEF phaseNow
  <2> QED BY <1>2, <2>1 DEF phaseNow
<1> QED BY <1>1, <1>3

\* What one key holds fits into the vault, after a step as before it.
LEMMA HeldFits ==
  ASSUME IInv, IInv', RInv', NEW k \in Keys,
         \A j \in Keys \ {k} : orders'[j] = orders[j],
         call.key \in {0, k}, call'.key \in {0, k}, NEW t \in Tokens
  PROVE  /\ Held(t)[k] \in Nat /\ Held(t)'[k] \in 0..MaxBalance
         /\ vault.balance[t] \in Nat /\ vault'.balance[t] \in Nat
         /\ Held(t)'[k] - Held(t)[k] <= vault'.balance[t] - Escrow!Total(Held(t), MaxNonce)
<1>1. /\ Held(t)[k] \in Nat /\ Held(t)'[k] \in Nat
      /\ Total(Held(t), MaxNonce) \in Nat /\ Total(Held(t), MaxNonce)' \in Nat
      /\ Held(t)[k] <= Total(Held(t), MaxNonce)
      /\ Total(Held(t), MaxNonce)' = Total(Held(t), MaxNonce) - Held(t)[k] + Held(t)'[k]
  BY HeldStep DEF IInv
<1>2. /\ vault'.recorded[t] <= vault'.balance[t]
      /\ Total(Held(t), MaxNonce)' <= vault'.recorded[t]
  BY DEF IInv, VaultCoversOrders
<1>3. /\ vault'.recorded[t] \in Nat /\ vault'.balance[t] \in Nat
      /\ vault.balance[t] \in Nat /\ MaxBalance \in Nat
  BY DEF IInv, TypeOK, Bank
<1>4. vault'.balance[t] <= MaxBalance  BY DEF RInv
<1>5. Escrow!Total(Held(t), MaxNonce) = Total(Held(t), MaxNonce)  BY EscrowTotal
<1> HIDE DEF Held
<1> QED BY <1>1, <1>2, <1>3, <1>4, <1>5

\* A step about one key that takes nothing from it or from the vault.
LEMMA NothingLost ==
  ASSUME TypeOK, TypeOK', NEW k \in Keys,
         \A j \in Keys \ {k} : orders'[j] = orders[j],
         call.key \in {0, k}, call'.key \in {0, k},
         \A t \in Tokens : Held(t)[k] <= Held(t)'[k],
         \A t \in Tokens : vault.balance[t] <= vault'.balance[t]
  PROVE  Exact
<1> SUFFICES ASSUME NEW t \in Tokens
             PROVE  /\ ~ (vault'.balance[t] < vault.balance[t])
                    /\ \A j \in Keys : ~ (Held(t)'[j] < Held(t)[j])
  BY DEF Exact
<1>1. vault.balance[t] \in Nat /\ vault'.balance[t] \in Nat  BY DEF TypeOK, Bank
<1>2. ASSUME NEW j \in Keys PROVE ~ (Held(t)'[j] < Held(t)[j])
  <2>1. Held(t)[j] \in Nat /\ Held(t)'[j] \in Nat
    <3>1. Held(t) \in [Keys -> Nat]  BY HeldNat
    <3>2. Held(t)[k] \in Nat /\ Held(t)'[k] \in Nat  BY HeldStep
    <3>3. j # k => Held(t)'[j] = Held(t)[j]  BY DEF Held, Keys
    <3> HIDE DEF Held
    <3> QED BY <3>1, <3>2, <3>3
  <2>2. CASE j = k
    <3>1. Held(t)[k] <= Held(t)'[k]  OBVIOUS
    <3> HIDE DEF Held
    <3> QED BY <2>1, <2>2, <3>1
  <2>3. CASE j # k
    <3>1. Held(t)'[j] = Held(t)[j]  BY <2>3 DEF Held, Keys
    <3> HIDE DEF Held
    <3> QED BY <2>1, <3>1
  <2> QED BY <2>2, <2>3
<1> QED BY <1>1, <1>2

-----------------------------------------------------------------------------
(* Steps of the escrow. *)

\* A new key takes tokens that had arrived.
LEMMA OpenStep ==
  ASSUME IInv, IInv', RInv', NEW k \in Keys, k = nonce + 1, nonce' = nonce + 1,
         \A j \in Keys \ {k} : orders'[j] = orders[j],
         call.key = 0, call'.key \in {0, k}, IsOpen(k)',
         vault'.balance = vault.balance
  PROVE  Escrow!Next /\ Exact
<1> DEFINE amounts == [t \in Tokens |-> Held(t)'[k]]
<1>1. TypeOK /\ TypeOK' /\ nonce \in Nat /\ k > nonce  BY DEF IInv, TypeOK
<1>2. /\ \A t \in Tokens : heldNow'[t] = [heldNow[t] EXCEPT ![k] = Held(t)'[k]]
      /\ phaseNow' = [phaseNow EXCEPT ![k] = phaseOf(k)']
  BY <1>1, OneKeyChanges
<1>3. phaseNow[k] = "unused"  BY <1>1, PhaseValues
<1>4. phaseOf(k)' = "open"  BY <1>1, PhaseValuesNext DEF phaseNow
<1>5. ASSUME NEW t \in Tokens
      PROVE  amounts[t] \in 0..MaxBalance /\ amounts[t] <= Escrow!Free(t)
  <2>1. orders[k] = EmptyOrder  BY <1>1 DEF IInv, CallOwnsItsFee
  <2>2. Held(t)[k] = 0  BY <1>1, <2>1, HeldValues, EmptyOrderFacts
  <2>3. amounts[t] = Held(t)'[k]  OBVIOUS
  <2>4. Escrow!Free(t) = vault.balance[t] - Escrow!Total(Held(t), MaxNonce)
    BY DEF Escrow!Free
  <2>5. Escrow!Total(Held(t), MaxNonce) \in Nat
    BY <1>1, EscrowTotal, HeldStep
  <2>6. /\ Held(t)'[k] \in 0..MaxBalance /\ vault'.balance[t] \in Nat
        /\ Held(t)'[k] - Held(t)[k] <= vault'.balance[t] - Escrow!Total(Held(t), MaxNonce)
    BY HeldFits
  <2> HIDE DEF amounts
  <2> QED BY <2>2, <2>3, <2>4, <2>5, <2>6
<1>6. amounts \in [Tokens -> Escrow!Amounts]  BY <1>5 DEF Escrow!Amounts
<1>7. heldNow' = [t \in Tokens |-> [heldNow[t] EXCEPT ![k] = amounts[t]]]
  BY <1>2 DEF heldNow
<1>8. k \in Escrow!Keys  BY DEF Keys, Escrow!Keys
<1> HIDE DEF amounts
<1>9. Escrow!Open(k, amounts)
  BY <1>2, <1>3, <1>4, <1>5, <1>7 DEF Escrow!Open, heldNow, phaseNow
<1>10. \A t \in Tokens : Held(t)[k] <= Held(t)'[k]
  BY <1>1, HeldFits, HeldValues, EmptyOrderFacts DEF IInv, CallOwnsItsFee
<1>11. \A t \in Tokens : vault.balance[t] <= vault'.balance[t]
  BY <1>1 DEF TypeOK, Bank
<1>12. call.key \in {0, k}  OBVIOUS
<1>13. Exact  BY <1>1, <1>10, <1>11, <1>12, NothingLost
<1>14. Escrow!Next  BY <1>6, <1>8, <1>9 DEF Escrow!Next
<1> QED BY <1>13, <1>14

\* An open key takes wrapped native tokens that had arrived.
LEMMA TopUpStep ==
  ASSUME IInv, IInv', RInv', NEW k \in Keys, nonce' = nonce,
         \A j \in Keys \ {k} : orders'[j] = orders[j],
         call.key = 0, call'.key = 0, IsOpen(k), IsOpen(k)',
         vault'.balance = vault.balance,
         Held(Wnt)[k] <= Held(Wnt)'[k],
         \A t \in Tokens \ {Wnt} : Held(t)'[k] = Held(t)[k]
  PROVE  Escrow!Next /\ Exact
<1> DEFINE amount == Held(Wnt)'[k] - Held(Wnt)[k]
<1>1. TypeOK /\ TypeOK' /\ nonce \in Nat /\ nonce' \in Nat  BY DEF IInv, TypeOK
<1>2. /\ \A t \in Tokens : heldNow'[t] = [heldNow[t] EXCEPT ![k] = Held(t)'[k]]
      /\ \A t \in Tokens : heldNow[t][k] = Held(t)[k]
      /\ phaseNow' = [phaseNow EXCEPT ![k] = phaseOf(k)']
  BY <1>1, OneKeyChanges
<1>3. phaseNow[k] = "open" /\ phaseOf(k)' = "open"
  BY <1>1, PhaseValues, PhaseValuesNext DEF phaseNow
<1>4. UNCHANGED phaseNow  BY <1>2, <1>3 DEF phaseNow
<1>5. /\ Held(Wnt)[k] \in Nat /\ Held(Wnt)'[k] \in 0..MaxBalance
      /\ amount <= vault'.balance[Wnt] - Escrow!Total(Held(Wnt), MaxNonce)
  BY HeldFits
<1>6. Escrow!Free(Wnt) = vault.balance[Wnt] - Escrow!Total(Held(Wnt), MaxNonce)
  BY DEF Escrow!Free
<1>7. Held(Wnt)'[k] = Held(Wnt)[k] + amount /\ amount \in 0..MaxBalance
      /\ amount <= Escrow!Free(Wnt)
  <2>1. Held(Wnt)[k] <= Held(Wnt)'[k]  OBVIOUS
  <2>2. MaxBalance \in Nat /\ vault'.balance[Wnt] = vault.balance[Wnt]  OBVIOUS
  <2> HIDE DEF Held
  <2> QED BY <1>5, <1>6, <2>1, <2>2
<1>8. \A t \in Tokens : heldNow[t] \in [Keys -> Nat]
  BY <1>1, HeldNat DEF heldNow
<1>9. heldNow' = [heldNow EXCEPT ![Wnt][k] = @ + amount]
  <2> DEFINE wnt == [heldNow[Wnt] EXCEPT ![k] = @ + amount]
  <2>1. heldNow'[Wnt] = wnt
    <3> HIDE DEF Held, amount
    <3> QED BY <1>2, <1>7, <1>8
  <2>2. ASSUME NEW t \in Tokens, t # Wnt PROVE heldNow'[t] = heldNow[t]
    <3>1. Held(t)'[k] = heldNow[t][k]  BY <2>2, <1>2
    <3> HIDE DEF Held
    <3> QED BY <1>2, <1>8, <3>1
  <2>3. heldNow' = [t \in Tokens |-> heldNow'[t]] /\ heldNow = [t \in Tokens |-> heldNow[t]]
    BY DEF heldNow
  <2> HIDE DEF wnt
  <2>4. heldNow' = [heldNow EXCEPT ![Wnt] = wnt]  BY <2>1, <2>2, <2>3
  <2> QED BY <2>4 DEF wnt
<1> HIDE DEF amount
<1>10. Escrow!TopUp(k, Wnt, amount)
  BY <1>3, <1>4, <1>7, <1>9 DEF Escrow!TopUp, heldNow, phaseNow
<1>11. k \in Escrow!Keys /\ amount \in Escrow!Amounts
  BY <1>7 DEF Keys, Escrow!Keys, Escrow!Amounts
<1>12. \A t \in Tokens : /\ Held(t)[k] <= Held(t)'[k]
                          /\ vault.balance[t] <= vault'.balance[t]
  <2>1. ASSUME NEW t \in Tokens PROVE Held(t)[k] <= Held(t)'[k]
    <3>1. Held(t)[k] \in Nat  BY HeldFits
    <3>2. t # Wnt => Held(t)'[k] = Held(t)[k]  OBVIOUS
    <3> HIDE DEF Held
    <3> QED BY <3>1, <3>2
  <2>2. \A t \in Tokens : vault.balance[t] \in Nat  BY <1>1 DEF TypeOK, Bank
  <2> QED BY <2>1, <2>2
<1> QED BY <1>1, <1>10, <1>11, <1>12, NothingLost DEF Escrow!Next

\* An open key pays out some of its tokens, and stays open or has none left.
LEMMA ReleaseStep ==
  ASSUME IInv, IInv', RInv, NEW k \in Keys, nonce' = nonce,
         \A j \in Keys \ {k} : orders'[j] = orders[j],
         call.key \in {0, k}, call'.key \in {0, k}, IsOpen(k),
         \A t \in Tokens :
           /\ Held(t)'[k] <= Held(t)[k]
           /\ vault'.balance[t] = vault.balance[t] - (Held(t)[k] - Held(t)'[k]),
         IsOpen(k)' \/ \A t \in Tokens : Held(t)'[k] = 0
  PROVE  Escrow!Next /\ Exact
<1> DEFINE amounts == [t \in Tokens |-> Held(t)[k] - Held(t)'[k]]
<1>1. TypeOK /\ TypeOK' /\ nonce \in Nat /\ nonce' \in Nat  BY DEF IInv, TypeOK
<1>2. /\ \A t \in Tokens : heldNow'[t] = [heldNow[t] EXCEPT ![k] = Held(t)'[k]]
      /\ \A t \in Tokens : heldNow[t][k] = Held(t)[k]
      /\ phaseNow' = [phaseNow EXCEPT ![k] = phaseOf(k)']
  BY <1>1, OneKeyChanges
<1>3. phaseNow[k] = "open"  BY <1>1, PhaseValues
<1>4. ASSUME NEW t \in Tokens
      PROVE  /\ amounts[t] \in 0..MaxBalance
             /\ amounts[t] <= heldNow[t][k]
             /\ vault'.balance[t] = vault.balance[t] - amounts[t]
             /\ Held(t)'[k] = heldNow[t][k] - amounts[t]
             /\ Held(t)'[k] = 0 => amounts[t] = heldNow[t][k]
             /\ Total(Held(t), MaxNonce)' - Total(Held(t), MaxNonce)
                  = vault'.balance[t] - vault.balance[t]
  <2>1. /\ Held(t)[k] \in Nat /\ Held(t)'[k] \in Nat
        /\ Total(Held(t), MaxNonce) \in Nat
        /\ Total(Held(t), MaxNonce)' = Total(Held(t), MaxNonce) - Held(t)[k] + Held(t)'[k]
    BY <1>1, HeldStep
  <2>2. /\ Held(t)'[k] <= Held(t)[k]
        /\ vault'.balance[t] = vault.balance[t] - (Held(t)[k] - Held(t)'[k])
    OBVIOUS
  <2>3. /\ vault.balance[t] \in Nat /\ vault'.balance[t] \in Nat
        /\ vault.balance[t] <= MaxBalance /\ MaxBalance \in Nat
    BY <1>1 DEF TypeOK, Bank, RInv
  <2>4. amounts[t] = Held(t)[k] - Held(t)'[k]  OBVIOUS
  <2>5. heldNow[t][k] = Held(t)[k]  BY <1>2
  <2> HIDE DEF amounts, Held
  <2> QED BY <2>1, <2>2, <2>3, <2>4, <2>5
<1>5. Exact  BY <1>4 DEF Exact
<1>6. amounts \in [Tokens -> Escrow!Amounts]  BY <1>4 DEF Escrow!Amounts
<1>7. vault'.balance = [t \in Tokens |-> vault.balance[t] - amounts[t]]
  <2>1. vault'.balance = [t \in Tokens |-> vault'.balance[t]]  BY <1>1 DEF TypeOK, Bank
  <2> HIDE DEF amounts
  <2> QED BY <2>1, <1>4
<1>8. heldNow' = [t \in Tokens |-> [heldNow[t] EXCEPT ![k] = @ - amounts[t]]]
  <2>1. heldNow' = [t \in Tokens |-> heldNow'[t]]  BY DEF heldNow
  <2>2. ASSUME NEW t \in Tokens
        PROVE  heldNow'[t] = [heldNow[t] EXCEPT ![k] = @ - amounts[t]]
    <3>1. Held(t)'[k] = heldNow[t][k] - amounts[t]  BY <1>4
    <3> HIDE DEF amounts, Held
    <3> QED BY <3>1, <1>2
  <2> HIDE DEF amounts
  <2> QED BY <2>1, <2>2
<1>9. \/ UNCHANGED phaseNow
      \/ /\ \A t \in Tokens : amounts[t] = heldNow[t][k]
         /\ phaseNow' = [phaseNow EXCEPT ![k] = "closed"]
  <2>1. CASE IsOpen(k)'
    <3>1. phaseOf(k)' = "open"  BY <1>1, <2>1, PhaseValuesNext DEF phaseNow
    <3>2. UNCHANGED phaseNow  BY <3>1, <1>2, <1>3 DEF phaseNow
    <3> QED BY <3>2
  <2>2. CASE ~ IsOpen(k)'
    <3>1. k <= nonce'  BY DEF IsOpen
    <3>2. phaseOf(k)' = "closed"  BY <1>1, <2>2, <3>1, PhaseValuesNext DEF phaseNow
    <3>3. \A t \in Tokens : amounts[t] = heldNow[t][k]  BY <1>4, <2>2
    <3> QED BY <3>2, <3>3, <1>2
  <2> QED BY <2>1, <2>2
<1> HIDE DEF amounts
<1>10. Escrow!Release(k, amounts)
  BY <1>3, <1>4, <1>7, <1>8, <1>9 DEF Escrow!Release, heldNow, phaseNow
<1>11. k \in Escrow!Keys  BY DEF Keys, Escrow!Keys
<1> QED BY <1>5, <1>6, <1>10, <1>11 DEF Escrow!Next

-----------------------------------------------------------------------------
(* The invariant of the refinement. *)

\* A step that writes one key, and adds to no balance.
LEMMA RInvStep ==
  ASSUME IInv, IInv', RInv, NEW k \in Keys,
         \A j \in Keys \ {k} : orders'[j] = orders[j],
         orders'[k].account = NoAddress => orders'[k] = EmptyOrder,
         \A t \in Tokens : vault'.balance[t] <= vault.balance[t]
  PROVE  RInv'
<1>1. \A t \in Tokens : vault'.balance[t] \in Nat /\ vault.balance[t] \in Nat
  BY DEF IInv, TypeOK, Bank
<1>2. \A t \in Tokens : vault'.balance[t] <= MaxBalance
  <2>1. MaxBalance \in Nat  OBVIOUS
  <2> QED BY <1>1, <2>1 DEF RInv
<1>3. \A j \in Keys : orders'[j].account = NoAddress => orders'[j] = EmptyOrder
  BY DEF RInv
<1> QED BY <1>2, <1>3 DEF RInv

\* Removing an order sends its collateral out of the vault, and nothing more.
LEMMA RemovalPays ==
  ASSUME IInv, NEW key \in Keys,
         vault' = IF /\ BringsCollateral(orders[key].orderType)
                     /\ orders[key].initialCollateralDeltaAmount > 0
                    THEN TransferOut(vault, orders[key].initialCollateralToken,
                                     orders[key].initialCollateralDeltaAmount)
                    ELSE vault,
         NEW t \in Tokens
  PROVE  vault'.balance[t] = vault.balance[t] - CollateralOf(orders[key], t)
<1> DEFINE order  == orders[key]
           token  == order.initialCollateralToken
           amount == order.initialCollateralDeltaAmount
<1>1. order \in Order /\ amount \in Nat
  BY DEF IInv, TypeOK, Order
<1>2. vault \in Bank /\ vault.balance \in [Tokens -> Nat]
  BY DEF IInv, TypeOK, Bank
<1>3. CASE BringsCollateral(order.orderType) /\ amount > 0
  <2>1. vault' = TransferOut(vault, token, amount)  BY <1>3
  <2>2. vault'.balance = [vault.balance EXCEPT ![token] = @ - amount]
    <3> HIDE DEF order, token, amount
    <3> QED BY <2>1 DEF TransferOut
  <2>3. CollateralOf(order, t) = IF token = t THEN amount ELSE 0
    BY <1>3 DEF CollateralOf
  <2> HIDE DEF order, token, amount
  <2> QED BY <1>1, <1>2, <2>2, <2>3 DEF order
<1>4. CASE ~ (BringsCollateral(order.orderType) /\ amount > 0)
  <2>1. vault' = vault  BY <1>4
  <2>2. CollateralOf(order, t) = 0
    BY <1>4, <1>1 DEF CollateralOf
  <2> HIDE DEF order
  <2> QED BY <1>2, <2>1, <2>2 DEF order
<1> QED BY <1>3, <1>4

\* An order that is cancelled or executed pays out its collateral; its fee is
\* still held, by the transaction, so the key stays open.
LEMMA RemovalEscrow ==
  ASSUME IInv, IInv', RInv, NEW key \in Keys, call.key = 0, nonce' = nonce,
         ~ IsEmptyOrder(orders[key]),
         orders' = [orders EXCEPT ![key] = EmptyOrder],
         vault' = IF /\ BringsCollateral(orders[key].orderType)
                     /\ orders[key].initialCollateralDeltaAmount > 0
                    THEN TransferOut(vault, orders[key].initialCollateralToken,
                                     orders[key].initialCollateralDeltaAmount)
                    ELSE vault,
         call'.key = key, call'.executionFee = orders[key].executionFee
  PROVE  RInv' /\ Escrow!Next /\ Exact
<1>1. orders'[key] = EmptyOrder /\ \A j \in Keys \ {key} : orders'[j] = orders[j]
  BY DEF IInv, TypeOK
<1>2. ASSUME NEW t \in Tokens
      PROVE  /\ Held(t)'[key] <= Held(t)[key]
             /\ vault'.balance[t] = vault.balance[t] - (Held(t)[key] - Held(t)'[key])
             /\ vault'.balance[t] <= vault.balance[t]
  <2> DEFINE order == orders[key]
  <2>1. order \in Order  BY DEF IInv, TypeOK
  <2>2. CollateralOf(order, t) \in Nat /\ FeeIn(order.executionFee, t) \in Nat
    BY <2>1, EscrowOfNat DEF FeeIn, Order
  <2>3. Held(t)[key] = CollateralOf(order, t) + FeeIn(order.executionFee, t)
    BY HeldValues DEF IInv, EscrowOf
  <2>4. Held(t)'[key] = EscrowOf(orders'[key], t) + FeeIn(order.executionFee, t)
    BY HeldValuesNext DEF IInv
  <2>5. EscrowOf(EmptyOrder, t) = 0  BY EmptyOrderFacts
  <2>6. vault'.balance[t] = vault.balance[t] - CollateralOf(order, t)
    BY RemovalPays
  <2>7. vault.balance[t] \in Nat  BY DEF IInv, TypeOK, Bank
  <2> HIDE DEF order, Held
  <2> QED BY <1>1, <2>2, <2>3, <2>4, <2>5, <2>6, <2>7
<1>3. key <= nonce  BY GivenOut
<1>4. IsOpen(key) /\ IsOpen(key)'  BY <1>3 DEF IsOpen, IsEmptyOrder
<1>5. RInv'  BY <1>1, <1>2, RInvStep
<1> QED BY <1>1, <1>2, <1>4, <1>5, ReleaseStep

LEMMA FreezeEscrow ==
  ASSUME IInv, IInv', RInv, NEW key \in Keys, NEW keeper \in OrderKeepers,
         NEW minBlock, NEW maxBlock, ExecutionFreezesOrder(key, keeper, minBlock, maxBlock)
  PROVE  RInv' /\ Escrow!Next /\ Exact
<1> DEFINE order  == orders[key]
           frozen == [order EXCEPT !.executionFee = 0, !.isFrozen = TRUE]
<1>1. orders \in [Keys -> Order] /\ order \in Order
  BY DEF IInv, TypeOK
<1>2. /\ NotEntered /\ ~ IsEmptyOrder(order) /\ nonce' = nonce /\ vault' = vault
      /\ call'.key = key /\ call'.executionFee = order.executionFee
  BY DEF ExecutionFreezesOrder, NoCall
<1>3. orders' = [orders EXCEPT ![key] = frozen]
  BY <1>1 DEF ExecutionFreezesOrder
<1>4. /\ frozen.account = order.account /\ frozen.orderType = order.orderType
      /\ frozen.initialCollateralToken = order.initialCollateralToken
      /\ frozen.initialCollateralDeltaAmount = order.initialCollateralDeltaAmount
      /\ frozen.executionFee = 0
  BY <1>1 DEF Order
<1> HIDE DEF frozen
<1>5. orders'[key] = frozen /\ \A j \in Keys \ {key} : orders'[j] = orders[j]
  BY <1>1, <1>3
<1>6. call.key = 0 /\ key <= nonce /\ order.account # NoAddress
  BY <1>2, NoCallKey, GivenOut DEF IsEmptyOrder
<1>7. ASSUME NEW t \in Tokens
      PROVE  /\ Held(t)'[key] = Held(t)[key] /\ Held(t)[key] \in Nat
             /\ vault.balance[t] \in Nat
  <2>1. CollateralOf(order, t) \in Nat /\ FeeIn(order.executionFee, t) \in Nat
    BY <1>1, EscrowOfNat DEF FeeIn, Order
  <2>2. Held(t)[key] = CollateralOf(order, t) + FeeIn(order.executionFee, t)
    BY <1>6, HeldValues DEF IInv, EscrowOf
  <2>3. Held(t)'[key] = EscrowOf(frozen, t) + FeeIn(order.executionFee, t)
    BY <1>2, <1>5, HeldValuesNext DEF IInv
  <2>4. EscrowOf(frozen, t) = CollateralOf(order, t) + 0
    BY <1>4 DEF EscrowOf, CollateralOf, FeeIn
  <2>5. vault.balance[t] \in Nat  BY DEF IInv, TypeOK, Bank
  <2> HIDE DEF order, Held
  <2> QED BY <2>1, <2>2, <2>3, <2>4, <2>5
<1>8. IsOpen(key) /\ IsOpen(key)'  BY <1>2, <1>4, <1>5, <1>6 DEF IsOpen
<1>9. /\ \A t \in Tokens :
           /\ Held(t)'[key] <= Held(t)[key]
           /\ vault'.balance[t] = vault.balance[t] - (Held(t)[key] - Held(t)'[key])
      /\ \A t \in Tokens : vault'.balance[t] <= vault.balance[t]
  <2>1. ASSUME NEW t \in Tokens
        PROVE  /\ Held(t)'[key] <= Held(t)[key]
               /\ vault'.balance[t] = vault.balance[t] - (Held(t)[key] - Held(t)'[key])
               /\ vault'.balance[t] <= vault.balance[t]
    <3>1. /\ Held(t)'[key] = Held(t)[key] /\ Held(t)[key] \in Nat
          /\ vault.balance[t] \in Nat
      BY <1>7
    <3> HIDE DEF Held
    <3> QED BY <3>1, <1>2
  <2> QED BY <2>1
<1>10. RInv'  BY <1>4, <1>5, <1>6, <1>9, RInvStep
<1> QED BY <1>2, <1>5, <1>6, <1>8, <1>9, <1>10, ReleaseStep

\* The end of a transaction pays the fee the key still held: with it goes the
\* last token of a key whose order is gone.
LEMMA FinishCallEscrow ==
  ASSUME IInv, IInv', RInv, NEW gasCost \in GasCosts, FinishCall(gasCost)
  PROVE  RInv' /\ Escrow!Next /\ Exact
<1> DEFINE fee == call.executionFee
<1>0. PICK k : k = call.key  OBVIOUS
<1>1. k \in Keys /\ k <= nonce /\ fee \in Nat /\ gasCost \in Nat
  <2>1. call \in Call /\ nonce \in 0..MaxNonce  BY DEF IInv, TypeOK
  <2>2. k \in Nat /\ fee \in Nat  BY <1>0, <2>1 DEF Call
  <2>3. k # 0 /\ k <= nonce  BY <1>0 DEF IInv, CallOwnsItsFee, FinishCall
  <2> HIDE DEF fee
  <2>4. nonce \in Nat /\ MaxNonce \in Nat /\ nonce <= MaxNonce  BY <2>1
  <2>5. k \in 1..MaxNonce  BY <2>2, <2>3, <2>4
  <2>6. gasCost \in Nat  OBVIOUS
  <2> QED BY <2>2, <2>3, <2>5, <2>6 DEF Keys
<1>2. orders[k] \in Order  BY <1>1 DEF IInv, TypeOK
<1>3. fee <= vault.recorded[Wnt] /\ vault.recorded[Wnt] <= vault.balance[Wnt]
  <2>1. EscrowOf(orders[k], Wnt) \in Nat  BY <1>2, EscrowOfNat
  <2>2. FeeIn(fee, Wnt) = fee  BY DEF FeeIn
  <2> QED BY <1>0, <1>1, <2>1, <2>2, KeyIsCovered DEF IInv, TypeOK, Bank
<1>4. vault \in Bank /\ fee <= vault.balance[Wnt]
  BY <1>1, <1>3 DEF IInv, TypeOK, Bank
<1>5. /\ vault'.balance[Wnt] = vault.balance[Wnt] - fee
      /\ \A t \in Tokens \ {Wnt} : vault'.balance[t] = vault.balance[t]
  BY <1>1, <1>4, PayExecutionFeeBank, TransferOutBank DEF FinishCall
<1>6. call'.key = 0 /\ UNCHANGED <<orders, nonce>>  BY DEF FinishCall, NoCall
<1> HIDE DEF fee
<1>7. ASSUME NEW t \in Tokens
      PROVE  /\ Held(t)[k] = EscrowOf(orders[k], t) + FeeIn(fee, t)
             /\ Held(t)'[k] = EscrowOf(orders[k], t)
             /\ Held(t)'[k] <= Held(t)[k]
             /\ vault'.balance[t] = vault.balance[t] - (Held(t)[k] - Held(t)'[k])
             /\ vault'.balance[t] <= vault.balance[t]
  <2>1. Held(t)[k] = EscrowOf(orders[k], t) + FeeIn(fee, t)
    BY <1>0, <1>1, HeldValues DEF IInv, fee
  <2>2. Held(t)'[k] = EscrowOf(orders[k], t)
    BY <1>1, <1>6, HeldValuesNext DEF IInv
  <2>3. EscrowOf(orders[k], t) \in Nat  BY <1>2, EscrowOfNat
  <2>4. vault.balance[t] \in Nat  BY DEF IInv, TypeOK, Bank
  <2>5. vault'.balance[t] = vault.balance[t] - FeeIn(fee, t) /\ FeeIn(fee, t) \in Nat
    BY <1>1, <1>5, <2>4 DEF FeeIn
  <2> HIDE DEF Held
  <2> QED BY <2>1, <2>2, <2>3, <2>4, <2>5
<1>8. RInv'
  <2>1. orders'[k].account = NoAddress => orders'[k] = EmptyOrder
    BY <1>1, <1>6 DEF RInv
  <2> QED BY <1>1, <1>6, <1>7, <2>1, RInvStep
<1>9. IsOpen(k)  BY <1>0, <1>1 DEF IsOpen
<1>10. IsOpen(k)' \/ \A t \in Tokens : Held(t)'[k] = 0
  <2>1. CASE orders[k].account # NoAddress  BY <1>1, <1>6, <2>1 DEF IsOpen
  <2>2. CASE orders[k].account = NoAddress
    <3>1. orders[k] = EmptyOrder  BY <1>1, <2>2 DEF RInv
    <3> QED BY <3>1, <1>7, EmptyOrderFacts
  <2> QED BY <2>1, <2>2
<1>11. call.key \in {0, k}  BY <1>0
<1> QED BY <1>1, <1>6, <1>7, <1>8, <1>9, <1>10, <1>11, ReleaseStep

\* A new order opens the next key.
LEMMA CreateOrderEscrow ==
  ASSUME IInv, IInv', RInv, NEW account \in Accounts, NEW type, NEW token \in Tokens,
         NEW size, NEW collateralDelta, NEW fee,
         CreateOrder(account, type, token, size, collateralDelta, fee)
  PROVE  RInv' /\ Escrow!Next /\ Exact
<1> DEFINE created(collateral, paid) ==
             [account                      |-> account,
              orderType                    |-> type,
              initialCollateralToken       |-> token,
              sizeDeltaUsd                 |-> size,
              initialCollateralDeltaAmount |-> collateral,
              executionFee                 |-> paid,
              updatedAtBlock               |-> block,
              isFrozen                     |-> FALSE]
<1>0. PICK key : key = nonce + 1  OBVIOUS
<1>1. \E collateral, paid :
        orders' = [orders EXCEPT ![key] = created(collateral, paid)]
  BY <1>0, Zenon DEF CreateOrder
<1>2. NotEntered /\ nonce < MaxNonce /\ nonce' = key /\ call' = call
  BY <1>0 DEF CreateOrder
<1>3. \A collateral, paid : created(collateral, paid).account # NoAddress
  OBVIOUS
<1>4. vault'.balance = vault.balance
  <2> DEFINE first == RecordTransferIn(vault, token)
             with  == IF BringsCollateral(type) THEN first ELSE vault
             last  == RecordTransferIn(with, Wnt)
  <2>1. vault' = with \/ vault' = last  BY DEF CreateOrder
  <2>2. vault \in Bank  BY DEF IInv, TypeOK
  <2>3. first \in Bank /\ first.balance = vault.balance
    BY <2>2, RecordTransferInBank
  <2> HIDE DEF first
  <2>4. with \in Bank /\ with.balance = vault.balance  BY <2>2, <2>3
  <2> HIDE DEF with
  <2>5. last.balance = vault.balance  BY <2>4, RecordTransferInBank
  <2> HIDE DEF last
  <2> QED BY <2>1, <2>4, <2>5
<1> HIDE DEF created
<1>5. /\ orders \in [Keys -> Order] /\ nonce \in Nat /\ key \in Nat
      /\ key \in Keys /\ key <= nonce'
  BY <1>0, <1>2 DEF IInv, TypeOK, Keys
<1>6. /\ orders'[key].account # NoAddress
      /\ \A j \in Keys \ {key} : orders'[j] = orders[j]
  BY <1>1, <1>3, <1>5
<1>7. call.key = 0 /\ call'.key = 0  BY <1>2, NoCallKey
<1>8. IsOpen(key)'  BY <1>5, <1>6 DEF IsOpen
<1>9. \A t \in Tokens : vault'.balance[t] <= vault.balance[t]
  BY <1>4 DEF IInv, TypeOK, Bank
<1>10. RInv'  BY <1>5, <1>6, <1>9, RInvStep
<1> QED BY <1>0, <1>2, <1>4, <1>5, <1>6, <1>7, <1>8, <1>10, OpenStep

\* An update tops up the fee of its key.
LEMMA UpdateOrderEscrow ==
  ASSUME IInv, IInv', RInv, NEW key \in Keys, NEW account \in Accounts, NEW size,
         UpdateOrder(key, account, size)
  PROVE  RInv' /\ Escrow!Next /\ Exact
<1> DEFINE order   == orders[key]
           paid    == order.executionFee + Unrecorded(vault, Wnt)
           updated == [order EXCEPT !.sizeDeltaUsd = size,
                         !.isFrozen = FALSE, !.executionFee = paid,
                         !.updatedAtBlock = block]
<1>1. /\ orders \in [Keys -> Order] /\ order \in Order /\ vault \in Bank
      /\ order.executionFee \in Nat
  BY DEF IInv, TypeOK, Order
<1>2. /\ NotEntered /\ order.account = account /\ nonce' = nonce /\ call' = call
      /\ orders' = [orders EXCEPT ![key] = updated]
      /\ vault' = RecordTransferIn(vault, Wnt)
  BY DEF UpdateOrder
<1>3. vault'.balance = vault.balance  BY <1>1, <1>2, RecordTransferInBank
<1>4. paid \in Nat /\ paid >= order.executionFee
  <2>1. /\ vault.recorded[Wnt] \in Nat /\ vault.balance[Wnt] \in Nat
        /\ vault.recorded[Wnt] <= vault.balance[Wnt]
    BY DEF IInv, TypeOK, Bank, VaultCoversOrders
  <2> HIDE DEF order
  <2> QED BY <1>1, <2>1 DEF Unrecorded
<1>5. /\ updated.account = order.account /\ updated.orderType = order.orderType
      /\ updated.initialCollateralToken = order.initialCollateralToken
      /\ updated.initialCollateralDeltaAmount = order.initialCollateralDeltaAmount
      /\ updated.executionFee = paid
  <2> HIDE DEF paid
  <2> QED BY <1>1 DEF Order
<1> HIDE DEF updated, paid
<1>6. orders'[key] = updated /\ \A j \in Keys \ {key} : orders'[j] = orders[j]
  BY <1>1, <1>2
<1>7. call.key = 0 /\ call'.key = 0  BY <1>2, NoCallKey
<1>8. order.account # NoAddress /\ key <= nonce
  <2>1. order.account # NoAddress  BY <1>2
  <2>2. ~ (key > nonce)  BY <2>1 DEF IInv, CallOwnsItsFee, EmptyOrder
  <2>3. key \in Nat /\ nonce \in Nat  BY DEF IInv, TypeOK, Keys
  <2> HIDE DEF order
  <2> QED BY <2>1, <2>2, <2>3
<1>9. ASSUME NEW t \in Tokens
      PROVE  /\ Held(t)[key] <= Held(t)'[key]
             /\ t # Wnt => Held(t)'[key] = Held(t)[key]
  <2>1. CollateralOf(order, t) \in Nat  BY <1>1, EscrowOfNat
  <2>2. Held(t)[key] = CollateralOf(order, t) + FeeIn(order.executionFee, t)
    BY <1>7, HeldValues DEF IInv, EscrowOf
  <2>3. Held(t)'[key] = EscrowOf(updated, t)
    BY <1>6, <1>7, HeldValuesNext DEF IInv
  <2>4. EscrowOf(updated, t) = CollateralOf(order, t) + FeeIn(paid, t)
    BY <1>5 DEF EscrowOf, CollateralOf
  <2> HIDE DEF order, Held
  <2> QED BY <1>1, <1>4, <2>1, <2>2, <2>3, <2>4 DEF FeeIn
<1>10. IsOpen(key) /\ IsOpen(key)'  BY <1>2, <1>5, <1>6, <1>8 DEF IsOpen
<1>11. \A t \in Tokens : vault'.balance[t] <= vault.balance[t]
  BY <1>1, <1>3 DEF Bank
<1>12. RInv'  BY <1>5, <1>6, <1>8, <1>11, RInvStep
<1>13. Held(Wnt)[key] <= Held(Wnt)'[key]  BY <1>9
<1>14. \A t \in Tokens \ {Wnt} : Held(t)'[key] = Held(t)[key]  BY <1>9
<1> QED BY <1>2, <1>3, <1>6, <1>7, <1>10, <1>12, <1>13, <1>14, TopUpStep

\* A liquidation takes the next key, brings nothing, and is executed at once.
LEMMA LiquidationEscrow ==
  ASSUME IInv, IInv', RInv, NEW account \in Accounts, NEW keeper, NEW minBlock,
         NEW maxBlock, ExecuteLiquidation(account, keeper, minBlock, maxBlock)
  PROVE  RInv' /\ Escrow!Next /\ Exact
<1> DEFINE order == LiquidationOrder(account)
<1>0. PICK key : key = nonce + 1  OBVIOUS
<1>1. /\ NotEntered /\ nonce < MaxNonce /\ nonce' = key
      /\ orders' = [orders EXCEPT ![key] = EmptyOrder] /\ call'.key = key
  BY <1>0 DEF ExecuteLiquidation, executeOrder
<1>2. vault' = vault
  <2>1. order.initialCollateralDeltaAmount = 0  BY DEF LiquidationOrder
  <2>2. executeOrder(key, order, keeper, minBlock, maxBlock)
    BY <1>0 DEF ExecuteLiquidation
  <2> HIDE DEF order
  <2>3. vault' = IF /\ BringsCollateral(order.orderType)
                    /\ order.initialCollateralDeltaAmount > 0
                   THEN TransferOut(vault, order.initialCollateralToken,
                                    order.initialCollateralDeltaAmount)
                   ELSE vault
    BY <2>2 DEF executeOrder
  <2> QED BY <2>1, <2>3
<1>3. /\ orders \in [Keys -> Order] /\ nonce \in Nat /\ key \in Nat
      /\ key \in Keys /\ key <= nonce'
  BY <1>0, <1>1 DEF IInv, TypeOK, Keys
<1>4. /\ orders'[key] = EmptyOrder
      /\ \A j \in Keys \ {key} : orders'[j] = orders[j]
  BY <1>1, <1>3
<1>5. call.key = 0  BY <1>1, NoCallKey
<1>6. IsOpen(key)'  BY <1>1, <1>3 DEF IsOpen
<1>7. \A t \in Tokens : vault'.balance[t] <= vault.balance[t]
  BY <1>2 DEF IInv, TypeOK, Bank
<1>8. RInv'  BY <1>3, <1>4, <1>7, RInvStep
<1> QED BY <1>0, <1>1, <1>2, <1>3, <1>4, <1>5, <1>6, <1>8, OpenStep

\* Tokens sent to the vault are free in the escrow too.
LEMMA SendTokensEscrow ==
  ASSUME IInv, IInv', RInv, NEW token \in Tokens, NEW amount \in TransferAmounts,
         SendTokens(token, amount)
  PROVE  RInv' /\ Escrow!Next /\ Exact
<1>1. /\ vault \in Bank /\ vault.balance \in [Tokens -> Nat] /\ amount \in Nat
      /\ MaxBalance \in Nat
  BY DEF IInv, TypeOK, Bank
<1>2. /\ vault.balance[token] + amount <= MaxBalance
      /\ UNCHANGED <<nonce, orders, call>>
  BY DEF SendTokens
<1>3. vault'.balance = [vault.balance EXCEPT ![token] = @ + amount]
  BY <1>1 DEF SendTokens, TransferIn, Bank
<1>4. UNCHANGED <<heldNow, phaseNow>> /\ \A t \in Tokens : Held(t)' = Held(t)
  BY <1>2 DEF heldNow, phaseNow, Held, phaseOf
<1>5. amount \in Escrow!Amounts
  BY <1>1, <1>2 DEF Escrow!Amounts
<1>6. Escrow!Receive(token, amount)
  BY <1>2, <1>3, <1>4 DEF Escrow!Receive, heldNow, phaseNow
<1>7. Escrow!Next  BY <1>5, <1>6 DEF Escrow!Next
<1>8. \A t \in Tokens : /\ vault'.balance[t] >= vault.balance[t]
                         /\ vault'.balance[t] <= MaxBalance
  BY <1>1, <1>2, <1>3 DEF RInv
<1>9. RInv'  BY <1>2, <1>8 DEF RInv
<1>10. Exact
  <2> SUFFICES ASSUME NEW t \in Tokens
               PROVE  /\ ~ (vault'.balance[t] < vault.balance[t])
                      /\ \A k \in Keys : ~ (Held(t)'[k] < Held(t)[k])
    BY DEF Exact
  <2>1. Held(t)' = Held(t) /\ Held(t) \in [Keys -> Nat]  BY <1>4, HeldNat DEF IInv
  <2>2. vault.balance[t] \in Nat /\ vault'.balance[t] \in Nat
    BY DEF IInv, TypeOK, Bank
  <2> HIDE DEF Held
  <2> QED BY <2>1, <2>2, <1>8
<1> QED BY <1>7, <1>9, <1>10

-----------------------------------------------------------------------------
(* The theorems. *)

LEMMA InitEscrow ==
  Init => RInv /\ Escrow!Init
<1> SUFFICES ASSUME Init PROVE RInv /\ Escrow!Init
  OBVIOUS
<1>1. IInv  BY InitIInv
<1>2. vault.balance = [t \in Tokens |-> 0]  BY DEF Init, EmptyBank
<1>3. RInv
  <2>1. \A k \in Keys : orders[k] = EmptyOrder  BY DEF Init
  <2> QED BY <1>2, <2>1 DEF RInv
<1>4. \A t \in Tokens : Held(t) = [k \in Keys |-> 0]
  <2> SUFFICES ASSUME NEW t \in Tokens PROVE Held(t) = [k \in Keys |-> 0]
    OBVIOUS
  <2>1. \A k \in Keys : Held(t)[k] = 0
    BY <1>1, HeldValues, EmptyOrderFacts DEF IInv, Init, NoCall
  <2>2. Held(t) \in [Keys -> Nat]  BY <1>1, HeldNat DEF IInv
  <2> HIDE DEF Held
  <2> QED BY <2>1, <2>2
<1>5. \A k \in Keys : phaseOf(k) = "unused"
  <2>1. nonce = 0 /\ \A k \in Keys : k > nonce  BY DEF Init, Keys
  <2>2. \A k \in Keys : phaseNow[k] = "unused"  BY <2>1, PhaseValues
  <2> QED BY <2>2 DEF phaseNow
<1>6. Escrow!Keys = Keys  BY DEF Keys, Escrow!Keys
<1> HIDE DEF Held, phaseOf
<1>7. Escrow!Init  BY <1>2, <1>4, <1>5, <1>6 DEF Escrow!Init
<1> QED BY <1>3, <1>7

\* A step that leaves the keys, the transaction and the vault alone is a stutter.
LEMMA StutterEscrow ==
  ASSUME RInv, UNCHANGED <<nonce, orders, vault, call>>
  PROVE  RInv' /\ UNCHANGED Escrow!vars /\ (IInv => Exact)
<1>1. UNCHANGED <<heldNow, phaseNow>> /\ \A t \in Tokens : Held(t)' = Held(t)
  BY DEF heldNow, phaseNow, Held, phaseOf
<1>2. UNCHANGED Escrow!vars  BY <1>1 DEF Escrow!vars, heldNow, phaseNow
<1>3. RInv'  BY DEF RInv
<1>4. ASSUME IInv PROVE Exact
  <2> SUFFICES ASSUME NEW t \in Tokens
               PROVE  /\ ~ (vault'.balance[t] < vault.balance[t])
                      /\ \A k \in Keys : ~ (Held(t)'[k] < Held(t)[k])
    BY DEF Exact
  <2>1. Held(t)' = Held(t) /\ Held(t) \in [Keys -> Nat]  BY <1>1, <1>4, HeldNat DEF IInv
  <2>2. vault.balance[t] \in Nat  BY <1>4 DEF IInv, TypeOK, Bank
  <2> HIDE DEF Held
  <2> QED BY <2>1, <2>2
<1> QED BY <1>2, <1>3, <1>4

LEMMA NextEscrow ==
  ASSUME IInv, IInv', RInv, [Next]_vars
  PROVE  RInv' /\ [Escrow!Next]_(Escrow!vars) /\ Exact
<1> DEFINE Good == RInv' /\ [Escrow!Next]_(Escrow!vars) /\ Exact
<1>1. ASSUME NEW account \in Accounts, UserStep(account) PROVE Good
  <2>1. ASSUME NEW type \in RequestedTypes, CreateSomeOrder(account, type) PROVE Good
    BY <2>1, CreateOrderEscrow DEF CreateSomeOrder
  <2>2. ASSUME NEW key \in Keys, NEW size \in RequestedSizes,
               UpdateOrder(key, account, size)
        PROVE  Good
    BY <2>2, UpdateOrderEscrow
  <2>3. ASSUME NEW key \in Keys, CancelOrder(key, account) PROVE Good
    <3>1. NotEntered /\ nonce' = nonce /\ cancelOrder(key, account)
      BY <2>3 DEF CancelOrder
    <3> QED BY <3>1, NoCallKey, RemovalEscrow DEF cancelOrder, NoCall
  <2> HIDE DEF Good
  <2> QED BY <1>1, <2>1, <2>2, <2>3 DEF UserStep
<1>2. ASSUME NEW keeper \in OrderKeepers, KeeperStep(keeper) PROVE Good
  <2>1. ASSUME NEW key \in Keys, NEW minBlock, NEW maxBlock,
               ExecuteOrder(key, keeper, minBlock, maxBlock)
        PROVE  Good
    <3>1. /\ NotEntered /\ nonce' = nonce
          /\ executeOrder(key, orders[key], keeper, minBlock, maxBlock)
      BY <2>1 DEF ExecuteOrder
    <3> QED BY <3>1, NoCallKey, RemovalEscrow DEF executeOrder
  <2>2. ASSUME NEW key \in Keys, NEW minBlock, NEW maxBlock,
               ExecutionCancelsOrder(key, keeper, minBlock, maxBlock) PROVE Good
    <3>1. NotEntered /\ nonce' = nonce /\ cancelOrder(key, keeper)
      BY <2>2 DEF ExecutionCancelsOrder
    <3> QED BY <3>1, NoCallKey, RemovalEscrow DEF cancelOrder, NoCall
  <2>3. ASSUME NEW key \in Keys, NEW minBlock, NEW maxBlock,
               ExecutionFreezesOrder(key, keeper, minBlock, maxBlock) PROVE Good
    BY <2>3, FreezeEscrow
  <2>4. ASSUME NEW account \in Accounts,
               NEW minBlock \in 1..MaxBlock, NEW maxBlock \in 1..MaxBlock,
               ExecuteLiquidation(account, keeper, minBlock, maxBlock)
        PROVE  Good
    BY <2>4, LiquidationEscrow
  <2> HIDE DEF Good
  <2> QED BY <1>2, <2>1, <2>2, <2>3, <2>4 DEF KeeperStep
<1>3. ASSUME NEW gasCost \in GasCosts, FinishCall(gasCost) PROVE Good
  BY <1>3, FinishCallEscrow
<1>4. ASSUME WorldStep PROVE Good
  <2>1. ASSUME NEW token \in Tokens, NEW amount \in TransferAmounts,
               SendTokens(token, amount)
        PROVE  Good
    BY <2>1, SendTokensEscrow
  <2>2. ASSUME NEW feature \in SwitchableFeatures, SwitchFeature(feature) PROVE Good
    BY <2>2, StutterEscrow DEF SwitchFeature
  <2>3. CASE NextBlock
    BY <2>3, StutterEscrow DEF NextBlock
  <2> HIDE DEF Good
  <2> QED BY <1>4, <2>1, <2>2, <2>3 DEF WorldStep
<1>5. ASSUME UNCHANGED vars PROVE Good
  BY <1>5, StutterEscrow DEF vars
<1> HIDE DEF Good
<1>6. Good  BY <1>1, <1>2, <1>3, <1>4, <1>5 DEF Next
<1> QED BY <1>6 DEF Good

\* OrderHandler implements the escrow: every create, update, cancellation,
\* execution, freeze, liquidation and fee payment of the handlers is one step of
\* the escrow about one key, or none, so a user gets from the OrderVault what the
\* escrow promises, whatever the callbacks in between do.
THEOREM OrdersAreEscrowed ==
  Spec => ImplementsEscrow
<1>1. Init => IInv /\ RInv /\ Escrow!Init  BY InitIInv, InitEscrow
<1>2. IInv /\ [Next]_vars => IInv'  BY NextIInv
<1>3. IInv /\ IInv' /\ RInv /\ [Next]_vars => RInv' /\ [Escrow!Next]_(Escrow!vars)
  BY NextEscrow
<1> QED BY <1>1, <1>2, <1>3, PTL DEF Spec, ImplementsEscrow, Escrow!Spec

\* Settling an order pays out exactly what the vault held for it.
THEOREM NothingIsPaidTwice ==
  Spec => SettlementIsExact
<1>1. Init => IInv /\ RInv  BY InitIInv, InitEscrow
<1>2. IInv /\ [Next]_vars => IInv'  BY NextIInv
<1>3. IInv /\ IInv' /\ RInv /\ [Next]_vars => RInv' /\ [Exact]_vars
  BY NextEscrow
<1>4. Spec => [][Exact]_vars  BY <1>1, <1>2, <1>3, PTL DEF Spec
<1> QED BY <1>4, PTL DEF SettlementIsExact, Exact
=============================================================================
